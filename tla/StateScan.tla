------------------------------ MODULE StateScan ------------------------------
(***************************************************************************)
(* One traversal of a keyed-state collection: the Ruby loop `traverse`,    *)
(* the native scan, and the cursor on the tokio side.                      *)
(*                                                                         *)
(* The loop runs on a fiber of the handler.  A stop of that fiber (the     *)
(* event was cancelled) may land wherever the fiber waits; the future of   *)
(* the wait goes on and its answer is dropped.  A traversal without a      *)
(* block is an Enumerator: its loop is suspended between two calls of next *)
(* and may be resumed after the handler has ended, or never.               *)
(*                                                                         *)
(* The cursor is external: it answers with at most Chunk items that are    *)
(* ready, with the end, or with an error, and it answers with an error     *)
(* once its attempt has ended.  The collection does not change meanwhile.  *)
(***************************************************************************)
EXTENDS Queries

CONSTANTS
    Live,       \* the keys or positions of the collection
    Inputs,     \* keyword hashes a caller may pass, with their kind
    Chunk       \* SCAN_READY_CHUNK_SIZE

ASSUME ScanAssumption ==
    /\ Live \subseteq Nat /\ IsFiniteSet(Live)
    /\ Inputs \subseteq [kind : {"key", "position"}, kw : KeywordHashes]
    /\ Chunk \in Nat \ {0}

VARIABLES
    kind,       \* "key" for maps and sets, "position" for deques
    direction,
    kw,         \* the keyword hash
    external,   \* driven by Enumerator#next
    pc,         \* where the loop is
    outcome,    \* how the loop ended, or "none"
    chunk,      \* what is left of the Array that is being yielded
    yielded,    \* what the block has been given
    earlier,    \* what the pages before this one have been given
    read,       \* the wait_for of next_chunk
    answer,     \* what it was answered
    cursor,     \* the core cursor and the items it has not given out
    closes,     \* how often close was called
    attempt     \* the handler invocation the collection belongs to

vars == <<kind, direction, kw, external, pc, outcome, chunk, yielded, earlier,
          read, answer, cursor, closes, attempt>>

Answer(is, items) == [is |-> is, items |-> items]
Nothing == Answer("nothing", << >>)

input == <<kind, direction, kw, external>>

Init ==
    /\ \E i \in Inputs : kind = i.kind /\ kw = i.kw
    /\ direction \in {"forward", "backward"}
    /\ external \in BOOLEAN
    /\ pc = "start"
    /\ outcome = "none"
    /\ chunk = << >> /\ yielded = << >> /\ earlier = << >>
    /\ read = "none"
    /\ answer = Nothing
    /\ cursor = [state |-> "none", rest |-> << >>]
    /\ closes = 0
    /\ attempt = "running"

---------------------------------------------------------------------------
(* traverse                                                                *)

\* @native.scan or keys raises; `scan` stays nil and nothing is closed.
OpenRaises ==
    /\ pc = "start"
    /\ Raised(kind, kw) # "none"
    /\ pc' = "done"
    /\ outcome' = Raised(kind, kw)
    /\ UNCHANGED <<input, chunk, yielded, earlier, read, answer, cursor, closes, attempt>>

\* The cursor is opened without a wait, and the loop asks for a chunk.
Open ==
    /\ pc = "start"
    /\ Raised(kind, kw) = "none"
    /\ cursor' = [state |-> "open", rest |-> Selected(Live, direction, Translate(kw))]
    /\ pc' = "pulling"
    /\ read' = "spawned"
    /\ UNCHANGED <<input, outcome, chunk, yielded, earlier, answer, closes, attempt>>

\* The ensure clause: scan&.close spawns and waits.
Leave(how) ==
    /\ outcome' = how
    /\ pc' = "closing"
    /\ closes' = closes + 1

\* A chunk has an item; no wait separates its arrival from the first yield.
TakeChunk ==
    /\ pc = "pulling"
    /\ read = "answered"
    /\ answer.is = "items"
    /\ pc' = "yielding"
    /\ yielded' = Append(yielded, Head(answer.items))
    /\ chunk' = Tail(answer.items)
    /\ read' = "none"
    /\ answer' = Nothing
    /\ UNCHANGED <<input, outcome, earlier, cursor, closes, attempt>>

TakeEnd ==
    /\ pc = "pulling"
    /\ read = "answered"
    /\ answer.is \in {"end", "error"}
    /\ Leave(IF answer.is = "end" THEN "exhausted" ELSE "state_error")
    /\ read' = "none"
    /\ answer' = Nothing
    /\ UNCHANGED <<input, chunk, yielded, earlier, cursor, attempt>>

\* chunk.each(&block); for an Enumerator, one call of next.
Yield ==
    /\ pc = "yielding"
    /\ chunk # << >>
    /\ yielded' = Append(yielded, Head(chunk))
    /\ chunk' = Tail(chunk)
    /\ UNCHANGED <<input, pc, outcome, earlier, read, answer, cursor, closes, attempt>>

Pull ==
    /\ pc = "yielding"
    /\ chunk = << >>
    /\ pc' = "pulling"
    /\ read' = "spawned"
    /\ UNCHANGED <<input, outcome, chunk, yielded, earlier, answer, cursor, closes, attempt>>

\* The block breaks or raises.
BlockLeaves ==
    /\ ~external
    /\ pc = "yielding"
    /\ Leave("left")
    /\ UNCHANGED <<input, chunk, yielded, earlier, read, answer, cursor, attempt>>

\* Nobody takes the answer of the wait any more.
Orphan ==
    /\ read' = IF read = "spawned" THEN "orphaned" ELSE "none"
    /\ answer' = Nothing

\* Faulty variant: a stop while a chunk is pulled unwinds without the close.
StopUnclosed ==
    /\ pc = "pulling" \/ (pc = "yielding" /\ ~external)
    /\ outcome' = "stopped"
    /\ pc' = IF pc = "pulling" THEN "done" ELSE "closing"
    /\ closes' = IF pc = "pulling" THEN closes ELSE closes + 1
    /\ Orphan
    /\ UNCHANGED <<input, chunk, yielded, earlier, cursor, attempt>>

\* Async::Stop in queue.pop or in the block.  A suspended Enumerator is on no
\* running fiber, so the stop does not reach it.
Stop ==
    /\ pc = "pulling" \/ (pc = "yielding" /\ ~external)
    /\ Leave("stopped")
    /\ Orphan
    /\ UNCHANGED <<input, chunk, yielded, earlier, cursor, attempt>>

CloseReturns ==
    /\ pc = "closing"
    /\ cursor.state = "closed"
    /\ pc' = "done"
    /\ UNCHANGED <<input, outcome, chunk, yielded, earlier, read, answer, cursor, closes, attempt>>

\* A stop in the queue.pop of close.
StopClosing ==
    /\ pc = "closing"
    /\ pc' = "done"
    /\ outcome' = "stopped"
    /\ UNCHANGED <<input, chunk, yielded, earlier, read, answer, cursor, closes, attempt>>

\* The handler ends while the Enumerator is suspended or not yet used.
AttemptEnds ==
    /\ external
    /\ attempt = "running"
    /\ pc \in {"start", "yielding"}
    /\ attempt' = "ended"
    /\ UNCHANGED <<input, pc, outcome, chunk, yielded, earlier, read, answer, cursor, closes>>

\* Faulty variant: the next page starts at the last key instead of after it.
NextPageAt ==
    /\ pc = "done"
    /\ outcome = "exhausted"
    /\ kind = "key" /\ kw.limit # Nil
    /\ kw.from = Nil /\ yielded # << >>
    /\ earlier' = earlier \o yielded
    /\ kw' = [kw EXCEPT !.from = RubyStr(Last(yielded))]
    /\ pc' = "start" /\ outcome' = "none" /\ yielded' = << >>
    /\ cursor' = [state |-> "none", rest |-> << >>]
    /\ closes' = 0
    /\ UNCHANGED <<kind, direction, external, chunk, read, answer, attempt>>

\* The caller asks for the page after the last key it was given.
NextPage ==
    /\ pc = "done"
    /\ outcome = "exhausted"
    /\ kind = "key" /\ kw.limit # Nil
    /\ kw.from = Nil /\ (earlier = << >> => kw.after = Nil)
    /\ yielded # << >>
    /\ earlier' = earlier \o yielded
    /\ kw' = [kw EXCEPT !.after = RubyStr(Last(yielded))]
    /\ pc' = "start" /\ outcome' = "none" /\ yielded' = << >>
    /\ cursor' = [state |-> "none", rest |-> << >>]
    /\ closes' = 0
    /\ UNCHANGED <<kind, direction, external, chunk, read, answer, attempt>>

---------------------------------------------------------------------------
(* The cursor                                                              *)

Reply(a) ==
    /\ read' = IF read = "orphaned" THEN "none" ELSE "answered"
    /\ answer' = IF read = "orphaned" THEN Nothing ELSE a

Reading == read \in {"spawned", "orphaned"}

\* next_ready_chunk: what is ready, at most Chunk.
ReadItems(n) ==
    /\ Reading
    /\ cursor.state = "open" /\ attempt = "running"
    /\ n <= Len(cursor.rest)
    /\ Reply(Answer("items", SubSeq(cursor.rest, 1, n)))
    /\ cursor' = [cursor EXCEPT !.rest = SubSeq(@, n + 1, Len(@))]
    /\ UNCHANGED <<input, pc, outcome, chunk, yielded, earlier, closes, attempt>>

ReadEnd ==
    /\ Reading
    /\ \/ cursor.state = "closed"
       \/ cursor.state = "open" /\ attempt = "running" /\ cursor.rest = << >>
    /\ Reply(Answer("end", << >>))
    /\ UNCHANGED <<input, pc, outcome, chunk, yielded, earlier, cursor, closes, attempt>>

\* The store fails, or the attempt has ended.
ReadFails ==
    /\ Reading
    /\ cursor.state = "open"
    /\ Reply(Answer("error", << >>))
    /\ UNCHANGED <<input, pc, outcome, chunk, yielded, earlier, cursor, closes, attempt>>

\* Faulty variant: the future of close is dropped with its caller.
CloseCursorWaited ==
    /\ closes > 0 /\ pc = "closing"
    /\ cursor.state = "open"
    /\ cursor' = [cursor EXCEPT !.state = "closed"]
    /\ UNCHANGED <<input, pc, outcome, chunk, yielded, earlier, read, answer, closes, attempt>>

\* The future of close, whether or not its caller still waits.
CloseCursor ==
    /\ closes > 0
    /\ cursor.state = "open"
    /\ cursor' = [cursor EXCEPT !.state = "closed"]
    /\ UNCHANGED <<input, pc, outcome, chunk, yielded, earlier, read, answer, closes, attempt>>

---------------------------------------------------------------------------
Loop == OpenRaises \/ Open \/ TakeChunk \/ TakeEnd \/ Pull \/ CloseReturns

Store == (\E n \in 1..Chunk : ReadItems(n)) \/ ReadEnd \/ ReadFails

Finished == pc = "done" /\ UNCHANGED vars

Next ==
    \/ Loop
    \/ Yield
    \/ BlockLeaves
    \/ Stop
    \/ StopClosing
    \/ AttemptEnds
    \/ NextPage
    \/ Store
    \/ CloseCursor
    \/ Finished

\* Loop and store go on when they can.  Blocks, and callers of Enumerator#next,
\* may take forever.
Fairness ==
    /\ WF_vars(TakeChunk \/ TakeEnd \/ CloseReturns)
    /\ WF_vars(~external /\ (OpenRaises \/ Open \/ Pull))
    /\ WF_vars(Store)
    /\ WF_vars(CloseCursor)

Spec == Init /\ [][Next]_vars /\ Fairness

---------------------------------------------------------------------------
\* The variables have their types.
TypeOK ==
    /\ direction \in {"forward", "backward"}
    /\ external \in BOOLEAN
    /\ pc \in {"start", "pulling", "yielding", "closing", "done"}
    /\ outcome \in {"none", "exhausted", "left", "stopped", "state_error",
                    "ArgumentError", "TypeError"}
    /\ \A s \in {chunk, yielded, earlier, cursor.rest} : s \in Seq(Live)
    /\ read \in {"none", "spawned", "orphaned", "answered"}
    /\ cursor.state \in {"none", "open", "closed"}
    /\ closes \in Nat
    /\ attempt \in {"running", "ended"}

\* README.md, "Query keywords": a traversal yields the promised items in
\* order, none twice, none of a chunk that was pulled for nobody, and all of
\* them when it ends by itself; a hash outside the documentation raises and
\* yields nothing.
YieldsPromised ==
    IF Sensible(kind, kw)
    THEN /\ outcome \notin {"ArgumentError", "TypeError"}
         /\ IsPrefix(yielded, Promised(Live, direction, kw))
         /\ outcome = "exhausted" => yielded = Promised(Live, direction, kw)
    ELSE yielded = << >> /\ outcome \in {"none", "ArgumentError", "TypeError"}

\* README.md, paging with after: and limit: until a page is empty gives every
\* selected key once and in order, whatever the page size.
PagesCover ==
    (earlier # << >>) =>
        LET whole == Promised(Live, direction, [kw EXCEPT !.after = Nil, !.limit = Nil])
        IN  /\ IsPrefix(earlier \o yielded, whole)
            /\ outcome = "exhausted" /\ yielded = << >> => earlier = whole

\* spec/state_scan_spec.rb: every path out of an opened traversal closes the
\* native scan exactly once.
ClosedOnce ==
    /\ closes <= 1
    /\ cursor.state # "none" /\ outcome # "none" => closes = 1

\* The cursor does get closed, even if the caller of close is stopped too.
CursorCloses ==
    (cursor.state = "open" /\ outcome # "none") ~> (cursor.state = "closed")

\* spec/state_scan_spec.rb: an enumerator leaked past the handler raises the
\* terminated error instead of giving items.
LeakedRaises == [][attempt = "ended" => yielded' = yielded]_vars
=============================================================================
