--------------------------- MODULE HighlightSweep ---------------------------
(***************************************************************************)
(* A CodeEditor keeping its document's colours current: edits, scrolls,    *)
(* theme changes and loads, the frames of the sweep, and for documents of  *)
(* PoolBytes and more the pool of workers that tokenizes segments of a     *)
(* snapshot (matcha-iced: code_editor.rs, code_editor/pool.rs,             *)
(* highlight_pool.rs).                                                     *)
(***************************************************************************)
EXTENDS HighlightSegments

CONSTANTS Texts,          \* what a document may be loaded with
          Puts,           \* the rows an edit may put for those it replaces
          Themes, LoadedTheme,
          PoolBytes,      \* PARALLEL_MIN_BYTES
          LongBytes,      \* the bytes of a long line; others count as one
          SegmentRows,    \* SEGMENT_MAX_ROWS
          Workers,        \* how many threads the pool has
          Backoff,        \* SPECULATION_BACKOFF
          VerifyBudget,   \* POLL_VERIFY_BUDGET
          RerunBudget,    \* POLL_RERUN_BUDGET
          MaxBatch,       \* bounds the splices of one edit
          Gestures,       \* what the user may do
          MaxEffort,      \* bounds how often, with what a gesture takes of it
          SoloCost,       \* while there is no pool
          PoolCost        \* and while there is one

ASSUME HighlightSweepAssumption ==
  /\ {PoolBytes, LongBytes, SegmentRows, Workers, VerifyBudget, RerunBudget} \subseteq Nat \ {0}
  /\ {Backoff, MaxEffort, SoloCost, PoolCost} \subseteq Nat /\ MaxBatch \in {1, 2}
  /\ Gestures \subseteq {"edit", "load", "move", "theme"}
  /\ \A text \in Texts : Len(text) > 0
  /\ LoadedTheme \in Themes

VARIABLES
  lines,      \* the buffer's rows
  theme, rev,
  cache,      \* Document::highlight
  viewport,   \* the rows the widget last reported, as <<first, end>>
  pool,       \* CodeEditor::hl_pool; on tells whether there is one
  queue,      \* the jobs no worker has taken
  running,    \* the jobs workers are at
  done,       \* the results in the channel
  frame,      \* flips with every frame the sweep runs on, for the fairness condition
  left,       \* the effort left
  misled      \* history: whether an edit's probe has read another row's checkpoint

vars == <<lines, theme, rev, cache, viewport, pool, queue, running, done, frame, left, misled>>
workers == <<queue, running, done>>

Bytes(text) == FoldLeft(LAMBDA sum, line : sum + IF line = "long" THEN LongBytes ELSE 1, 0, text)
UsesPool(text) == Bytes(text) >= PoolBytes

----------------------------------------------------------------------------
(* The pool. *)

NoPool == [on |-> FALSE, active |-> FALSE, rev |-> 0, theme |-> theme, lines |-> None, segs |-> None,
           results |-> None, next |-> 1, prev |-> None, window |-> <<0, 0>>]

SegmentsOf(rows) ==
  LET count == UpperOf((rows + SegmentRows - 1) \div SegmentRows, Workers)
      len == (rows + count - 1) \div count
  IN [i \in 1..(rows + len - 1) \div len |-> <<(i - 1) * len, LowerOf(i * len, rows)>>]

\* HighlightPool::start, for a pool whose engine has the theme look.
Started(text, at, look, aim) ==
  [on |-> TRUE, active |-> TRUE, rev |-> at, theme |-> look, lines |-> text,
   segs |-> SegmentsOf(Len(text)), results |-> None, next |-> 1, prev |-> None,
   window |-> PaddedWindow(aim, Len(text))]

JobsOf(p) == [i \in DOMAIN p.segs |->
  [idx |-> i, rev |-> p.rev, rows |-> p.segs[i], win |-> p.window, lines |-> p.lines]]

\* HighlightPool::speculate: the window from a guessed start, some rows above it.
Speculated(p, c, at) ==
  LET rows == <<UpperOf(0, p.window[1] - Backoff), LowerOf(p.window[2], Len(p.lines))>> IN
  IF ~p.active \/ p.rev # at \/ rows[1] >= rows[2] THEN c
  ELSE AbsorbGuess(c, FreshSegment(p.lines, p.theme, rows, p.window))

\* A new pool over the document as text and look, with empty channels of its own.
CreatePool(text, at, look) ==
  /\ pool' = Started(text, at, look, viewport')
  /\ queue' = JobsOf(pool')
  /\ running' = {} /\ done' = {}

WrongGuess(p) == p.next # 1 /\ p.prev # Fresh(p.theme)

\* One verified segment joins the cache: v holds the pool, the cache and the frame's two tallies.
Verified(v, seg, again) ==
  [pool |-> [v.pool EXCEPT !.next = @ + 1, !.prev = seg.end,
                           !.results = Restrict(@, DOMAIN @ \ {v.pool.next})],
   cache |-> AbsorbVerified(v.cache, seg),
   verified |-> v.verified + 1, reruns |-> v.reruns + again]

\* A defect: after a repair the chain goes on from the end the wrong guess had.
VerifiedNextFromGuess(v, p) ==
  IF WrongGuess(p)
  THEN [Verified(v, Corrected(p.lines, p.prev, p.results[p.next]), 1)
          EXCEPT !.pool.prev = p.results[p.next].end]
  ELSE Verified(v, p.results[p.next], 0)

VerifiedNext(v, p) ==
  IF WrongGuess(p) THEN Verified(v, Corrected(p.lines, p.prev, p.results[p.next]), 1)
  ELSE Verified(v, p.results[p.next], 0)

RECURSIVE VerifyChain(_)
VerifyChain(v) ==
  IF \/ v.verified = VerifyBudget
     \/ v.pool.next \notin DOMAIN v.pool.results
     \/ WrongGuess(v.pool) /\ v.reruns = RerunBudget
  THEN v
  ELSE VerifyChain(VerifiedNext(v, v.pool))

Drained(p, results) ==
  LET current == {d \in results : d.rev = p.rev} IN
  [p EXCEPT !.results = [i \in {d.idx : d \in current} |-> (CHOOSE d \in current : d.idx = i).seg] @@ @]

Paced(v) == [v EXCEPT !.pool.active = @ /\ v.pool.next <= Len(v.pool.segs)]

\* HighlightPool::poll.
Polled(p, c, results) ==
  Paced(VerifyChain([pool |-> Drained(p, results), cache |-> c, verified |-> 0, reruns |-> 0]))

----------------------------------------------------------------------------
(* The workers. *)

\* A worker takes the first job, and drops it when an edit has restarted the sweep since.
TakeJob ==
  /\ queue # <<>> /\ Cardinality(running) < Workers
  /\ queue' = Tail(queue)
  /\ running' = IF Head(queue).rev = pool.rev THEN running \cup {Head(queue)} ELSE running
  /\ UNCHANGED <<lines, theme, rev, cache, viewport, pool, done, frame, left, misled>>

FinishJob(job) ==
  /\ running' = running \ {job}
  /\ done' = done \cup {[idx |-> job.idx, rev |-> job.rev,
                         seg |-> FreshSegment(job.lines, pool.theme, job.rows, job.win)]}
  /\ UNCHANGED <<lines, theme, rev, cache, viewport, pool, queue, frame, left, misled>>

FinishSomeJob == \E job \in running : FinishJob(job)

----------------------------------------------------------------------------
(* The editor. *)

Cost == IF pool.on THEN PoolCost ELSE SoloCost
May(gesture) == left >= Cost /\ gesture \in Gestures
Gesture(gesture) == May(gesture) /\ left' = left - Cost

\* CodeEditor::seed_highlight, for a document just given c, text and look.
Seed(c, text, look) ==
  IF UsesPool(text)
  THEN CreatePool(text, rev', look) /\ cache' = c
  ELSE /\ pool' = NoPool /\ queue' = None /\ running' = {} /\ done' = {}
       /\ LET aim == IF viewport[1] >= viewport[2] \/ viewport[1] >= Len(text)
                     THEN <<0, Len(text)>> ELSE viewport
          IN cache' = TokenizeUntil(SetWindow(c, aim), text, look, Len(text))

Init ==
  /\ lines \in Texts /\ theme = LoadedTheme /\ rev = 0 /\ viewport = <<0, 0>> /\ frame = FALSE
  /\ left = MaxEffort /\ misled = FALSE
  /\ running = {} /\ done = {}
  /\ IF UsesPool(lines)
     THEN /\ pool = Started(lines, 0, theme, viewport) /\ queue = JobsOf(pool)
          /\ cache = NewCache(Len(lines))
     ELSE /\ pool = NoPool /\ queue = None
          /\ cache = TokenizeUntil(SetWindow(NewCache(Len(lines)), <<0, Len(lines)>>), lines, theme, Len(lines))

\* The splices an edit may make: each replaces one or two rows by one of Puts, and typing at
\* two carets does the same at both.
Splices(rows) ==
  {s \in [at : 0..rows - 1, old : 1..2, put : Puts] : s.at + s.old <= rows}

Batches(rows) ==
  {<<s>> : s \in Splices(rows)} \cup
  (IF MaxBatch = 1 THEN {}
   ELSE {<<s, [s EXCEPT !.at = at]>> : s \in Splices(rows), at \in 0..rows - 1} \cap
        {b \in Splices(rows) \X Splices(rows) : b[1].at + b[1].old <= b[2].at})

Sized(batch) == [j \in DOMAIN batch |->
  [at |-> batch[j].at, old |-> batch[j].old, new |-> Len(batch[j].put)]]

Spliced1(text, s) == SubSeq(text, 1, s.at) \o s.put \o SubSeq(text, s.at + s.old + 1, Len(text))
Edited(text, batch) == FoldLeft(Spliced1, text, Reverse(batch))

\* A row the splices replace is probed where the commit has just moved a checkpoint to, and there
\* was another state, or none, after it before.
Misprobed(c, splices) == \E j \in DOMAIN splices :
  Probe([c EXCEPT !.pins = ShiftedPins(@, splices)], splices[j]) \notin {None, Probe(c, splices[j])}

\* A transaction and after_edit: the cache shifts, and the walk goes as far as the viewport's end.
Edit(batch) ==
  /\ Gesture("edit")
  /\ lines' = Edited(lines, batch)
  /\ rev' = rev + 1
  /\ cache' = TokenizeUntil(OnCommit(cache, Sized(batch)), lines', theme, viewport[2])
  /\ misled' = (misled \/ Misprobed(cache, Sized(batch)))
  /\ UNCHANGED <<theme, viewport, pool, workers, frame>>

\* CodeEditor::load, with the same grammar or with another.
Load(text, swap) ==
  /\ Gesture("load")
  /\ lines' = text /\ rev' = rev + 1 /\ misled' = FALSE /\ UNCHANGED <<theme, viewport, frame>>
  /\ LET kept == OnCommit(cache, <<[at |-> 0, old |-> Len(lines), new |-> Len(text)]>>)
         c == IF swap THEN SetWindow(NewCache(Len(text)), cache.aim) ELSE kept
     IN Seed(c, text, theme)

\* Action::ViewportChanged and pool_viewport.
MoveViewport(rows) ==
  /\ Gesture("move")
  /\ viewport' = rows
  /\ UNCHANGED <<lines, theme, rev, frame, misled>>
  /\ LET moved == SetWindow(cache, rows)
         aimed == [pool EXCEPT !.window = PaddedWindow(rows, Len(lines))]
     IN \/ /\ ~UsesPool(lines)
           /\ cache' = TokenizeUntil(moved, lines, theme, rows[2])
           /\ UNCHANGED <<pool, workers>>
        \/ /\ UsesPool(lines) /\ pool.on
           /\ pool' = aimed
           /\ cache' = Speculated(aimed, moved, rev)
           /\ UNCHANGED workers
        \/ /\ UsesPool(lines) /\ ~pool.on
           /\ CreatePool(lines, rev, theme)
           /\ cache' = Speculated(pool', moved, rev)

SetEditorTheme(look) ==
  /\ Gesture("theme")
  /\ theme' = look /\ misled' = FALSE
  /\ cache' = TokenizeUntil(SetTheme(cache), lines, look, viewport[2])
  /\ UNCHANGED <<lines, rev, viewport, pool, workers, frame>>

\* HighlightPool::restart keeps the engine the pool was made with.
Restart ==
  /\ pool' = Started(lines, rev, pool.theme, viewport)
  /\ queue' = JobsOf(pool')
  /\ cache' = Speculated(pool', cache, rev)
  /\ UNCHANGED <<running, done>>

Poll ==
  /\ done' = {}
  /\ UNCHANGED <<queue, running>>
  /\ \E v \in {Polled(pool, cache, done)} :
       /\ pool' = v.pool
       /\ cache' = IF v.pool.active THEN v.cache
                   ELSE TokenizeUntil(v.cache, lines, theme, Len(lines))

IsSweeping == IsPending(cache) \/ pool.active

\* Event::HighlightSweep, on a frame, while the subscription asks for frames.
Sweep ==
  /\ IsSweeping
  /\ frame' = ~frame
  /\ UNCHANGED <<lines, theme, rev, viewport, left, misled>>
  /\ \/ /\ ~UsesPool(lines)
        /\ pool' = [pool EXCEPT !.active = FALSE]
        /\ cache' = TokenizeUntil(cache, lines, theme, Len(lines))
        /\ UNCHANGED workers
     \/ UsesPool(lines) /\ pool.on /\ pool.rev # rev /\ Restart
     \/ UsesPool(lines) /\ pool.on /\ pool.rev = rev /\ Poll
     \/ /\ UsesPool(lines) /\ ~pool.on
        /\ CreatePool(lines, rev, theme)
        /\ UNCHANGED cache

Next ==
  \/ May("edit") /\ \E batch \in Batches(Len(lines)) : Edit(batch)
  \/ May("load") /\ \E text \in Texts, swap \in BOOLEAN : Load(text, swap)
  \/ May("move") /\ \E from \in 0..Len(lines) - 1 : MoveViewport(<<from, from + 1>>)
  \/ May("theme") /\ \E look \in Themes \ {theme} : SetEditorTheme(look)
  \/ Sweep
  \/ TakeJob
  \/ FinishSomeJob

Spec == Init /\ [][Next]_vars

\* Frames come while the subscription asks for them, and the pool's threads run.
FairSpec ==
  /\ Spec
  /\ WF_frame(IsSweeping /\ frame' = ~frame)
  /\ WF_queue(TakeJob) /\ WF_running(FinishSomeJob)

----------------------------------------------------------------------------
(* Properties. *)

ShowsTrue(row) == CellAt(cache, row).spans = TrueAfter(lines, theme, row).spans

\* No stale colour above the frontier: while no pool is at work, whatever edits, scrolls, loads
\* and budgets have done, every row above the first dirty one has in the window the spans and
\* the state a pass over the whole text gives it, or none, and a checkpoint on it holds that
\* state (line_state.rs, stored_state_after: "the first dirty line implies every line above it
\* is valid"). That fails in one way only: after a commit whose probe read a checkpoint that the
\* same commit had just moved, the walk stops at a row it takes for converged.
FrontierIsTrue ==
  ~pool.on /\ ~misled => \A row \in 0..LowerOf(FirstDirty(cache), Len(lines)) - 1 :
    /\ InWindow(cache, row) =>
         /\ CellAt(cache, row).spans = None \/ ShowsTrue(row)
         /\ CellAt(cache, row).state \in {None, TrueAfter(lines, theme, row).state}
    /\ row \in DOMAIN cache.pins => cache.pins[row] = TrueAfter(lines, theme, row).state

\* The boundary poll carries from segment to segment is the state the document really is in
\* there, although every segment was tokenized from a guess and repaired ones are spliced.
VerifiedChainIsTrue ==
  pool.on /\ pool.next > 1 =>
    pool.prev = TrueAfter(pool.lines, pool.theme, pool.segs[pool.next - 1][2] - 1).state

\* the rows of this text that a sweep under way has verified
VerifiedRows ==
  IF pool.active /\ pool.rev = rev /\ pool.theme = theme /\ pool.next > 1
  THEN 0..pool.segs[pool.next - 1][2] - 1 ELSE {}

\* Guesses painted before, beside and after a verified segment never show on its rows: they have
\* their true spans or none, and the stride checkpoints among them the true state, though the
\* window the segment was tokenized for is not the one the cache has by then.
VerifiedRowsAreTrue ==
  \A row \in VerifiedRows \ cache.dirty :
    /\ InWindow(cache, row) => CellAt(cache, row).spans = None \/ ShowsTrue(row)
    /\ OnStride(row) /\ row \in DOMAIN cache.pins =>
         cache.pins[row] = TrueAfter(lines, theme, row).state

\* What a sweep has verified is true, in the chain and on its rows.
VerifiedIsTrue == VerifiedChainIsTrue /\ VerifiedRowsAreTrue

\* No colour that counts as settled is stale, above the frontier or in the chain.
ColoursAreTrue == FrontierIsTrue /\ VerifiedIsTrue

\* When the user stops, the rows on screen of a document without a pool end up with their true
\* spans, whatever was evicted, warmed up on a budget or interrupted before; unless a probe misled the
\* walk that should have come to them.
PaintedInTheEnd == <>[](~pool.on /\ ~misled => \A row \in ShownIn(cache) : ShowsTrue(row))

\* When the user stops, the pool's sweep ends: stale jobs and deferred repairs do not hold up
\* the chain.
PoolFinishes == <>[]~pool.active

\* Both of them, whichever editor it is.
SettlesInTheEnd == PaintedInTheEnd /\ PoolFinishes

\* code_editor.rs, subscription: "an idle document does zero per-frame work".
SweepStops == <>[](~IsSweeping)

\* code_editor.rs, set_theme: "Swap the syntax theme at runtime"; line_state.rs, set_theme: "until
\* the frontier repaints them".
SettledColoursAreTrue == ~IsSweeping => \A row \in ShownIn(cache) : ShowsTrue(row)
=============================================================================
