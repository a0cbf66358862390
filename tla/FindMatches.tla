---------------------------- MODULE FindMatches ----------------------------
(***************************************************************************)
(* The find of matcha-core (find.rs and the find surface of document.rs):  *)
(* the match set is a set of tracked ranges, scanned whole when the query  *)
(* or the scope changes and repaired, window by window, at every commit.   *)
(*                                                                         *)
(* A decoration is its range: matches are disjoint and never empty, so the *)
(* id a match is given is told by where it is; one that an edit collapsed  *)
(* keeps an empty range, which no match has.  Letter case, the offsets of  *)
(* wide characters and regular expressions at large are left out: a query  *)
(* is a literal, a whole word, or a pattern of variable length (a+), each  *)
(* of which the code takes through a path of its own.                      *)
(***************************************************************************)
EXTENDS Transaction

CONSTANTS
  MaxLen,    \* a bound: the longest text an edit may leave, and the last end of a scope
  Cap,       \* FIND_MATCH_CAP
  Window,    \* SCAN_WINDOW, before it is widened to twice the needle
  Texts,     \* what the buffer may hold at first: "a" is a word character, "nl" ends a line
  Queries,   \* what may be asked for
  Inserts    \* what an edit may put in

VARIABLES
  text,   \* the buffer
  find    \* the FindState with the find matches of the decoration store

vars == <<text, find>>

(***************************************************************************)
(* find has the fields of FindState: query, or NoQuery; scope, or NoSpan;  *)
(* active, the range of that decoration, or NoSpan; activeStart, or        *)
(* NoOffset; capped, coverage (coverage_end) and stale (capped_stale).     *)
(* spans are the FindMatch decorations.  Since the last whole scan,        *)
(* dropped is whether a commit has let go of a scope, and cut whether one  *)
(* has scanned a zone only up to the cap: the code keeps neither.          *)
(***************************************************************************)
Span(start, stop) == [start |-> start, stop |-> stop]
Whole(t) == Span(0, Len(t))
NoSpan == Span(-1, -1)
NoOffset == -1

\* FindQuery, as the matcher it compiles to.
Literal(needle) == [kind |-> "literal", text |-> needle]
WholeWord       == [kind |-> "word", text |-> <<"a">>]
Pattern         == [kind |-> "pattern", text |-> <<"a", "+">>]
Unfinished      == [kind |-> "unfinished", text |-> <<"(">>]
NoQuery         == [kind |-> "none", text |-> <<>>]

\* Matcher::is_line_scoped
LineScoped(q) == q.kind \in {"word", "pattern"}

\* on_commit repairs only for these: there is a query, it parses, and a literal is not empty.
Matching(q) == LineScoped(q) \/ (q.kind = "literal" /\ q.text # <<>>)

----------------------------------------------------------------------------
\* The first n of a set of disjoint ranges.
First(n, rs) == {r \in rs : Cardinality({s \in rs : s.start < r.start}) < n}

At(t, p) == IF p \in 0..(Len(t) - 1) THEN t[p + 1] ELSE "nl"
IsWord(t, p) == At(t, p) = "a"

Fits(t, needle, p) == \A n \in 1..Len(needle) : At(t, p + n - 1) = needle[n]

\* scan_literal on the slice lo..hi: leftmost first, the next probe at the end of the last match.
ScanLiteral(t, needle, lo, hi) ==
  LET k == Len(needle)
      hit[p \in 0..Len(t)] ==
        Fits(t, needle, p) /\ \A q \in Max({lo, p - k + 1})..(p - 1) : ~hit[q]
  IN {Span(p, p + k) : p \in {q \in lo..(hi - k) : hit[q]}}

\* The matches of a line-scoped query: none of them reaches over the end of its line.
LineHits(t, q) ==
  {r \in {Span(p, s) : p \in 0..Len(t), s \in 0..Len(t)} :
     /\ r.start < r.stop
     /\ \A p \in r.start..(r.stop - 1) : IsWord(t, p)
     /\ ~IsWord(t, r.start - 1) /\ ~IsWord(t, r.stop)
     /\ q.kind = "word" => r.stop = r.start + 1}

\* scan_buffer_lines: judged against the whole lines, then kept to the range.
ScanLines(t, q, lo, hi) ==
  IF lo >= hi THEN {} ELSE {r \in LineHits(t, q) : r.start >= lo /\ r.stop <= hi}

\* A defect: a window that found nothing is left without the overlap.
ResumeAtEnd(pos, winEnd, k, found) ==
  IF found # {} THEN Max({r.stop : r \in found}) ELSE Max({winEnd, pos + 1})

\* Buffer::scan_resume
Resume(pos, winEnd, k, found) ==
  IF found # {} THEN Max({r.stop : r \in found}) ELSE Max({winEnd - (k - 1), pos + 1})

\* scan_buffer_capped for a literal: windows that overlap by one less than the needle, each of
\* them scanned up to the cap.
ScanWindows(t, needle, cap, lo, hi) ==
  LET k == Len(needle)
      found[pos \in 0..(Len(t) + 1)] ==
        IF pos + k > hi THEN {}
        ELSE LET winEnd == Min({pos + Max({Window, 2 * k}), hi})
                 hits   == ScanLiteral(t, needle, pos, winEnd)
                 kept   == First(cap, hits)
             IN IF winEnd = hi /\ hits = kept THEN kept
                ELSE kept \cup found[Resume(pos, winEnd, k, kept)]
  IN found[lo]

\* scan_buffer_capped, with every match it sees: one beyond the cap makes it capped.
ScanBuffer(t, q, cap, within) ==
  LET hi == Min({within.stop, Len(t)})
      lo == Min({within.start, hi})
  IN IF ~Matching(q) THEN {}
     ELSE IF LineScoped(q) THEN ScanLines(t, q, lo, hi)
     ELSE ScanWindows(t, q.text, cap, lo, hi)

Searched(t, sc) == IF sc = NoSpan THEN Whole(t) ELSE sc

----------------------------------------------------------------------------
StartingAt(rs, p) == {r \in rs : r.start = p}

ActiveAt(f, rs) ==
  [f EXCEPT !.active      = IF rs = {} THEN NoSpan ELSE CHOOSE r \in rs : TRUE,
            !.activeStart = IF rs = {} THEN NoOffset ELSE (CHOOSE r \in rs : TRUE).start]

\* rescan, of what a scan has seen: the active match survives where a match starts as it did.
Installed(t, f, seen, kept) ==
  ActiveAt([f EXCEPT !.spans    = kept,
                     !.capped   = seen # kept,
                     !.coverage = IF seen # kept THEN Max({r.stop : r \in kept}) ELSE Len(t),
                     !.stale    = FALSE,
                     !.dropped  = FALSE,
                     !.cut      = FALSE],
           StartingAt(kept, f.active.start))

InstalledUpTo(t, f, seen) == Installed(t, f, seen, First(Cap, seen))

\* rescan
Rescan(t, f) == InstalledUpTo(t, f, ScanBuffer(t, f.query, Cap, Searched(t, f.scope)))

\* maybe_rescan. now: the debounce has elapsed.
MaybeRescan(t, f, now) == IF now /\ f.query # NoQuery /\ f.capped /\ f.stale THEN Rescan(t, f) ELSE f

\* set_query
SetQuery(q) ==
  /\ q # find.query
  /\ find' = Rescan(text, [find EXCEPT !.query = q, !.active = NoSpan, !.activeStart = NoOffset])
  /\ UNCHANGED text

\* set_scope: an empty range clears it.
ScopeOf(r) == IF r.start >= r.stop THEN NoSpan ELSE r

SetScope(sc) ==
  /\ ScopeOf(sc) # find.scope
  /\ find' = Rescan(text, [find EXCEPT !.scope = ScopeOf(sc)])
  /\ UNCHANGED text

----------------------------------------------------------------------------
\* DecorationStore::apply_patch for the find matches: one that collapses is dropped.
Ridden(patch, rs) == {r \in {NeverGrowing(patch, m) : m \in rs} : r.start < r.stop}

\* take_matching_in: touching counts.
Touching(rs, w) == {r \in rs : r.start <= w.stop /\ r.stop >= w.start}

LineStarts(t, p) == {q \in 1..p : At(t, q - 1) = "nl"}

\* A defect: the window reaches the start of the next line.
WholeLinesAndNext(t, r) ==
  Span(Max(LineStarts(t, r.start) \cup {0}),
       Min({p \in r.stop..Len(t) : p = Len(t) \/ At(t, p - 1) = "nl"}))

\* whole_lines: to the end of the last line, not to the start of the next.
WholeLines(t, r) ==
  Span(Max(LineStarts(t, r.start) \cup {0}),
        Min({p \in r.stop..Len(t) : p = Len(t) \/ At(t, p) = "nl"}))

\* The influence window of an edit, before it is clamped to the coverage and the scope.
Influence(t, q, e) ==
  IF LineScoped(q) THEN WholeLines(t, Span(e.newStart, e.newStop))
  ELSE Span(Max({e.newStart - (Len(q.text) - 1), 0}), e.newStop + Len(q.text) - 1)

Clamped(r, lo, hi) == Span(Max({r.start, lo}), Min({r.stop, hi}))

\* The zone a literal is scanned in again: the window and what was removed, one less than the
\* needle wider on each side, from the end of the last match left there.
Zone(q, kept, ext, lo, hi) ==
  LET k    == Len(q.text)
      left == Max({ext.start - (k - 1), 0, lo})
  IN Span(Max({left} \cup {r.stop : r \in Touching(kept, Span(left, ext.start))}),
           Min({ext.stop + k - 1, hi}))

\* The first match that is left to the right of it, which no new one may reach over.
Guards(kept, ext, zone) ==
  {r.start : r \in {s \in Touching(kept, Span(ext.stop, zone.stop)) : s.start >= ext.stop}}

\* The part of the text that is scanned again. ext: the window, widened to the matches taken out.
Rezoned(q, kept, ext, lo, hi) == IF LineScoped(q) THEN ext ELSE Zone(q, kept, ext, lo, hi)

ScanZone(t, q, zone) ==
  IF LineScoped(q) THEN ScanLines(t, q, zone.start, zone.stop)
  ELSE ScanLiteral(t, q.text, zone.start, zone.stop)

\* What the zone is found to hold, of the matches in it: at most the cap, and none that a guard
\* forbids. Whether there were more is not asked.
Found(q, kept, ext, zone, hits) ==
  {r \in First(Cap, hits) :
     LineScoped(q) \/ \A g \in Guards(kept, ext, zone) : r.stop <= g}

\* The window with the matches taken out of it; a line-scoped window stays as it is.
Extent(q, w, gone) ==
  IF LineScoped(q) THEN w
  ELSE Span(Min({w.start} \cup {r.start : r \in gone}), Max({w.stop} \cup {r.stop : r \in gone}))

\* One window of the repair: m has the matches, the active one, and where a window took it.
Rescanned(q, m, gone, ext, zone, hits) ==
  [spans  |-> (m.spans \ gone) \cup Found(q, m.spans \ gone, ext, zone, hits),
   active |-> IF m.active \in gone THEN NoSpan ELSE m.active,
   start  |-> m.start,
   taken  |-> IF m.active \in gone THEN m.active.start ELSE m.taken,
   cut    |-> m.cut \/ Cardinality(hits) > Cap]

Mended(t, q, lo, hi, m, w) ==
  IF w.start > w.stop THEN m
  ELSE LET gone == Touching(m.spans, w)
           ext  == Extent(q, w, gone)
           zone == Rezoned(q, m.spans \ gone, ext, lo, hi)
       IN Rescanned(q, m, gone, ext, zone, ScanZone(t, q, zone))

\* The loop over the edits of the patch.
Repaired(t, q, lo, hi, patch, m) ==
  FoldLeft(LAMBDA acc, e : Mended(t, q, lo, hi, acc, Clamped(Influence(t, q, e), lo, hi)), m, patch)


\* The active match that a window took goes to one that starts where it did; one that is not
\* there is let go.
Survivor(m) ==
  IF StartingAt(m.spans, m.taken) # {} THEN StartingAt(m.spans, m.taken)
  ELSE {r \in {m.active} \cap m.spans : r.start <= m.start /\ m.start <= r.stop}

\* The last steps of on_commit: more than the cap is cut from the tail.
Settled(f, m, kept) ==
  ActiveAt([f EXCEPT !.spans = kept,
                     !.cut = m.cut,
                     !.capped = @ \/ m.spans # kept,
                     !.coverage = IF m.spans # kept THEN Max({r.stop : r \in kept}) ELSE @,
                     !.stale = IF m.spans # kept THEN FALSE
                               ELSE IF f.capped THEN Cardinality(kept) < Cap ELSE @],
           Survivor(m) \cap kept)

SettledUpTo(f, m) == Settled(f, m, First(Cap, m.spans))

\* The scope rides as a range that grows at both ends; collapsed, it is let go.
ScopeAfter(sc, patch) ==
  LET lo == MapOffset(patch, sc.start, "Left")
      hi == MapOffset(patch, sc.stop, "Right")
  IN IF sc = NoSpan \/ lo >= hi THEN NoSpan ELSE Span(lo, hi)

\* What a window may reach: the coverage, within the scope.
Bounds(f) ==
  IF f.scope = NoSpan THEN Span(0, f.coverage)
  ELSE Span(f.scope.start, Min({f.scope.stop, f.coverage}))

\* on_commit, once the coverage and the scope have ridden. was: the find before the commit.
Repair(t, f, was, patch) ==
  SettledUpTo(f, Repaired(t, f.query, Bounds(f).start, Bounds(f).stop, patch,
     [spans  |-> Ridden(patch, was.spans),
      active |-> IF was.active = NoSpan THEN NoSpan ELSE NeverGrowing(patch, was.active),
      start  |-> IF was.active = NoSpan THEN NoOffset ELSE MapOffset(patch, was.activeStart, "Right"),
      taken  |-> NoOffset,
      cut    |-> was.cut]))

\* on_commit, after apply_patch, for the text t the patch has left.
OnCommit(t, f, patch) ==
  IF ~Matching(f.query) THEN [f EXCEPT !.spans = Ridden(patch, @)]
  ELSE Repair(t, [f EXCEPT !.coverage = IF f.capped THEN MapOffset(patch, @, "Left") ELSE Len(t),
                           !.scope = ScopeAfter(@, patch),
                           !.dropped = @ \/ (f.scope # NoSpan /\ ScopeAfter(f.scope, patch) = NoSpan)],
              f, patch)

\* Document::edit_grouped, and a step of an undo, for the find: ops is a normalized batch.
Commits(ops) == Len(ops) > 0 /\ Disjoint(ops)

Edit(ops) ==
  \E norm \in {Normalized(text, ops)} :
    /\ Commits(norm)
    /\ Len(text) + FoldLeft(LAMBDA sum, op : sum + Growth(op), 0, norm) <= MaxLen
    /\ text' = Applied(text, norm)
    /\ find' = OnCommit(text', find, PatchOf(norm))
    /\ find'.scope.stop <= MaxLen

----------------------------------------------------------------------------
\* find_rank_before, nth_find: r counts from 0.
RankBefore(f, p) == Cardinality({r \in f.spans : r.start < p})
Nth(f, r) == CHOOSE m \in f.spans : RankBefore(f, m.start) = r

\* navigate: from the match the selection is, else from the head.
Pick(f, sel, head, forward) ==
  LET count == Cardinality(f.spans)
      rank  == RankBefore(f, IF sel \in f.spans THEN sel.start ELSE head)
  IN IF forward THEN (rank + IF sel \in f.spans THEN 1 ELSE 0) % count
     ELSE (rank + count - 1) % count

Navigate(f, sel, head, forward) ==
  ActiveAt(f, IF f.spans = {} THEN {} ELSE {Nth(f, Pick(f, sel, head, forward))})

\* step_find. The newest selection is sel, with its head at one of its ends; it moves to the
\* match, which only the selection shows.
StepFind(sel, head, forward, now) ==
  /\ find' = Navigate(MaybeRescan(text, find, now), sel, head, forward)
  /\ UNCHANGED text

\* active_range
ActiveRange(f) ==
  IF f.active # NoSpan /\ StartingAt(f.spans, f.activeStart) = {f.active} THEN f.active ELSE NoSpan

\* replace_next is armed by a selection that is the active match.
Armed(f, sel) == sel.start < sel.stop /\ sel = ActiveRange(f)

\* SelectionSet::rebase for the selection that is replaced.
SelectionAfter(patch, sel) ==
  Span(MapOffset(patch, sel.start, "Left"), MapOffset(patch, sel.stop, "Right"))

Replaced(t, f, patch, sel, now) ==
  Navigate(MaybeRescan(t, OnCommit(t, f, patch), now),
           SelectionAfter(patch, sel), SelectionAfter(patch, sel).stop, TRUE)

\* replace_next, for a replacement that changes the text; a press that is not armed only moves on.
ReplaceNext(sel, with, now) ==
  \E f \in {MaybeRescan(text, find, now)} :
    IF Armed(f, sel)
    THEN \E norm \in {Normalized(text, <<EditOp(sel.start, sel.stop, with)>>)} :
           /\ text' = Applied(text, norm)
           /\ Len(text') <= MaxLen
           /\ find' = Replaced(text', f, PatchOf(norm), sel, now)
           /\ find'.scope.stop <= MaxLen
    ELSE /\ find' = Navigate(f, sel, sel.stop, TRUE)
         /\ UNCHANGED text

\* replacements: the matches of the whole scope, whatever the cap has let go.
Plan == ScanBuffer(text, find.query, Len(text) + 1, Searched(text, find.scope))

InOrder(rs) == SetToSortSeq(rs, LAMBDA r, s : r.start < s.start)

\* Document::replace_all
ReplaceEvery(with) ==
  /\ Plan # {}
  /\ \E norm \in {[n \in DOMAIN InOrder(Plan) |->
                    EditOp(InOrder(Plan)[n].start, InOrder(Plan)[n].stop, with)]} :
       /\ text' = Applied(text, norm)
       /\ Len(text') <= MaxLen
       /\ find' = OnCommit(text', find, PatchOf(norm))
    /\ find'.scope.stop <= MaxLen

----------------------------------------------------------------------------
RangesOf(t) == {r \in {Span(p, s) : p \in 0..Len(t), s \in 0..Len(t)} : r.start <= r.stop}
Carets(t) == {Span(p, p) : p \in 0..Len(t)}
Elapsed == {FALSE, find.stale}

\* The widget calls maybe_rescan_find at every event.
Refill ==
  /\ find' = MaybeRescan(text, find, TRUE)
  /\ UNCHANGED text

Init ==
  /\ text \in Texts
  /\ find = [query |-> NoQuery, scope |-> NoSpan, spans |-> {}, active |-> NoSpan,
             activeStart |-> NoOffset, capped |-> FALSE, coverage |-> 0, stale |-> FALSE,
             dropped |-> FALSE, cut |-> FALSE]

\* Inputs: any range may be edited or be the scope, and a line broken at any caret; of two edits in
\* one batch, one types and a later one deletes a character; the selection is a caret or a match, as
\* the selections that tell navigation apart are.
Next ==
  \/ \E q \in Queries : SetQuery(q)
  \/ \E sc \in RangesOf(text) : SetScope(sc)
  \/ \E r \in RangesOf(text), with \in Inserts : Edit(<<EditOp(r.start, r.stop, with)>>)
  \/ \E p \in 0..Len(text) : Edit(<<EditOp(p, p, <<"nl">>)>>)
  \/ \E p, r \in 0..Len(text) :
       /\ p <= r /\ r < Len(text)
       /\ Edit(<<EditOp(p, p, <<"a">>), EditOp(r, r + 1, <<>>)>>)
  \/ \E sel \in Carets(text) \cup find.spans, forward \in BOOLEAN, now \in Elapsed :
       StepFind(sel, sel.stop, forward, now)
  \/ \E sel \in {Span(0, 0), find.active} \ {NoSpan}, with \in Inserts, now \in Elapsed :
       ReplaceNext(sel, with, now)
  \/ \E with \in Inserts : ReplaceEvery(with)
  \/ Refill

Spec == Init /\ [][Next]_vars

----------------------------------------------------------------------------
\* Every place of the text that the query fits.
Placements(t, q) ==
  IF LineScoped(q) THEN LineHits(t, q)
  ELSE {Span(p, p + Len(q.text)) : p \in {n \in 0..Len(t) : n + Len(q.text) <= Len(t) /\ Fits(t, q.text, n)}}

Overlap(r, s) == r.start < s.stop /\ s.start < r.stop

InBounds(f) == {r \in Placements(text, f.query) : r.start >= Bounds(f).start /\ r.stop <= Bounds(f).stop}

\* The windows an edit repairs leave what a fresh scan of the scope would find, up to the coverage:
\* real matches, none over another, and no room left for one more (a needle that overlaps itself
\* may be found in another phase). A scope that an edit let go of is searched again only by a scan,
\* and so is what a zone held beyond the cap.
ExactSet ==
  Matching(find.query) /\ ~find.dropped =>
    /\ find.spans \subseteq InBounds(find)
    /\ \A r, s \in find.spans : r # s => ~Overlap(r, s)
    /\ find.cut \/ \A r \in InBounds(find) : \E s \in find.spans : Overlap(r, s)

SelfOverlaps(q) == q.kind = "literal" /\ \E n \in 1..(Len(q.text) - 1) :
                     \A m \in 1..(Len(q.text) - n) : q.text[m] = q.text[m + n]

\* A capped set holds no more than the cap; while it is not marked for a refill it is the first
\* matches of the document, and a set that is not capped covers the text.
CappedPrefix ==
  /\ Cardinality(find.spans) <= Cap
  /\ find.stale => find.capped
  /\ Matching(find.query) /\ ~find.capped => find.coverage = Len(text)
  /\ Matching(find.query) /\ find.capped /\ ~find.stale /\ ~find.dropped =>
       /\ Cardinality(find.spans) = Cap
       /\ ~SelfOverlaps(find.query) /\ ~find.cut =>
            find.spans = First(Cap, ScanBuffer(text, find.query, Len(text) + 1, Searched(text, find.scope)))

\* The active match is one of the set, and its tracked start is where it starts: the ordinal shown,
\* and what a press of Replace is armed by, are read from that start.
ActiveIsLive ==
  /\ find.active = NoSpan <=> find.activeStart = NoOffset
  /\ find.active # NoSpan => find.active \in find.spans /\ find.active.start = find.activeStart

\* Whatever edits, scopes and queries there were, the match set, its cap and the active match
\* agree with the text.
FindIsTrue == ExactSet /\ CappedPrefix /\ ActiveIsLive

\* A new query or scope finds what one scan of the whole text does, seams of its windows or not.
FreshIsGreedy ==
  find'.query.kind = "literal" /\ Matching(find'.query) /\ ~find'.dropped
    /\ (find'.query # find.query \/ (text' = text /\ find'.scope # find.scope /\ SetScope(find'.scope)))
  => find'.spans = First(Cap, ScanLiteral(text, find'.query.text,
                                         Searched(text, find'.scope).start,
                                         Min({Searched(text, find'.scope).stop, Len(text)})))

\* A press of Replace that replaced selects the next match behind what it put in, or the first:
\* a step that does neither is not such a press.
ReplaceMovesOn ==
  text' # text /\ find.active # NoSpan /\ find'.active # NoSpan =>
  \A with \in Inserts :
    LET stop == find.active.start + Len(with)
    IN \/ find'.active.start >= stop
       \/ \A r \in find'.spans : r.start < stop
       \/ \A now \in Elapsed :
            ~(Armed(MaybeRescan(text, find, now), find.active) /\ ReplaceNext(find.active, with, now))

\* Replace All leaves no match of a query of one character, beyond the cap as well.
ReplacesBeyondTheCap ==
  find.query = Literal(<<"a">>) /\ find.scope = NoSpan /\ text' # text =>
  \A with \in Inserts :
    "a" \notin ToSet(with) /\ "a" \in ToSet(text') => ~ReplaceEvery(with)

\* What the find bar's commands do: a scan, Replace and Replace All.
CommandsFind == [][FreshIsGreedy /\ ReplaceMovesOn /\ ReplacesBeyondTheCap]_vars

\* "The scope then rides every edit's patch like any other derived position, growing when text is
\* typed at its edges and dropping if it collapses."
ScopeRides ==
  [][\A r \in RangesOf(text), with \in Inserts :
       Edit(<<EditOp(r.start, r.stop, with)>>) =>
         find'.scope = ScopeAfter(find.scope, PatchOf(Normalized(text, <<EditOp(r.start, r.stop, with)>>)))]_vars
=============================================================================
