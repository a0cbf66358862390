---------------------------- MODULE FrameDecoder ----------------------------
(***************************************************************************)
(* What reads a server's byte stream: transport/frame.rs's Decoder, fed by *)
(* transport/reader.rs with chunks as the system happens to cut them.      *)
(*                                                                         *)
(* A byte is "n" or "r" for a line feed or carriage return, "x" for a      *)
(* letter, ":", or a name of Field, which stands for a whole               *)
(* `Content-Length:` field with that number in it.                         *)
(***************************************************************************)
EXTENDS Naturals, Sequences, SequencesExt

CONSTANTS
  Pieces,                     \* what streams are made of: sequences of bytes
  MaxPieces,                  \* bound: pieces of a stream
  HeaderLimit, LineLimit,     \* HEADER_LIMIT and LINE_LIMIT
  BodyLimit, SkipLimit        \* BODY_LIMIT and SKIP_LIMIT

ASSUME FrameAssumption ==
  /\ {MaxPieces, HeaderLimit, LineLimit, BodyLimit, SkipLimit} \subseteq Nat
  /\ BodyLimit <= SkipLimit

VARIABLES
  stream,    \* all the server writes
  pushed,    \* how much of it was read
  decoder,   \* the Decoder; start and length belong to some of its states only
  items,     \* what was forwarded
  ended      \* the reader is done: at the end of the stream, or on a corrupt length

frameVars == <<stream, pushed, decoder, items, ended>>

Field == [C0 |-> 0, C2 |-> 2, C3 |-> 3, C4 |-> 4]
IsField(byte) == byte \in DOMAIN Field

Item(type, bytes) == <<[type |-> type, bytes |-> bytes]>>

Fresh == [buffer |-> <<>>, line |-> 0, scanned |-> 0, state |-> "Noise", start |-> 0, length |-> 0]

----------------------------------------------------------------------------
\* Lines, without their line feed.
AllReturns(bytes) == \A k \in DOMAIN bytes : bytes[k] = "r"
Strip(line) == IF line # <<>> /\ Last(line) = "r" THEN Front(line) ELSE line

\* classify, of a stripped line: a field with something but blanks behind it is not a number, and
\* one with a letter before it is another header.
Classify(line) ==
  LET colons == {k \in DOMAIN line : line[k] = ":" \/ IsField(line[k])}
      c == CHOOSE k \in colons : \A l \in colons : k <= l
      named == ~AllReturns(SubSeq(line, 1, c - 1))
  IN  CASE line = <<>> -> "Blank"
        [] line # <<>> /\ colons = {} -> "Other"
        [] colons # {} /\ named -> "Header"
        [] colons # {} /\ ~named ->
             IF IsField(line[c]) /\ AllReturns(SubSeq(line, c + 1, Len(line))) THEN "Length" ELSE "Other"

LengthOf(line) == Field[CHOOSE byte \in ToSet(line) : IsField(byte)]

\* noise: a line as text, if any.
NoiseLine(line) ==
  IF Strip(line) = <<>> THEN <<>>
  ELSE Item("Noise", SubSeq(Strip(line), 1, IF Len(Strip(line)) < LineLimit THEN Len(Strip(line)) ELSE LineLimit))

\* Where the next line feed is, behind the first from bytes, or 0.
LineFeed(bytes, from) ==
  LET feeds == {k \in from + 1 .. Len(bytes) : bytes[k] = "n"}
  IN  IF feeds = {} THEN 0 ELSE CHOOSE k \in feeds : \A l \in feeds : k <= l

\* abandon: the lines of a header block that was none.
RECURSIVE Abandoned(_)
Abandoned(block) ==
  LET feed == LineFeed(block, 0)
  IN  IF feed = 0 THEN NoiseLine(block)
      ELSE NoiseLine(SubSeq(block, 1, feed - 1)) \o Abandoned(SubSeq(block, feed + 1, Len(block)))

Size(length) == IF length <= BodyLimit THEN "Decode" ELSE IF length <= SkipLimit THEN "Skip" ELSE "Corrupt"

----------------------------------------------------------------------------
\* A step of the decoder: the decoder after it, and the items it produced.
Step(d, out) == [d |-> d, out |-> out]

Part(d, from, to) == SubSeq(d.buffer, from + 1, to)

\* partial: the rules for the line at the end that has no line feed yet.
Partial(d) ==
  LET tooLong == d.state = "Header" /\ Len(d.buffer) - d.start > HeaderLimit
      state == IF tooLong THEN "Noise" ELSE d.state
      out == IF tooLong THEN Abandoned(Part(d, d.start, d.line)) ELSE <<>>
      cut == state = "Noise" /\ Len(d.buffer) - d.line > LineLimit
      dropped == [d EXCEPT !.buffer = Part(d, 0, d.line), !.scanned = d.line, !.state = "Overlong"]
  IN  IF cut THEN Step(dropped, out \o NoiseLine(Part(d, d.line, d.line + LineLimit)))
      ELSE IF state = "Overlong" THEN Step(dropped, out)
      ELSE Step([d EXCEPT !.state = state], out)

\* A defect: what was searched for line feeds is not moved with the buffer.
CompactedAround(d) ==
  LET keep == IF d.state = "Header" THEN d.start ELSE d.line
  IN  [d EXCEPT !.buffer = Part(d, keep, Len(d.buffer)), !.line = @ - keep, !.start = 0]

\* compact: the consumed front of the buffer goes.
Compacted(d) ==
  LET keep == IF d.state = "Header" THEN d.start ELSE d.line
  IN  [d EXCEPT !.buffer = Part(d, keep, Len(d.buffer)),
                !.line = @ - keep, !.scanned = @ - keep, !.start = 0]

\* enter: the body a header block announced, whose first bytes may be buffered.
Enter(d) ==
  LET rest == Part(d, d.line, Len(d.buffer))
      at == [Fresh EXCEPT !.buffer = rest]
      after == [Fresh EXCEPT !.buffer = SubSeq(rest, d.length + 1, Len(rest))]
      whole == Len(rest) >= d.length
  IN  CASE Size(d.length) = "Decode" /\ whole -> Step(after, Item("Body", SubSeq(rest, 1, d.length)))
        [] Size(d.length) = "Decode" /\ ~whole ->
             Step([at EXCEPT !.state = "Body", !.length = d.length], <<>>)
        [] Size(d.length) = "Skip" /\ whole -> Step(after, Item("Skipped", <<>>))
        [] Size(d.length) = "Skip" /\ ~whole ->
             Step([Fresh EXCEPT !.state = "Skip", !.length = d.length - Len(rest)], Item("Skipped", <<>>))
        [] Size(d.length) = "Corrupt" -> Step([Fresh EXCEPT !.state = "Corrupt"], Item("Corrupt", <<>>))

\* One complete line that ends before the line feed at feed.
OnLine(d, feed) ==
  LET line == Strip(Part(d, d.line, feed - 1))
      kind == Classify(line)
      on == [d EXCEPT !.line = feed, !.scanned = feed]
      opened == [on EXCEPT !.state = "Header", !.start = d.line, !.length = LengthOf(line)]
      abandoned == Step([on EXCEPT !.state = "Noise"], Abandoned(Part(d, d.start, feed - 1)))
  IN  IF d.state = "Overlong" THEN Step([on EXCEPT !.state = "Noise"], <<>>)
      ELSE IF d.state = "Noise"
      THEN IF kind = "Length" THEN Step(opened, <<>>) ELSE Step(on, NoiseLine(Part(d, d.line, feed - 1)))
      ELSE CASE kind = "Length" -> Step(opened, Abandoned(Part(d, d.start, d.line - 1)))
             [] kind = "Header" -> IF feed - d.start > HeaderLimit THEN abandoned ELSE Step(on, <<>>)
             [] kind = "Other" -> abandoned
             [] kind = "Blank" -> Enter(on)

\* scan: every complete line, then the rest.
RECURSIVE Scanned(_, _)
Scanned(d, out) ==
  LET feed == LineFeed(d.buffer, d.scanned)
      partial == Partial([d EXCEPT !.scanned = Len(d.buffer)])
      next == OnLine(d, feed)
  IN  IF d.state \in {"Body", "Skip", "Corrupt"} THEN Step(d, out)
      ELSE IF feed = 0 THEN Step(Compacted(partial.d), out \o partial.out)
      ELSE Scanned(next.d, out \o next.out)

\* push: one read.
RECURSIVE Pushed(_, _, _)
Pushed(d, input, out) ==
  LET missing == d.length - (IF d.state = "Body" THEN Len(d.buffer) ELSE 0)
      taken == IF missing < Len(input) THEN missing ELSE Len(input)
      rest == SubSeq(input, taken + 1, Len(input))
      body == d.buffer \o SubSeq(input, 1, taken)
      scan == Scanned([d EXCEPT !.buffer = @ \o input], out)
  IN  CASE d.state = "Corrupt" -> Step(d, out)
        [] d.state = "Skip" ->
             IF taken < missing THEN Step([d EXCEPT !.length = missing - taken], out)
                                ELSE Pushed(Fresh, rest, out)
        [] d.state = "Body" ->
             IF taken < missing THEN Step([d EXCEPT !.buffer = body], out)
                                ELSE Pushed(Fresh, rest, out \o Item("Body", body))
        [] d.state \in {"Noise", "Overlong", "Header"} ->
             IF input = <<>> THEN Step(d, out) ELSE Pushed(scan.d, <<>>, scan.out)

----------------------------------------------------------------------------
AllStreams == {FlattenSeq(pieces) : pieces \in UNION {[1..n -> Pieces] : n \in 0..MaxPieces}}

FrameInit ==
  /\ stream \in AllStreams /\ pushed = 0
  /\ decoder = Fresh /\ items = <<>> /\ ended = FALSE

\* Reader::deliver forwards what a read produced, and stops behind a corrupt length.
Deliver(step) ==
  /\ decoder' = step.d
  /\ items' = items \o step.out
  /\ ended' = (step.d.state = "Corrupt")

Read ==
  /\ ~ended
  /\ \E upTo \in pushed + 1 .. Len(stream) :
       /\ Deliver(Pushed(decoder, SubSeq(stream, pushed + 1, upTo), <<>>))
       /\ pushed' = upTo
  /\ UNCHANGED stream

\* The end of the stream, with Decoder::finish: a last line that has no line feed.
ReadEnd ==
  /\ ~ended /\ pushed = Len(stream)
  /\ ended' = TRUE
  /\ items' = items \o
       (IF decoder.state = "Noise" THEN NoiseLine(Part(decoder, decoder.line, Len(decoder.buffer))) ELSE <<>>)
  /\ UNCHANGED <<stream, pushed, decoder>>

FrameNext == Read \/ ReadEnd

----------------------------------------------------------------------------
\* The base protocol, read off a whole prefix: a header block is a Content-Length line, other headers
\* and a blank line, and all that is neither a block nor a body is noise, line by line. Where a
\* line or a block reaches a limit it is "TooLong".
TooLong == Item("TooLong", <<>>)

RECURSIVE Grammar(_)
RECURSIVE Block(_, _, _)
Grammar(s) ==
  LET feed == LineFeed(s, 0)
      line == SubSeq(s, 1, feed - 1)
      rest == SubSeq(s, feed + 1, Len(s))
  IN  IF feed = 0 THEN IF Len(s) > LineLimit THEN TooLong ELSE <<>>
      ELSE IF Classify(Strip(line)) = "Length" THEN Block(s, rest, LengthOf(line))
      ELSE IF Len(line) > LineLimit THEN TooLong ELSE NoiseLine(line) \o Grammar(rest)

\* A block that starts with s, of which rest is still to read.
Block(s, rest, length) ==
  LET feed == LineFeed(rest, 0)
      line == SubSeq(rest, 1, feed - 1)
      after == SubSeq(rest, feed + 1, Len(rest))
      kind == Classify(Strip(line))
      far == Len(s) - Len(IF feed = 0 THEN <<>> ELSE after) > HeaderLimit
      whole == Len(after) >= length
      body == SubSeq(after, 1, length)
      beyond == Grammar(SubSeq(after, length + 1, Len(after)))
  IN  IF far THEN TooLong
      ELSE IF feed = 0 THEN <<>>
      ELSE CASE kind = "Header" -> Block(s, after, length)
             [] kind = "Length" -> Abandoned(SubSeq(s, 1, Len(s) - Len(rest))) \o Block(rest, after, LengthOf(line))
             [] kind = "Other" -> Abandoned(SubSeq(s, 1, Len(s) - Len(after))) \o Grammar(after)
             [] kind = "Blank" ->
                  CASE Size(length) = "Decode" -> IF whole THEN Item("Body", body) \o beyond ELSE <<>>
                    [] Size(length) = "Skip" -> Item("Skipped", <<>>) \o (IF whole THEN beyond ELSE <<>>)
                    [] Size(length) = "Corrupt" -> Item("Corrupt", <<>>)

\* Decoder::push: however the stream is cut into reads, what comes out of them is what its grammar
\* says, while the stream goes on and wherever no line or header block reaches its limit; and the
\* buffer stays bounded by the limits, whatever a server writes and however it is cut.
FramesAreTrue ==
  /\ ~ended =>
       LET true == Grammar(SubSeq(stream, 1, pushed))
       IN  TooLong[1] \notin ToSet(true) => items = true
  /\ decoder.state = "Noise" => Len(decoder.buffer) <= LineLimit
  /\ decoder.state = "Header" => Len(decoder.buffer) <= HeaderLimit
  /\ decoder.state \in {"Overlong", "Skip", "Corrupt"} => decoder.buffer = <<>>
  /\ decoder.state = "Body" => Len(decoder.buffer) < decoder.length /\ decoder.length <= BodyLimit
=============================================================================
