# Matcha in TLA+

Matcha is a code editor in three crates: `matcha-core` (the document engine), `matcha-lsp`
(a language server client) and `matcha-iced` (the widget that puts both on a screen). This
directory holds TLA+ modules of the parts whose correctness depends on the *order* of things,
the TLC configurations that check them on small instances, and TLAPS proofs of what holds for
every instance.

To check a run: `tlc -config bridge_restarts.cfg StdioBridge`. To check the proofs of a module:
`tlapm StdioBridgeProofs.tla`. `PROJECT.json` maps every definition to the source lines it
stands for, and lists the runs, the hazards and, for each property, a defect of the code that
breaks it (the definitions marked "A defect:" in the modules).

## 1. The system

| Part | Where | State it keeps | Operations that change it | Threads |
|---|---|---|---|---|
| Client and recovery | `matcha-lsp/src/client.rs`, `client/recovery.rs`, `client/events.rs`, `restart.rs` | connection (live, reconnecting, stopped, shut), generation, attempt, loss window, status | `open`, `sync`, requests (passed to the session), `restart`, `shutdown`, drop, `receive` of each event | the host's |
| Stdio bridge | `transport/stdio.rs`, `lifecycle.rs`, `reader.rs`, `writer.rs` | supervisor state, its generation, child, deadline; backlog of the writer | control messages, thread notices, ticks of its timers | supervisor, 2 readers and a writer per process |
| Socket bridges | `transport/socket.rs`, `tcp.rs`, `websocket/native*` | as stdio, with dials in place of processes and a budget for the first | the same, plus a mode that accepts one connection | worker, reader and writer, or one I/O loop |
| Browser bridge | `transport/websocket/browser.rs` | the task's state and generation, the page's socket, signals of its callbacks | control messages, signals, timers; the callbacks themselves | the page's one thread |
| Memory bridge | `transport/memory*` | queue, waker, whether the watcher is armed | send, poll, watcher wake-ups | poller, watcher |
| Writer backlog guard | `transport/writer.rs` | the count of unwritten bytes, whether it tripped | send, write | two senders, one writer |
| Framing | `transport/frame.rs`, `reader.rs` | the decoder's state and buffer | chunks in, frames out | reader |
| LSP session | `session.rs`, `session/capabilities.rs` | registered documents, versions, synced snapshots, cached diagnostics, requests in flight, hint sets | `open`, `close`, `sync`, each request, each reply, each notification, the connection's hooks | the host's |
| Completion sessions, tickets | `completion.rs`, `matcha-core/src/intel/ticket.rs` | revision, caret, items of the latest list; a counter | `continues`, `answer`; `issue` | the host's |
| Document | `matcha-core/src/document.rs` | buffer and revision, undo tree, change log, diagnostics, selections, folds, brackets, highlights, find matches | `edit_grouped`, `undo`, `redo`, caret moves, `mark_saved`, `set_undo_limit`, `observe_changes`, `drain_changes`, `set_diagnostics`, fold gestures | the host's |
| Undo tree | `history.rs` | nodes, current node, open unit, version ids, limit | `record`, `undo`, `redo`, `select_redo_branch`, `set_max_undo`, `mark_saved`, `seal` | the host's |
| Transactions and patches | `transaction.rs`, `patch.rs` | none | `apply`, `map_offset` | the host's |
| Brackets, folds, selections | `bracket*.rs`, `fold_map.rs`, `row_layout.rs`, `selection.rs` | offsets and rows that ride patches, and a cached fold map | splices, fold and unfold, reconciling | the host's |
| Find | `find.rs` | query, scope, match set, active match | scan, repair at each commit, step, replace | the host's |
| Highlighting | `highlight*`, and `matcha-iced/src/highlight_pool.rs` | per-line parser states, a window, checkpoints, dirty rows; jobs and a verified chain | edits, budgets, segments arriving | the host's and a pool |
| Code editor | `matcha-iced/src/code_editor*`, `matcha-core/src/intel*` | which client and session an editor belongs to, slots that wait, the popup | events, `sync_lsp`, `land` | the host's |
| Text storage, conversions, widgets | `rope.rs`, `sum_tree.rs`, `encoding.rs`, `edits.rs`, `editor.rs`, ... | a tree; input and drawing state | splices; UI events | the host's |

How they interact:

- The host owns a `Client` and polls an `Events` stream. The client talks to its bridge's
  worker through one inbox, which the reader and writer threads of the connection share; the
  worker, and the client itself, report into the event stream. What the host polled waits in
  its own queue until it calls `receive()`.
- Both sides count connections (generations), and each moves on by itself: the client when it
  restarts or stops, the worker when it loses a server. Messages that crossed are told by the
  generation they carry.
- The client passes documents, requests and replies on to its `Session`, and tells it when a
  connection comes and goes. The session knows the editors' texts only by what `sync()` hands
  over: a snapshot and a drained change log.
- A commit of a document goes through one transaction: the text, the inverse for undo, the
  entry of the change log and the patch every view rides come from the same normalized batch.
  Undo and redo are commits too.
- An editor records what it wants while it handles events; `sync_lsp` sends that, and lands
  what the client can answer by itself; other answers land later, if the slot still waits.

What is hard about it: messages that cross between threads that never wait for each other;
servers that crash, hang, refuse or answer an old connection; replies, publishes, callbacks and
segments that arrive after what they are about has changed; edges and wake-ups announced once;
and long sequences of legal calls on trees and caches that are repaired rather than rebuilt.

What makes each part correct:

- *bridges*: one server at a time, none left behind; decisions take effect under the right
  generation; nobody waits for ever; a shutdown is polite and final; the status is true.
- *pipes*: nothing sent is left lying, a server that does not read is noticed, and a frame is
  the same however the stream is cut.
- *session*: the server's copies are the synced texts; diagnostics and edits reach only the text
  they were computed on; an editor that waits is answered; servers cannot make the client ask
  for ever.
- *document*: undo restores exactly what an edit took away; the dirty flag is about the text; the
  change log leads an observer to the text; views follow the text and hide nothing that changes.
- *highlighting and find*: what is repaired is what a fresh computation gives, and ends.
- *editor*: an answer lands only where it was asked for, and none is lost.

## 2. The modules

```
BridgeChannels                                       MemoryInbox  WritePump  FrameDecoder
   |-- ClientRecovery                                      \          |          /
   |-- StdioSupervisor   StdioBridge   -> OneServer                 MCPipes
   |-- SocketWorker      SocketBridge  \
   |-- BrowserTask       BrowserBridge -- MCSocketBridges -> OneServer

SessionDocuments -- SessionRequests -- LspSession -- MCLspSession

Transaction -- UndoHistory -- DocumentEdits -- MCDocumentEdits
     |-- Brackets -- FoldMaps \
     |-- Selections ---------- DocumentViews -- MCDocumentViews
     |-- FindMatches -- MCFindMatches

LineStates -- HighlightSegments -- HighlightSweep -- MCHighlightSweep
EditorSlots -- CodeEditor
```

A line is EXTENDS, an arrow is "implements" (INSTANCE with a refinement mapping). Each `...Bridge`
extends `ClientRecovery` and its worker.

### The bridges

`BridgeChannels` has the inbox (`notices`), the event feed (`events`) and what a connection was
sent (`sent`). `ClientRecovery` has the client's calls, `Poll` (`Events::poll_next`) and one
`Receive...` action per event; it is the same under every bridge.

- Every call of the host is one action, except `restart()`, which tells the worker *before* it
  queues its own status: `RestartCall` and `RestartReturn`, between which worker and poller run.
- Time is a choice: a deadline, a drain, a grace period, a budget or a backoff may end at any
  moment, and `Admit` chooses whether the oldest recorded loss has left the window.
- A server answers each request once, may refuse `initialize`, may fail at any moment, and may
  ignore `exit`. A reader may be arbitrarily slow, so an old server's messages arrive under the
  next one. Of a process's two readers only stdout's is kept.
- Document traffic, log lines and traces move no state of the lifecycle and are left out.

`StdioSupervisor` has one `On...` action per notice of `Supervisor::notice` and `control`, one
action per outcome of `Supervisor::tick`, and the processes and threads themselves.
`SocketWorker` has the same for `Worker` in `socket.rs`, in both its modes: dialing, with a budget
for the first connection and redials after a loss, or accepting one connection. `BrowserTask` has
`Task::control`, `Task::signal` and `Task::tick` of `browser.rs` in the order `poll_wake` looks at
them, and the callbacks of the page's socket: on one thread, but through a queue of signals that
outlives the socket it is about.

`MCSocketBridges` puts the two bridges to a socket into one specification (`AnySpec`): each
behaviour has one of them, chosen by `mode`, and one set of properties is asked of both.

`OneServer` is the abstract specification: one server or connection at a time, each under a newer
generation, and none after the end. `StdioBridge` implements it with `newest <- child`,
`running <- procs`, `over <- sup = "Done"`, and `MCSocketBridges` with the last socket opened and
the sockets that are open.

### What carries bytes

`MemoryInbox` has the poll of the in-process bridge's inbox and its watcher thread, one access to
what they share at a step. `WritePump` has a connection's queue with its count of unwritten bytes
and the guard that trips on it, two senders, and what drains the queue: the writer thread, or the
edge-triggered loop of the native WebSocket, which also reads. `FrameDecoder` has `Decoder::push`
state by state, fed with a stream cut anywhere. `MCPipes` runs one of the three per behaviour.

### The session

`SessionDocuments` has the registered documents, versions, synchronisation and diagnostics;
`SessionRequests` the table of requests in flight and every reply; `LspSession` the calls that
touch both (`Open`, `Close`, `Shutdown`, `Disconnected`, `Reinitialize`) and the properties.

- A text is `<<document, revision>>`. The server applies what it is sent at once; what it
  publishes waits in `inbox`, and what it replies is decided when the reply is taken, from the
  copies it had when it read the request (`ServerReads`, `view`). A delay on the way to the
  server adds nothing to these: the server would see the same text later.
- A change log is abstracted to the revisions it leads from and to, and whether the session may
  send its ranges is what `session::incremental` decides. A server that is sent ranges against
  another text than it holds loses track of it (`Garbled`).
- `owed` is the editor's side: the ticket its slot waits under. It has the code's rule that an
  answer under an older ticket is ignored. `silenced` and `disturbed` are history variables: the
  tickets a server's reply left without an answer, and the files opened or closed since a request.
- Left out: `didSave`, `workspace/configuration`, the wording of answers, filtering of items.

### The document

`Transaction` and `UndoHistory` are operators on texts and on a history; `DocumentEdits` has the
document's operations, which call them in the code's order: normalize, refuse an overlap, splice,
bump the revision, move the diagnostic, record for undo, prune, log.

- Characters are one byte and no character is written twice, so that one that survives can be
  told by its value. Clipping to character boundaries, folding of line ends and the bound on the
  length are left out. Ranges are any range of the text, also one handed over backwards and past
  the end.
- The undo tree keeps its nodes under ids that are never used again. The code renumbers its arena
  when it prunes; order and shape are the same.
- The observer is what a language client is: it keeps a text and, at a drain, replays the log onto
  it when the log starts there. `standing` and `saved` are history variables.

`DocumentViews` has what a commit moves along: brackets (`Brackets`, spliced and queried as the
tree does, over any cut of the sequence into runs), folds and the cached fold map (`FoldMaps`),
and carets (`Selections`). `FindMatches` has the match set: scanned when query or scope change,
repaired in windows at every commit, each scanned up to the cap, stepped and replaced. Both keep the order of
`document.rs`'s commit; their properties compare what was repaired with
what the text alone gives.

### Highlighting

`LineStates` is the line-state cache with its window, checkpoints, dirty rows and budgeted walk;
`HighlightSegments` tokenizes segments apart from it and absorbs them; `HighlightSweep` is the editor
that drives both, with the pool's workers, speculation from guessed states, and the chain that verifies
them. A commit moves the checkpoints before it probes for the state below an edited row, as the code
does; `misled` notes that a probe met a moved one. Three kinds of line stand for a grammar; a colour is
the state and the line it was computed from, so that a stale one shows.

### The editor

`EditorSlots` is the record an editor keeps (the caret's line, the popup, a slot per kind of
request, the hint scheduler) with the tail every edit runs; `CodeEditor` has the user's events, the
host's calls, `sync_lsp` with its two passes, and answers that come later. Of the typing verbs it
has what moves the caret against the text: a pair that is inserted, typed over or deleted whole. An
undo or a redo may take an inserted hint's text out or put it back. The client is taken
from what the editor sees of it: answers at once or later, in any order.

## 3. The runs

| Run | What it asks | Bounds | States |
|---|---|---|---|
| `bridge_restarts` | generations never cross wrongly, no standoff, politeness, a final shutdown, a true status the host was told; refines `OneServer` | one `restart()`, one fault, one restart allowed, a deadline | 1.3 M |
| `bridge_losses` | losses and what must eventually follow them | two faults, one restart allowed, fair threads | 0.12 M |
| `socket_bridges` | the same of a dialing or accepting worker and of the page's task | `restart()` and faults two together, one restart allowed, deadlines, fair threads | 0.35 M |
| `pipes` | no lost wake-up or edge, the backlog's count and guard, frames however cut | 2 messages, room for 1, reads of 1; 3 pieces of input | 0.13 M |
| `session_documents` | the server's copies, diagnostics and their cache; spans fit the text they land on | 2 documents, 2 files, 2 edits, 3 opens, 2 connections, 1 publish under way, 1 ticket, every kind of synchronisation | 1.3 M |
| `session_requests` | waiting editors, the table of requests, reissues | 1 document, 3 tickets of 4 kinds (completion, signature, hints, a hint's tooltip), 1 edit, 2 opens, carets 0..1 | 0.76 M |
| `document_history` | undo is exact, clean means saved, the log replays, the limit | 3 edits under every hint, in batches of up to 2, 4 commits, limits none, 0 and 1, a log of 2 entries | 0.95 M |
| `document_views` | brackets, folds, the fold map and carets follow the text | a text of a few lines, 1 edit of up to 2 carets, 2 gestures, with undo and redo | 0.17 M |
| `find_matches` | the match set is what a scan finds; the find bar's commands | texts up to 4 and two of 5 and 6, a cap of 2, windows of 2 | 0.04 M |
| `highlight_sweep` | settled colours are true, and the sweep ends | texts of 4 rows below and above the pool's size, a window of 3, 1 worker, budgets of 1 and 2, two gestures | 0.25 M |
| `editor_intel` | answers fit the caret, none is lost, hints come | 4 events, 2 between syncs, the rarer ones counting for 2 | 0.46 M |
| `editor_popup` | (violated) an open popup is anchored at the caret's word | as `editor_intel` | |

Why these bounds are worth something. In the bridges, a generation is decided by at most two parties,
and what can go wrong needs a loss to cross a restart or a second loss to fall into the recovery of the
first: one restart with one fault, and two faults. With one restart allowed every verdict of the window
occurs. Any number of them is what the proofs are for. In `session_documents` three opens of two
documents under two files include a close and a reopen of each, the swap of a file between documents and
the reverse, with a publish of either incarnation under way (`OneTopic` keeps a behaviour to either
diagnostics or a reply that names other files). In `session_requests` three tickets are what an
adoption, a supersession and a late reply need. In `document_history` three edits are what a branch
under a pruned base needs, and a log of two entries overflows in the middle of an undo of a merged unit;
`MaxEffort` counts edits and settings together. In `session_requests` a plain hover is left out, since
it is asked and answered as the hints are, and its answer by a tooltip's. In `highlight_sweep`,
`MaxEffort` is spent by gestures, at a price below and one above the pool's size (`SoloCost`,
`PoolCost`); two of them are what is needed: an edit while a segment of the sweep before is still out,
and an edit while a budget that ran out waits to resume. Size is counted in bytes, so a row replaced by
a long one takes a document past it. In `editor_intel` two events between syncs are what makes an answer
stale in the pass that lands it, and four what makes it so after it was sent. In `pipes`, room for one
of two messages makes a write block, and three pieces split a header, a line end and a body.

Documents and files are symmetric in `session_documents`, which has invariants only.
`CHECK_DEADLOCK FALSE` is in every configuration because the system does stop: a bridge after its
shutdown, a session that is over, and a host that may at any time call nothing more.

**Fairness.** *Bridges* (`FairSpec`, `AnyFairness`): the worker or task takes what it is told and
its timers run out; a dial ends one way or the other; a reader reads what is in its pipe; a server
that was asked answers, or is gone; the host polls the stream and receives what it polled;
`restart()` returns; the page calls its callbacks. There is no fairness on the host's calls, on
failures, on a server's exit (not even after `exit` was sent), on a server that should dial in, or on
a deadline: no liveness property rests on a server being well behaved beyond its answers. A dropped
client is polled no more: the properties that wait for the host make an exception of it, and still
ask for the server's end. *Pipes* (`PipeFairness`): a task that is woken is polled, and threads run;
nothing polls the inbox that was not woken. *Highlighting* (`FairSpec`): frames come while the
subscription asks for them, and the pool's threads run.

## 4. What the properties say

*Bridges.* `NeverBehind` is the `debug_assert!` of `Supervisor::control` (`Worker::control`,
`Task::control`). `NoStandoff` says that once nothing is on its way, client and worker agree on
what they wait for. `RunsOneServer` and `AnyRunsOneConnection` are the refinements of `OneServer`.
`PoliteGoodbye` is about the shutdown request, which is sent on what the client believed of a
connection that may have been replaced. `ShutIsFinal`, `StopsAtOnce` and
`LetGoBeforeReconnect` state what the client's documentation and assertions promise. `HostIsTold`
says that `Client::status` is true of the bridge once nothing is on its way (a running server is
the one the supervisor holds and answered, after a stop none comes by itself), and that the host
was told it, with restarts and losses crossing; the announcement of `restart()` itself is excepted.
`RecoveryEnds` and `AnyLiveness` are the liveness properties. `AnySafety` gathers, of the bridges to a
socket, the types, `NeverBehind` and `PoliteGoodbye`; and of the page's also `SocketIsKnown` (a
signal of a dropped socket never passes for the next one's) and `AnnouncedFirst` (a client hears of
a connection before it gets a message of it). `Inv` is the inductive invariant of section 5, run
so that TLC sees it before the prover does.

*Pipes.* `NoLostWakeup` is about the memory bridge's arm protocol: a task that sleeps has its waker
stored and the watcher on its way. `GuardIsExact`: the count is what is queued, held or about to be.
`GuardTrips`: past the limit it has tripped, or is about to, and says so once. Neither says in which
order messages leave. `FramesAreTrue` compares the decoder with a grammar of the stream, wherever no
limit is reached and while the stream goes on: the last flush after its end is run, not compared.
`PipesRun`: what is sent is delivered or written.

*Session.* `ServerHasSynced`, `DiagnosticsFit` and `CacheIsCurrent` relate the server's copies and
publishes to the synced texts. `InFlightIsOwed`: the newest ticket is never lost, but by a reply that
has no answer (section 6), and the unsigned subtraction in `completion.rs` never underflows.
`BoundedReissue`: servers cannot make the client ask for ever. `LandedFits` relates the text a rename,
format or definition was computed on, the one it was converted against and the one it lands on.

*Document.* `HistoryIsExact` (undo and redo give back what was), `CleanIsSaved`,
`EditsKeepTheLimit`; `CommitsAreFollowed` (the change log replays, a diagnostic stays on its
characters); `ViewsFollowTheText` (brackets and folds are what the text makes them),
`PlainEditsKeepTheMap` (so is the cached fold map after edits without brackets), `ChangesAreSeen`
(nothing changes, and no caret stays, inside a closed fold). `FindIsTrue` (no
match is missing, none is false, and the set says when it is cut, until a repair's zone held more
than the cap), `CommandsFind`.

*Highlighting.* `ColoursAreTrue`: what is above the frontier, and what the pool's chain verified, is
what a tokenizer would give from the top, unless a probe was misled. `SettlesInTheEnd`: once gestures
end, so does the sweep, with everything shown painted.

*Editor.* `AnswersFitTheCaret` (but for a closer typed over), `LocalAnswersLand`, `HintsAreFetched`
(hints are always on their way, and never shown beside their own text, but after a redo), `SyncSettles`
(a sync leaves nothing unsent, but for one case below).

## 5. What is proved

The proofs are for every value of the constants. The assumptions are the types of the constants
(`PolicyAssumption`, `SupervisorAssumption`, `WorkerAssumption`, `UpsetsAssumption`, those of the
session, the editor and the pipes), and TLC evaluates them in the runs.

| Module | Theorem | Statement |
|---|---|---|
| `StdioBridgeProofs` | `TypeCorrect` | `Spec => []TypeOK` |
| | `Invariance`, `BridgeInvariance` | `Spec => []IInv`, `Spec => []Inv` |
| | `RestartsNeverBehind`, `SupervisorOneAhead` | `[]NeverBehind`, `[]OneAhead` |
| | `NoOrphanedServer`, `ImplementsOneServer` | `[]NoOrphan`, `Spec => RunsOneServer` |
| | `GoodbyeIsPolite`, `GoodbyeIsFinal` | `[]PoliteGoodbye`, `ShutIsFinal` |
| | `FirstServerStopsAtOnce`, `SessionLetGo` | `[]StopsAtOnce`, `[]LetGoBeforeReconnect` |
| | `NeverAStandoff` | `[]NoStandoff` |
| | `HostHearsOfIt` | `[]HostIsTold` |
| `SocketBridgesProofs` | `SocketsAreSafe` | `AnySpec => []AnySafety` |
| | `SocketsAreOneSlot` | `AnySpec => AnyRunsOneConnection` |
| | `NeverAnyStandoff` | `AnySpec => []AnyStandoff` |
| `SessionProofs` | `TheServerFollows`, `DiagnosticsAreTrue`, `TheCacheIsCurrent` | `[]ServerHasSynced`, `[]DiagnosticsFit`, `[]CacheIsCurrent` |
| | `EditorsDoNotHang`, `TicketsCostABounded`, `SpansFit` | `[]InFlightIsOwed`, `[]BoundedReissue`, `[]LandedFits` |
| `EditorProofs` | `AnswersLandInPlace`, `OwnAnswersLand` | `[]AnswersFitTheCaret`, `[]LocalAnswersLand` |
| | `HintsComeOnce`, `SyncsSettle` | `[]HintsAreFetched`, `Spec => SyncSettles` |
| `DocumentProofs` | `TheHistoryIsExact`, `ACleanDocumentIsSaved` | `[]HistoryIsExact`, `[]CleanIsSaved` |
| | `CommitsAreAlwaysFollowed`, `TheLimitIsKept` | `[]CommitsAreFollowed`, `Spec => EditsKeepTheLimit` |
| `PipeProofs` | `NoWakeupIsLost`, `GuardAlwaysTrips` | `[]NoLostWakeup`, `[]GuardTrips` |
| | `TheCountIsExact` | `[]GuardIsExact` |

`ClientRecoveryProofs` has what a step of the client does to its two channels whatever worker is at
the other end, the argument on the order of generations, which the bridges share, and what keeps a
client and any worker in step; `BrowserBridgeProofs` has the lemmas on the page's bridge.

**Generations** (`IInv`, and `WorkerInOrder` for the other bridges). `NeverBehind` is not inductive:
whether a restart in the inbox is behind depends on where the worker will be when it reads it, so on
every decision queued before it. The client has moved past whatever it told the worker
(`ToldIsReached`), so a later decision is always newer, and a restart in the inbox is newer than all
before it (`RestartsAreNewer`); so the worker, following those before it, stays short of it, except
that a loss of its own may bring it level, and there it waits (`RestartsAreAhead`, `OneAhead`).
`ChildIsBehind`, `NoOrphan` (`SocketIsBehind`, `OneSocket`) add what the refinement needs: what starts
has a newer generation than the last, and nothing else runs.

**The handshake** (`HandshakeInv`, `HandshakeIsTrue`). Whoever believes that a server answered
`initialize` (the pipe, a message in flight, the client's session, a shutdown notice on its way)
names a generation that did, so a shutdown request acted on for the worker's generation goes to
a server that answered.

**The first server** (`FirstServerInv`). Until a server answered or the host called `restart()`, the
child is the first one, the supervisor is in no backoff, and nothing in its inbox could put it there.

**No standoff** (`StandoffInv`). A loss in flight that is not moot implies a supervisor that waits
one generation ahead with nothing decided for it; a fresh `Reconnected` or `Attempting` implies that
nothing is decided; a restart at the head of the inbox is the last decision or followed by a newer
one. So when nothing is on its way, neither dropped the other's last word.

**No standoff over sockets** (`InStep`, in `SocketStands` and `TaskStands`). `AnyStandoff` speaks of
quiet states only, and how one is reached is all in what was on its way before. The client is taken
as seen from the other end (`ClientSeen`: what it waits for, what it told, what is due to it), and
the worker or task as seen by the client (`WorkerSeen`: its generation, the newest connection it
made, whether it ends with that one, as a listener does, and which of six parts it plays). With every
decision heard, the worker does what the client expects or its own word to the contrary is due
(`HeardAndDone`); with one unheard, the worker is where that decision moves it as expected
(`UnheardAndDue`); news is never ahead of its sender (`NewsIsOld`), a goodbye is heeded
(`GoodbyeHeeded`) and nobody leaves unasked but a listener (`GoesUnasked`, `AloneForGood`). That only
restarts follow another decision (`OnlyRestartsFollow`) keeps a stop or a reconnect from being
overtaken. `ClientStaysInStep` holds for whatever worker, and each thing a worker may do (serve, try
again, fail again, lose, rest, restart, leave, go) is one lemma on views; a step of the socket worker or of
the page's task is one of them. A task still dialing may have a socket open that it has yet to hear
of; its part is then to serve, by `OpensOnce` and `OpeningComes` (`NothingOpened`).

**The page's socket** (`BrowserInv`). The socket the task holds is the last one opened, and its
`Opened` signal comes before its `Closed` (`OpeningComes`); so a task that still dials and has no
opening on its way holds a generation under which nothing opened, and the next socket to open is
newer (`OpensOnce`). Messages are of generations that opened, announcements of ones newer than all
before (`MessagesFollow`), and a dropped socket hands out nothing, which gives `AnnouncedFirst`.
`SocketsAreSafe` and `SocketsAreOneSlot` put this and the threads' bridge together: `mode` never
changes, and the other bridge's variables stand still. The page's lemmas are used through an
instance with `Timed <- TRUE`, shown to be the one the runs check by expanding both sides.

**The session's documents.** Versions are high-water marks, so an old copy that has the present version
has the present text, and a publish accepted under it was computed on it.

**The session's requests.** One request per document and kind is in flight, so the reply's ticket is the
slot's; what a reply with no answer leaves waiting is in `silenced`. What a ticket may still cost is a
potential (what may be reissued, what moved, what is being resolved) that each round spends.
`LandedInv`: what a request recorded and what the server saw of it are old states of a file nobody
opened or closed, between the two texts compared, so when the ends agree the middle does too.

**The editor** (`EditorInv`). An answer is accepted if its ticket is the one awaited at this revision,
so `Fits` says that a completion or a definition awaited at this revision was asked for at this caret,
or that the caret has strayed since; every text change outdates tickets (none is newer than the editor),
every stray is one they have not seen, and the tail retires them, but for a definition when a closer is
typed over: the editor then keeps the ticket it did so under (`overtyped`). What is recorded is awaited,
and a gesture's ticket is no slot's (`Slots`, `GestureApart`), so in a pass nothing landed first takes
the slot of what lands later (`Passing`). For the hints, the tail has seen every text but the one that
is being changed (`seen`), and it waits for that; a pass that takes the request for hints away either
lands its answer or sends it (`PassHeld`). A hint shown beside its own text was fetched before the redo
that put the text back (`undone`, `redone`). The first pass leaves no gesture, and only a gesture
changes the text, so a second pass is the last (`PassKeeps`). Each operator on the slots has one lemma
on what it changes (`Beside`) and the events are compositions of them.

**The pipes** (`InboxInv`, `GuardInv`). The flag `armed` stands for one token, about to be sent, in
the channel, or received and not yet disarmed (`ArmedOnce`); so there is one at most, a task that
goes to sleep finds the thread on its way, and the thread finds its waker (`WakerIsSeen`). Whoever
takes the guard's count past the limit has yet to test it, so `GuardTrips` is inductive with the
types. `GuardIsExact` is too: each step moves a message from one term of the sum to the next, and the
sum over a queue is that of its rest and its head.

**The status** (`StatusInv`). The status follows the connection and its session (`StatusFits`), whoever
changes them: `receive()` returns what it changed, and `restart()` has its announcement on its way until
it is received (`AnnouncementComing`), after which the host was told that or something newer. When nothing
is on its way the connection's own story is the bridge's: `NoStandoff` gives the supervisor's state,
`NoOrphan` that no other server runs, and `BeliefIsTrue` that a session said to run is of a server that
answered.

**The document** (`DocInv`). Two invariants, of an observer's mirror and a squiggle (`Sound`) and of a
history (`Whole`). *The history*: every unit leads from the text its parent was left with to the one
it was left with, step by step, and each step's inverse leads back (`Led`); so undo and redo give back
what was, however units were merged, pruned and branched, and each edit on the way is accepted.
Versions are unique to their nodes, but for the saved node, whose text a merge may have changed
since. If so it is another text, by the kind of the unit: a typed unit has characters it had not, a
deleted one is shorter (`Drifted`); so a document of the saved version has the saved text. Preferred
children lie on the line to the current node, so redo retraces undo (`Retraces`), and pruning keeps the
part of the tree under a node of that line. *The commits*: each entry of the log leads from its
`before`, which is where the one before it led (`Chained`), and a squiggle whose character was not taken out
covers it, wherever the batch moved it (`Pinned`).

Both rest on what a batch does. `Normalized` sorts the edits that change something; laid along the text,
a batch is a sequence of strides (`Laid`, `Strides`): keep up to a start, write, skip what was there.
`Applied`, which splices from the back, gives the text laid (`AppliedMid`); the inverse operations,
which `InverseOps` places by the growth of those before, are laid along that text with kept and taken
parts changing places (`InverseNormal`, `InverseLeadsBack`); `MapOffset` finds an offset between the
strides (`OffsetLands`). These are folds and recursive functions over sequences of any length. The
library's induction theorems cannot be instantiated, but that a set of numbers that is not empty has a
least member has no operator in its statement (`LeastNat`, from `WFMin`). So each is shown by least
counterexample: the function that the definition chooses exists (`FoldExists`, `LineExists`,
`OrderExists`), it is the only one (`TracesAgree`), and it goes one step at a time (`FoldOneMore`).

What stays with TLC, and why:

- liveness (`RecoveryEnds`, `AnyLiveness`, `PipesRun`, `SettlesInTheEnd`): out of the prover's reach
  under fairness;
- `FramesAreTrue` and `ColoursAreTrue` are about RECURSIVE operators, and the prover loses its SMT
  backend in a module that reaches one;
- `ViewsFollowTheText`, `PlainEditsKeepTheMap`, `ChangesAreSeen`, `FindIsTrue` and `CommandsFind` compare
  what a commit repaired with brackets matched, folds built and matches found in the text alone. What
  the proofs on batches say of offsets is a first part of that; what matching gives on a spliced
  sequence, and a scan on a window, is not proved.

## 6. What the code does otherwise than it says

A run shows this one:

| Run | Where | What |
|---|---|---|
| `editor_popup` | `code_editor.rs:1781` | a typed character that neither continues a word nor triggers leaves an open popup over the word before |

The following were met while modelling. Where a property that states it is defined (its name is
given) it is in the module and no run checks it; the properties that are run are stated so that
they say what the code does keep.

| Where | What |
|---|---|
| `client/recovery.rs:186` | `restart()` tells the worker before it queues its own `Restarting{1}`; a fast failure is then reported before it, and the last update `receive()` returned is not `Client::status`, against `client.rs:191` (`HostIsTold` excepts this announcement) |
| `session.rs:1451` | a rename compares revision numbers per URI, and a new document starts again at 0: a file reopened as a new document may receive edits computed on the old text (`LandedAlwaysFits`; `LandedFits` excepts disturbed files) |
| `session.rs:855` | `shutdown()` leaves the version of a document set while `sync()` goes on moving its snapshot: a late publish is stamped with a revision it was not computed on (`DiagnosticsFitStamp`; `DiagnosticsFit` ends with the session) |
| `session.rs:902`, `:944` | a reply that says cancelled, or modified for the second time, is answered with nothing, and the slot waits, with nothing in flight, until the user makes it ask again (`InFlightIsOwed` excepts `silenced` tickets) |
| `session.rs:215` | `open()` of a document already registered cancels its requests without settling them; the editor abandons its slots first, so nobody hangs |
| `patch.rs:102` | of two edits of one batch at an offset the first decides: a `NeverGrows` range takes in the text of the second |
| `history.rs:317` | a limit set while edits are undone prunes nothing ahead of the current node, and redo then exceeds it until the next edit |
| `document.rs:1210` | the cached fold map is shifted although a fold moved onto another bracket or lay hidden behind another block; it then differs from a fresh build (`CachedMapIsFresh`) |
| `document.rs:1186` | where strings are told apart, typing a quote hides brackets although none was typed, and no fold is checked |
| `highlight/line_state.rs:602` | checkpoints are moved before the state below an edited row is probed (`:1099`, which says it reads what was before), so a checkpoint moved onto that row stands for it: after an edit of two carets, or a deletion across the window's edge, the walk may stop too early and leave stale colours below, against `:571` (`ColoursAreTrue` and `SettlesInTheEnd` except `misled` behaviours) |
| `highlight/dirty_ranges.rs:113` | a run of dirty rows whose end an edit spans keeps rows past the end of the document, and an idle document asks for frames for ever (`SweepStops`) |
| `code_editor.rs:679` | `set_theme` leaves the pool's engine with the theme it was made with: a sweep under way, or begun later, settles in the old colours (`SettledColoursAreTrue`) |
| `code_editor.rs` | a signature box asked for again because a label's jump moved the caret is not sent in the sync that did it (`SyncSendsAll`; `SyncSettles` excepts it); answers still land after a jump of the find bar, of a snippet stop or of a fold; `load` does not run the tail every edit runs |
| `verbs.rs:96` | typing over a closer moves the caret at the same revision, and the tail keeps the definition awaited (`code_editor.rs:1755`): it lands with the caret moved, against `code_editor.rs:779` (`AnswersFitTheCaret` excepts it) |
| `document.rs:1307` | a redo puts an inserted hint's text back and moves along the hints fetched without it, so the hint stands beside its text until the next fetch (`HintsAreFetched` excepts it) |
| `find.rs:919` | a repair's zone is scanned up to the cap and the flag that says there was more is dropped, so matches may be missing from a set that does not call itself cut, against `find.rs:160` (`FindIsTrue` excepts sets with such a `cut`) |
| `find.rs:801` | the find scope does not ride edits while there is no query or an unfinished one, where `document.rs:2146` says it does (`ScopeRides`) |
| `frame.rs` | whether a header block or line near its limit is accepted depends on how the stream is cut: a padded `Content-Length` line past the limit passes if one read holds all of it (`FramesAreTrue` speaks of streams that stay below) |
| `memory/watcher.rs` | its care for a stale arm token is for a case that does not occur: `NoLostWakeup` shows one token at most, and none beside one that was taken and not disarmed |

## 7. Not modelled, and why

Text storage (`rope.rs`, `sum_tree.rs`, `buffer.rs`) is a sequential tree, which the models take as a
sequence. Conversions of protocol values, URIs, positions, markdown, the client builder and log
lines keep no state. The typing verbs and motions (`verbs.rs`, `movement.rs`, `autoclose.rs`) end in
the batches `DocumentEdits` takes any of, but for typing over a closer, which changes no text and is
`Overtype` in `CodeEditor`; column selections and goal columns are left out. The
mapping of rows and cells to the screen (`display_map.rs`, most of `row_layout.rs`) and the stores of
`decorations.rs` are represented by one diagnostic, the fold map and the match set. The tree-sitter
backend of highlighting and capture painting belong to a library's incremental parser. Widgets and
drawing are input and output. Grammars, themes, TLS and HTTP belong to libraries. The browser's
timer in place of the memory bridge's watcher thread is left out, as are the reader/writer pairs a
host may hand in, which cannot restart.

Hazards seen and not covered: whether a loss exactly at the edge of the restart window counts
(`restart.rs:77`; time is a choice here, and a unit test covers the edge).

## 8. What is left

1. The views of a document: that a spliced bracket sequence matches as a fresh one, from `Turns` and
   `OffsetLands`, and from there `ViewsFollowTheText` and `ChangesAreSeen`.
2. `FindIsTrue`, by the same strides: an edit's influence window holds every place that could match anew.
3. The decoder and the tokenizer as recursive functions, which would open `FramesAreTrue` and
   `ColoursAreTrue` to the argument used for the document.
