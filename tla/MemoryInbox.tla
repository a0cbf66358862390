----------------------------- MODULE MemoryInbox -----------------------------
(***************************************************************************)
(* The in-process bridge: transport/memory.rs's Inbox, polled as a future, *)
(* and the thread of memory/watcher.rs that wakes it, since the channel    *)
(* between client and server has no waker.  Each step reads or writes one  *)
(* thing the two threads share.  The browser's timer in place of the       *)
(* watcher is left out.                                                    *)
(***************************************************************************)
EXTENDS Naturals

CONSTANT MaxSent    \* bound: how many messages the server sends

ASSUME SentAssumption == MaxSent \in Nat

VARIABLES
  sent,      \* messages the server has sent
  got,       \* messages the inbox has handed out; the channel holds the others
  far,       \* the server's end of the channel is there
  stopped,   \* the inbox has handed out its Stopped
  poll,      \* the poller: Idle, Storing, Swapping, Signalling or Looking
  woken,     \* the poller's task is to be polled
  control,   \* the inbox's end of the control channel is there: it was not dropped
  tokens,    \* arm tokens in the control channel
  stored,    \* Shared::waker holds a waker
  armed,     \* Shared::armed
  watch      \* the watcher: Idle (not spawned), Receiving, Ready, Disarming, Taking or Over

inboxVars == <<sent, got, far, stopped, poll, woken, control, tokens, stored, armed, watch>>

InboxInit ==
  /\ sent = 0 /\ got = 0 /\ far = TRUE /\ stopped = FALSE
  /\ poll = "Idle" /\ woken = TRUE /\ control = TRUE
  /\ tokens = 0 /\ stored = FALSE /\ armed = FALSE /\ watch = "Idle"

Waiting == sent > got
Answering == Waiting \/ ~far

----------------------------------------------------------------------------
\* try_next, by a poller that then polls again, or goes on with the next step.
TryNext(otherwise, toBePolled) ==
  \/ /\ Waiting
     /\ got' = got + 1 /\ poll' = "Idle" /\ woken' = TRUE
     /\ UNCHANGED stopped
  \/ /\ ~Waiting /\ ~far
     /\ stopped' = TRUE /\ poll' = "Idle" /\ woken' = FALSE
     /\ UNCHANGED got
  \/ /\ ~Answering
     /\ poll' = otherwise /\ woken' = toBePolled
     /\ UNCHANGED <<got, stopped>>

\* poll_next: an executor polls a task that was woken, and may poll one that was not.
Poll ==
  /\ control /\ ~stopped /\ poll = "Idle"
  /\ TryNext("Storing", FALSE)
  /\ UNCHANGED <<sent, far, control, tokens, stored, armed, watch>>

\* Watcher::arm spawns the thread on first use, which may fail.
Spawn ==
  /\ poll = "Storing" /\ watch = "Idle"
  /\ \/ watch' = "Receiving" /\ UNCHANGED <<poll, stopped>>
     \/ stopped' = TRUE /\ poll' = "Idle" /\ UNCHANGED watch
  /\ UNCHANGED <<sent, got, far, woken, control, tokens, stored, armed>>

\* Shared::arm: the waker is stored, then armed is swapped, then a token is sent if it was not armed.
Store ==
  /\ poll = "Storing" /\ watch # "Idle"
  /\ stored' = TRUE /\ poll' = "Swapping"
  /\ UNCHANGED <<sent, got, far, stopped, woken, control, tokens, armed, watch>>

Swap ==
  /\ poll = "Swapping"
  /\ armed' = TRUE
  /\ poll' = IF armed THEN "Looking" ELSE "Signalling"
  /\ UNCHANGED <<sent, got, far, stopped, woken, control, tokens, stored, watch>>

SendToken ==
  /\ poll = "Signalling"
  /\ tokens' = tokens + 1 /\ poll' = "Looking"
  /\ UNCHANGED <<sent, got, far, stopped, woken, control, stored, armed, watch>>

\* Inbox::wait looks once more behind the waker it stored.
Look ==
  /\ poll = "Looking"
  /\ TryNext("Idle", woken)
  /\ UNCHANGED <<sent, far, control, tokens, stored, armed, watch>>

\* The host drops the client between two polls.
DropInbox ==
  /\ control /\ poll = "Idle"
  /\ control' = FALSE /\ woken' = FALSE
  /\ UNCHANGED <<sent, got, far, stopped, poll, tokens, stored, armed, watch>>

Arms == Spawn \/ Store \/ Swap \/ SendToken \/ Look

----------------------------------------------------------------------------
\* watch: the thread waits, unarmed, for a token; a control channel that is gone ends it.
Receive ==
  /\ watch = "Receiving"
  /\ \/ tokens > 0 /\ tokens' = tokens - 1 /\ watch' = "Ready"
     \/ tokens = 0 /\ ~control /\ watch' = "Over" /\ UNCHANGED tokens
  /\ UNCHANGED <<sent, got, far, stopped, poll, woken, control, stored, armed>>

\* Select::ready with either channel; a stale token is consumed.
Ready ==
  /\ watch = "Ready"
  /\ \/ Answering /\ watch' = "Disarming" /\ UNCHANGED tokens
     \/ /\ tokens > 0 \/ ~control
        /\ tokens' = IF tokens > 0 THEN tokens - 1 ELSE 0
        /\ watch' = IF tokens > 0 THEN watch ELSE "Over"
  /\ UNCHANGED <<sent, got, far, stopped, poll, woken, control, stored, armed>>

Disarm(at, next) ==
  /\ watch = at
  /\ armed' = FALSE /\ watch' = next
  /\ UNCHANGED <<sent, got, far, stopped, poll, woken, control, tokens, stored>>

TakeWaker(at, next) ==
  /\ watch = at
  /\ stored' = FALSE
  /\ woken' = (woken \/ (stored /\ control))
  /\ watch' = next
  /\ UNCHANGED <<sent, got, far, stopped, poll, control, tokens, armed>>

\* A defect: the waker is taken before the thread disarms.
WakesFirst == TakeWaker("Disarming", "Taking") \/ Disarm("Taking", "Receiving")

\* "Disarm before taking the waker": a poll that stores its waker from here on arms again.
Wakes == Disarm("Disarming", "Taking") \/ TakeWaker("Taking", "Receiving")

Watches == Receive \/ Ready \/ Wakes

----------------------------------------------------------------------------
\* The server, on a thread of its own.
ServerTalks ==
  /\ far /\ sent < MaxSent
  /\ sent' = sent + 1
  /\ UNCHANGED <<got, far, stopped, poll, woken, control, tokens, stored, armed, watch>>

ServerLeaves ==
  /\ far /\ far' = FALSE
  /\ UNCHANGED <<sent, got, stopped, poll, woken, control, tokens, stored, armed, watch>>

InboxNext == Poll \/ Arms \/ DropInbox \/ Watches \/ ServerTalks \/ ServerLeaves

----------------------------------------------------------------------------
InboxSpec == InboxInit /\ [][InboxNext]_inboxVars

InboxTypeOK ==
  /\ sent \in Nat /\ got \in Nat /\ tokens \in Nat
  /\ far \in BOOLEAN /\ stopped \in BOOLEAN /\ woken \in BOOLEAN
  /\ control \in BOOLEAN /\ stored \in BOOLEAN /\ armed \in BOOLEAN
  /\ poll \in {"Idle", "Storing", "Swapping", "Signalling", "Looking"}
  /\ watch \in {"Idle", "Receiving", "Ready", "Disarming", "Taking", "Over"}

\* What wakes the poller is under way: the thread is past its token, or has one to receive.
Underway == watch \in {"Ready", "Disarming", "Taking"} \/ (watch = "Receiving" /\ tokens > 0)

\* Inbox::wait and the watcher between them lose no wakeup: a task that sleeps has its waker where
\* the thread will find it, and the thread is on its way there, whatever the order of storing,
\* swapping, looking, disarming and taking. There is one token at most, and none that is stale.
NoLostWakeup ==
  /\ poll = "Idle" /\ ~woken /\ control /\ ~stopped => stored /\ Underway
  /\ tokens <= 1 /\ (watch \in {"Ready", "Disarming"} => tokens = 0)

----------------------------------------------------------------------------
\* Why NoLostWakeup holds, as an inductive invariant.

\* The flag armed stands for one token: about to be sent, in the channel, or received and not yet
\* disarmed. Only a thread that is over leaves it set for nothing.
ArmedOnce ==
  /\ tokens <= 1
  /\ watch \in {"Ready", "Disarming"} \/ poll = "Signalling" => tokens = 0
  /\ ~(watch \in {"Ready", "Disarming"} /\ poll = "Signalling")
  /\ poll = "Signalling" \/ tokens = 1 \/ watch \in {"Ready", "Disarming"} => armed
  /\ armed /\ watch # "Over" => poll = "Signalling" \/ tokens = 1 \/ watch \in {"Ready", "Disarming"}

\* Who may still be at work.
WhoIsThere ==
  /\ poll # "Idle" => control /\ ~stopped
  /\ watch = "Over" => ~control
  /\ watch = "Idle" => poll \in {"Idle", "Storing"} /\ ~armed /\ (poll = "Idle" => woken \/ stopped \/ ~control)

\* From the moment a poll has stored its waker, it is there or it was used; and once the poll knows
\* the thread armed, the thread is on its way.
WakerIsSeen ==
  /\ poll \in {"Swapping", "Signalling", "Looking"} /\ ~woken => stored
  /\ poll = "Looking" /\ ~woken => Underway

InboxInv == InboxTypeOK /\ ArmedOnce /\ WhoIsThere /\ WakerIsSeen /\ NoLostWakeup

\* Inbox::poll_next and the watcher: a message that is sent is handed out, a server that goes is
\* noticed, and the thread ends behind an inbox that is dropped.
InboxWakes ==
  /\ \A n \in 1..MaxSent : sent >= n ~> (got >= n \/ stopped \/ ~control)
  /\ ~far ~> (stopped \/ ~control)
  /\ ~control ~> watch \in {"Idle", "Over"}
=============================================================================
