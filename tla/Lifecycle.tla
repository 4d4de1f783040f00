------------------------------- MODULE Lifecycle -------------------------------
(***************************************************************************)
(* The process of cmd/gentoo-zh-verify-bot: updates fetched by long        *)
(* polling go through forwardUpdates, which takes a handler slot for each, *)
(* to the handler loop; a signal starts the shutdown, which drains what    *)
(* was fetched, waits for the handlers and the background components       *)
(* under one deadline, and flushes the state; systemd is told when the     *)
(* process is ready, alive and stopping.                                   *)
(***************************************************************************)
EXTENDS Naturals, FiniteSets, Sequences

CONSTANTS MaxUpdate,     \* bound: updates Telegram has for the bot
          BatchSize,     \* bound: updates in one answer of getUpdates
          Buffered,      \* the buffer of the polling channel
          MaxConcurrentUpdateHandlers

ASSUME SizeAssumption ==
  /\ MaxUpdate \in Nat /\ BatchSize \in Nat \ {0}
  /\ Buffered \in Nat \ {0} /\ MaxConcurrentUpdateHandlers \in Nat \ {0}

Updates == 1..MaxUpdate
\* what runRuntimeLifecycle waits for beside the update handlers
Components == {"registration", "heartbeat", "feed", "notifier"}
MainStages == {"prepare", "poll", "run", "drain", "handlers", "registration", "heartbeat",
               "flush", "feed", "notifier", "exit", "failed"}

VARIABLES
  main,       \* where main and runRuntimeLifecycle are
  cancelled,  \* the signal context
  deadline,   \* shutdownCtx has run out
  offset,     \* the updates below it are confirmed: Telegram will not send them again
  batch,      \* fetched by getUpdates, not yet in the channel
  source,     \* the polling channel
  streaming,  \* FALSE once the polling channel is closed
  forward,    \* forwardUpdates: its stage, the update it holds, whether it is draining
  slots,      \* tokens in inFlight
  loop,       \* the handler loop: "off", "on", "stopped"
  running,    \* updates whose handlers are running
  handled,    \* updates whose handlers returned
  alive,      \* components still running
  systemd,    \* what systemd was told last
  progress,   \* the progress channel holds a token
  flushed     \* verification state flushed by the shutdown

poller == <<offset, batch, source, streaming>>
handlers == <<slots, loop, running, handled>>
components == <<alive, systemd, progress>>
vars == <<main, cancelled, deadline, poller, forward, handlers, components, flushed>>

Receiving == [at |-> "receive", draining |-> FALSE, held |-> 0]

Init ==
  /\ main = "prepare" /\ cancelled = FALSE /\ deadline = FALSE
  /\ offset = 1 /\ batch = <<>> /\ source = <<>> /\ streaming = FALSE
  /\ forward = [Receiving EXCEPT !.at = "off"]
  /\ slots = 0 /\ loop = "off" /\ running = {} /\ handled = {}
  /\ alive = {"notifier"} /\ systemd = "none" /\ progress = FALSE
  /\ flushed = FALSE

-----------------------------------------------------------------------------
(* Starting *)

\* SIGINT or SIGTERM
Signal ==
  /\ ~cancelled /\ cancelled' = TRUE
  /\ UNCHANGED <<main, deadline, poller, forward, handlers, components, flushed>>

\* prepareUpdateHandler starts the handler loop before it polls.
StartHandler ==
  /\ main = "prepare" /\ main' = "poll" /\ loop' = "on"
  /\ UNCHANGED <<cancelled, deadline, poller, forward, slots, running, handled, components, flushed>>

StartPolling ==
  /\ main = "poll"
  /\ \/ /\ main' = "run" /\ streaming' = TRUE /\ forward' = Receiving
        /\ alive' = alive \cup (Components \ {"notifier"})
        /\ UNCHANGED loop
     \/ /\ main' = "failed" /\ loop' = "stopped" /\ UNCHANGED <<streaming, forward, alive>>
  /\ UNCHANGED <<cancelled, deadline, offset, batch, source, slots, running, handled,
                 systemd, progress, flushed>>

Up == main \notin {"exit", "failed"}

-----------------------------------------------------------------------------
(* Long polling.  getUpdates confirms the updates below the offset it asks for.  A batch that  *)
(* was fetched when the context ends may be dropped: it is not confirmed.                      *)

GetUpdates ==
  /\ Up /\ streaming /\ ~cancelled /\ batch = <<>>
  /\ \E k \in 0..BatchSize :
       /\ offset + k <= MaxUpdate + 1
       /\ batch' = [i \in 1..k |-> offset + i - 1]
       /\ offset' = offset + k
  /\ progress' = TRUE
  /\ UNCHANGED <<main, cancelled, deadline, source, streaming, forward, handlers, alive, systemd, flushed>>

PushUpdate ==
  /\ Up /\ streaming /\ batch # <<>> /\ Len(source) < Buffered
  /\ source' = Append(source, Head(batch)) /\ batch' = Tail(batch)
  /\ UNCHANGED <<main, cancelled, deadline, offset, streaming, forward, handlers, components, flushed>>

\* The stream ends when the context does, and may end by itself.
EndStream ==
  /\ Up /\ streaming
  /\ streaming' = FALSE /\ batch' = <<>>
  /\ offset' = IF batch = <<>> THEN offset ELSE Head(batch)
  /\ UNCHANGED <<main, cancelled, deadline, source, forward, handlers, components, flushed>>

-----------------------------------------------------------------------------
(* forwardUpdates *)

Forward == UNCHANGED <<main, cancelled, deadline, offset, batch, streaming, components, flushed>>

\* The context ends in any of the three waits: what is held is kept.
Drain ==
  /\ Up /\ forward.at \in {"receive", "slot", "send"} /\ cancelled /\ ~forward.draining
  /\ forward' = [forward EXCEPT !.draining = TRUE]
  /\ UNCHANGED <<source, handlers>> /\ Forward

Receive ==
  /\ Up /\ forward.at = "receive" /\ source # <<>>
  /\ forward' = [forward EXCEPT !.at = "slot", !.held = Head(source)]
  /\ source' = Tail(source)
  /\ UNCHANGED handlers /\ Forward

\* The channel is closed and empty: the destination is closed too.
CloseDestination ==
  /\ Up /\ forward.at = "receive" /\ source = <<>> /\ ~streaming
  /\ forward' = [forward EXCEPT !.at = "closed"]
  /\ UNCHANGED <<source, handlers>> /\ Forward

BuggyTakeSlot ==                       \* the context ends the wait for a slot, and the update
  /\ Up /\ forward.at = "slot"
  /\ \/ /\ slots < MaxConcurrentUpdateHandlers /\ slots' = slots + 1
        /\ forward' = [forward EXCEPT !.at = "send"]
     \/ cancelled /\ UNCHANGED slots /\ forward' = [forward EXCEPT !.at = "receive", !.held = 0]
  /\ UNCHANGED <<source, loop, running, handled>> /\ Forward
BuggyUnboundedSlot ==                  \* the token is taken when the handler has started
  /\ Up /\ forward.at = "slot" /\ slots' = slots
  /\ forward' = [forward EXCEPT !.at = "send"]
  /\ UNCHANGED <<source, loop, running, handled>> /\ Forward
TakeSlot ==
  /\ Up /\ forward.at = "slot" /\ slots < MaxConcurrentUpdateHandlers
  /\ slots' = slots + 1
  /\ forward' = [forward EXCEPT !.at = "send"]
  /\ UNCHANGED <<source, loop, running, handled>> /\ Forward

\* An unbuffered channel: the loop takes the update and starts its goroutine.
Send ==
  /\ Up /\ forward.at = "send" /\ loop = "on"
  /\ running' = running \cup {forward.held}
  /\ forward' = [forward EXCEPT !.at = "receive", !.held = 0]
  /\ UNCHANGED <<source, slots, loop, handled>> /\ Forward

BuggyHandlerReturns(u) ==              \* a handler that fails keeps its slot
  /\ Up /\ u \in running
  /\ running' = running \ {u} /\ handled' = handled \cup {u}
  /\ UNCHANGED <<source, slots, loop, forward>> /\ Forward
HandlerReturns(u) ==
  /\ Up /\ u \in running
  /\ running' = running \ {u} /\ handled' = handled \cup {u} /\ slots' = slots - 1
  /\ UNCHANGED <<source, loop, forward>> /\ Forward

LoopEnds ==
  /\ Up /\ loop = "on" /\ forward.at = "closed"
  /\ loop' = "stopped"
  /\ UNCHANGED <<source, slots, running, handled, forward>> /\ Forward

-----------------------------------------------------------------------------
(* runRuntimeLifecycle *)

Main == UNCHANGED <<cancelled, deadline, poller, forward, components>>

\* The handler loop ended with no signal: the process exits at once, for systemd to restart it.
\* With a signal, the select may take either branch, and the drain goes on from there.
RunEnds ==
  /\ main = "run"
  /\ \/ loop = "stopped" /\ ~cancelled /\ main' = "failed"
     \/ loop = "stopped" /\ cancelled /\ main' = "handlers"
     \/ cancelled /\ main' = "drain"
  /\ UNCHANGED <<handlers, flushed>> /\ Main

DrainEnds ==
  /\ main = "drain" /\ (loop = "stopped" \/ deadline) /\ main' = "handlers"
  /\ UNCHANGED <<handlers, flushed>> /\ Main

\* StopWithContext ends the loop and waits for the handlers.
StopHandlers ==
  /\ main = "handlers"
  /\ loop' = "stopped"
  /\ main' = IF running = {} \/ deadline THEN "registration" ELSE main
  /\ loop # "stopped" \/ main' # main
  /\ UNCHANGED <<slots, running, handled, flushed>> /\ Main

\* a heartbeat that is over skips what follows the wait for it
BuggyAfter == [registration |-> "heartbeat", heartbeat |-> "feed", feed |-> "notifier", notifier |-> "exit"]
After == [registration |-> "heartbeat", heartbeat |-> "flush", feed |-> "notifier", notifier |-> "exit"]

WaitForShutdownComponent ==
  /\ main \in Components /\ (main \notin alive \/ deadline)
  /\ main' = After[main]
  /\ UNCHANGED <<handlers, flushed>> /\ Main

\* verification.Shutdown, whatever the deadline
FlushVerification ==
  /\ main = "flush" /\ flushed' = TRUE /\ main' = "feed"
  /\ UNCHANGED handlers /\ Main

DeadlinePasses ==
  /\ main \in (Components \cup {"drain", "handlers", "flush"}) /\ ~deadline
  /\ deadline' = TRUE
  /\ UNCHANGED <<main, cancelled, poller, forward, handlers, components, flushed>>

-----------------------------------------------------------------------------
(* Components: each ends some time after the context does *)

ComponentEnds(c) ==
  /\ Up /\ cancelled /\ c \in alive \ {"notifier"} /\ alive' = alive \ {c}
  /\ UNCHANGED <<main, cancelled, deadline, poller, forward, handlers, systemd, progress, flushed>>

\* runSystemdLifecycle: READY once the startup is complete, WATCHDOG for progress of the poll
\* loop, STOPPING when the context ends, at any time.
NotifyReady ==
  /\ Up /\ "notifier" \in alive /\ systemd = "none" /\ main \notin {"prepare", "poll"}
  /\ \/ systemd' = "ready" /\ UNCHANGED alive
     \/ UNCHANGED systemd /\ alive' = alive \ {"notifier"}          \* the socket failed
  /\ UNCHANGED <<main, cancelled, deadline, poller, forward, handlers, progress, flushed>>

NotifyWatchdog ==
  /\ Up /\ "notifier" \in alive /\ systemd = "ready" /\ progress /\ progress' = FALSE
  /\ UNCHANGED <<main, cancelled, deadline, poller, forward, handlers, alive, systemd, flushed>>

NotifyStopping ==
  /\ Up /\ "notifier" \in alive /\ cancelled
  /\ systemd' = "stopping" /\ alive' = alive \ {"notifier"}
  /\ UNCHANGED <<main, cancelled, deadline, poller, forward, handlers, progress, flushed>>

Forwarding == Drain \/ Receive \/ CloseDestination \/ TakeSlot \/ Send \/ LoopEnds
MainSteps == StartHandler \/ StartPolling \/ RunEnds \/ DrainEnds \/ StopHandlers
             \/ WaitForShutdownComponent \/ FlushVerification

Next ==
  \/ Signal \/ GetUpdates \/ PushUpdate \/ EndStream
  \/ Forwarding \/ (\E u \in Updates : HandlerReturns(u))
  \/ MainSteps \/ DeadlinePasses
  \/ (\E c \in Components : ComponentEnds(c)) \/ NotifyReady \/ NotifyWatchdog \/ NotifyStopping

\* Goroutines that can step do, Telegram calls return (each is bounded), the deadline passes, and
\* the polling goroutine sees the end of its context.
Fairness ==
  /\ WF_vars(PushUpdate) /\ WF_vars(cancelled /\ EndStream)
  /\ WF_vars(Forwarding) /\ \A u \in Updates : WF_vars(HandlerReturns(u))
  /\ WF_vars(MainSteps) /\ WF_vars(DeadlinePasses)

Spec == Init /\ [][Next]_vars
FairSpec == Spec /\ Fairness

-----------------------------------------------------------------------------
\* The updates that left the polling channel or wait in it.
Received == running \cup handled \cup {source[i] : i \in 1..Len(source)} \cup ({forward.held} \ {0})

TypeOK ==
  /\ main \in MainStages /\ cancelled \in BOOLEAN /\ deadline \in BOOLEAN
  /\ offset \in 1..(MaxUpdate + 1) /\ batch \in Seq(Updates) /\ source \in Seq(Updates)
  /\ streaming \in BOOLEAN
  /\ forward \in [at : {"off", "receive", "slot", "send", "closed"}, draining : BOOLEAN,
                  held : 0..MaxUpdate]
  /\ slots \in Nat /\ loop \in {"off", "on", "stopped"}
  /\ running \subseteq Updates /\ handled \subseteq Updates /\ alive \subseteq Components
  /\ systemd \in {"none", "ready", "stopping"} /\ progress \in BOOLEAN /\ flushed \in BOOLEAN

\* Every handler that runs holds a slot, and there are never more than the limit: the update the
\* forwarder is about to send holds one as well.
HandlersHoldSlots ==
  /\ slots = Cardinality(running) + (IF forward.at = "send" THEN 1 ELSE 0)
  /\ slots <= MaxConcurrentUpdateHandlers

\* An update Telegram will not send again is in the process until its handler has returned, and
\* the state is flushed only when all of them have, unless the deadline passed.
NothingConfirmedIsLost ==
  /\ \A u \in Updates : u < offset => u \in Received \/ \E i \in 1..Len(batch) : batch[i] = u
  /\ flushed /\ ~deadline => Received = handled

\* A process told to stop does stop, with its verification state flushed, whatever the handlers
\* and the components do.
ShutdownEnds == cancelled ~> (main = "exit" /\ flushed) \/ main = "failed"

\* Every update that was received is handled, unless the process ends first.
UpdatesAreHandled == \A u \in Updates : u \in Received ~> u \in handled \/ ~Up
=============================================================================
