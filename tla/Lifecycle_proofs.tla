--------------------------- MODULE Lifecycle_proofs ---------------------------
(***************************************************************************)
(* The safety of Lifecycle for any number of updates, any batch size, any  *)
(* buffer and any limit of concurrent handlers.                            *)
(***************************************************************************)
EXTENDS Lifecycle, FiniteSetTheorems, TLAPS

USE DEF poller, handlers, components

\* The updates are in line: those whose handlers started come first, then the one the forwarder
\* holds, then those buffered, then those fetched, up to the offset.
Low == offset - Len(batch)
First == Low - Len(source)
Next1 == IF forward.held = 0 THEN First ELSE First - 1
InLine ==
  /\ \A i \in 1..Len(batch) : batch[i] = Low + i - 1
  /\ \A i \in 1..Len(source) : source[i] = First + i - 1
  /\ forward.held # 0 => forward.held = First - 1
  /\ Next1 \in Nat \ {0}
  /\ running \cup handled = 1..(Next1 - 1)
  /\ running \cap handled = {}

\* The forwarder holds an update while it waits for a slot or for the loop; once it has closed its
\* destination nothing is left to forward.
ForwardInv ==
  /\ forward.held # 0 <=> forward.at \in {"slot", "send"}
  /\ forward.at = "closed" => source = <<>> /\ ~streaming
  /\ main \in {"prepare", "poll"} => forward.at = "off" /\ ~streaming

\* Before the deadline, the loop stops only when everything was forwarded, and the shutdown passes
\* the handlers only when they have returned.
AfterHandlers == {"registration", "heartbeat", "flush", "feed", "notifier", "exit"}
ShutdownInv ==
  /\ loop = "stopped" => main = "failed" \/ deadline \/ forward.at = "closed"
  /\ main \in AfterHandlers \cup {"handlers"} /\ ~deadline => loop = "stopped"
  /\ main \in AfterHandlers /\ ~deadline => running = {}
  /\ flushed => main \in {"feed", "notifier", "exit"}

IInv == TypeOK /\ InLine /\ ForwardInv /\ ShutdownInv /\ HandlersHoldSlots

-----------------------------------------------------------------------------
Places == {"off", "receive", "slot", "send", "closed"}
Forwards == [at : Places, draining : BOOLEAN, held : 0..MaxUpdate]

LEMMA RunningFinite ==
  ASSUME TypeOK
  PROVE  IsFiniteSet(running) /\ Cardinality(running) \in Nat
<1>1. IsFiniteSet(1..MaxUpdate)
  BY SizeAssumption, FS_Interval
<1> QED
  BY <1>1, FS_Subset, FS_CardinalityType DEF TypeOK, Updates

\* An update waiting to be forwarded was not started.
LEMMA HeldIsNew ==
  ASSUME IInv, forward.held # 0
  PROVE  forward.held \notin running \cup handled
  BY DEF IInv, InLine, Next1, TypeOK

LEMMA InitIInv == Init => IInv
<1> SUFFICES ASSUME Init PROVE IInv
  OBVIOUS
<1>1. forward.held = 0 /\ forward.at = "off" /\ forward.draining = FALSE
  BY DEF Init, Receiving
<1>2. TypeOK
  <2>1. forward \in Forwards
    <3>1. 0 \in 0..MaxUpdate
      BY SizeAssumption
    <3>2. Receiving \in Forwards
      BY <3>1 DEF Receiving, Forwards, Places
    <3> QED
      BY <3>2 DEF Init, Forwards, Places
  <2>2. main \in MainStages /\ alive \subseteq Components /\ offset \in 1..(MaxUpdate + 1)
    BY SizeAssumption DEF Init, MainStages, Components
  <2>3. batch \in Seq(Updates) /\ source \in Seq(Updates)
    BY DEF Init
  <2> QED
    BY <2>1, <2>2, <2>3 DEF Init, TypeOK, Forwards, Places
<1>3. InLine
  <2>1. Len(batch) = 0 /\ Len(source) = 0 /\ offset = 1
    BY DEF Init
  <2>2. Next1 = 1
    BY <1>1, <2>1 DEF Next1, First, Low
  <2> QED
    BY <1>1, <2>1, <2>2 DEF Init, InLine
<1>4. ForwardInv /\ ShutdownInv
  BY <1>1 DEF Init, ForwardInv, ShutdownInv, AfterHandlers
<1>5. HandlersHoldSlots
  BY <1>1, FS_EmptySet, SizeAssumption DEF Init, HandlersHoldSlots
<1> QED
  BY <1>2, <1>3, <1>4, <1>5 DEF IInv

-----------------------------------------------------------------------------
(* Steps of the poller *)

LEMMA PollerStep ==
  ASSUME IInv, GetUpdates \/ PushUpdate \/ EndStream
  PROVE  IInv'
<1> USE DEF IInv
<1>1. /\ batch \in Seq(Updates) /\ source \in Seq(Updates) /\ offset \in 1..(MaxUpdate + 1)
      /\ Len(batch) \in Nat /\ Len(source) \in Nat /\ MaxUpdate \in Nat
      /\ streaming /\ forward.at # "closed" /\ main \notin {"prepare", "poll"}
  BY SizeAssumption DEF TypeOK, ForwardInv, GetUpdates, PushUpdate, EndStream
<1>2. UNCHANGED <<main, cancelled, deadline, forward, slots, loop, running, handled, flushed, alive, systemd>>
  BY DEF GetUpdates, PushUpdate, EndStream
<1>3. CASE GetUpdates
  <2>1. PICK k \in 0..BatchSize :
          /\ offset + k <= MaxUpdate + 1
          /\ batch' = [i \in 1..k |-> offset + i - 1] /\ offset' = offset + k
    BY <1>3 DEF GetUpdates
  <2>2. k \in Nat /\ source' = source /\ streaming' = streaming /\ progress' = TRUE /\ batch = <<>>
    BY <1>3, SizeAssumption DEF GetUpdates
  <2>3. batch' \in Seq(Updates) /\ Len(batch') = k /\ \A i \in 1..k : batch'[i] = offset + i - 1
    BY <2>1, <2>2, <1>1 DEF Updates
  <2>4. Low' = Low /\ First' = First /\ Next1' = Next1 /\ Low = offset
    BY <1>1, <1>2, <2>1, <2>2, <2>3 DEF Low, First, Next1
  <2>5. InLine'
    BY <1>2, <2>2, <2>3, <2>4 DEF InLine
  <2>6. TypeOK'
    BY <1>1, <1>2, <2>1, <2>2, <2>3 DEF TypeOK
  <2> QED
    BY <1>1, <1>2, <2>2, <2>5, <2>6 DEF ForwardInv, ShutdownInv, HandlersHoldSlots
<1>4. CASE PushUpdate
  <2>1. /\ batch # <<>> /\ source' = Append(source, Head(batch)) /\ batch' = Tail(batch)
        /\ UNCHANGED <<offset, streaming, progress>>
    BY <1>4 DEF PushUpdate
  <2>2. /\ Len(batch) > 0 /\ Len(batch') = Len(batch) - 1 /\ batch' \in Seq(Updates)
        /\ \A i \in 1..Len(batch') : batch'[i] = batch[i + 1]
        /\ Head(batch) = batch[1] /\ batch[1] \in Updates
    BY <1>1, <2>1
  <2>3. /\ Len(source') = Len(source) + 1 /\ source' \in Seq(Updates)
        /\ \A i \in 1..Len(source) : source'[i] = source[i]
        /\ source'[Len(source) + 1] = batch[1]
    BY <1>1, <2>1, <2>2
  <2>4. Low' = Low + 1 /\ First' = First /\ Next1' = Next1 /\ Low \in Int /\ First \in Int
        /\ First = Low - Len(source)
    BY <1>1, <1>2, <2>1, <2>2, <2>3 DEF Low, First, Next1, Updates
  <2>5. InLine'
    <3>1. \A i \in 1..Len(batch') : batch'[i] = Low' + i - 1
      BY <1>1, <2>2, <2>4 DEF InLine
    <3>2. \A i \in 1..Len(source') : source'[i] = First' + i - 1
      <4>1. ASSUME NEW i \in 1..Len(source') PROVE source'[i] = First + i - 1
        <5>1. CASE i = Len(source) + 1
          <6>1. batch[1] = Low + 1 - 1
            BY <1>1, <2>2 DEF InLine
          <6> QED
            BY <1>1, <2>3, <2>4, <5>1, <6>1
        <5>2. CASE i # Len(source) + 1
          <6>1. i \in 1..Len(source) /\ source'[i] = source[i]
            BY <1>1, <2>3, <4>1, <5>2
          <6> QED
            BY <6>1 DEF InLine
        <5> QED
          BY <5>1, <5>2
      <4> QED
        BY <4>1, <2>4
    <3> QED
      BY <1>2, <2>4, <3>1, <3>2 DEF InLine
  <2>6. TypeOK'
    BY <1>1, <1>2, <2>1, <2>2, <2>3 DEF TypeOK
  <2> QED
    BY <1>1, <1>2, <2>1, <2>5, <2>6 DEF ForwardInv, ShutdownInv, HandlersHoldSlots
<1>5. CASE EndStream
  <2>1. /\ streaming' = FALSE /\ batch' = <<>> /\ UNCHANGED <<source, progress>>
        /\ offset' = IF batch = <<>> THEN offset ELSE Head(batch)
    BY <1>5 DEF EndStream
  <2>2. offset' = Low /\ offset' \in 1..(MaxUpdate + 1)
    <3>1. CASE batch = <<>>
      BY <1>1, <2>1, <3>1 DEF Low
    <3>2. CASE batch # <<>>
      <4>1. Len(batch) > 0 /\ Head(batch) = batch[1] /\ batch[1] \in Updates
        BY <1>1, <3>2
      <4>2. batch[1] = Low + 1 - 1 /\ Low \in Int
        BY <4>1, <1>1 DEF InLine, Low
      <4> QED
        BY <1>1, <2>1, <3>2, <4>1, <4>2 DEF Updates
    <3> QED
      BY <3>1, <3>2
  <2>3. Len(batch') = 0 /\ batch' \in Seq(Updates)
    BY <2>1
  <2>4. Low' = Low /\ First' = First /\ Next1' = Next1
    BY <1>1, <1>2, <2>1, <2>2, <2>3 DEF Low, First, Next1
  <2>5. InLine'
    BY <1>2, <2>1, <2>3, <2>4 DEF InLine
  <2>6. TypeOK'
    BY <1>1, <1>2, <2>1, <2>2, <2>3 DEF TypeOK
  <2> QED
    BY <1>1, <1>2, <2>1, <2>5, <2>6 DEF ForwardInv, ShutdownInv, HandlersHoldSlots
<1> QED
  BY <1>3, <1>4, <1>5

-----------------------------------------------------------------------------
(* Steps of forwardUpdates and of the handlers *)

\* What the steps of the forwarder share.
LEMMA ForwardTypes ==
  ASSUME IInv
  PROVE  /\ forward \in Forwards
         /\ batch \in Seq(Updates) /\ source \in Seq(Updates) /\ offset \in 1..(MaxUpdate + 1)
         /\ Len(batch) \in Nat /\ Len(source) \in Nat /\ MaxUpdate \in Nat
         /\ Low \in Int /\ First \in Int /\ Low = offset - Len(batch) /\ First = Low - Len(source)
         /\ slots \in Nat
  BY SizeAssumption DEF IInv, TypeOK, Low, First, Forwards, Places

LEMMA DrainStep ==
  ASSUME IInv, Drain
  PROVE  IInv'
<1> USE DEF IInv
<1>1. forward' = [forward EXCEPT !.draining = TRUE] /\ UNCHANGED <<source, handlers>> /\ Forward
  BY DEF Drain
<1>2. forward'.at = forward.at /\ forward'.held = forward.held
      /\ forward' \in Forwards
  BY <1>1, ForwardTypes DEF Forwards
<1>3. InLine'
  BY <1>1, <1>2 DEF InLine, Next1, First, Low, Forward
<1>4. TypeOK'
  BY <1>1, <1>2 DEF TypeOK, Forward, Forwards, Places
<1> QED
  BY <1>1, <1>2, <1>3, <1>4 DEF Forward, ForwardInv, ShutdownInv, HandlersHoldSlots

LEMMA ReceiveStep ==
  ASSUME IInv, Receive
  PROVE  IInv'
<1> USE DEF IInv
<1>1. /\ forward' = [forward EXCEPT !.at = "slot", !.held = Head(source)]
      /\ forward.at = "receive" /\ source # <<>> /\ source' = Tail(source) /\ UNCHANGED handlers
      /\ UNCHANGED <<main, cancelled, deadline, offset, batch, streaming, components, flushed>>
  BY DEF Receive, Forward
<1>2. /\ Len(source) > 0 /\ Len(source') = Len(source) - 1 /\ source' \in Seq(Updates)
      /\ \A i \in 1..Len(source') : source'[i] = source[i + 1]
      /\ Head(source) = source[1] /\ source[1] \in 1..MaxUpdate
  BY <1>1, ForwardTypes DEF Updates
<1>3. source[1] = First
  BY <1>2, ForwardTypes DEF InLine
<1>4. /\ forward'.at = "slot" /\ forward'.held = First /\ forward.held = 0 /\ First # 0
      /\ forward' \in Forwards
  <2>1. First \in 0..MaxUpdate /\ First # 0 /\ Head(source) = First
    BY <1>2, <1>3, ForwardTypes
  <2>2. forward \in Forwards /\ "slot" \in Places
    BY ForwardTypes DEF Places
  <2>3. forward'.at = "slot" /\ forward'.held = First /\ forward' \in Forwards
    <3>1. forward' = [forward EXCEPT !.at = "slot", !.held = First]
      BY <1>1, <2>1
    <3> QED
      BY <2>1, <2>2, <3>1 DEF Forwards
  <2> QED
    BY <1>1, <2>1, <2>3 DEF ForwardInv
<1>5. Low' = Low /\ First' = First + 1
  BY <1>1, <1>2, ForwardTypes DEF First, Low
<1>6. Next1 = First /\ Next1' = First
  BY <1>4, <1>5, ForwardTypes DEF Next1
<1>7. InLine'
  <2>1. ASSUME NEW i \in 1..Len(source') PROVE source'[i] = First' + i - 1
    <3>1. source'[i] = source[i + 1] /\ i + 1 \in 1..Len(source) /\ i \in Nat
      BY <1>2, ForwardTypes
    <3>2. source[i + 1] = First + (i + 1) - 1
      BY <3>1 DEF InLine
    <3> QED
      BY <1>5, <3>1, <3>2, ForwardTypes
  <2>2. \A i \in 1..Len(batch') : batch'[i] = Low' + i - 1
    BY <1>1, <1>5 DEF InLine
  <2>3. forward'.held = First' - 1
    BY <1>4, <1>5, ForwardTypes
  <2> QED
    BY <1>1, <1>6, <2>1, <2>2, <2>3 DEF InLine
<1>8. TypeOK'
  BY <1>1, <1>2, <1>4 DEF TypeOK, Forwards, Places
<1>9. ForwardInv' /\ ShutdownInv' /\ HandlersHoldSlots'
  BY <1>1, <1>4 DEF ForwardInv, ShutdownInv, HandlersHoldSlots
<1> QED
  BY <1>7, <1>8, <1>9

LEMMA CloseStep ==
  ASSUME IInv, CloseDestination
  PROVE  IInv'
<1> USE DEF IInv
<1>1. forward' = [forward EXCEPT !.at = "closed"] /\ forward.at = "receive" /\ source = <<>> /\ ~streaming
      /\ UNCHANGED <<source, handlers>>
      /\ UNCHANGED <<main, cancelled, deadline, offset, batch, streaming, components, flushed>>
  BY DEF CloseDestination, Forward
<1>2. forward'.at = "closed" /\ forward'.held = forward.held
      /\ forward' \in Forwards
  BY <1>1, ForwardTypes DEF Forwards, Places
<1>3. InLine'
  BY <1>1, <1>2 DEF InLine, Next1, First, Low
<1>4. TypeOK'
  BY <1>1, <1>2 DEF TypeOK, Forwards, Places
<1> QED
  BY <1>1, <1>2, <1>3, <1>4 DEF ForwardInv, ShutdownInv, HandlersHoldSlots

LEMMA SlotStep ==
  ASSUME IInv, TakeSlot
  PROVE  IInv'
<1> USE DEF IInv
<1>1. /\ forward' = [forward EXCEPT !.at = "send"] /\ forward.at = "slot"
      /\ slots < MaxConcurrentUpdateHandlers /\ slots' = slots + 1
      /\ UNCHANGED <<source, loop, running, handled>>
      /\ UNCHANGED <<main, cancelled, deadline, offset, batch, streaming, components, flushed>>
  BY DEF TakeSlot, Forward
<1>2. forward'.at = "send" /\ forward'.held = forward.held
      /\ forward' \in Forwards
  BY <1>1, ForwardTypes DEF Forwards, Places
<1>3. InLine'
  BY <1>1, <1>2 DEF InLine, Next1, First, Low
<1>4. slots' \in Nat
  BY <1>1, ForwardTypes
<1>5. TypeOK'
  BY <1>1, <1>2, <1>4 DEF TypeOK, Forwards, Places
<1>6. HandlersHoldSlots'
  <2>1. Cardinality(running) \in Nat
    BY RunningFinite
  <2> QED
    BY <1>1, <1>2, <2>1, SizeAssumption, ForwardTypes DEF HandlersHoldSlots
<1> QED
  BY <1>1, <1>2, <1>3, <1>5, <1>6 DEF ForwardInv, ShutdownInv

\* The token of the update sent becomes that of its handler.
LEMMA SendStep ==
  ASSUME IInv, Send
  PROVE  IInv'
<1> USE DEF IInv
<1>1. /\ forward' = [forward EXCEPT !.at = "receive", !.held = 0] /\ forward.at = "send" /\ loop = "on"
      /\ running' = running \cup {forward.held}
      /\ UNCHANGED <<source, slots, loop, handled>>
      /\ UNCHANGED <<main, cancelled, deadline, offset, batch, streaming, components, flushed>>
  BY DEF Send, Forward
<1>2. forward'.at = "receive" /\ forward'.held = 0
      /\ forward' \in Forwards
  <2>1. 0 \in 0..MaxUpdate /\ forward \in Forwards /\ "receive" \in Places
    BY ForwardTypes DEF Places
  <2> QED
    BY <1>1, <2>1 DEF Forwards
<1>3. /\ forward.held # 0 /\ forward.held = First - 1 /\ forward.held \in 1..MaxUpdate
      /\ forward.held \notin running \cup handled
  <2>1. forward.held # 0 /\ forward.held \in 0..MaxUpdate
    BY <1>1, ForwardTypes DEF ForwardInv, Forwards
  <2>2. forward.held \in 1..MaxUpdate
    BY <2>1, ForwardTypes
  <2> QED
    BY <2>1, <2>2, HeldIsNew DEF InLine
<1>4. Low' = Low /\ First' = First /\ Next1 = First - 1 /\ Next1' = First
  BY <1>1, <1>2, <1>3 DEF Low, First, Next1
<1>5. InLine'
  <2>1. First \in Nat \ {0} /\ running' \cup handled' = 1..(First - 1)
    <3>1. running \cup handled = 1..(First - 1 - 1) /\ First - 1 \in Nat \ {0}
      BY <1>4 DEF InLine
    <3>2. running' \cup handled' = (running \cup handled) \cup {First - 1}
      BY <1>1, <1>3
    <3>3. First \in Nat \ {0}
      BY <3>1, ForwardTypes
    <3> QED
      BY <3>1, <3>2, <3>3
  <2>2. running' \cap handled' = {}
    BY <1>1, <1>3 DEF InLine
  <2> QED
    BY <1>1, <1>2, <1>4, <2>1, <2>2 DEF InLine
<1>6. TypeOK'
  BY <1>1, <1>2, <1>3 DEF TypeOK, Updates, Forwards, Places
<1>7. HandlersHoldSlots'
  <2>1. Cardinality(running') = Cardinality(running) + 1 /\ Cardinality(running) \in Nat
    BY <1>1, <1>3, RunningFinite, FS_AddElement
  <2> QED
    BY <1>1, <1>2, <2>1 DEF HandlersHoldSlots
<1> QED
  BY <1>1, <1>2, <1>5, <1>6, <1>7 DEF ForwardInv, ShutdownInv

LEMMA ReturnStep ==
  ASSUME IInv, NEW u \in Updates, HandlerReturns(u)
  PROVE  IInv'
<1> USE DEF IInv
<1>1. /\ u \in running /\ running' = running \ {u} /\ handled' = handled \cup {u} /\ slots' = slots - 1
      /\ UNCHANGED <<source, loop, forward>>
      /\ UNCHANGED <<main, cancelled, deadline, offset, batch, streaming, components, flushed>>
  BY DEF HandlerReturns, Forward
<1>2. InLine'
  <2>1. running' \cup handled' = running \cup handled /\ running' \cap handled' = {}
    BY <1>1 DEF InLine
  <2>2. Low' = Low /\ First' = First /\ Next1' = Next1
    BY <1>1 DEF Low, First, Next1
  <2> QED
    BY <1>1, <2>1, <2>2 DEF InLine
<1>3. /\ Cardinality(running') = Cardinality(running) - 1
      /\ Cardinality(running') \in Nat /\ Cardinality(running) \in Nat
  <2>1. IsFiniteSet(running) /\ IsFiniteSet(running')
    BY <1>1, RunningFinite, FS_RemoveElement
  <2> QED
    BY <1>1, <2>1, FS_RemoveElement, FS_CardinalityType
<1>4. slots' \in Nat /\ HandlersHoldSlots'
  <2>1. slots' = Cardinality(running') + (IF forward'.at = "send" THEN 1 ELSE 0)
    BY <1>1, <1>3 DEF HandlersHoldSlots
  <2>2. slots' <= MaxConcurrentUpdateHandlers /\ slots \in Nat
    BY <1>1, ForwardTypes, SizeAssumption DEF HandlersHoldSlots
  <2> QED
    BY <1>1, <1>3, <2>1, <2>2 DEF HandlersHoldSlots
<1>5. TypeOK'
  BY <1>1, <1>4 DEF TypeOK, Updates
<1> QED
  BY <1>1, <1>2, <1>4, <1>5 DEF ForwardInv, ShutdownInv

LEMMA LoopEndStep ==
  ASSUME IInv, LoopEnds
  PROVE  IInv'
<1> USE DEF IInv
<1>1. /\ forward.at = "closed" /\ loop' = "stopped"
      /\ UNCHANGED <<source, slots, running, handled, forward>>
      /\ UNCHANGED <<main, cancelled, deadline, offset, batch, streaming, components, flushed>>
  BY DEF LoopEnds, Forward
<1>2. InLine'
  BY <1>1 DEF InLine, Next1, First, Low
<1>3. TypeOK'
  BY <1>1 DEF TypeOK
<1> QED
  BY <1>1, <1>2, <1>3 DEF ForwardInv, ShutdownInv, HandlersHoldSlots

-----------------------------------------------------------------------------
(* Steps of main, and of the rest *)

\* A step that moves no update.
LEMMA StillInLine ==
  ASSUME IInv, UNCHANGED <<offset, batch, source, running, handled>>, forward'.held = forward.held
  PROVE  InLine'
  BY DEF IInv, InLine, Next1, First, Low

LEMMA MainStep ==
  ASSUME IInv, MainSteps \/ DeadlinePasses
  PROVE  IInv'
<1> USE DEF IInv
<1>1. CASE StartHandler
  <2>1. main = "prepare" /\ main' = "poll" /\ loop' = "on"
        /\ UNCHANGED <<cancelled, deadline, poller, forward, slots, running, handled, components, flushed>>
    BY <1>1 DEF StartHandler
  <2>2. InLine' /\ TypeOK'
    BY <2>1, StillInLine DEF TypeOK, MainStages
  <2> QED
    BY <2>1, <2>2 DEF ForwardInv, ShutdownInv, AfterHandlers, HandlersHoldSlots
<1>2. CASE StartPolling
  <2>1. main = "poll" /\ UNCHANGED <<cancelled, deadline, offset, batch, source, slots, running, handled,
                                     systemd, progress, flushed>>
    BY <1>2 DEF StartPolling
  <2>2. forward.at = "off" /\ forward.held = 0
    BY <2>1 DEF ForwardInv
  <2>3. CASE main' = "run" /\ streaming' = TRUE /\ forward' = Receiving
             /\ alive' = alive \cup (Components \ {"notifier"}) /\ UNCHANGED loop
    <3>1. forward'.at = "receive" /\ forward'.held = 0
          /\ forward' \in Forwards
      <4>1. 0 \in 0..MaxUpdate
        BY ForwardTypes
      <4> QED
        BY <2>3, <4>1 DEF Receiving, Forwards, Places
    <3>2. InLine' /\ TypeOK'
      BY <2>1, <2>2, <2>3, <3>1, StillInLine DEF TypeOK, MainStages, Forwards, Places
    <3>3. loop = "stopped" => deadline
      BY <2>1, <2>2 DEF ShutdownInv
    <3> QED
      BY <2>1, <2>2, <2>3, <3>1, <3>2, <3>3 DEF ForwardInv, ShutdownInv, AfterHandlers, HandlersHoldSlots
  <2>4. CASE main' = "failed" /\ loop' = "stopped" /\ UNCHANGED <<streaming, forward, alive>>
    <3>1. InLine' /\ TypeOK'
      BY <2>1, <2>4, StillInLine DEF TypeOK, MainStages
    <3> QED
      BY <2>1, <2>4, <3>1 DEF ForwardInv, ShutdownInv, AfterHandlers, HandlersHoldSlots
  <2> QED
    BY <1>2, <2>3, <2>4 DEF StartPolling
<1>3. CASE RunEnds
  <2>1. main = "run" /\ UNCHANGED <<handlers, flushed>> /\ Main
        /\ main' \in {"failed", "handlers", "drain"} /\ (main' = "handlers" => loop = "stopped")
    BY <1>3 DEF RunEnds
  <2>2. InLine' /\ TypeOK'
    BY <2>1, StillInLine DEF TypeOK, MainStages, Main
  <2> QED
    BY <2>1, <2>2 DEF ForwardInv, ShutdownInv, AfterHandlers, HandlersHoldSlots, Main
<1>4. CASE DrainEnds
  <2>1. main = "drain" /\ main' = "handlers" /\ UNCHANGED <<handlers, flushed>> /\ Main
        /\ (loop = "stopped" \/ deadline)
    BY <1>4 DEF DrainEnds
  <2>2. InLine' /\ TypeOK'
    BY <2>1, StillInLine DEF TypeOK, MainStages, Main
  <2> QED
    BY <2>1, <2>2 DEF ForwardInv, ShutdownInv, AfterHandlers, HandlersHoldSlots, Main
<1>5. CASE StopHandlers
  <2>1. main = "handlers" /\ loop' = "stopped" /\ UNCHANGED <<slots, running, handled, flushed>> /\ Main
        /\ (main' = main \/ (main' = "registration" /\ (running = {} \/ deadline)))
    BY <1>5 DEF StopHandlers
  <2>2. InLine' /\ TypeOK'
    BY <2>1, StillInLine DEF TypeOK, MainStages, Main
  <2> QED
    BY <2>1, <2>2 DEF ForwardInv, ShutdownInv, AfterHandlers, HandlersHoldSlots, Main
<1>6. CASE WaitForShutdownComponent
  <2>1. main \in Components /\ main' = After[main] /\ UNCHANGED <<handlers, flushed>> /\ Main
    BY <1>6 DEF WaitForShutdownComponent
  <2>2. \/ main = "registration" /\ main' = "heartbeat"
        \/ main = "heartbeat" /\ main' = "flush"
        \/ main = "feed" /\ main' = "notifier"
        \/ main = "notifier" /\ main' = "exit"
    <3>1. /\ After["registration"] = "heartbeat" /\ After["heartbeat"] = "flush"
          /\ After["feed"] = "notifier" /\ After["notifier"] = "exit"
      BY DEF After
    <3> QED
      BY <2>1, <3>1 DEF Components
  <2>3. InLine' /\ TypeOK'
    BY <2>1, <2>2, StillInLine DEF TypeOK, MainStages, Main
  <2> QED
    BY <2>1, <2>2, <2>3 DEF ForwardInv, ShutdownInv, AfterHandlers, HandlersHoldSlots, Main
<1>7. CASE FlushVerification
  <2>1. main = "flush" /\ flushed' = TRUE /\ main' = "feed" /\ UNCHANGED handlers /\ Main
    BY <1>7 DEF FlushVerification
  <2>2. InLine' /\ TypeOK'
    BY <2>1, StillInLine DEF TypeOK, MainStages, Main
  <2> QED
    BY <2>1, <2>2 DEF ForwardInv, ShutdownInv, AfterHandlers, HandlersHoldSlots, Main
<1>8. CASE DeadlinePasses
  <2>1. deadline' = TRUE /\ UNCHANGED <<main, cancelled, poller, forward, handlers, components, flushed>>
    BY <1>8 DEF DeadlinePasses
  <2>2. InLine' /\ TypeOK'
    BY <2>1, StillInLine DEF TypeOK
  <2> QED
    BY <2>1, <2>2 DEF ForwardInv, ShutdownInv, HandlersHoldSlots
<1> QED
  BY <1>1, <1>2, <1>3, <1>4, <1>5, <1>6, <1>7, <1>8 DEF MainSteps

\* The signal, the components and systemd touch no update.
LEMMA OtherStep ==
  ASSUME IInv,
         Signal \/ (\E c \in Components : ComponentEnds(c)) \/ NotifyReady \/ NotifyWatchdog \/ NotifyStopping
           \/ UNCHANGED vars
  PROVE  IInv'
<1> USE DEF IInv
<1>1. /\ UNCHANGED <<main, deadline, poller, forward, handlers, flushed>>
      /\ cancelled' \in BOOLEAN /\ alive' \subseteq Components /\ progress' \in BOOLEAN
      /\ systemd' \in {"none", "ready", "stopping"}
  BY DEF TypeOK, Signal, ComponentEnds, NotifyReady, NotifyWatchdog, NotifyStopping, vars
<1>2. InLine' /\ TypeOK'
  BY <1>1, StillInLine DEF TypeOK
<1> QED
  BY <1>1, <1>2 DEF ForwardInv, ShutdownInv, HandlersHoldSlots

-----------------------------------------------------------------------------
(* The theorems *)

\* The invariant behind the two properties below.
THEOREM LifecycleSafe == Spec => []IInv
<1>1. Init => IInv
  BY InitIInv
<1>2. IInv /\ [Next]_vars => IInv'
  BY PollerStep, DrainStep, ReceiveStep, CloseStep, SlotStep, SendStep, ReturnStep, LoopEndStep, MainStep,
     OtherStep DEF Next, Forwarding
<1> QED
  BY <1>1, <1>2, PTL DEF Spec

\* However many updates arrive, every running handler holds a slot and their number never passes
\* maxConcurrentUpdateHandlers.
THEOREM SlotsAreHeld == Spec => []HandlersHoldSlots
<1>1. IInv => HandlersHoldSlots
  BY DEF IInv
<1> QED
  BY <1>1, LifecycleSafe, PTL

\* An update that Telegram counts as delivered is in the process until its handler returns, and a
\* shutdown within its deadline flushes after the last of them.
THEOREM ConfirmedIsKept == Spec => []NothingConfirmedIsLost
<1>1. IInv => NothingConfirmedIsLost
  <2> SUFFICES ASSUME IInv PROVE NothingConfirmedIsLost
    OBVIOUS
  <2> USE DEF IInv
  <2>1. ASSUME NEW u \in Updates, u < offset
        PROVE  u \in Received \/ \E i \in 1..Len(batch) : batch[i] = u
    <3>0. u \in Nat \ {0} /\ MaxUpdate \in Nat
      BY SizeAssumption DEF Updates
    <3>1. CASE u >= Low
      <4>1. u - Low + 1 \in 1..Len(batch)
        BY <2>1, <3>0, <3>1, ForwardTypes
      <4>2. batch[u - Low + 1] = Low + (u - Low + 1) - 1
        BY <4>1 DEF InLine
      <4> QED
        <5>1. batch[u - Low + 1] = u
          BY <3>0, <4>2, ForwardTypes
        <5> QED
          BY <4>1, <5>1
    <3>2. CASE u < Low /\ u >= First
      <4>1. u - First + 1 \in 1..Len(source)
        BY <3>0, <3>2, ForwardTypes
      <4>2. source[u - First + 1] = First + (u - First + 1) - 1
        BY <4>1 DEF InLine
      <4>3. source[u - First + 1] = u
        BY <3>0, <4>2, ForwardTypes
      <4> QED
        BY <4>1, <4>3 DEF Received
    <3>3. CASE u < First
      <4>1. CASE u < Next1
        BY <3>0, <4>1 DEF InLine, Received
      <4>2. CASE u >= Next1
        <5>1. forward.held = u
          BY <3>0, <3>3, <4>2, ForwardTypes DEF InLine, Next1
        <5> QED
          BY <3>0, <5>1 DEF Received
      <4>3. Next1 \in Nat
        BY DEF InLine
      <4> QED
        BY <3>0, <4>1, <4>2, <4>3
    <3> QED
      BY <3>0, <3>1, <3>2, <3>3, ForwardTypes
  <2>2. flushed /\ ~deadline => Received = handled
    <3>1. HAVE flushed /\ ~deadline
    <3>2. main \in AfterHandlers /\ main # "failed"
      BY <3>1 DEF ShutdownInv, AfterHandlers
    <3>3. running = {} /\ source = <<>> /\ forward.held = 0
      BY <3>1, <3>2 DEF ShutdownInv, ForwardInv
    <3> QED
      BY <3>3 DEF Received
  <2> QED
    BY <2>1, <2>2 DEF NothingConfirmedIsLost
<1> QED
  BY <1>1, LifecycleSafe, PTL

=============================================================================
