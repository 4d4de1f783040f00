------------------------- MODULE Registration_proofs -------------------------
(***************************************************************************)
(* The properties of Registration, for any groups, nonces and goroutines,  *)
(* and any number of ticks, updates, faults and restarts.                  *)
(***************************************************************************)
EXTENDS Registration, TLAPS

USE DEF settled, telegram, history, bounds

InLock == {"ask", "commit", "leaving"}
Ops == {"consume", "complete", "owner", "persist"}

\* The transition lock of a group is held by one goroutine.
Exclusive ==
  \A v, w \in Workers :
    worker[v].at \in InLock /\ worker[w].at \in InLock /\ worker[v].g = worker[w].g => v = w

\* What a goroutine knows under the lock of the record r, the groups l the bot left and the groups
\* e ever registered: a snapshot at the revision in force is the record in force, a group it leaves
\* is unknown, and one it saw the bot in has not been left.
Knows(c, r, l, e) ==
  /\ c.at # "idle" => c.g \in Groups
  /\ c.at \in {"lock", "ask", "commit"} => c.op \in Ops /\ (c.op = "consume" => c.n \in Nonces)
  /\ c.at \in {"ask", "commit"} =>
       /\ c.snap \in Registrations /\ c.snap.rev <= r.rev
       /\ c.snap.rev = r.rev => c.snap = r
  /\ c.at = "leaving" => c.g \notin r.registered
  /\ c.at = "commit" /\ c.seen # "out" => c.g \notin l
  /\ c.at = "cancel" => c.g \in e
WorkInv == \A w \in Workers : Knows(worker[w], reg, left, enrolled)

\* A nonce that was not drawn yet is worth nothing; one that still is has paid for nothing.
NonceInv ==
  \A n \in Nonces :
    /\ reg.nonces[n] # 0 => n \in issued
    /\ n \notin issued \/ reg.nonces[n] # 0 => spent[n] = 0

LeftInv == \A g \in left : bot[g] = "out"
TimerInv == \A g \in Groups : waiting[g] # 0 => [g |-> g, at |-> waiting[g]] \in timers

IInv ==
  /\ TypeOK /\ Exclusive /\ WorkInv
  /\ NonceInv /\ NonceSpentOnce
  /\ LeftInv /\ EnrolledGroupKept /\ reg.registered \subseteq enrolled
  /\ PendingIsNotLeaving
  /\ TimerInv /\ NoLeaveForgotten

-----------------------------------------------------------------------------
(* Values *)

LEMMA BlankType == Blank \in Registrations
  BY LifeAssumption, UserAssumption DEF Blank, Registrations

LEMMA IdleType == Idle \in Works
  BY DEF Idle, Works, Stages, Memberships

\* next changes what r says of g, and no nonce.
Changes(r, next, g) ==
  /\ next \in Registrations /\ next.rev = r.rev /\ next.nonces = r.nonces
  /\ \A h \in Groups \ {g} : next.pending[h] = r.pending[h] /\ next.leaves[h] = r.leaves[h]

LEMMA AddRegisteredGroupFacts ==
  ASSUME NEW r \in Registrations, NEW g \in Groups
  PROVE  /\ Changes(r, AddRegisteredGroup(r, g), g)
         /\ AddRegisteredGroup(r, g).registered = r.registered \cup {g}
         /\ AddRegisteredGroup(r, g).pending[g] = 0 /\ AddRegisteredGroup(r, g).leaves[g] = 0
  BY DEF Registrations, Changes, AddRegisteredGroup

LEMMA PutPendingFacts ==
  ASSUME NEW r \in Registrations, NEW g \in Groups, NEW exp \in Nat
  PROVE  /\ Changes(r, PutPending(r, g, exp), g)
         /\ PutPending(r, g, exp).registered = r.registered
         /\ PutPending(r, g, exp).leaves[g] = 0
  BY DEF Registrations, Changes, PutPending

LEMMA PutLeaveFacts ==
  ASSUME NEW r \in Registrations, NEW g \in Groups, NEW exp \in Nat
  PROVE  /\ Changes(r, PutLeave(r, g, exp), g)
         /\ PutLeave(r, g, exp).registered = r.registered
         /\ PutLeave(r, g, exp).pending[g] = r.pending[g]
         /\ PutLeave(r, g, exp).leaves[g] = IF exp > r.leaves[g] THEN exp ELSE r.leaves[g]
  BY DEF Registrations, Changes, PutLeave

LEMMA ClearLeaveFacts ==
  ASSUME NEW r \in Registrations, NEW g \in Groups
  PROVE  /\ Changes(r, ClearLeave(r, g), g)
         /\ ClearLeave(r, g).registered = r.registered
         /\ ClearLeave(r, g).pending[g] = r.pending[g] /\ ClearLeave(r, g).leaves[g] = 0
  BY DEF Registrations, Changes, ClearLeave

LEMMA LapseFacts ==
  ASSUME NEW r \in Registrations, NEW g \in Groups
  PROVE  /\ Changes(r, Lapse(r, g), g)
         /\ Lapse(r, g).registered = r.registered /\ Lapse(r, g).pending[g] = 0
         /\ Lapse(r, g).leaves[g] # 0 => r.pending[g] # 0 \/ r.leaves[g] # 0
<1> DEFINE q == [r EXCEPT !.pending[g] = 0]
<1>1. /\ Changes(r, q, g) /\ q.registered = r.registered /\ q.pending[g] = 0 /\ q.leaves = r.leaves
      /\ r.pending[g] \in Nat
  BY DEF Registrations, Changes
<1>2. Lapse(r, g) = PutLeave(q, g, r.pending[g])
  BY DEF Lapse
<1> HIDE DEF q
<1>3. q \in Registrations
  BY <1>1 DEF Changes
<1>4. /\ Changes(q, Lapse(r, g), g) /\ Lapse(r, g).registered = q.registered
      /\ Lapse(r, g).pending[g] = q.pending[g]
      /\ Lapse(r, g).leaves[g] = IF r.pending[g] > q.leaves[g] THEN r.pending[g] ELSE q.leaves[g]
  BY <1>1, <1>2, <1>3, PutLeaveFacts
<1> QED
  BY <1>1, <1>4 DEF Changes

LEMMA RemoveRegisteredFacts ==
  ASSUME NEW r \in Registrations, NEW g \in Groups, now \in Nat
  PROVE  /\ Changes(r, RemoveRegistered(r, g), g)
         /\ RemoveRegistered(r, g).registered = r.registered \ {g}
         /\ RemoveRegistered(r, g).pending[g] = 0
<1> DEFINE q == [r EXCEPT !.registered = @ \ {g}, !.pending[g] = 0]
<1>1. Changes(r, q, g) /\ q.registered = r.registered \ {g} /\ q.pending[g] = 0
  BY DEF Registrations, Changes
<1>2. RemoveRegistered(r, g) = PutLeave(q, g, now)
  BY DEF RemoveRegistered
<1> HIDE DEF q
<1>3. q \in Registrations
  BY <1>1 DEF Changes
<1>4. /\ Changes(q, RemoveRegistered(r, g), g) /\ RemoveRegistered(r, g).registered = q.registered
      /\ RemoveRegistered(r, g).pending[g] = q.pending[g]
  BY <1>2, <1>3, PutLeaveFacts
<1> QED
  BY <1>1, <1>4 DEF Changes

\* Where Go sends a goroutine.
Going(w, stage, exp) == [Idle EXCEPT !.at = stage, !.g = worker[w].g, !.exp = exp]

LEMMA GoFacts ==
  ASSUME IInv, NEW w \in Workers, worker[w].at # "idle", NEW stage \in Stages, NEW exp \in Nat
  PROVE  /\ Going(w, stage, exp) \in Works
         /\ Going(w, stage, exp).at = stage /\ Going(w, stage, exp).g = worker[w].g
         /\ worker[w].g \in Groups
  BY IdleType DEF Going, IInv, TypeOK, WorkInv, Knows, Works, Idle

\* A commit is the change asked for at the next revision, or nothing.
LEMMA CommittedFacts ==
  ASSUME NEW next \in Registrations, reg \in Registrations, next.rev = reg.rev
  PROVE  /\ Committed(next) \in Registrations
         /\ Committed(next).rev >= reg.rev /\ (Committed(next).rev = reg.rev => Committed(next) = reg)
         /\ Committed(next).registered = next.registered /\ Committed(next).nonces = next.nonces
         /\ Committed(next).pending = next.pending /\ Committed(next).leaves = next.leaves
  BY DEF Committed, Registrations

LEMMA CommittedSame == Committed(reg) = reg
  BY DEF Committed

-----------------------------------------------------------------------------
(* The step of one goroutine, for a group g whose lock it holds when the step needs it, to c, with *)
(* the change of the record to next *)

Recorded(g) == reg.pending[g] # 0 \/ reg.leaves[g] # 0
Held(g) ==
  \/ g \in enrolled \cup tried
  \/ [g |-> g, at |-> waiting[g]] \in timers
  \/ \E w \in Workers : worker[w].g = g /\ worker[w].at \in Acting

LEMMA HeldInv == IInv => \A g \in Groups : Recorded(g) => Held(g)
  BY DEF IInv, NoLeaveForgotten, Recorded, Held

\* Its goroutine knows what it needs and the others are undisturbed.
LEMMA WorkersStep ==
  ASSUME IInv, NEW w \in Workers, NEW g \in Groups, NEW c \in Works,
         worker' = [worker EXCEPT ![w] = c],
         worker[w].at \in InLock => worker[w].g = g,
         c.at # "idle" => c.g = g,
         Knows(c, reg', left', enrolled'),
         c.at \in InLock => worker[w].at \in InLock \/ ~Locked(g),
         NEW next \in Registrations, next.rev = reg.rev, reg' = Committed(next),
         next.registered \subseteq reg.registered \cup {g}, left' \subseteq left \cup {g},
         g \in (next.registered \ reg.registered) \cup (left' \ left) => worker[w].at \in InLock,
         enrolled \subseteq enrolled'
  PROVE  worker' \in [Workers -> Works] /\ Exclusive' /\ WorkInv'
<1>1. worker' \in [Workers -> Works] /\ reg \in Registrations
  BY DEF IInv, TypeOK
<1>2. /\ worker'[w] = c
      /\ \A v \in Workers \ {w} : worker'[v] = worker[v]
  BY DEF IInv, TypeOK
<1>3. ASSUME NEW v \in Workers \ {w}, worker[v].at \in InLock, worker[v].g = g
      PROVE  worker[w].at \notin InLock /\ Locked(g)
  BY <1>3 DEF IInv, Exclusive, Locked, InLock
<1>4. Exclusive'
  <2>1. ASSUME NEW v \in Workers \ {w}, worker[v].at \in InLock, c.at \in InLock, worker[v].g = c.g
        PROVE  FALSE
    BY <2>1, <1>3 DEF InLock
  <2> QED
    BY <2>1, <1>2 DEF IInv, Exclusive
<1>5. ASSUME NEW v \in Workers PROVE Knows(worker'[v], reg', left', enrolled')
  <2>1. CASE v = w
    BY <2>1, <1>2
  <2>2. CASE v # w
    <3>1. Knows(worker[v], reg, left, enrolled) /\ worker'[v] = worker[v]
      BY <2>2, <1>2 DEF IInv, WorkInv
    <3>2. /\ reg' \in Registrations /\ reg'.rev >= reg.rev /\ (reg'.rev = reg.rev => reg' = reg)
          /\ reg'.registered = next.registered
      BY <1>1, CommittedFacts
    <3>3. reg.rev \in Nat /\ reg'.rev \in Nat
      BY <1>1, <3>2 DEF Registrations
    <3>4. worker[v].at = "leaving" => worker[v].g \notin reg'.registered
      BY <3>1, <3>2, <1>3, <2>2 DEF Knows, InLock
    <3>5. worker[v].at = "commit" /\ worker[v].seen # "out" => worker[v].g \notin left'
      BY <3>1, <1>3, <2>2 DEF Knows, InLock
    <3>6. worker[v].at \in {"ask", "commit"} =>
            /\ worker[v].snap \in Registrations /\ worker[v].snap.rev <= reg'.rev
            /\ worker[v].snap.rev = reg'.rev => worker[v].snap = reg'
      <4>1. HAVE worker[v].at \in {"ask", "commit"}
      <4>2. /\ worker[v].snap \in Registrations /\ worker[v].snap.rev <= reg.rev
            /\ worker[v].snap.rev = reg.rev => worker[v].snap = reg
        BY <4>1, <3>1 DEF Knows
      <4>3. worker[v].snap.rev \in Nat
        BY <4>2 DEF Registrations
      <4> QED
        BY <4>2, <4>3, <3>2, <3>3
    <3> QED
      BY <3>1, <3>4, <3>5, <3>6 DEF Knows
  <2> QED
    BY <2>1, <2>2
<1> QED
  BY <1>1, <1>4, <1>5 DEF WorkInv

\* A deadline of another group is left alone; that of g is cleared, or still cared for.
LEMMA DeadlinesStep ==
  ASSUME IInv, NEW w \in Workers, NEW g \in Groups, NEW c \in Works,
         worker' = [worker EXCEPT ![w] = c],
         worker[w].at \in Acting => worker[w].g = g,
         NEW next \in Registrations, next.rev = reg.rev, reg' = Committed(next),
         \A h \in Groups \ {g} : next.pending[h] = reg.pending[h] /\ next.leaves[h] = reg.leaves[h],
         next.pending[g] = 0 \/ next.leaves[g] = 0,
         next.pending[g] # 0 \/ next.leaves[g] # 0 =>
           \/ c.at \in Acting /\ c.g = g
           \/ g \in enrolled' \cup tried'
           \/ worker[w].at \notin Acting /\ Recorded(g),
         UNCHANGED <<waiting, timers>>,
         enrolled \subseteq enrolled', tried \subseteq tried'
  PROVE  PendingIsNotLeaving' /\ TimerInv' /\ NoLeaveForgotten'
<1>1. /\ worker'[w] = c
      /\ \A v \in Workers \ {w} : worker'[v] = worker[v]
  BY DEF IInv, TypeOK
<1>2. reg'.pending = next.pending /\ reg'.leaves = next.leaves
  BY CommittedFacts DEF IInv, TypeOK
<1>3. PendingIsNotLeaving'
  BY <1>2 DEF IInv, PendingIsNotLeaving
<1>4. TimerInv'
  BY DEF IInv, TimerInv
<1>5. ASSUME NEW h \in Groups, reg'.pending[h] # 0 \/ reg'.leaves[h] # 0
      PROVE  Held(h)'
  <2>1. CASE h # g
    <3>1. Held(h)
      BY <1>2, <1>5, <2>1, HeldInv DEF Recorded
    <3> QED
      BY <3>1, <2>1, <1>1 DEF Held
  <2>2. CASE h = g
    <3>1. CASE c.at \in Acting /\ c.g = g
      BY <3>1, <2>2, <1>1 DEF Held
    <3>2. CASE g \in enrolled' \cup tried'
      BY <3>2, <2>2 DEF Held
    <3>3. CASE worker[w].at \notin Acting /\ Recorded(g)
      <4>1. Held(g)
        BY <3>3, HeldInv
      <4> QED
        BY <4>1, <3>3, <2>2, <1>1 DEF Held
    <3> QED
      BY <3>1, <3>2, <3>3, <2>2, <1>5, <1>2
  <2> QED
    BY <2>1, <2>2
<1>6. NoLeaveForgotten'
  BY <1>5 DEF NoLeaveForgotten, Held
<1> QED
  BY <1>3, <1>4, <1>6

\* Both together, for a step that spends no nonce and leaves Telegram and the deadlines alone.
LEMMA RecordStep ==
  ASSUME IInv, NEW w \in Workers, NEW g \in Groups, NEW c \in Works,
         worker' = [worker EXCEPT ![w] = c],
         worker[w].at # "idle" => worker[w].g = g,
         c.at # "idle" => c.g = g,
         Knows(c, reg', left', enrolled'),
         c.at \in InLock => worker[w].at \in InLock \/ ~Locked(g),
         NEW next, Changes(reg, next, g), reg' = Committed(next),
         next.registered \subseteq reg.registered \cup {g},
         g \in next.registered \ reg.registered => worker[w].at \in InLock /\ g \notin left,
         next.pending[g] = 0 \/ next.leaves[g] = 0,
         next.pending[g] # 0 \/ next.leaves[g] # 0 =>
           \/ c.at \in Acting /\ c.g = g
           \/ g \in enrolled
           \/ worker[w].at \notin Acting /\ Recorded(g),
         enrolled' = enrolled \cup next.registered,
         UNCHANGED <<waiting, timers, bot, left, issued, spent, tried>>,
         now' \in Nat, events' \in Nat, faults' \in Nat, restarts' \in Nat
  PROVE  IInv'
<1>0. next \in Registrations /\ next.rev = reg.rev /\ next.nonces = reg.nonces
      /\ \A h \in Groups \ {g} : next.pending[h] = reg.pending[h] /\ next.leaves[h] = reg.leaves[h]
  BY DEF Changes
<1>1. worker' \in [Workers -> Works] /\ Exclusive' /\ WorkInv'
  <2>1. enrolled \subseteq enrolled' /\ left' \subseteq left \cup {g} /\ left' \ left = {}
    OBVIOUS
  <2>2. g \in (next.registered \ reg.registered) \cup (left' \ left) => worker[w].at \in InLock
    BY <2>1
  <2>3. worker[w].at \in InLock => worker[w].g = g
    BY DEF InLock
  <2> QED
    BY <2>1, <2>2, <2>3, <1>0, WorkersStep
<1>2. PendingIsNotLeaving' /\ TimerInv' /\ NoLeaveForgotten'
  <2>1. enrolled \subseteq enrolled' /\ tried \subseteq tried'
    OBVIOUS
  <2>2. worker[w].at \in Acting => worker[w].g = g
    BY DEF Acting
  <2> QED
    BY <2>1, <2>2, <1>0, DeadlinesStep
<1>3. reg' \in Registrations /\ reg'.nonces = reg.nonces /\ reg'.registered = next.registered
  BY <1>0, CommittedFacts DEF IInv, TypeOK
<1>4. TypeOK'
  BY <1>1, <1>3 DEF IInv, TypeOK, Registrations
<1>5. NonceInv' /\ NonceSpentOnce' /\ LeftInv'
  BY <1>3 DEF IInv, NonceInv, NonceSpentOnce, LeftInv
<1>6. EnrolledGroupKept' /\ (reg.registered \subseteq enrolled)'
  BY <1>3 DEF IInv, EnrolledGroupKept
<1> QED
  BY <1>1, <1>2, <1>4, <1>5, <1>6 DEF IInv

\* A step that changes no record either.
LEMMA QuietStep ==
  ASSUME IInv, NEW w \in Workers, NEW g \in Groups, NEW c \in Works,
         worker' = [worker EXCEPT ![w] = c],
         worker[w].at # "idle" => worker[w].g = g,
         c.at # "idle" => c.g = g,
         Knows(c, reg, left, enrolled),
         c.at \in InLock => worker[w].at \in InLock \/ ~Locked(g),
         worker[w].at \in Acting => c.at \in Acting \/ g \in enrolled,
         UNCHANGED <<reg, waiting, timers, bot, left, issued, spent, enrolled, tried>>,
         now' \in Nat, events' \in Nat, faults' \in Nat, restarts' \in Nat
  PROVE  IInv'
<1>1. reg \in Registrations /\ reg' = Committed(reg) /\ reg' = reg /\ left' = left
  BY CommittedSame DEF IInv, TypeOK
<1>2. enrolled' = enrolled \cup reg.registered /\ enrolled' = enrolled
  BY DEF IInv
<1>3. reg.pending[g] = 0 \/ reg.leaves[g] = 0
  BY DEF IInv, PendingIsNotLeaving
<1>4. Knows(c, reg', left', enrolled')
  BY <1>1, <1>2
<1>5. reg.pending[g] # 0 \/ reg.leaves[g] # 0 =>
           \/ c.at \in Acting /\ c.g = g
           \/ g \in enrolled
           \/ worker[w].at \notin Acting /\ Recorded(g)
  BY DEF Recorded, Acting
<1>6. reg.registered \subseteq reg.registered \cup {g} /\ reg.registered \ reg.registered = {}
  OBVIOUS
<1>7. Changes(reg, reg, g)
  BY <1>1 DEF Changes
<1> QED
  BY <1>1, <1>2, <1>3, <1>4, <1>5, <1>6, <1>7, RecordStep

-----------------------------------------------------------------------------
(* An update arrives *)

LEMMA StartKeeps ==
  ASSUME IInv, NEW w \in Workers, NEW g \in Groups, NEW stage \in {"lock", "leave", "routed", "unregister"},
         NEW op \in {"none", "consume"}, NEW n \in Nonces \cup {None},
         stage = "lock" => op = "consume" /\ n \in Nonces,
         Start(w, g, stage, op, n)
  PROVE  IInv'
<1> DEFINE c == [Idle EXCEPT !.at = stage, !.op = op, !.g = g, !.n = n]
<1>1. c \in Works
  BY IdleType DEF Works, Idle, Stages
<1>2. c.at = stage /\ c.op = op /\ c.g = g /\ c.n = n
  BY DEF Idle
<1>3. worker[w].at = "idle" /\ worker' = [worker EXCEPT ![w] = c]
      /\ UNCHANGED <<reg, waiting, timers, bot, left, issued, spent, enrolled, tried>>
      /\ now' \in Nat /\ events' \in Nat /\ faults' \in Nat /\ restarts' \in Nat
  BY DEF Start, At, IInv, TypeOK
<1> HIDE DEF c
<1>4. Knows(c, reg, left, enrolled)
  BY <1>2 DEF Knows, Ops
<1>5. c.at \notin InLock /\ worker[w].at \notin Acting
  BY <1>2, <1>3 DEF InLock, Acting
<1> QED
  BY <1>1, <1>2, <1>3, <1>4, <1>5, QuietStep

LEMMA BeginKeeps ==
  ASSUME IInv, NEW w \in Workers, Begin(w)
  PROVE  IInv'
<1>1. ASSUME NEW g \in Groups, OnMyChatMember(w, g) PROVE IInv'
  BY <1>1, StartKeeps DEF OnMyChatMember
<1>2. ASSUME NEW g \in Groups, OnUnregisterCommand(w, g) PROVE IInv'
  BY <1>2, StartKeeps DEF OnUnregisterCommand
<1>3. ASSUME NEW g \in Groups, NEW n \in Nonces, OnEnrollmentStart(w, g, n) PROVE IInv'
  BY <1>3, StartKeeps DEF OnEnrollmentStart
<1> QED
  BY <1>1, <1>2, <1>3 DEF Begin

-----------------------------------------------------------------------------
(* Steps that change no record *)

\* The handler goes on to a stage outside the lock that needs no knowledge.
LEMMA GoKeeps ==
  ASSUME IInv, NEW w \in Workers, NEW stage \in {"leave", "schedule", "leaving"}, NEW exp \in Nat,
         worker[w].at # "idle",
         worker[w].at \in Acting => stage \in Acting,
         stage = "leaving" => ~Locked(worker[w].g) /\ ~IsKnownChat(worker[w].g),
         GoUntil(w, stage, exp),
         UNCHANGED <<reg, waiting, timers, bot, left, issued, spent, enrolled, tried>>,
         now' \in Nat, events' \in Nat, faults' \in Nat, restarts' \in Nat
  PROVE  IInv'
<1> DEFINE c == Going(w, stage, exp)
<1>1. c \in Works /\ c.at = stage /\ c.g = worker[w].g /\ worker[w].g \in Groups
  BY GoFacts DEF Stages
<1>2. worker' = [worker EXCEPT ![w] = c]
  BY DEF GoUntil, Going
<1> HIDE DEF c
<1>3. Knows(c, reg, left, enrolled)
  BY <1>1 DEF Knows, IsKnownChat
<1>4. c.at \in InLock => ~Locked(worker[w].g)
  BY <1>1 DEF InLock
<1> QED
  BY <1>1, <1>2, <1>3, <1>4, QuietStep

\* The handler ends; nobody else holds a leave for its group.
LEMMA DoneKeeps ==
  ASSUME IInv, NEW w \in Workers, worker[w].at # "idle", Done(w),
         worker[w].at \in Acting => worker[w].g \in enrolled,
         UNCHANGED <<reg, waiting, timers, bot, left, issued, spent, enrolled, tried>>,
         now' \in Nat, events' \in Nat, faults' \in Nat, restarts' \in Nat
  PROVE  IInv'
<1>1. Idle \in Works /\ Idle.at = "idle" /\ worker' = [worker EXCEPT ![w] = Idle]
  BY IdleType DEF Idle, Done
<1>2. worker[w].g \in Groups
  BY DEF IInv, WorkInv, Knows
<1>3. Knows(Idle, reg, left, enrolled)
  BY <1>1 DEF Knows
<1>4. Idle.at \notin InLock
  BY <1>1 DEF InLock
<1> QED
  BY <1>1, <1>2, <1>3, <1>4, QuietStep

LEMMA RouteKeeps ==
  ASSUME IInv, NEW w \in Workers, RouteMembership(w)
  PROVE  IInv'
<1>1. worker[w] \in Works /\ worker[w].at = "routed" /\ worker[w].g \in Groups
  BY DEF RouteMembership, At, IInv, TypeOK, WorkInv, Knows
<1>2. reg.pending[worker[w].g] \in Nat /\ now + PendingLife \in Nat
  BY <1>1, LifeAssumption DEF IInv, TypeOK, Registrations
<1>3. UNCHANGED <<reg, waiting, timers, bot, left, issued, spent, enrolled, tried>>
      /\ now' \in Nat /\ events' \in Nat /\ faults' \in Nat /\ restarts' \in Nat
  BY DEF RouteMembership, IInv, TypeOK
<1>4. ASSUME NEW stage \in {"leave", "expire", "lock"}, NEW op \in Ops \cup {"none"}, NEW exp \in Nat,
             stage = "lock" => op \in Ops \ {"consume"},
             worker' = [worker EXCEPT ![w].at = stage, ![w].op = op, ![w].exp = exp]
      PROVE  IInv'
  <2> DEFINE c == [worker[w] EXCEPT !.at = stage, !.op = op, !.exp = exp]
  <2>1. c.at = stage /\ c.op = op /\ c.g = worker[w].g
    BY <1>1 DEF Works
  <2>2. c \in Works
    BY <1>1 DEF Works, Stages, Ops
  <2>3. worker' = [worker EXCEPT ![w] = c]
    BY <1>4, <1>1 DEF IInv, TypeOK
  <2> HIDE DEF c
  <2>4. Knows(c, reg, left, enrolled)
    BY <1>1, <1>4, <2>1 DEF Knows, Ops
  <2>5. c.at \notin InLock /\ worker[w].at \notin Acting
    BY <1>1, <2>1 DEF InLock, Acting
  <2> QED
    BY <1>1, <1>3, <2>1, <2>2, <2>3, <2>4, <2>5, QuietStep
<1>5. \E stage \in {"leave", "expire", "lock"}, op \in Ops \cup {"none"}, exp \in Nat :
        /\ stage = "lock" => op \in Ops \ {"consume"}
        /\ worker' = [worker EXCEPT ![w].at = stage, ![w].op = op, ![w].exp = exp]
  <2> DEFINE Enter(stage, op, e) == worker' = [worker EXCEPT ![w].at = stage, ![w].op = op, ![w].exp = e]
  <2>1. \/ Enter("leave", "none", 0)
        \/ Enter("expire", "none", reg.pending[worker[w].g])
        \/ Enter("lock", "complete", reg.pending[worker[w].g])
        \/ Enter("lock", "owner", now + PendingLife)
        \/ Enter("lock", "persist", now + PendingLife)
    BY DEF RouteMembership
  <2>2. SUFFICES \E stage \in {"leave", "expire", "lock"}, op \in Ops \cup {"none"}, exp \in Nat :
                   (stage = "lock" => op \in Ops \ {"consume"}) /\ Enter(stage, op, exp)
    OBVIOUS
  <2> HIDE DEF Enter
  <2> QED
    BY <2>1, <1>2 DEF Ops
<1> QED
  BY <1>4, <1>5

\* From the transition lock on, a handler works on a snapshot of the record.
LEMMA AskKeeps ==
  ASSUME IInv, NEW w \in Workers, worker[w].at \in {"lock", "commit"},
         worker[w].at = "lock" => ~Locked(worker[w].g),
         worker' = [worker EXCEPT ![w].at = "ask", ![w].snap = reg],
         UNCHANGED <<reg, waiting, timers, bot, left, issued, spent, enrolled, tried>>,
         now' \in Nat, events' \in Nat, faults' \in Nat, restarts' \in Nat
  PROVE  IInv'
<1> DEFINE c == [worker[w] EXCEPT !.at = "ask", !.snap = reg]
<1>1. worker[w] \in Works /\ worker[w].g \in Groups /\ worker[w].op \in Ops
      /\ (worker[w].op = "consume" => worker[w].n \in Nonces) /\ reg \in Registrations /\ reg.rev \in Nat
  BY DEF IInv, TypeOK, WorkInv, Knows, Registrations
<1>2. c.at = "ask" /\ c.op = worker[w].op /\ c.g = worker[w].g /\ c.n = worker[w].n /\ c.snap = reg
  BY <1>1 DEF Works
<1>3. c \in Works
  BY <1>1 DEF Works, Stages
<1>4. worker' = [worker EXCEPT ![w] = c]
  BY <1>1 DEF IInv, TypeOK
<1> HIDE DEF c
<1>5. Knows(c, reg, left, enrolled)
  BY <1>1, <1>2 DEF Knows
<1>6. worker[w].at \notin Acting /\ (worker[w].at \in InLock \/ ~Locked(worker[w].g))
  BY DEF Acting, InLock
<1> QED
  BY <1>1, <1>2, <1>3, <1>4, <1>5, <1>6, QuietStep

LEMMA LockKeeps ==
  ASSUME IInv, NEW w \in Workers, Lock(w)
  PROVE  IInv'
<1>1. now' \in Nat /\ events' \in Nat /\ faults' \in Nat /\ restarts' \in Nat
  BY DEF Lock, IInv, TypeOK
<1> QED
  BY <1>1, AskKeeps DEF Lock, At

LEMMA FaultType == TypeOK /\ (Fault \/ NoFault) => faults' \in Nat
  BY DEF TypeOK, Fault, NoFault

\* Under the lock, what the bot is at Telegram cannot be out of date: only the holder of the lock
\* makes the bot leave.
LEMMA MembershipKeeps ==
  ASSUME IInv, NEW w \in Workers, CurrentBotMembership(w)
  PROVE  IInv'
<1>1. worker[w] \in Works /\ worker[w].at = "ask" /\ worker[w].g \in Groups
      /\ Knows(worker[w], reg, left, enrolled)
  BY DEF CurrentBotMembership, At, IInv, TypeOK, WorkInv, Knows
<1>2. UNCHANGED <<reg, waiting, timers, bot, left, issued, spent, enrolled, tried>>
      /\ now' \in Nat /\ events' \in Nat /\ faults' \in Nat /\ restarts' \in Nat
  BY FaultType DEF CurrentBotMembership, IInv, TypeOK, Clock
<1>3. CASE worker' = [worker EXCEPT ![w].at = "commit", ![w].seen = bot[worker[w].g]]
  <2> DEFINE c == [worker[w] EXCEPT !.at = "commit", !.seen = bot[worker[w].g]]
  <2>1. c.at = "commit" /\ c.op = worker[w].op /\ c.g = worker[w].g /\ c.n = worker[w].n
        /\ c.snap = worker[w].snap /\ c.seen = bot[worker[w].g]
    BY <1>1 DEF Works
  <2>2. c \in Works
    BY <1>1 DEF Works, Stages, IInv, TypeOK
  <2>3. worker' = [worker EXCEPT ![w] = c]
    BY <1>3, <1>1 DEF IInv, TypeOK
  <2> HIDE DEF c
  <2>4. c.seen # "out" => c.g \notin left
    BY <2>1 DEF IInv, LeftInv
  <2>5. Knows(c, reg, left, enrolled)
    BY <1>1, <2>1, <2>4 DEF Knows
  <2>6. worker[w].at \in InLock /\ worker[w].at \notin Acting
    BY <1>1 DEF InLock, Acting
  <2> QED
    BY <1>1, <1>2, <2>1, <2>2, <2>3, <2>5, <2>6, QuietStep
<1>4. CASE Go(w, "leave")
  <2>1. worker[w].at \notin Acting
    BY <1>1 DEF Acting
  <2> QED
    BY <1>1, <1>2, <1>4, <2>1, GoKeeps DEF Go
<1> QED
  BY <1>3, <1>4 DEF CurrentBotMembership

-----------------------------------------------------------------------------
(* The commits of an enrolment *)

\* What a handler that decides to commit knows.
LEMMA CommitFacts ==
  ASSUME IInv, NEW w \in Workers, worker[w].at = "commit"
  PROVE  /\ worker[w] \in Works /\ worker[w].g \in Groups
         /\ worker[w].op = "consume" => worker[w].n \in Nonces
         /\ worker[w].snap \in Registrations
         /\ Unchanged(w) => worker[w].snap = reg
         /\ worker[w].seen # "out" => worker[w].g \notin left
         /\ worker[w].at \in InLock /\ worker[w].at \notin Acting /\ worker[w].at # "idle"
         /\ reg \in Registrations /\ reg.pending[worker[w].g] \in Nat /\ reg.leaves[worker[w].g] \in Nat
  BY DEF IInv, TypeOK, WorkInv, Knows, InLock, Acting, Unchanged, Registrations

\* The goroutine after a save knows that its group is enrolled, or is to set its deadline.
LEMMA SavedGoes ==
  ASSUME IInv, NEW w \in Workers, worker[w].at = "commit", NEW next, NEW exp \in Nat,
         NEW stage \in {"cancel", "schedule"}, Saved(w, next, stage, exp),
         stage = "cancel" => worker[w].g \in next.registered
  PROVE  \E c \in Works :
           /\ worker' = [worker EXCEPT ![w] = c]
           /\ c.at = stage /\ c.g = worker[w].g
           /\ Knows(c, reg', left', enrolled')
           /\ c.at # "idle" /\ c.at \notin InLock
<1> DEFINE c == Going(w, stage, exp)
<1>1. c \in Works /\ c.at = stage /\ c.g = worker[w].g /\ worker[w].g \in Groups
  BY GoFacts DEF Stages
<1>2. worker' = [worker EXCEPT ![w] = c]
  BY DEF Saved, GoUntil, Going
<1> HIDE DEF c
<1>3. Knows(c, reg', left', enrolled')
  BY <1>1 DEF Knows, Saved
<1> QED
  BY <1>1, <1>2, <1>3 DEF InLock

LEMMA SavedKeeps ==
  ASSUME IInv, NEW w \in Workers, worker[w].at = "commit", NEW next, NEW exp \in Nat,
         NEW stage \in {"cancel", "schedule"}, Saved(w, next, stage, exp),
         stage = "cancel" => worker[w].g \in next.registered,
         Changes(reg, next, worker[w].g),
         next.registered \subseteq reg.registered \cup {worker[w].g},
         worker[w].seen # "out",
         next.pending[worker[w].g] = 0 \/ next.leaves[worker[w].g] = 0,
         next.pending[worker[w].g] # 0 \/ next.leaves[worker[w].g] # 0 => stage = "schedule",
         UNCHANGED <<issued, spent, tried, waiting, timers, bot, left, Clock>>
  PROVE  IInv'
<1> DEFINE g == worker[w].g
<1>1. PICK c \in Works :
           /\ worker' = [worker EXCEPT ![w] = c]
           /\ c.at = stage /\ c.g = g
           /\ Knows(c, reg', left', enrolled')
           /\ c.at # "idle" /\ c.at \notin InLock
  BY SavedGoes
<1>2. g \in Groups /\ g \notin left /\ worker[w].at \in InLock
  BY CommitFacts
<1>3. reg' = Committed(next) /\ enrolled' = enrolled \cup next.registered
  BY DEF Saved
<1>4. now' \in Nat /\ events' \in Nat /\ faults' \in Nat /\ restarts' \in Nat
  BY FaultType DEF Saved, IInv, TypeOK, Clock
<1>5. stage = "schedule" => c.at \in Acting
  BY <1>1 DEF Acting
<1>6. /\ next.registered \subseteq reg.registered \cup {g}
      /\ next.pending[g] = 0 \/ next.leaves[g] = 0
      /\ next.pending[g] # 0 \/ next.leaves[g] # 0 => stage = "schedule"
      /\ worker[w].g = g /\ Changes(reg, next, g)
  OBVIOUS
<1>7. g \in next.registered \ reg.registered => worker[w].at \in InLock /\ g \notin left
  BY <1>2
<1>8. UNCHANGED <<waiting, timers, bot, left, issued, spent, tried>>
  OBVIOUS
<1> HIDE DEF g
<1> QED
  BY <1>1, <1>2, <1>3, <1>4, <1>5, <1>6, <1>7, <1>8, RecordStep

\* The ways a mutation ends without a save.
LEMMA RefuseKeeps ==
  ASSUME IInv, NEW w \in Workers, worker[w].at = "commit", Refuse(w, "leave") \/ Conflict(w) \/ SaveFailed(w),
         UNCHANGED <<settled, telegram, Clock>>
  PROVE  IInv'
<1>1. UNCHANGED <<reg, waiting, timers, bot, left, issued, spent, enrolled, tried>>
      /\ now' \in Nat /\ events' \in Nat /\ faults' \in Nat /\ restarts' \in Nat
  BY FaultType DEF Refuse, Conflict, SaveFailed, IInv, TypeOK, Clock
<1>2. CASE Go(w, "leave")
  BY <1>1, <1>2, CommitFacts, GoKeeps DEF Go
<1>3. CASE Conflict(w)
  BY <1>1, <1>3, AskKeeps DEF Conflict
<1> QED
  BY <1>2, <1>3 DEF Refuse, SaveFailed

LEMMA CompleteKeeps ==
  ASSUME IInv, NEW w \in Workers, CompletePending(w)
  PROVE  IInv'
<1> DEFINE c == worker[w]
<1>1. worker[w].at = "commit" /\ UNCHANGED <<waiting, timers, bot, left, Clock>>
  BY DEF CompletePending, At
<1>2. CASE GoUntil(w, "schedule", c.exp) /\ UNCHANGED <<reg, faults, history>>
  <2>1. now' \in Nat /\ events' \in Nat /\ faults' \in Nat /\ restarts' \in Nat /\ c.exp \in Nat
    BY <1>1, <1>2, CommitFacts DEF IInv, TypeOK, Clock, Works
  <2> QED
    BY <1>1, <1>2, <2>1, CommitFacts, GoKeeps
<1>3. CASE Refuse(w, "leave") \/ Conflict(w) \/ SaveFailed(w)
  BY <1>1, <1>3, RefuseKeeps
<1>4. CASE c.seen = "admin" /\ Saved(w, AddRegisteredGroup(c.snap, c.g), "cancel", 0)
           /\ UNCHANGED <<issued, spent, tried>>
  <2>1. c.snap = reg /\ c.g \in Groups /\ reg \in Registrations
    BY <1>1, <1>4, CommitFacts DEF Saved
  <2> QED
    BY <1>1, <1>4, <2>1, AddRegisteredGroupFacts, SavedKeeps
<1> QED
  BY <1>2, <1>3, <1>4 DEF CompletePending

LEMMA OwnerKeeps ==
  ASSUME IInv, NEW w \in Workers, AuthorizeOwnerMembership(w)
  PROVE  IInv'
<1> DEFINE c == worker[w]
<1>1. worker[w].at = "commit" /\ UNCHANGED <<waiting, timers, bot, left, Clock>>
  BY DEF AuthorizeOwnerMembership, At
<1>2. CASE Refuse(w, "leave") \/ Conflict(w) \/ SaveFailed(w)
  BY <1>1, <1>2, RefuseKeeps
<1>3. CASE c.seen = "admin" /\ Saved(w, AddRegisteredGroup(c.snap, c.g), "cancel", 0)
           /\ UNCHANGED <<issued, spent, tried>>
  <2>1. c.snap = reg /\ c.g \in Groups /\ reg \in Registrations
    BY <1>1, <1>3, CommitFacts DEF Saved
  <2> QED
    BY <1>1, <1>3, <2>1, AddRegisteredGroupFacts, SavedKeeps
<1>4. CASE c.seen # "out" /\ Saved(w, PutPending(c.snap, c.g, c.exp), "schedule", c.exp)
           /\ UNCHANGED <<issued, spent, tried>>
  <2>1. c.snap = reg /\ c.g \in Groups /\ reg \in Registrations /\ c.exp \in Nat
    BY <1>1, <1>4, CommitFacts DEF Saved, Works
  <2> QED
    BY <1>1, <1>4, <2>1, PutPendingFacts, SavedKeeps
<1> QED
  BY <1>2, <1>3, <1>4 DEF AuthorizeOwnerMembership

LEMMA PersistKeeps ==
  ASSUME IInv, NEW w \in Workers, PersistUnknownLeaveIfMember(w)
  PROVE  IInv'
<1> DEFINE c == worker[w]
           next == PutLeave(c.snap, c.g, c.exp)
<1>1. worker[w].at = "commit" /\ UNCHANGED <<waiting, timers, bot, left, Clock>>
  BY DEF PersistUnknownLeaveIfMember, At
<1>2. CASE Refuse(w, "leave") \/ Conflict(w) \/ SaveFailed(w)
  BY <1>1, <1>2, RefuseKeeps
<1>3. CASE Done(w) /\ UNCHANGED <<reg, faults, history>>
  <2>1. now' \in Nat /\ events' \in Nat /\ faults' \in Nat /\ restarts' \in Nat
    BY <1>1, <1>3 DEF IInv, TypeOK, Clock
  <2> QED
    BY <1>1, <1>3, <2>1, CommitFacts, DoneKeeps
<1>4. CASE /\ c.seen = "member" /\ c.snap.pending[c.g] = 0
           /\ Saved(w, next, "schedule", next.leaves[c.g])
           /\ UNCHANGED <<issued, spent, tried>>
  <2>1. c.snap = reg /\ c.g \in Groups /\ reg \in Registrations /\ c.exp \in Nat
    BY <1>1, <1>4, CommitFacts DEF Saved, Works
  <2>2. Changes(reg, next, c.g) /\ next.registered = reg.registered /\ next.pending[c.g] = 0
    BY <1>4, <2>1, PutLeaveFacts
  <2>3. next.leaves[c.g] \in Nat
    BY <2>1, <2>2 DEF Changes, Registrations
  <2> HIDE DEF next
  <2> QED
    BY <1>1, <1>4, <2>2, <2>3, SavedKeeps
<1> QED
  BY <1>2, <1>3, <1>4 DEF PersistUnknownLeaveIfMember

\* A nonce is used up by the save that it pays for.
LEMMA PaidKeeps ==
  ASSUME IInv, NEW w \in Workers, worker[w].at = "commit", NEW next, NEW exp \in Nat, NEW n \in Nonces,
         NEW stage \in {"cancel", "schedule"}, Saved(w, next, stage, exp),
         NEW paid, paid = [reg EXCEPT !.nonces[n] = 0], now < reg.nonces[n],
         stage = "cancel" => worker[w].g \in next.registered,
         Changes(paid, next, worker[w].g),
         next.registered \subseteq paid.registered \cup {worker[w].g},
         worker[w].seen # "out",
         next.pending[worker[w].g] = 0 \/ next.leaves[worker[w].g] = 0,
         next.pending[worker[w].g] # 0 \/ next.leaves[worker[w].g] # 0 => stage = "schedule",
         spent' = [spent EXCEPT ![n] = @ + 1],
         UNCHANGED <<issued, tried, waiting, timers, bot, left, Clock>>
  PROVE  IInv'
<1> DEFINE g == worker[w].g
<1>1. PICK c \in Works :
           /\ worker' = [worker EXCEPT ![w] = c]
           /\ c.at = stage /\ c.g = g
           /\ Knows(c, reg', left', enrolled')
           /\ c.at # "idle" /\ c.at \notin InLock
  BY SavedGoes
<1>2. g \in Groups /\ g \notin left /\ worker[w].at \in InLock /\ worker[w].g = g
  BY CommitFacts
<1>3. reg' = Committed(next) /\ enrolled' = enrolled \cup next.registered
  BY DEF Saved
<1>4. /\ paid \in Registrations /\ paid.rev = reg.rev /\ paid.registered = reg.registered
      /\ paid.pending = reg.pending /\ paid.leaves = reg.leaves
      /\ paid.nonces = [reg.nonces EXCEPT ![n] = 0] /\ reg.nonces[n] # 0
  BY DEF IInv, TypeOK, Registrations
<1>5. /\ next \in Registrations /\ next.rev = reg.rev /\ next.nonces = [reg.nonces EXCEPT ![n] = 0]
      /\ next.registered \subseteq reg.registered \cup {g}
      /\ \A h \in Groups \ {g} : next.pending[h] = reg.pending[h] /\ next.leaves[h] = reg.leaves[h]
  BY <1>4 DEF Changes
<1>6. /\ next.pending[g] = 0 \/ next.leaves[g] = 0
      /\ next.pending[g] # 0 \/ next.leaves[g] # 0 => c.at \in Acting /\ c.g = g
  BY <1>1 DEF Acting
<1>7. UNCHANGED <<waiting, timers, bot, left, issued, tried>> /\ left' \subseteq left \cup {g}
      /\ enrolled \subseteq enrolled' /\ tried \subseteq tried'
  BY <1>3
<1> HIDE DEF g
<1>8. worker' \in [Workers -> Works] /\ Exclusive' /\ WorkInv'
  BY <1>1, <1>2, <1>3, <1>5, <1>7, WorkersStep
<1>9. PendingIsNotLeaving' /\ TimerInv' /\ NoLeaveForgotten'
  BY <1>1, <1>2, <1>3, <1>5, <1>6, <1>7, DeadlinesStep
<1>10. reg' \in Registrations /\ reg'.nonces = next.nonces /\ reg'.registered = next.registered
  BY <1>3, <1>5, CommittedFacts DEF IInv, TypeOK
<1>11. spent' \in [Nonces -> Nat] /\ NonceInv' /\ NonceSpentOnce'
  <2>1. spent \in [Nonces -> Nat] /\ spent[n] = 0 /\ n \in issued
    BY <1>4 DEF IInv, TypeOK, NonceInv
  <2>2. reg'.nonces[n] = 0 /\ spent'[n] = 1
    BY <2>1, <1>4, <1>5, <1>10 DEF Registrations
  <2>3. ASSUME NEW m \in Nonces \ {n} PROVE reg'.nonces[m] = reg.nonces[m] /\ spent'[m] = spent[m]
    BY <2>1, <1>5, <1>10 DEF IInv, TypeOK, Registrations
  <2> QED
    BY <2>1, <2>2, <2>3, <1>7 DEF IInv, NonceInv, NonceSpentOnce
<1>12. now' \in Nat /\ events' \in Nat /\ faults' \in Nat /\ restarts' \in Nat
  BY FaultType DEF Saved, IInv, TypeOK, Clock
<1>13. TypeOK'
  BY <1>3, <1>5, <1>7, <1>8, <1>10, <1>11, <1>12 DEF IInv, TypeOK, Registrations
<1>14. EnrolledGroupKept' /\ (reg.registered \subseteq enrolled)' /\ LeftInv'
  BY <1>2, <1>3, <1>5, <1>7, <1>10 DEF IInv, EnrolledGroupKept, LeftInv
<1> QED
  BY <1>8, <1>9, <1>11, <1>13, <1>14 DEF IInv

LEMMA ConsumeKeeps ==
  ASSUME IInv, NEW w \in Workers, ConsumeEnrollment(w)
  PROVE  IInv'
<1> DEFINE c == worker[w]
           paid == [c.snap EXCEPT !.nonces[c.n] = 0]
           exp == now + PendingLife
<1>1. worker[w].at = "commit" /\ c.op = "consume" /\ c.n \in Nonces
      /\ UNCHANGED <<waiting, timers, bot, left, Clock>>
  BY CommitFacts DEF ConsumeEnrollment, At
<1>2. CASE Refuse(w, "leave") \/ Conflict(w) \/ SaveFailed(w)
  BY <1>1, <1>2, RefuseKeeps
<1>3. CASE /\ c.seen # "out" /\ Usable(c.snap, c.n)
           /\ \/ c.seen = "admin" /\ Saved(w, AddRegisteredGroup(paid, c.g), "cancel", 0)
              \/ Saved(w, PutPending(paid, c.g, exp), "schedule", exp)
           /\ spent' = [spent EXCEPT ![c.n] = @ + 1]
           /\ UNCHANGED <<issued, tried>>
  <2>1. c.snap = reg /\ c.g \in Groups /\ reg \in Registrations /\ exp \in Nat
    BY <1>1, <1>3, CommitFacts, LifeAssumption DEF Saved, IInv, TypeOK
  <2>2. paid = [reg EXCEPT !.nonces[c.n] = 0] /\ paid \in Registrations /\ now < reg.nonces[c.n]
    BY <1>1, <1>3, <2>1 DEF Registrations, Usable
  <2> HIDE DEF paid, exp
  <2>3. CASE Saved(w, AddRegisteredGroup(paid, c.g), "cancel", 0)
    <3>1. /\ Changes(paid, AddRegisteredGroup(paid, c.g), c.g)
          /\ AddRegisteredGroup(paid, c.g).registered = paid.registered \cup {c.g}
          /\ AddRegisteredGroup(paid, c.g).pending[c.g] = 0 /\ AddRegisteredGroup(paid, c.g).leaves[c.g] = 0
      BY <2>1, <2>2, AddRegisteredGroupFacts
    <3> QED
      BY <1>1, <1>3, <2>2, <2>3, <3>1, PaidKeeps
  <2>4. CASE Saved(w, PutPending(paid, c.g, exp), "schedule", exp)
    <3>1. /\ Changes(paid, PutPending(paid, c.g, exp), c.g)
          /\ PutPending(paid, c.g, exp).registered = paid.registered
          /\ PutPending(paid, c.g, exp).leaves[c.g] = 0
      BY <2>1, <2>2, PutPendingFacts
    <3> QED
      BY <1>1, <1>3, <2>1, <2>2, <2>4, <3>1, PaidKeeps
  <2> QED
    BY <1>3, <2>3, <2>4
<1> QED
  BY <1>2, <1>3 DEF ConsumeEnrollment

-----------------------------------------------------------------------------
(* Changes made without asking Telegram *)

LEMMA WriteKeeps ==
  ASSUME IInv, NEW w \in Workers, NEW g \in Groups, worker[w].g = g, worker[w].at # "idle",
         NEW c \in Works, worker' = [worker EXCEPT ![w] = c],
         c.at \in {"idle", "leave", "leaving"}, c.at # "idle" => c.g = g,
         c.at = "leaving" => ~Locked(g) /\ g \notin reg.registered,
         worker[w].at \in Acting => c.at \in Acting \/ g \in enrolled,
         NEW next, Changes(reg, next, g), next.registered \subseteq reg.registered,
         next.pending[g] = 0 \/ next.leaves[g] = 0,
         next.pending[g] # 0 \/ next.leaves[g] # 0 => Recorded(g) \/ g \in enrolled,
         Write(next),
         UNCHANGED <<settled, telegram, history, Clock>>
  PROVE  IInv'
<1>1. now' \in Nat /\ events' \in Nat /\ faults' \in Nat /\ restarts' \in Nat
  BY FaultType DEF Write, IInv, TypeOK, Clock
<1>2. c.at \in InLock => ~Locked(g)
  BY DEF InLock
<1>3. PICK written \in {next, reg} : reg' = Committed(written)
  BY CommittedSame DEF Write
<1>4. /\ written \in Registrations /\ Changes(reg, written, g) /\ written.registered \subseteq reg.registered
      /\ written.pending[g] = 0 \/ written.leaves[g] = 0
      /\ written.pending[g] # 0 \/ written.leaves[g] # 0 => Recorded(g) \/ g \in enrolled
      /\ written.registered \subseteq reg.registered \cup {g} /\ g \notin written.registered \ reg.registered
  <2>1. CASE written = next
    BY <2>1 DEF Changes
  <2>2. CASE written = reg
    BY <2>2 DEF Changes, Recorded, IInv, PendingIsNotLeaving, TypeOK
  <2> QED
    BY <2>1, <2>2
<1>5. reg'.registered = written.registered
  BY <1>3, <1>4, CommittedFacts DEF IInv, TypeOK, Changes
<1>6. Knows(c, reg', left', enrolled')
  BY <1>4, <1>5 DEF Knows
<1>7. enrolled' = enrolled \cup written.registered
  BY <1>4 DEF IInv
<1>8. written.pending[g] # 0 \/ written.leaves[g] # 0 =>
         \/ c.at \in Acting /\ c.g = g
         \/ g \in enrolled
         \/ worker[w].at \notin Acting /\ Recorded(g)
  BY <1>4 DEF Acting
<1> QED
  BY <1>1, <1>2, <1>3, <1>4, <1>6, <1>7, <1>8, RecordStep

\* ... and goes on outside the lock, or to leave the group, or ends.
LEMMA WriteGoes ==
  ASSUME IInv, NEW w \in Workers, NEW g \in Groups, worker[w].g = g, worker[w].at # "idle",
         Go(w, "leave") \/ Go(w, "leaving") \/ Done(w),
         Go(w, "leaving") => ~Locked(g) /\ g \notin reg.registered,
         worker[w].at \in Acting => Go(w, "leaving") \/ g \in enrolled,
         NEW next, Changes(reg, next, g), next.registered \subseteq reg.registered,
         next.pending[g] = 0 \/ next.leaves[g] = 0,
         next.pending[g] # 0 \/ next.leaves[g] # 0 => Recorded(g) \/ g \in enrolled,
         Write(next),
         UNCHANGED <<settled, telegram, history, Clock>>
  PROVE  IInv'
<1>1. CASE Go(w, "leave") /\ ~Go(w, "leaving")
  <2> DEFINE c == Going(w, "leave", 0)
  <2>1. c \in Works /\ c.at = "leave" /\ c.g = g
    BY GoFacts DEF Stages
  <2>2. worker' = [worker EXCEPT ![w] = c]
    BY <1>1 DEF Go, GoUntil, Going
  <2> HIDE DEF c
  <2> QED
    BY <1>1, <2>1, <2>2, WriteKeeps
<1>2. CASE Go(w, "leaving")
  <2> DEFINE c == Going(w, "leaving", 0)
  <2>1. c \in Works /\ c.at = "leaving" /\ c.g = g
    BY GoFacts DEF Stages
  <2>2. worker' = [worker EXCEPT ![w] = c]
    BY <1>2 DEF Go, GoUntil, Going
  <2> HIDE DEF c
  <2>3. c.at \in Acting
    BY <2>1 DEF Acting
  <2> QED
    BY <1>2, <2>1, <2>2, <2>3, WriteKeeps
<1>3. CASE Done(w) /\ ~Go(w, "leaving")
  <2>1. Idle \in Works /\ Idle.at = "idle" /\ worker' = [worker EXCEPT ![w] = Idle]
    BY <1>3, IdleType DEF Idle, Done
  <2> QED
    BY <1>3, <2>1, WriteKeeps
<1> QED
  BY <1>1, <1>2, <1>3

LEMMA WorkerGroup ==
  ASSUME IInv, NEW w \in Workers, worker[w].at # "idle"
  PROVE  worker[w] \in Works /\ worker[w].g \in Groups
  BY DEF IInv, TypeOK, WorkInv, Knows

LEMMA SameFacts ==
  ASSUME IInv, NEW g \in Groups
  PROVE  /\ Changes(reg, reg, g) /\ reg \in Registrations
         /\ reg.pending[g] \in Nat /\ reg.leaves[g] \in Nat
         /\ reg.pending[g] = 0 \/ reg.leaves[g] = 0
         /\ g \in reg.registered => g \in enrolled
         /\ now \in Nat
  BY DEF IInv, TypeOK, PendingIsNotLeaving, Changes, Registrations

\* Go tells where the goroutine goes.
LEMMA GoesOne ==
  ASSUME IInv, NEW w \in Workers
  PROVE  /\ ~(Go(w, "leave") /\ Go(w, "leaving"))
         /\ ~(Done(w) /\ Go(w, "leaving"))
<1>1. ASSUME NEW stage \in Stages, Go(w, stage) PROVE worker'[w].at = stage
  <2>1. worker' = [worker EXCEPT ![w] = Going(w, stage, 0)]
    BY <1>1 DEF Go, GoUntil, Going
  <2>2. worker'[w] = Going(w, stage, 0)
    BY <2>1 DEF IInv, TypeOK
  <2> QED
    BY <2>2 DEF Going, Idle
<1>2. ASSUME Done(w) PROVE worker'[w].at = "idle"
  BY <1>2 DEF Done, Idle, IInv, TypeOK
<1>3. "leave" \in Stages /\ "leaving" \in Stages
  BY DEF Stages
<1> QED
  BY <1>1, <1>2, <1>3

LEMMA ExpireKeeps ==
  ASSUME IInv, NEW w \in Workers, ExpirePending(w)
  PROVE  IInv'
<1> DEFINE g == worker[w].g
           next == IF reg.pending[g] = worker[w].exp THEN Lapse(reg, g) ELSE reg
<1>1. worker[w].at = "expire" /\ Write(next) /\ Go(w, "leave")
      /\ UNCHANGED <<settled, telegram, history, Clock>>
  BY DEF ExpirePending, At
<1>2. g \in Groups /\ worker[w].at \notin Acting /\ ~Go(w, "leaving")
  BY <1>1, WorkerGroup, GoesOne DEF Acting
<1>3. Changes(reg, next, g) /\ next.registered \subseteq reg.registered
      /\ (next.pending[g] = 0 \/ next.leaves[g] = 0)
      /\ (next.pending[g] # 0 \/ next.leaves[g] # 0 => Recorded(g))
  BY <1>2, SameFacts, LapseFacts DEF Recorded
<1> HIDE DEF next
<1> QED
  BY <1>1, <1>2, <1>3, WriteGoes

LEMMA UnregisterKeeps ==
  ASSUME IInv, NEW w \in Workers, UnregisterGroup(w)
  PROVE  IInv'
<1> DEFINE g == worker[w].g
<1>1. worker[w].at = "unregister" /\ UNCHANGED <<settled, telegram, history, Clock>>
  BY DEF UnregisterGroup, At
<1>2. g \in Groups /\ worker[w].at \notin Acting
  BY <1>1, WorkerGroup DEF Acting
<1>3. CASE UNCHANGED reg /\ (Fault \/ UNCHANGED faults) /\ Done(w)
  <2>1. now' \in Nat /\ events' \in Nat /\ faults' \in Nat /\ restarts' \in Nat
    BY <1>1, <1>3, FaultType DEF IInv, TypeOK, Clock
  <2> QED
    BY <1>1, <1>2, <1>3, <2>1, DoneKeeps
<1>4. CASE /\ g \in reg.registered
           /\ reg' = Committed(RemoveRegistered(reg, g)) /\ NoFault /\ Go(w, "leave")
  <2> DEFINE next == RemoveRegistered(reg, g)
  <2>1. Write(next) /\ ~Go(w, "leaving") /\ g \in enrolled
    BY <1>2, <1>4, SameFacts, GoesOne DEF Write
  <2>2. Changes(reg, next, g) /\ next.registered \subseteq reg.registered /\ next.pending[g] = 0
    BY <1>2, SameFacts, RemoveRegisteredFacts
  <2> HIDE DEF next
  <2> QED
    BY <1>1, <1>2, <1>4, <2>1, <2>2, WriteGoes
<1> QED
  BY <1>3, <1>4 DEF UnregisterGroup

LEMMA LeaveUnknownKeeps ==
  ASSUME IInv, NEW w \in Workers, LeaveUnknown(w)
  PROVE  IInv'
<1> DEFINE g == worker[w].g
<1>1. worker[w].at = "leave" /\ ~Locked(g) /\ UNCHANGED <<settled, telegram, history, Clock>>
  BY DEF LeaveUnknown, At
<1>2. g \in Groups /\ worker[w].at \notin Acting
  BY <1>1, WorkerGroup DEF Acting
<1>3. CASE IsKnownChat(g) /\ Write(ClearLeave(reg, g)) /\ Done(w)
  <2> DEFINE next == ClearLeave(reg, g)
  <2>1. Changes(reg, next, g) /\ next.registered = reg.registered
        /\ next.leaves[g] = 0 /\ next.pending[g] = reg.pending[g]
    BY <1>2, SameFacts, ClearLeaveFacts
  <2>2. ~Go(w, "leaving") /\ Write(next)
    BY <1>3, GoesOne
  <2> HIDE DEF next
  <2>3. next.pending[g] # 0 \/ next.leaves[g] # 0 => Recorded(g)
    BY <2>1 DEF Recorded
  <2> QED
    BY <1>1, <1>2, <1>3, <2>1, <2>2, <2>3, WriteGoes
<1>4. CASE ~IsKnownChat(g) /\ Go(w, "leaving") /\ UNCHANGED <<reg, faults>>
  <2>1. now' \in Nat /\ events' \in Nat /\ faults' \in Nat /\ restarts' \in Nat
    BY <1>1, <1>4 DEF IInv, TypeOK, Clock
  <2> QED
    BY <1>1, <1>2, <1>4, <2>1, GoKeeps DEF Go
<1> QED
  BY <1>3, <1>4 DEF LeaveUnknown

LEMMA DeadlineKeeps ==
  ASSUME IInv, NEW w \in Workers, HandleDeadline(w)
  PROVE  IInv'
<1> DEFINE g == worker[w].g
<1>1. worker[w].at = "due" /\ ~Locked(g) /\ UNCHANGED <<settled, telegram, history, Clock>>
  BY DEF HandleDeadline, At
<1>2. g \in Groups
  BY <1>1, WorkerGroup
<1>3. ASSUME NEW exp \in Nat, GoUntil(w, "schedule", exp), UNCHANGED <<reg, faults>>
      PROVE  IInv'
  <2>1. now' \in Nat /\ events' \in Nat /\ faults' \in Nat /\ restarts' \in Nat
    BY <1>1, <1>3 DEF IInv, TypeOK, Clock
  <2>2. "schedule" \in Acting
    BY DEF Acting
  <2> QED
    BY <1>1, <1>2, <1>3, <2>1, <2>2, GoKeeps
<1>4. ASSUME NEW next, Changes(reg, next, g), next.registered = reg.registered,
             next.pending[g] = 0 \/ next.leaves[g] = 0,
             next.pending[g] # 0 \/ next.leaves[g] # 0 => Recorded(g),
             Write(next), IF IsKnownChat(g) THEN Done(w) ELSE Go(w, "leaving")
      PROVE  IInv'
  <2>1. CASE IsKnownChat(g)
    <3>1. Done(w) /\ ~Go(w, "leaving") /\ g \in enrolled
      BY <1>2, <1>4, <2>1, GoesOne, SameFacts DEF IsKnownChat
    <3> QED
      BY <1>1, <1>2, <1>4, <3>1, WriteGoes
  <2>2. CASE ~IsKnownChat(g)
    <3>1. Go(w, "leaving") /\ g \notin reg.registered
      BY <1>4, <2>2 DEF IsKnownChat
    <3> QED
      BY <1>1, <1>2, <1>4, <3>1, WriteGoes
  <2> QED
    BY <2>1, <2>2
<1> DEFINE Due == IF IsKnownChat(g) THEN Done(w) ELSE Go(w, "leaving")
           lapsed == IF IsKnownChat(g) THEN ClearLeave(Lapse(reg, g), g) ELSE Lapse(reg, g)
           cleared == IF IsKnownChat(g) THEN ClearLeave(reg, g) ELSE reg
<1>5. Changes(reg, lapsed, g) /\ lapsed.registered = reg.registered /\ lapsed.pending[g] = 0
      /\ (lapsed.leaves[g] # 0 => Recorded(g))
  <2>1. /\ Changes(reg, Lapse(reg, g), g) /\ Lapse(reg, g).registered = reg.registered
        /\ Lapse(reg, g).pending[g] = 0 /\ (Lapse(reg, g).leaves[g] # 0 => Recorded(g))
    BY <1>2, SameFacts, LapseFacts DEF Recorded
  <2>2. Lapse(reg, g) \in Registrations
    BY <2>1 DEF Changes
  <2>3. /\ Changes(Lapse(reg, g), ClearLeave(Lapse(reg, g), g), g)
        /\ ClearLeave(Lapse(reg, g), g).registered = Lapse(reg, g).registered
        /\ ClearLeave(Lapse(reg, g), g).pending[g] = Lapse(reg, g).pending[g]
        /\ ClearLeave(Lapse(reg, g), g).leaves[g] = 0
    BY <1>2, <2>2, ClearLeaveFacts
  <2> QED
    BY <2>1, <2>3 DEF Changes
<1>6. Changes(reg, cleared, g) /\ cleared.registered = reg.registered
      /\ (cleared.pending[g] = 0 \/ cleared.leaves[g] = 0)
      /\ (cleared.pending[g] # 0 \/ cleared.leaves[g] # 0 => Recorded(g))
  BY <1>2, SameFacts, ClearLeaveFacts DEF Recorded
<1>7. \/ GoUntil(w, "schedule", reg.pending[g]) /\ UNCHANGED <<reg, faults>>
      \/ Write(lapsed) /\ Due
      \/ GoUntil(w, "schedule", reg.leaves[g]) /\ UNCHANGED <<reg, faults>>
      \/ Write(cleared) /\ Due
  BY DEF HandleDeadline
<1>8. reg.pending[g] \in Nat /\ reg.leaves[g] \in Nat
  BY <1>2, SameFacts
<1> HIDE DEF lapsed, cleared
<1> QED
  BY <1>3, <1>4, <1>5, <1>6, <1>7, <1>8

-----------------------------------------------------------------------------
(* Leaving and its deadlines *)

\* The bot leaves under the lock, while nobody enrols the group.
LEMMA LeaveKeeps ==
  ASSUME IInv, NEW w \in Workers, LeaveChat(w)
  PROVE  IInv'
<1> DEFINE g == worker[w].g
<1>1. worker[w].at = "leaving" /\ UNCHANGED <<waiting, timers, issued, spent, enrolled, Clock>>
      /\ tried' = tried \cup {g} /\ worker' = [worker EXCEPT ![w] = Idle]
  BY DEF LeaveChat, Done, At
<1>2. g \in Groups /\ worker[w].at \in InLock /\ g \notin reg.registered /\ worker[w].g = g
  BY <1>1, WorkerGroup DEF InLock, IInv, WorkInv, Knows
<1>3. PICK next \in {ClearLeave(reg, g), reg} : reg' = Committed(next)
  BY CommittedSame DEF LeaveChat, Write
<1>4. /\ faults' \in Nat
      /\ \/ bot' = [bot EXCEPT ![g] = "out"] /\ left' = left \cup {g}
         \/ UNCHANGED <<bot, left>>
  BY FaultType DEF LeaveChat, Write, IInv, TypeOK
<1>5. /\ Changes(reg, next, g) /\ next.registered = reg.registered
      /\ next.pending[g] = 0 \/ next.leaves[g] = 0
  BY <1>2, SameFacts, ClearLeaveFacts
<1>6. /\ next \in Registrations /\ next.rev = reg.rev /\ next.nonces = reg.nonces
      /\ \A h \in Groups \ {g} : next.pending[h] = reg.pending[h] /\ next.leaves[h] = reg.leaves[h]
      /\ next.registered \subseteq reg.registered \cup {g}
  BY <1>5 DEF Changes
<1>7. /\ Idle \in Works /\ Idle.at = "idle" /\ Idle.at \notin InLock
      /\ Knows(Idle, reg', left', enrolled')
  BY IdleType DEF Idle, Knows, InLock
<1>8. g \in tried' /\ tried \subseteq tried' /\ enrolled \subseteq enrolled' /\ left' \subseteq left \cup {g}
  BY <1>1, <1>4
<1> HIDE DEF g
<1>9. worker' \in [Workers -> Works] /\ Exclusive' /\ WorkInv'
  BY <1>1, <1>2, <1>3, <1>6, <1>7, <1>8, WorkersStep
<1>10. PendingIsNotLeaving' /\ TimerInv' /\ NoLeaveForgotten'
  BY <1>1, <1>2, <1>3, <1>5, <1>6, <1>7, <1>8, DeadlinesStep
<1>11. reg' \in Registrations /\ reg'.nonces = reg.nonces /\ reg'.registered = reg.registered
  BY <1>3, <1>5, <1>6, CommittedFacts DEF IInv, TypeOK
<1>12. LeftInv' /\ EnrolledGroupKept' /\ (reg.registered \subseteq enrolled)'
  BY <1>1, <1>2, <1>4, <1>11 DEF IInv, TypeOK, LeftInv, EnrolledGroupKept
<1>13. NonceInv' /\ NonceSpentOnce'
  BY <1>1, <1>11 DEF IInv, NonceInv, NonceSpentOnce
<1>14. TypeOK'
  BY <1>1, <1>2, <1>4, <1>9, <1>11 DEF IInv, TypeOK, Memberships, Clock
<1> QED
  BY <1>9, <1>10, <1>12, <1>13, <1>14 DEF IInv

\* What a step of one goroutine keeps that changes the deadlines only.
LEMMA SettledStep ==
  ASSUME IInv, NEW w \in Workers, worker[w].at # "idle", Done(w),
         waiting' \in [Groups -> Nat], timers' \subseteq [g : Groups, at : Nat], tried' \subseteq tried,
         UNCHANGED <<reg, bot, left, issued, spent, enrolled, bounds>>,
         TimerInv', NoLeaveForgotten'
  PROVE  IInv'
<1> DEFINE g == worker[w].g
<1>1. g \in Groups /\ worker[w].g = g /\ worker' = [worker EXCEPT ![w] = Idle]
  BY WorkerGroup DEF Done
<1>2. /\ Idle \in Works /\ Idle.at = "idle" /\ Idle.at \notin InLock
      /\ Knows(Idle, reg', left', enrolled')
  BY IdleType DEF Idle, Knows, InLock
<1>3. /\ reg \in Registrations /\ reg' = Committed(reg) /\ reg.registered \subseteq reg.registered \cup {g}
      /\ left' \subseteq left \cup {g} /\ enrolled \subseteq enrolled'
      /\ g \notin (reg.registered \ reg.registered) \cup (left' \ left)
  BY CommittedSame DEF IInv, TypeOK
<1> HIDE DEF g
<1>4. worker' \in [Workers -> Works] /\ Exclusive' /\ WorkInv'
  BY <1>1, <1>2, <1>3, WorkersStep
<1>5. TypeOK'
  BY <1>4 DEF IInv, TypeOK
<1>6. NonceInv' /\ NonceSpentOnce' /\ LeftInv' /\ EnrolledGroupKept' /\ (reg.registered \subseteq enrolled)'
      /\ PendingIsNotLeaving'
  BY DEF IInv, NonceInv, NonceSpentOnce, LeftInv, EnrolledGroupKept, PendingIsNotLeaving
<1> QED
  BY <1>4, <1>5, <1>6 DEF IInv

\* A deadline stays held when another group's goroutine moves.
LEMMA OthersHeld ==
  ASSUME IInv, NEW w \in Workers, worker' = [worker EXCEPT ![w] = Idle],
         NEW h \in Groups, h # worker[w].g, Held(h), waiting'[h] = waiting[h],
         timers \subseteq timers', enrolled' = enrolled, h \in tried => h \in tried'
  PROVE  Held(h)'
<1>1. \A v \in Workers : v # w => worker'[v] = worker[v]
  BY DEF IInv, TypeOK
<1> QED
  BY <1>1 DEF Held

LEMMA CancelKeeps ==
  ASSUME IInv, NEW w \in Workers, CancelUnknownLeave(w)
  PROVE  IInv'
<1> DEFINE g == worker[w].g
<1>1. /\ worker[w].at = "cancel" /\ Done(w) /\ worker' = [worker EXCEPT ![w] = Idle]
      /\ waiting' = [waiting EXCEPT ![g] = 0]
      /\ UNCHANGED <<reg, timers, telegram, history, bounds>>
  BY DEF CancelUnknownLeave, At, Done
<1>2. g \in Groups /\ g \in enrolled
  BY <1>1, WorkerGroup DEF IInv, WorkInv, Knows
<1>3. waiting' \in [Groups -> Nat] /\ waiting'[g] = 0 /\ \A h \in Groups \ {g} : waiting'[h] = waiting[h]
  BY <1>1, <1>2 DEF IInv, TypeOK
<1>4. TimerInv'
  BY <1>1, <1>3 DEF IInv, TimerInv
<1>5. ASSUME NEW h \in Groups, reg.pending[h] # 0 \/ reg.leaves[h] # 0 PROVE Held(h)'
  <2>1. CASE h = g
    BY <2>1, <1>1, <1>2 DEF Held
  <2>2. CASE h # g
    <3>1. Held(h)
      BY <1>5, HeldInv DEF Recorded
    <3> QED
      BY <3>1, <2>2, <1>1, <1>3, OthersHeld
  <2> QED
    BY <2>1, <2>2
<1>6. NoLeaveForgotten'
  BY <1>1, <1>5 DEF NoLeaveForgotten, Held
<1>7. timers' \subseteq [g : Groups, at : Nat] /\ tried' \subseteq tried
  BY <1>1 DEF IInv, TypeOK
<1> QED
  BY <1>1, <1>3, <1>4, <1>6, <1>7, SettledStep

LEMMA ScheduleKeeps ==
  ASSUME IInv, NEW w \in Workers, ScheduleUnknownLeave(w)
  PROVE  IInv'
<1> DEFINE g == worker[w].g
           exp == worker[w].exp
<1>1. /\ worker[w].at = "schedule" /\ Done(w) /\ worker' = [worker EXCEPT ![w] = Idle]
      /\ tried' = tried \ {g}
      /\ UNCHANGED <<reg, telegram, issued, spent, enrolled, bounds>>
      /\ \/ waiting' = [waiting EXCEPT ![g] = exp] /\ timers' = timers \cup {[g |-> g, at |-> exp]}
         \/ waiting[g] # 0 /\ UNCHANGED <<waiting, timers>>
  BY DEF ScheduleUnknownLeave, At, Done, Later
<1>2. g \in Groups /\ exp \in Nat
  BY <1>1, WorkerGroup DEF Works
<1>3. /\ waiting' \in [Groups -> Nat] /\ timers' \subseteq [g : Groups, at : Nat]
      /\ timers \subseteq timers' /\ [g |-> g, at |-> waiting'[g]] \in timers'
      /\ \A h \in Groups \ {g} : waiting'[h] = waiting[h]
  BY <1>1, <1>2 DEF IInv, TypeOK, TimerInv
<1>4. TimerInv'
  BY <1>3 DEF IInv, TimerInv
<1>5. ASSUME NEW h \in Groups, reg.pending[h] # 0 \/ reg.leaves[h] # 0 PROVE Held(h)'
  <2>1. CASE h = g
    BY <2>1, <1>3 DEF Held
  <2>2. CASE h # g
    <3>1. Held(h)
      BY <1>5, HeldInv DEF Recorded
    <3> QED
      BY <3>1, <2>2, <1>1, <1>3, OthersHeld
  <2> QED
    BY <2>1, <2>2
<1>6. NoLeaveForgotten'
  BY <1>1, <1>5 DEF NoLeaveForgotten, Held
<1> QED
  BY <1>1, <1>3, <1>4, <1>6, SettledStep

LEMMA WorkKeeps ==
  ASSUME IInv, NEW w \in Workers, Work(w)
  PROVE  IInv'
  BY RouteKeeps, LockKeeps, MembershipKeeps, ConsumeKeeps, CompleteKeeps, OwnerKeeps, PersistKeeps,
     ExpireKeeps, UnregisterKeeps, LeaveUnknownKeeps, LeaveKeeps, CancelKeeps, ScheduleKeeps,
     DeadlineKeeps DEF Work

-----------------------------------------------------------------------------
(* Timers, the owner and the rest of the world *)

LEMMA TimerKeeps ==
  ASSUME IInv, NEW t \in timers, TimerFires(t)
  PROVE  IInv'
<1>1. /\ t \in [g : Groups, at : Nat] /\ t.g \in Groups /\ timers' = timers \ {t}
      /\ UNCHANGED <<reg, bot, left, issued, spent, enrolled, tried, now, events, faults, restarts>>
  BY DEF IInv, TypeOK, TimerFires
<1>2. NonceInv' /\ NonceSpentOnce' /\ LeftInv' /\ EnrolledGroupKept' /\ (reg.registered \subseteq enrolled)'
      /\ PendingIsNotLeaving'
  BY <1>1 DEF IInv, NonceInv, NonceSpentOnce, LeftInv, EnrolledGroupKept, PendingIsNotLeaving
<1>3. CASE waiting[t.g] = t.at
  <2>1. PICK w \in Workers :
          /\ worker[w].at = "idle"
          /\ worker' = [worker EXCEPT ![w] = [Idle EXCEPT !.at = "due", !.g = t.g]]
    BY <1>3 DEF TimerFires, At
  <2>2. waiting' = [waiting EXCEPT ![t.g] = 0]
    BY <1>3 DEF TimerFires
  <2> DEFINE c == [Idle EXCEPT !.at = "due", !.g = t.g]
  <2>3. c \in Works /\ c.at = "due" /\ c.g = t.g
    BY <1>1, IdleType DEF Works, Idle, Stages
  <2>4. worker' = [worker EXCEPT ![w] = c]
    BY <2>1
  <2> HIDE DEF c
  <2>5. worker'[w] = c /\ \A v \in Workers : v # w => worker'[v] = worker[v]
    BY <2>4 DEF IInv, TypeOK
  <2>6. worker' \in [Workers -> Works] /\ Exclusive' /\ WorkInv'
    <3>1. Knows(c, reg', left', enrolled') /\ c.at \notin InLock
      BY <1>1, <2>3 DEF Knows, InLock
    <3>2. worker' \in [Workers -> Works]
      BY <2>3, <2>4 DEF IInv, TypeOK
    <3>3. Exclusive'
      BY <3>1, <2>5 DEF IInv, Exclusive
    <3>4. WorkInv'
      <4>1. ASSUME NEW v \in Workers PROVE Knows(worker'[v], reg', left', enrolled')
        <5>1. CASE v = w
          BY <5>1, <3>1, <2>5
        <5>2. CASE v # w
          BY <5>2, <1>1, <2>5 DEF IInv, WorkInv
        <5> QED
          BY <5>1, <5>2
      <4> QED
        BY <4>1 DEF WorkInv
    <3> QED
      BY <3>2, <3>3, <3>4
  <2>7. waiting' \in [Groups -> Nat] /\ waiting'[t.g] = 0
        /\ \A h \in Groups \ {t.g} : waiting'[h] = waiting[h]
    BY <1>1, <2>2 DEF IInv, TypeOK
  <2>8. TypeOK'
    BY <1>1, <2>6, <2>7 DEF IInv, TypeOK
  <2>9. ASSUME NEW h \in Groups, h # t.g, NEW a PROVE [g |-> h, at |-> a] # t
    BY <2>9
  <2>10. TimerInv'
    BY <1>1, <2>7, <2>9 DEF IInv, TimerInv
  <2>11. ASSUME NEW h \in Groups, reg.pending[h] # 0 \/ reg.leaves[h] # 0 PROVE Held(h)'
    <3>1. CASE h = t.g
      BY <3>1, <2>3, <2>5 DEF Held, Acting
    <3>2. CASE h # t.g
      <4>1. Held(h)
        BY <2>11, HeldInv DEF Recorded
      <4>2. worker[w].at \notin Acting
        BY <2>1 DEF Acting
      <4> QED
        BY <4>1, <4>2, <3>2, <1>1, <2>5, <2>7, <2>9 DEF Held
    <3> QED
      BY <3>1, <3>2
  <2>12. NoLeaveForgotten'
    BY <1>1, <2>11 DEF NoLeaveForgotten, Held
  <2> QED
    BY <1>2, <2>6, <2>8, <2>10, <2>12 DEF IInv
<1>4. CASE waiting[t.g] # t.at
  <2>1. UNCHANGED <<waiting, worker>>
    BY <1>4 DEF TimerFires
  <2>2. \A h \in Groups : [g |-> h, at |-> waiting[h]] # t
    BY <1>4
  <2>3. Exclusive' /\ WorkInv' /\ TimerInv'
    BY <1>1, <2>1, <2>2 DEF IInv, Exclusive, WorkInv, TimerInv
  <2>4. TypeOK'
    BY <1>1, <2>1 DEF IInv, TypeOK
  <2>5. NoLeaveForgotten'
    BY <1>1, <2>1, <2>2 DEF IInv, NoLeaveForgotten
  <2> QED
    BY <1>2, <2>3, <2>4, <2>5 DEF IInv
<1> QED
  BY <1>3, <1>4

\* A change of the record that touches no group.
LEMMA OwnerStep ==
  ASSUME IInv, NEW next \in Registrations, next.rev = reg.rev, reg' = Committed(next),
         next.registered = reg.registered, next.pending = reg.pending, next.leaves = reg.leaves,
         UNCHANGED <<worker, waiting, timers, bot, left, spent, enrolled, tried>>,
         issued' \subseteq Nonces, NonceInv',
         now' \in Nat, events' \in Nat, faults' \in Nat, restarts' \in Nat
  PROVE  IInv'
<1>1. /\ reg' \in Registrations /\ reg'.registered = reg.registered
      /\ reg'.pending = reg.pending /\ reg'.leaves = reg.leaves
      /\ reg'.rev >= reg.rev /\ (reg'.rev = reg.rev => reg' = reg)
      /\ reg'.rev \in Nat /\ reg.rev \in Nat
  BY CommittedFacts DEF IInv, TypeOK, Registrations
<1>2. WorkInv'
  <2>1. ASSUME NEW w \in Workers PROVE Knows(worker[w], reg', left, enrolled)
    <3>1. Knows(worker[w], reg, left, enrolled)
      BY DEF IInv, WorkInv
    <3>2. worker[w].at \in {"ask", "commit"} =>
            /\ worker[w].snap \in Registrations /\ worker[w].snap.rev <= reg'.rev
            /\ worker[w].snap.rev = reg'.rev => worker[w].snap = reg'
      <4>1. HAVE worker[w].at \in {"ask", "commit"}
      <4>2. /\ worker[w].snap \in Registrations /\ worker[w].snap.rev <= reg.rev
            /\ worker[w].snap.rev = reg.rev => worker[w].snap = reg
        BY <4>1, <3>1 DEF Knows
      <4>3. worker[w].snap.rev \in Nat
        BY <4>2 DEF Registrations
      <4> QED
        BY <4>2, <4>3, <1>1
    <3> QED
      BY <3>1, <3>2, <1>1 DEF Knows
  <2> QED
    BY <2>1 DEF WorkInv
<1>3. TypeOK' /\ Exclusive'
  BY <1>1 DEF IInv, TypeOK, Exclusive
<1>4. NonceSpentOnce' /\ LeftInv' /\ EnrolledGroupKept' /\ (reg.registered \subseteq enrolled)'
      /\ PendingIsNotLeaving' /\ TimerInv' /\ NoLeaveForgotten'
  BY <1>1 DEF IInv, NonceSpentOnce, LeftInv, EnrolledGroupKept, PendingIsNotLeaving, TimerInv, NoLeaveForgotten
<1> QED
  BY <1>2, <1>3, <1>4 DEF IInv

LEMMA ClaimKeeps ==
  ASSUME IInv, NEW u \in Users, ClaimOwner(u)
  PROVE  IInv'
<1> DEFINE claimed == [reg EXCEPT !.owner = u, !.claim = 0]
<1>1. PICK next \in {claimed, reg} : reg' = Committed(next)
  BY CommittedSame DEF ClaimOwner, Write
<1>2. /\ UNCHANGED <<worker, waiting, timers, bot, left, issued, spent, enrolled, tried>>
      /\ now' \in Nat /\ events' \in Nat /\ faults' \in Nat /\ restarts' \in Nat
      /\ issued' \subseteq Nonces
  BY FaultType DEF ClaimOwner, Write, Clock, IInv, TypeOK
<1>3. reg \in Registrations
  BY DEF IInv, TypeOK
<1>4. /\ claimed \in Registrations /\ claimed.rev = reg.rev /\ claimed.nonces = reg.nonces
      /\ claimed.registered = reg.registered /\ claimed.pending = reg.pending /\ claimed.leaves = reg.leaves
  BY <1>3 DEF Registrations
<1> HIDE DEF claimed
<1>5. /\ next \in Registrations /\ next.rev = reg.rev /\ next.nonces = reg.nonces
      /\ next.registered = reg.registered /\ next.pending = reg.pending /\ next.leaves = reg.leaves
  BY <1>3, <1>4
<1>6. NonceInv'
  BY <1>1, <1>2, <1>3, <1>5, CommittedFacts DEF IInv, NonceInv
<1> QED
  BY <1>1, <1>2, <1>5, <1>6, OwnerStep

LEMMA IssueKeeps ==
  ASSUME IInv, NEW n \in Nonces, IssueEnrollmentNonce(n)
  PROVE  IInv'
<1> DEFINE fresh == [m \in Nonces |->
             IF m = n THEN now + EnrollLife ELSE IF now < reg.nonces[m] THEN reg.nonces[m] ELSE 0]
           next == [reg EXCEPT !.nonces = fresh]
<1>1. /\ reg' = Committed(next) /\ issued' = issued \cup {n} /\ n \notin issued
      /\ UNCHANGED <<worker, waiting, timers, bot, left, spent, enrolled, tried, now, events, faults, restarts>>
  BY DEF IssueEnrollmentNonce, IInv, TypeOK, Registrations
<1>2. reg \in Registrations /\ fresh \in [Nonces -> Nat]
  BY LifeAssumption DEF IInv, TypeOK, Registrations
<1>3. \A m \in Nonces : m # n => fresh[m] = 0 \/ fresh[m] = reg.nonces[m]
  OBVIOUS
<1> HIDE DEF fresh
<1>4. /\ next \in Registrations /\ next.rev = reg.rev /\ next.nonces = fresh
      /\ next.registered = reg.registered /\ next.pending = reg.pending /\ next.leaves = reg.leaves
  BY <1>2 DEF Registrations
<1> HIDE DEF next
<1>5. reg'.nonces = fresh
  BY <1>1, <1>2, <1>4, CommittedFacts
<1>6. NonceInv'
  BY <1>1, <1>3, <1>5 DEF IInv, NonceInv
<1>7. issued' \subseteq Nonces /\ now' \in Nat /\ events' \in Nat /\ faults' \in Nat /\ restarts' \in Nat
  BY <1>1 DEF IInv, TypeOK
<1> QED
  BY <1>1, <1>4, <1>6, <1>7, OwnerStep

LEMMA WorldKeeps ==
  ASSUME IInv, NEW g \in Groups, NEW m \in Memberships, MembershipChanges(g, m)
  PROVE  IInv'
<1>1. /\ bot' = [bot EXCEPT ![g] = m] /\ left' \subseteq left /\ g \notin left' /\ left \ {g} \subseteq left'
      /\ UNCHANGED <<reg, worker, waiting, timers, issued, spent, enrolled, tried, now, events, faults, restarts>>
  BY DEF MembershipChanges, IInv, LeftInv
<1>2. TypeOK' /\ LeftInv'
  BY <1>1 DEF IInv, TypeOK, LeftInv
<1>3. WorkInv'
  BY <1>1 DEF IInv, WorkInv, Knows
<1>4. Exclusive' /\ NonceInv' /\ NonceSpentOnce' /\ EnrolledGroupKept' /\ (reg.registered \subseteq enrolled)'
      /\ PendingIsNotLeaving' /\ TimerInv' /\ NoLeaveForgotten'
  BY <1>1 DEF IInv, Exclusive, NonceInv, NonceSpentOnce, EnrolledGroupKept, PendingIsNotLeaving,
              TimerInv, NoLeaveForgotten
<1> QED
  BY <1>2, <1>3, <1>4 DEF IInv

\* What is not in the record is rebuilt from it when the process starts.
LEMMA RestartKeeps ==
  ASSUME IInv, Restart
  PROVE  IInv'
<1>1. /\ worker' = [w \in Workers |-> Idle] /\ tried' = {}
      /\ waiting' = [g \in Groups |-> Latest(reg.pending[g], reg.leaves[g])]
      /\ timers' = {[g |-> g, at |-> waiting'[g]] : g \in {h \in Groups : waiting'[h] # 0}}
      /\ UNCHANGED <<bot, left, issued, spent, enrolled, now, events, faults>> /\ restarts' \in Nat
  BY DEF Restart, IInv, TypeOK
<1> DEFINE claimed == [reg EXCEPT !.claim = now + ClaimLife]
<1>2. PICK next \in {claimed, reg} : reg' = Committed(next)
  BY CommittedSame DEF Restart
<1>3. reg \in Registrations /\ now + ClaimLife \in Nat
  BY LifeAssumption DEF IInv, TypeOK
<1>4. /\ claimed \in Registrations /\ claimed.rev = reg.rev /\ claimed.nonces = reg.nonces
      /\ claimed.registered = reg.registered /\ claimed.pending = reg.pending /\ claimed.leaves = reg.leaves
  BY <1>3 DEF Registrations
<1> HIDE DEF claimed
<1>5. /\ next \in Registrations /\ next.rev = reg.rev /\ next.nonces = reg.nonces
      /\ next.registered = reg.registered /\ next.pending = reg.pending /\ next.leaves = reg.leaves
  BY <1>3, <1>4
<1>6. /\ reg' \in Registrations /\ reg'.registered = reg.registered /\ reg'.nonces = reg.nonces
      /\ reg'.pending = reg.pending /\ reg'.leaves = reg.leaves
  BY <1>2, <1>3, <1>5, CommittedFacts
<1>7. Exclusive' /\ WorkInv' /\ worker' \in [Workers -> Works]
  <2>1. Idle.at = "idle" /\ Idle.at \notin InLock
    BY DEF Idle, InLock
  <2>2. Knows(Idle, reg', left', enrolled')
    BY <2>1 DEF Knows
  <2> QED
    BY <1>1, <2>1, <2>2, IdleType DEF Exclusive, WorkInv
<1>8. /\ waiting' \in [Groups -> Nat]
      /\ \A g \in Groups : waiting'[g] = Latest(reg.pending[g], reg.leaves[g])
  BY <1>1, <1>3 DEF Registrations, Latest
<1>9. timers' \subseteq [g : Groups, at : Nat]
  BY <1>1, <1>8
<1>10. TypeOK'
  BY <1>1, <1>6, <1>7, <1>8, <1>9 DEF IInv, TypeOK
<1>11. ASSUME NEW g \in Groups, waiting'[g] # 0 PROVE [g |-> g, at |-> waiting'[g]] \in timers'
  BY <1>1, <1>11
<1>12. TimerInv'
  BY <1>11 DEF TimerInv
<1>13. NoLeaveForgotten'
  <2>1. ASSUME NEW g \in Groups, reg'.pending[g] # 0 \/ reg'.leaves[g] # 0 PROVE waiting'[g] # 0
    BY <2>1, <1>3, <1>6, <1>8 DEF Registrations, Latest
  <2> QED
    BY <2>1, <1>11 DEF NoLeaveForgotten
<1>14. NonceInv' /\ NonceSpentOnce' /\ LeftInv' /\ EnrolledGroupKept' /\ (reg.registered \subseteq enrolled)'
       /\ PendingIsNotLeaving'
  BY <1>1, <1>6 DEF IInv, NonceInv, NonceSpentOnce, LeftInv, EnrolledGroupKept, PendingIsNotLeaving
<1> QED
  BY <1>7, <1>10, <1>12, <1>13, <1>14 DEF IInv

-----------------------------------------------------------------------------
(* The theorems *)

LEMMA InitIInv == Init => IInv
<1> SUFFICES ASSUME Init PROVE IInv
  OBVIOUS
<1>1. Blank.registered = {} /\ \A g \in Groups : Blank.pending[g] = 0 /\ Blank.leaves[g] = 0
  BY DEF Blank
<1>2. \A n \in Nonces : Blank.nonces[n] = 0
  BY DEF Blank
<1>3. TypeOK
  BY BlankType, IdleType DEF Init, TypeOK, Memberships
<1>4. Exclusive /\ WorkInv
  BY DEF Init, Exclusive, WorkInv, Knows, Idle, InLock
<1>5. NonceInv /\ NonceSpentOnce
  BY <1>2 DEF Init, NonceInv, NonceSpentOnce
<1>6. LeftInv /\ EnrolledGroupKept /\ reg.registered \subseteq enrolled /\ PendingIsNotLeaving
      /\ TimerInv /\ NoLeaveForgotten
  BY <1>1 DEF Init, LeftInv, EnrolledGroupKept, PendingIsNotLeaving, TimerInv, NoLeaveForgotten
<1> QED
  BY <1>3, <1>4, <1>5, <1>6 DEF IInv

LEMMA NextIInv == IInv /\ [Next]_vars => IInv'
<1> SUFFICES ASSUME IInv, [Next]_vars PROVE IInv'
  OBVIOUS
<1>1. ASSUME NEW w \in Workers, Begin(w) \/ Work(w) PROVE IInv'
  BY <1>1, BeginKeeps, WorkKeeps
<1>2. ASSUME NEW t \in timers, TimerFires(t) PROVE IInv'
  BY <1>2, TimerKeeps
<1>3. ASSUME NEW u \in Users, ClaimOwner(u) PROVE IInv'
  BY <1>3, ClaimKeeps
<1>4. ASSUME NEW n \in Nonces, IssueEnrollmentNonce(n) PROVE IInv'
  BY <1>4, IssueKeeps
<1>5. ASSUME NEW g \in Groups, NEW m \in Memberships, MembershipChanges(g, m) PROVE IInv'
  BY <1>5, WorldKeeps
<1>6. CASE Tick
  BY <1>6 DEF Tick, IInv, TypeOK, Exclusive, WorkInv, NonceInv, NonceSpentOnce, LeftInv, EnrolledGroupKept,
              PendingIsNotLeaving, TimerInv, NoLeaveForgotten
<1>7. CASE Restart
  BY <1>7, RestartKeeps
<1>8. CASE UNCHANGED vars
  BY <1>8 DEF vars, IInv, TypeOK, Exclusive, WorkInv, NonceInv, NonceSpentOnce, LeftInv, EnrolledGroupKept,
              PendingIsNotLeaving, TimerInv, NoLeaveForgotten
<1> QED
  BY <1>1, <1>2, <1>3, <1>4, <1>5, <1>6, <1>7, <1>8 DEF Next

\* The invariant behind the properties below: the transition locks, the snapshots of the record,
\* the nonces, the groups left and the timers are as the handlers of registration.go rely on.
THEOREM RegistrationSafe == Spec => []IInv
<1>1. Init => IInv
  BY InitIInv
<1>2. IInv /\ [Next]_vars => IInv'
  BY NextIInv
<1> QED
  BY <1>1, <1>2, PTL DEF Spec

\* The bot never leaves a group that is registered, however enrolments, deadlines, commands and
\* restarts meet.
THEOREM EnrolledGroupsAreKept == Spec => []EnrolledGroupKept
<1>1. IInv => EnrolledGroupKept
  BY DEF IInv
<1> QED
  BY <1>1, RegistrationSafe, PTL

\* An enrolment nonce is spent at most once, also when it is redeemed for two groups at once and
\* when the save of one fails.
THEOREM NoncesAreSpentOnce == Spec => []NonceSpentOnce
<1>1. IInv => NonceSpentOnce
  BY DEF IInv
<1> QED
  BY <1>1, RegistrationSafe, PTL

\* No group is both waiting for promotion and recorded to be left, so that validateRegistrations
\* refuses no save.
THEOREM PendingIsNeverLeaving == Spec => []PendingIsNotLeaving
<1>1. IInv => PendingIsNotLeaving
  BY DEF IInv
<1> QED
  BY <1>1, RegistrationSafe, PTL

\* A recorded group has a timer, or a goroutine on its way to set or act on its deadline, until
\* the bot has tried to leave it or it was enrolled.
THEOREM NoLeaveIsForgotten == Spec => []NoLeaveForgotten
<1>1. IInv => NoLeaveForgotten
  BY DEF IInv
<1> QED
  BY <1>1, RegistrationSafe, PTL

=============================================================================
