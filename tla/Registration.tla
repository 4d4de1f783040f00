---------------------------- MODULE Registration ----------------------------
(***************************************************************************)
(* The runtime registration of cmd/gentoo-zh-verify-bot: how the first     *)
(* owner claims the bot, how a group is enrolled by a one-use nonce, by    *)
(* the owner, or by promotion within a grace period, how it is             *)
(* unregistered, and how the bot leaves the groups nobody authorised.      *)
(* Handlers of different groups run at once; those of one group exclude    *)
(* each other with a transition lock that is held across Telegram calls.   *)
(* The registrations live in settings.json and are changed by a            *)
(* compare-and-swap on their revision; leave deadlines are goroutines,     *)
(* rebuilt from the file when the process starts.                          *)
(***************************************************************************)
EXTENDS Naturals

CONSTANTS Groups,      \* groups config.json does not name
          Users, NoUser,
          Nonces,      \* the values random enrollment nonces take
          Workers,     \* goroutines that run a handler or a due leave timer
          None,
          ClaimLife, EnrollLife, PendingLife,
          MaxNow,      \* bound: ticks of the clock
          MaxEvents,   \* bound: updates handled
          MaxFaults,   \* bound: failed saves, failed leaves and unreadable memberships
          MaxRestarts  \* bound: how often the process ends

ASSUME LifeAssumption == ClaimLife \in Nat \ {0} /\ EnrollLife \in Nat \ {0} /\ PendingLife \in Nat \ {0}
ASSUME UserAssumption == NoUser \notin Users
ASSUME BoundAssumption ==
  MaxNow \in Nat /\ MaxEvents \in Nat /\ MaxFaults \in Nat /\ MaxRestarts \in Nat

\* A deadline is a tick; 0 says that there is none.
Registrations ==
  [rev : Nat, owner : Users \cup {NoUser}, claim : Nat, nonces : [Nonces -> Nat],
   registered : SUBSET Groups, pending : [Groups -> Nat], leaves : [Groups -> Nat]]
ASSUME NoneAssumption == None \notin Registrations /\ None \notin Groups /\ None \notin Nonces

Memberships == {"out", "member", "admin"}
Stages == {"idle", "routed", "lock", "ask", "commit", "expire", "unregister", "due",
           "cancel", "schedule", "leave", "leaving"}
Works == [at : Stages, op : {"none", "consume", "complete", "owner", "persist"},
          g : Groups \cup {None}, n : Nonces \cup {None}, exp : Nat,
          snap : Registrations \cup {None}, seen : Memberships]
Idle == [at |-> "idle", op |-> "none", g |-> None, n |-> None, exp |-> 0,
         snap |-> None, seen |-> "out"]

VARIABLES
  reg,        \* the published registrations, and settings.json
  worker,     \* what each goroutine is doing
  waiting,    \* registrationService.waiting: the deadline in force for each group, or 0
  timers,     \* the sleeping leave goroutines: a group and a deadline each
  bot,        \* the bot's own membership of each group, at Telegram
  left,       \* groups the bot left of its own accord, since it was last added
  issued,     \* nonces drawn so far: random ones do not repeat
  spent,      \* how many enrolments each nonce has paid for
  enrolled,   \* groups that have been registered at some time
  tried,      \* groups LeaveChat was called for since their last deadline was set
  now, events, faults, restarts

settled == <<waiting, timers>>
telegram == <<bot, left>>
history == <<issued, spent, enrolled, tried>>
bounds == <<now, events, faults, restarts>>
vars == <<reg, worker, settled, telegram, history, bounds>>

Blank == [rev |-> 0, owner |-> NoUser, claim |-> ClaimLife, nonces |-> [n \in Nonces |-> 0],
          registered |-> {}, pending |-> [g \in Groups |-> 0], leaves |-> [g \in Groups |-> 0]]

Init ==
  /\ reg = Blank
  /\ worker = [w \in Workers |-> Idle]
  /\ waiting = [g \in Groups |-> 0] /\ timers = {}
  /\ bot = [g \in Groups |-> "out"] /\ left = {}
  /\ issued = {} /\ spent = [n \in Nonces |-> 0] /\ enrolled = {} /\ tried = {}
  /\ now = 0 /\ events = 0 /\ faults = 0 /\ restarts = 0

-----------------------------------------------------------------------------
(* The registration record *)

AddRegisteredGroup(r, g) ==
  [r EXCEPT !.registered = @ \cup {g}, !.pending[g] = 0, !.leaves[g] = 0]
BuggyPutPending(r, g, exp) == [r EXCEPT !.pending[g] = exp]      \* the recorded leave stays
PutPending(r, g, exp) == [r EXCEPT !.pending[g] = exp, !.leaves[g] = 0]
\* A recorded leave only ever moves later.
PutLeave(r, g, exp) == [r EXCEPT !.leaves[g] = IF exp > @ THEN exp ELSE @]
BuggyClearLeave(r, g) ==               \* the other groups' leaves are all that is kept
  [r EXCEPT !.leaves = [h \in Groups \ {g} |-> @[h]]]
ClearLeave(r, g) == [r EXCEPT !.leaves[g] = 0]
Lapse(r, g) == PutLeave([r EXCEPT !.pending[g] = 0], g, r.pending[g])
RemoveRegistered(r, g) ==
  PutLeave([r EXCEPT !.registered = @ \ {g}, !.pending[g] = 0], g, now)
Usable(r, n) == now < r.nonces[n]

\* CommitRegistrations: a change moves the revision, a commit that changes nothing does not.
Committed(next) == IF next = reg THEN reg ELSE [next EXCEPT !.rev = @ + 1]

IsKnownChat(g) == g \in reg.registered

\* The transition lock of a group is held across the two Telegram calls made under it.
Locked(g) == \E w \in Workers : worker[w].g = g /\ worker[w].at \in {"ask", "commit", "leaving"}

-----------------------------------------------------------------------------
(* Steps of a goroutine *)

At(w, stage) == worker[w].at = stage
GoUntil(w, stage, exp) ==
  worker' = [worker EXCEPT ![w] = [Idle EXCEPT !.at = stage, !.g = worker[w].g, !.exp = exp]]
Go(w, stage) == GoUntil(w, stage, 0)
Done(w) == worker' = [worker EXCEPT ![w] = Idle]
Fault == faults < MaxFaults /\ faults' = faults + 1
NoFault == faults' = faults
Clock == <<now, events, restarts>>

Start(w, g, stage, op, n) ==
  /\ At(w, "idle") /\ events < MaxEvents /\ events' = events + 1
  /\ worker' = [worker EXCEPT ![w] = [Idle EXCEPT !.at = stage, !.op = op, !.g = g, !.n = n]]
  /\ UNCHANGED <<reg, settled, telegram, history, now, faults, restarts>>

\* /start enroll_...: actorIsAdmin comes first; a refused one makes the bot leave.
OnEnrollmentStart(w, g, n) == Start(w, g, "lock", "consume", n) \/ Start(w, g, "leave", "none", n)

\* A change of the bot's own membership in a group the route does not know.
OnMyChatMember(w, g) == ~IsKnownChat(g) /\ Start(w, g, "routed", "none", None)

OnUnregisterCommand(w, g) == reg.owner # NoUser /\ Start(w, g, "unregister", "none", None)

\* actorIsAdmin has answered: the handler reads the registrations and chooses its branch.
RouteMembership(w) ==
  LET g == worker[w].g
      exp == reg.pending[g]
      Enter(stage, op, e) == worker' = [worker EXCEPT ![w].at = stage, ![w].op = op, ![w].exp = e]
  IN /\ At(w, "routed")
     /\ \/ Enter("leave", "none", 0)                       \* the actor is not a human administrator
        \/ exp # 0 /\ now >= exp /\ Enter("expire", "none", exp)
        \/ exp # 0 /\ now < exp /\ Enter("lock", "complete", exp)
        \/ exp = 0 /\ reg.owner # NoUser /\ Enter("lock", "owner", now + PendingLife)
        \/ exp = 0 /\ reg.owner # NoUser /\ Enter("lock", "persist", now + PendingLife)
     /\ UNCHANGED <<reg, settled, telegram, history, bounds>>

\* Registrations() and cloneRegistrationMutation, under the transition lock.
Lock(w) ==
  /\ At(w, "lock") /\ ~Locked(worker[w].g)
  /\ worker' = [worker EXCEPT ![w].at = "ask", ![w].snap = reg]
  /\ UNCHANGED <<reg, settled, telegram, history, bounds>>

\* currentBotMembership
CurrentBotMembership(w) ==
  /\ At(w, "ask")
  /\ \/ NoFault /\ worker' = [worker EXCEPT ![w].at = "commit", ![w].seen = bot[worker[w].g]]
     \/ Fault /\ Go(w, "leave")                          \* errBotMembershipUnreadable
  /\ UNCHANGED <<reg, settled, telegram, history, Clock>>

\* Nothing changed the registrations since the snapshot was taken.
BuggyUnchanged(w) == TRUE
Unchanged(w) == worker[w].snap.rev = reg.rev

\* A mutation that decides to commit: a conflict starts the loop again, a failed save leaves.
Conflict(w) ==
  /\ ~Unchanged(w)
  /\ worker' = [worker EXCEPT ![w].at = "ask", ![w].snap = reg]
  /\ UNCHANGED <<reg, faults, history>>
SaveFailed(w) == Unchanged(w) /\ Fault /\ Go(w, "leave") /\ UNCHANGED <<reg, history>>
Saved(w, next, stage, exp) ==
  /\ Unchanged(w) /\ NoFault
  /\ reg' = Committed(next)
  /\ enrolled' = enrolled \cup next.registered
  /\ GoUntil(w, stage, exp)

\* A mutation that refuses or has nothing to do.
Refuse(w, stage) == Go(w, stage) /\ UNCHANGED <<reg, faults, history>>

ConsumeEnrollment(w) ==
  LET c == worker[w]
      paid == [c.snap EXCEPT !.nonces[c.n] = 0]
      exp == now + PendingLife
  IN /\ At(w, "commit") /\ c.op = "consume"
     /\ \/ (c.seen = "out" \/ ~Usable(c.snap, c.n)) /\ Refuse(w, "leave")
        \/ /\ c.seen # "out" /\ Usable(c.snap, c.n)
           /\ \/ Conflict(w) \/ SaveFailed(w)
              \/ /\ IF c.seen = "admin"
                    THEN Saved(w, AddRegisteredGroup(paid, c.g), "cancel", 0)
                    ELSE Saved(w, PutPending(paid, c.g, exp), "schedule", exp)
                 /\ spent' = [spent EXCEPT ![c.n] = @ + 1]
                 /\ UNCHANGED <<issued, tried>>
     /\ UNCHANGED <<settled, telegram, Clock>>

\* The bot was promoted while its registration was pending.
CompletePending(w) ==
  LET c == worker[w]
      live == c.snap.pending[c.g] = c.exp /\ now < c.exp
  IN /\ At(w, "commit") /\ c.op = "complete"
     /\ \/ c.seen = "member" /\ GoUntil(w, "schedule", c.exp) /\ UNCHANGED <<reg, faults, history>>
        \/ (c.seen # "member" /\ (c.seen = "out" \/ ~live)) /\ Refuse(w, "leave")
        \/ /\ c.seen = "admin" /\ live
           /\ \/ Conflict(w) \/ SaveFailed(w)
              \/ Saved(w, AddRegisteredGroup(c.snap, c.g), "cancel", 0) /\ UNCHANGED <<issued, spent, tried>>
     /\ UNCHANGED <<settled, telegram, Clock>>

AuthorizeOwnerMembership(w) ==
  LET c == worker[w] IN
  /\ At(w, "commit") /\ c.op = "owner"
  /\ \/ c.seen = "out" /\ Refuse(w, "leave")
     \/ /\ c.seen # "out"
        /\ \/ Conflict(w) \/ SaveFailed(w)
           \/ /\ IF c.seen = "admin"
                 THEN Saved(w, AddRegisteredGroup(c.snap, c.g), "cancel", 0)
                 ELSE Saved(w, PutPending(c.snap, c.g, c.exp), "schedule", c.exp)
              /\ UNCHANGED <<issued, spent, tried>>
  /\ UNCHANGED <<settled, telegram, Clock>>

\* Superseded by a registration, or by a pending one, the handler stops without leaving.
PersistUnknownLeaveIfMember(w) ==
  LET c == worker[w]
      next == PutLeave(c.snap, c.g, c.exp)
      superseded == c.snap.pending[c.g] # 0 \/ c.g \in c.snap.registered
  IN /\ At(w, "commit") /\ c.op = "persist"
     /\ \/ c.seen # "member" /\ Refuse(w, "leave")
        \/ c.seen = "member" /\ superseded /\ Done(w) /\ UNCHANGED <<reg, faults, history>>
        \/ /\ c.seen = "member" /\ ~superseded
           /\ \/ Conflict(w) \/ SaveFailed(w)
              \/ Saved(w, next, "schedule", next.leaves[c.g]) /\ UNCHANGED <<issued, spent, tried>>
     /\ UNCHANGED <<settled, telegram, Clock>>

\* The changes below ask Telegram nothing, so that their loop and its lock are one step.
Write(next) ==
  \/ reg' = Committed(next) /\ NoFault
  \/ reg' = reg /\ next # reg /\ Fault

ExpirePending(w) ==
  LET g == worker[w].g IN
  /\ At(w, "expire") /\ ~Locked(g)
  /\ Write(IF reg.pending[g] = worker[w].exp THEN Lapse(reg, g) ELSE reg)
  /\ Go(w, "leave")
  /\ UNCHANGED <<settled, telegram, history, Clock>>

UnregisterGroup(w) ==
  LET g == worker[w].g IN
  /\ At(w, "unregister") /\ ~Locked(g)
  /\ \/ g \notin reg.registered /\ UNCHANGED <<reg, faults>> /\ Done(w)
     \/ /\ g \in reg.registered
        /\ \/ reg' = Committed(RemoveRegistered(reg, g)) /\ NoFault /\ Go(w, "leave")
           \/ UNCHANGED reg /\ Fault /\ Done(w)
  /\ UNCHANGED <<settled, telegram, history, Clock>>

-----------------------------------------------------------------------------
(* Leaving *)

\* leaveUnknown takes the lock and looks again.
BuggyLeaveUnknown(w) ==                \* the group may have been enrolled while the handler waited
  /\ At(w, "leave") /\ ~Locked(worker[w].g)
  /\ Go(w, "leaving") /\ UNCHANGED <<reg, faults>>
  /\ UNCHANGED <<settled, telegram, history, Clock>>
LeaveUnknown(w) ==
  LET g == worker[w].g IN
  /\ At(w, "leave") /\ ~Locked(g)
  /\ \/ IsKnownChat(g) /\ Write(ClearLeave(reg, g)) /\ Done(w)
     \/ ~IsKnownChat(g) /\ Go(w, "leaving") /\ UNCHANGED <<reg, faults>>
  /\ UNCHANGED <<settled, telegram, history, Clock>>

\* LeaveChat, then clearUnknownGroupLeave.  Telegram refuses when the bot is not in the group.
LeaveChat(w) ==
  LET g == worker[w].g IN
  /\ At(w, "leaving")
  /\ \/ /\ bot[g] # "out"
        /\ bot' = [bot EXCEPT ![g] = "out"] /\ left' = left \cup {g}
        /\ Write(ClearLeave(reg, g))
     \/ bot[g] = "out" /\ UNCHANGED <<telegram, reg, faults>>
     \/ bot[g] # "out" /\ Fault /\ UNCHANGED <<telegram, reg>>
  /\ tried' = tried \cup {g}
  /\ Done(w)
  /\ UNCHANGED <<settled, issued, spent, enrolled, Clock>>

CancelUnknownLeave(w) ==
  /\ At(w, "cancel") /\ Done(w)
  /\ waiting' = [waiting EXCEPT ![worker[w].g] = 0]
  /\ UNCHANGED <<reg, timers, telegram, history, bounds>>

\* A later deadline replaces the one in force; an earlier or equal one is dropped.
Later(g, exp) == waiting[g] = 0 \/ exp > waiting[g]

BuggyScheduleUnknownLeave(w) ==        \* the map is set, but the goroutine only starts once
  LET g == worker[w].g  exp == worker[w].exp IN
  /\ At(w, "schedule") /\ Done(w)
  /\ IF Later(g, exp)
     THEN /\ waiting' = [waiting EXCEPT ![g] = exp]
          /\ timers' = IF waiting[g] = 0 THEN timers \cup {[g |-> g, at |-> exp]} ELSE timers
     ELSE UNCHANGED settled
  /\ tried' = tried \ {g}
  /\ UNCHANGED <<reg, telegram, issued, spent, enrolled, bounds>>
ScheduleUnknownLeave(w) ==
  LET g == worker[w].g  exp == worker[w].exp IN
  /\ At(w, "schedule") /\ Done(w)
  /\ IF Later(g, exp)
     THEN /\ waiting' = [waiting EXCEPT ![g] = exp]
          /\ timers' = timers \cup {[g |-> g, at |-> exp]}
     ELSE UNCHANGED settled
  /\ tried' = tried \ {g}
  /\ UNCHANGED <<reg, telegram, issued, spent, enrolled, bounds>>

\* A timer ends: it acts only when its deadline is still the one in force.
TimerFires(t) ==
  /\ t.at <= now
  /\ timers' = timers \ {t}
  /\ IF waiting[t.g] = t.at
     THEN /\ waiting' = [waiting EXCEPT ![t.g] = 0]
          /\ \E w \in Workers :
               At(w, "idle") /\ worker' = [worker EXCEPT ![w] = [Idle EXCEPT !.at = "due", !.g = t.g]]
     ELSE UNCHANGED <<waiting, worker>>
  /\ UNCHANGED <<reg, telegram, history, bounds>>

\* handleUnknownLeaveDeadline: a pending registration that ran out becomes a leave; a deadline
\* that moved is waited for again; a group enrolled meanwhile is kept.
HandleDeadline(w) ==
  LET g == worker[w].g
      Again(exp) == GoUntil(w, "schedule", exp) /\ UNCHANGED <<reg, faults>>
      Due == IF IsKnownChat(g) THEN Done(w) ELSE Go(w, "leaving")
  IN /\ At(w, "due") /\ ~Locked(g)
     /\ \/ now < reg.pending[g] /\ Again(reg.pending[g])
        \/ /\ reg.pending[g] # 0 /\ now >= reg.pending[g]
           /\ Write(IF IsKnownChat(g) THEN ClearLeave(Lapse(reg, g), g) ELSE Lapse(reg, g))
           /\ Due
        \/ reg.pending[g] = 0 /\ now < reg.leaves[g] /\ Again(reg.leaves[g])
        \/ /\ reg.pending[g] = 0 /\ now >= reg.leaves[g]
           /\ Write(IF IsKnownChat(g) THEN ClearLeave(reg, g) ELSE reg)
           /\ Due
     /\ UNCHANGED <<settled, telegram, history, Clock>>

-----------------------------------------------------------------------------
(* The owner *)

\* One claim wins: it is compared, used up and saved in one transaction.
ClaimOwner(u) ==
  /\ reg.owner = NoUser /\ reg.claim # 0 /\ now < reg.claim
  /\ Write([reg EXCEPT !.owner = u, !.claim = 0])
  /\ UNCHANGED <<worker, settled, telegram, history, Clock>>

\* IssueEnrollmentNonce drops the nonces that ran out and adds a fresh one.
IssueEnrollmentNonce(n) ==
  /\ reg.owner # NoUser /\ n \notin issued
  /\ issued' = issued \cup {n}
  /\ reg' = Committed([reg EXCEPT !.nonces = [m \in Nonces |->
       IF m = n THEN now + EnrollLife ELSE IF now < @[m] THEN @[m] ELSE 0]])
  /\ UNCHANGED <<worker, settled, telegram, spent, enrolled, tried, bounds>>

-----------------------------------------------------------------------------
(* The rest of the world *)

\* Administrators add, promote, demote and remove the bot.
MembershipChanges(g, m) ==
  /\ m # bot[g] /\ bot' = [bot EXCEPT ![g] = m]
  /\ left' = IF bot[g] = "out" THEN left \ {g} ELSE left
  /\ UNCHANGED <<reg, worker, settled, history, bounds>>

Tick ==
  /\ now < MaxNow /\ now' = now + 1
  /\ UNCHANGED <<reg, worker, settled, telegram, history, events, faults, restarts>>

Latest(a, b) == IF a >= b THEN a ELSE b

\* The process ends and starts: newRegistrationService waits again for every recorded deadline,
\* and EnsureOwnerClaim replaces a claim that ran out.
Restart ==
  /\ restarts < MaxRestarts /\ restarts' = restarts + 1
  /\ worker' = [w \in Workers |-> Idle]
  /\ waiting' = [g \in Groups |-> Latest(reg.pending[g], reg.leaves[g])]
  /\ timers' = {[g |-> g, at |-> waiting'[g]] : g \in {h \in Groups : waiting'[h] # 0}}
  /\ reg' = IF reg.owner = NoUser /\ now >= reg.claim
            THEN Committed([reg EXCEPT !.claim = now + ClaimLife]) ELSE reg
  /\ tried' = {}
  /\ UNCHANGED <<telegram, issued, spent, enrolled, now, events, faults>>

Work(w) ==
  \/ RouteMembership(w) \/ Lock(w) \/ CurrentBotMembership(w)
  \/ ConsumeEnrollment(w) \/ CompletePending(w)
  \/ AuthorizeOwnerMembership(w) \/ PersistUnknownLeaveIfMember(w)
  \/ ExpirePending(w) \/ UnregisterGroup(w)
  \/ LeaveUnknown(w) \/ LeaveChat(w)
  \/ CancelUnknownLeave(w) \/ ScheduleUnknownLeave(w) \/ HandleDeadline(w)

Begin(w) ==
  \E g \in Groups :
    OnMyChatMember(w, g) \/ OnUnregisterCommand(w, g) \/ \E n \in Nonces : OnEnrollmentStart(w, g, n)

Next ==
  \/ \E w \in Workers : Begin(w) \/ Work(w)
  \/ \E t \in timers : TimerFires(t)
  \/ \E u \in Users : ClaimOwner(u)
  \/ \E n \in Nonces : IssueEnrollmentNonce(n)
  \/ \E g \in Groups, m \in Memberships : MembershipChanges(g, m)
  \/ Tick
  \/ Restart

Spec == Init /\ [][Next]_vars

-----------------------------------------------------------------------------
\* Every variable holds the kind of value the Go declarations give it.
TypeOK ==
  /\ reg \in Registrations
  /\ worker \in [Workers -> Works]
  /\ waiting \in [Groups -> Nat]
  /\ timers \subseteq [g : Groups, at : Nat]
  /\ bot \in [Groups -> Memberships] /\ left \subseteq Groups
  /\ issued \subseteq Nonces /\ spent \in [Nonces -> Nat] /\ enrolled \subseteq Groups
  /\ tried \subseteq Groups
  /\ now \in Nat /\ events \in Nat /\ faults \in Nat /\ restarts \in Nat

\* The bot never walks out of a group that is registered: a leave decided before an enrolment is
\* looked at again under the lock, and an enrolment that waited for a leave sees the bot outside.
EnrolledGroupKept == reg.registered \cap left = {}

\* A nonce pays for one enrolment, whatever groups redeem it at once and wherever the process ends.
NonceSpentOnce == \A n \in Nonces : spent[n] <= 1

\* No transaction is refused by validateRegistrations: a group is never both waiting for its
\* promotion and waiting to be left.
PendingIsNotLeaving == \A g \in Groups : reg.pending[g] = 0 \/ reg.leaves[g] = 0

\* No deadline is forgotten: while a group that was never enrolled is recorded, and the bot has
\* not tried to leave it, a sleeping goroutine holds the deadline in force, or a running one is
\* on its way to set it or to act on it, also after a restart.
Acting == {"schedule", "due", "leaving"}
NoLeaveForgotten ==
  \A g \in Groups :
    reg.pending[g] # 0 \/ reg.leaves[g] # 0 =>
      \/ g \in enrolled \cup tried
      \/ [g |-> g, at |-> waiting[g]] \in timers
      \/ \E w \in Workers : worker[w].g = g /\ worker[w].at \in Acting

=============================================================================
