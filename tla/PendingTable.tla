---------------------------- MODULE PendingTable ----------------------------
(***************************************************************************)
(* The verification table of internal/verify, in one life of the process:  *)
(* the maps `pend` and `terminal`, the expiry timers with their epochs,    *)
(* and the claims that hand a pending verification to one settlement.      *)
(* PendingStore adds pending.json to every action, and the restart.        *)
(*                                                                         *)
(* An action is one critical section of Service.mu.  Telegram calls happen *)
(* between critical sections, so a handler that makes one is a member of a *)
(* set (arriving, delivering, settling, ...) until its next one.           *)
(***************************************************************************)
EXTENDS Naturals, FiniteSets

CONSTANTS Groups,            \* guarded groups
          Users,             \* applicants
          Pendings,          \* identities of *pending objects, with their nonces
          NoPending,         \* an absent map entry (nil)
          GroupCap,          \* pendingPerGroupCap
          GlobalCap,         \* pendingGlobalCap
          MaxSettleFailures, \* maxSettleFailures
          MaxEpoch,          \* bound: recoveries and prompts re-arm below this epoch
          MaxRearmed,        \* bound: how many verifications get a later window
          MaxHandlers        \* bound: join and button handlers under way at once

ASSUME NoPendingAssumption == NoPending \notin Pendings
ASSUME FiniteAssumption == IsFiniteSet(Groups) /\ IsFiniteSet(Users)
ASSUME CapAssumption == GroupCap \in Nat \ {0} /\ GlobalCap \in Nat \ {0}
ASSUME BoundAssumption == /\ MaxSettleFailures \in Nat \ {0}
                          /\ MaxEpoch \in Nat
                          /\ MaxRearmed \in Nat
                          /\ MaxHandlers \in Nat

Keys == Groups \X Users               \* pkey{gid, uid}
NoKey == <<>>                         \* the key of an object not yet allocated
Ops == {"approve", "decline", "ban"}  \* executeApprove, finishDecline, executeBan
Phases == {"running", "stopping"}     \* "stopping" is Service.shuttingDown
Statuses == {"enabled", "disabled", "unregistered"}

VARIABLES
  pend,           \* Service.pend
  terminal,       \* Service.terminal: who has a Telegram settlement in flight
  key,            \* the key each pending object was created under
  done,           \* objects with pending.done
  removed,        \* objects with pending.removed
  passing,        \* objects with pending.passing
  settleFailures, \* pending.settleFailures
  epoch,          \* pending.epoch
  timers,         \* armed time.AfterFunc timers, as <<object, epoch>>
  firing,         \* onExpiry callbacks that have started
  settling,       \* settlements in flight, as <<object, routine>>
  arriving,       \* join handlers past IsEnabled, not yet at startPending
  delivering,     \* join handlers between startPending and finishPendingChallenge
  checking,       \* administrator callbacks past pendingHasNonce, before the claim
  renotifying,    \* objects onRecovery still has to re-notify
  status,         \* what the settings say of each group
  phase           \* Service.shuttingDown

tableVars == <<pend, terminal, key, done, removed, passing, settleFailures>>
timerVars == <<epoch, timers, firing>>
handlerVars == <<settling, arriving, delivering, checking, renotifying>>
processVars == <<status, phase>>
vars == <<tableVars, timerVars, handlerVars, processVars>>

-----------------------------------------------------------------------------
(* The operators named Buggy... are variants of the operator that follows, each with a      *)
(* slip a change to the code could make.  No action uses them: they show that the           *)
(* properties below can fail.                                                               *)

InTable(p) == key[p] # NoKey /\ pend[key[p]] = p
BuggyLive(p) == InTable(p)            \* the claims forget to test p.done
Live(p) == InTable(p) /\ p \notin done
LivePendings == {p \in Pendings : Live(p)}
Entries(table, g) == {p \in Pendings : \E u \in Users : table[<<g, u>>] = p}
OccupiedKeys == {k \in Keys : pend[k] # NoPending}
OccupiedIn(g) == {k \in OccupiedKeys : k[1] = g}

\* pendingCapacityOKLocked
BuggyCapacityOK(g) ==                 \* the caps themselves count as room
  /\ Cardinality(OccupiedKeys) < GlobalCap
  /\ Cardinality(OccupiedIn(g)) <= GroupCap
CapacityOK(g) ==
  /\ Cardinality(OccupiedKeys) < GlobalCap
  /\ Cardinality(OccupiedIn(g)) < GroupCap

\* The dispatcher runs a bounded number of update handlers at a time.
HandlerSlot ==
  Cardinality(arriving) + Cardinality(delivering) + Cardinality(checking) < MaxHandlers

\* Timer.Stop on the latest timer of each object, and armExpiry: time.AfterFunc under
\* the next epoch.
Stopped(ps) == timers \ {<<p, epoch[p]>> : p \in ps}
Bumped(ps) == [p \in Pendings |-> IF p \in ps THEN epoch[p] + 1 ELSE epoch[p]]
BuggyArmed(ps) == {<<p, epoch[p]>> : p \in ps}   \* epoch captured before p.epoch++
Armed(ps) == {<<p, epoch[p] + 1>> : p \in ps}

\* The bounds on re-arming outside a settlement
Rearmable(ps) ==
  /\ \A p \in ps : epoch[p] < MaxEpoch
  /\ Cardinality(ps \cup {p \in Pendings : epoch[p] > 1}) <= MaxRearmed

\* Stop, then armExpiry
Rearm(ps) ==
  /\ timers' = Stopped(ps) \cup Armed(ps)
  /\ epoch' = Bumped(ps)

\* delete(m, key) while m[key] is still this object; releaseTerminalLocked
BuggyWithout(table, p) == [table EXCEPT ![key[p]] = NoPending]   \* whoever is there now
Without(table, p) ==
  IF table[key[p]] = p THEN [table EXCEPT ![key[p]] = NoPending] ELSE table

Cleared(table, g) == [k \in Keys |-> IF k[1] = g THEN NoPending ELSE table[k]]
NoEntries == [k \in Keys |-> NoPending]

Init ==
  /\ pend = NoEntries
  /\ terminal = NoEntries
  /\ key = [p \in Pendings |-> NoKey]
  /\ done = {} /\ removed = {} /\ passing = {}
  /\ settleFailures = [p \in Pendings |-> 0]
  /\ epoch = [p \in Pendings |-> 0]
  /\ timers = {} /\ firing = {}
  /\ settling = {} /\ arriving = {} /\ delivering = {} /\ checking = {} /\ renotifying = {}
  /\ status = [g \in Groups |-> "enabled"]
  /\ phase = "running"

-----------------------------------------------------------------------------
(* Arrivals: OnJoinRequest and OnMemberJoined *)

\* Both handlers read IsGroup and IsEnabled, then ask Telegram about trusted groups,
\* administrators and the rest before they reach startPending.
Arrive(k) ==
  /\ status[k[1]] = "enabled"
  /\ HandlerSlot
  /\ arriving' = arriving \cup {k}
  /\ UNCHANGED <<tableVars, timerVars, settling, delivering, checking, renotifying,
                 processVars>>

\* The handler returns without a verification: trusted, exempt, cooling down, or
\* startPending answered pendingBlockedTerminal, pendingBlockedCapacity or
\* pendingDuplicateArrival.
TurnAway(k) ==
  /\ k \in arriving
  /\ arriving' = arriving \ {k}
  /\ UNCHANGED <<tableVars, timerVars, settling, delivering, checking, renotifying,
                 processVars>>

\* When startPending answers pendingStarted
Startable(k) ==
  /\ terminal[k] = NoPending
  /\ pend[k] \notin done
  /\ pend[k] = NoPending => CapacityOK(k[1])

\* startPending with a fresh object p, which replaces an open verification of the key.
StartPending(k, p) ==
  /\ k \in arriving
  /\ key[p] = NoKey
  /\ Startable(k)
  /\ LET replaced == {pend[k]} \ {NoPending} IN
       /\ done' = done \cup replaced
       /\ timers' = Stopped(replaced) \cup Armed({p})
  /\ epoch' = Bumped({p})
  /\ pend' = [pend EXCEPT ![k] = p]
  /\ key' = [key EXCEPT ![p] = k]
  /\ arriving' = arriving \ {k}
  /\ delivering' = delivering \cup {p}
  /\ UNCHANGED <<terminal, removed, passing, settleFailures, firing, settling,
                 checking, renotifying, processVars>>

\* finishPendingChallenge: the answer window opens if the object is still current.
FinishPendingChallenge(p) ==
  /\ p \in delivering
  /\ delivering' = delivering \ {p}
  /\ \/ Live(p) /\ Rearm({p})
     \/ ~Live(p) /\ UNCHANGED <<epoch, timers>>
  /\ UNCHANGED <<tableVars, firing, settling, arriving, checking, renotifying, processVars>>

-----------------------------------------------------------------------------
(* Expiry: armExpiry, onExpiry, deferExpiry, claimPendingExpiry *)

Fire(t) ==
  /\ t \in timers
  /\ timers' = timers \ {t}
  /\ firing' = firing \cup {t}
  /\ UNCHANGED <<tableVars, epoch, handlerVars, processVars>>

BuggyCurrent(t) == Live(t[1])         \* the nonce is compared, the epoch is not

\* The callback still belongs to the current object and its latest timer.
Current(t) == Live(t[1]) /\ t[2] = epoch[t[1]]

\* Telegram is unreachable: a fresh window, no settlement, however often that happens (past
\* maxVerificationDeferral the window is a minute).  Beyond the bounds the new window keeps
\* the number of the one that ended, which no other timer or callback has.
DeferExpiry(t) ==
  /\ t \in firing
  /\ Current(t)
  /\ firing' = firing \ {t}
  /\ \/ Rearmable({t[1]}) /\ Rearm({t[1]})
     \/ ~Rearmable({t[1]}) /\ timers' = timers \cup {t} /\ UNCHANGED epoch
  /\ UNCHANGED <<tableVars, handlerVars, processVars>>

\* What claimPending, claimPendingNonce, claimPendingExpiry and consume do once they accept
Claim(p, op) ==
  /\ done' = done \cup {p}
  /\ timers' = Stopped({p})
  /\ terminal' = [terminal EXCEPT ![key[p]] = p]
  /\ settling' = settling \cup {<<p, op>>}
  /\ UNCHANGED <<pend, key, removed, passing, settleFailures, epoch>>

BuggyClaimPendingExpiry(t) ==         \* without the test of shuttingDown
  /\ t \in firing
  /\ Current(t)
  /\ Claim(t[1], IF t[1] \in passing THEN "approve" ELSE "decline")
  /\ firing' = firing \ {t}
  /\ UNCHANGED <<arriving, delivering, checking, renotifying, processVars>>

\* onExpiry settles: an applicant who had already passed is admitted, anyone else declined.
ClaimPendingExpiry(t) ==
  /\ t \in firing
  /\ phase = "running"
  /\ Current(t)
  /\ Claim(t[1], IF t[1] \in passing THEN "approve" ELSE "decline")
  /\ firing' = firing \ {t}
  /\ UNCHANGED <<arriving, delivering, checking, renotifying, processVars>>

\* The callback lost: handled, replaced, re-armed or shutting down.
DropExpiry(t) ==
  /\ t \in firing
  /\ ~Current(t) \/ phase = "stopping"
  /\ firing' = firing \ {t}
  /\ UNCHANGED <<tableVars, epoch, timers, handlerVars, processVars>>

-----------------------------------------------------------------------------
(* Answers and administrator buttons *)

\* OnAnswer and gradeKernelAnswer: an answer graded against object p claims p or nothing.
ClaimPendingNonce(p, op) ==
  /\ phase = "running"
  /\ op \in {"approve", "decline"}
  /\ Live(p)
  /\ Claim(p, op)
  /\ UNCHANGED <<firing, arriving, delivering, checking, renotifying, processVars>>

\* OnAdminAction: the button's nonce is checked, then Telegram is asked whether the
\* presser is an administrator.
CheckAdmin(p) ==
  /\ Live(p)
  /\ HandlerSlot
  /\ checking' = checking \cup {p}
  /\ UNCHANGED <<tableVars, timerVars, settling, arriving, delivering, renotifying,
                 processVars>>

\* claimPending or consume: whatever is live under the button's key, by now object q.
ClaimAdmin(p, q, op) ==
  /\ p \in checking
  /\ key[q] = key[p]
  /\ Live(q)
  /\ op \in {"approve", "ban"}
  /\ Claim(q, op)
  /\ checking' = checking \ {p}
  /\ UNCHANGED <<firing, arriving, delivering, renotifying, processVars>>

\* Not an administrator, or nothing left to settle.
DismissAdmin(p) ==
  /\ p \in checking
  /\ checking' = checking \ {p}
  /\ UNCHANGED <<tableVars, timerVars, settling, arriving, delivering, renotifying,
                 processVars>>

-----------------------------------------------------------------------------
(* Outcomes of a settlement *)

\* finishTerminal, and the same two deletions in executeApprove
FinishTerminal(p, op) ==
  /\ <<p, op>> \in settling
  /\ settling' = settling \ {<<p, op>>}
  /\ pend' = Without(pend, p)
  /\ terminal' = Without(terminal, p)
  /\ UNCHANGED <<key, done, removed, passing, settleFailures, timerVars,
                 arriving, delivering, checking, renotifying, processVars>>

\* markPassing, which a failed approval calls first
MarkPassing(p, op) ==
  passing' = IF op = "approve" /\ InTable(p) THEN passing \cup {p} ELSE passing

\* reopenPending, when the object is no longer the current claim: nothing to reopen
BuggyReopenLost(p) ==                 \* puts the object back under its key
  /\ ~(InTable(p) /\ p \in done)
  /\ pend' = [pend EXCEPT ![key[p]] = p]
  /\ UNCHANGED <<done, settleFailures, timers, epoch>>
ReopenLost(p) ==
  /\ ~(InTable(p) /\ p \in done)
  /\ UNCHANGED <<pend, done, settleFailures, timers, epoch>>

\* reopenPending, when the attempts are spent: the object is given up.
ReopenGivesUp(p) ==
  /\ InTable(p) /\ p \in done
  /\ settleFailures[p] + 1 >= MaxSettleFailures
  /\ settleFailures' = [settleFailures EXCEPT ![p] = @ + 1]
  /\ pend' = Without(pend, p)
  /\ timers' = Stopped({p})
  /\ UNCHANGED <<done, epoch>>

\* reopenPending, otherwise: open again, with a timer for the next attempt.
ReopenRetries(p) ==
  /\ InTable(p) /\ p \in done
  /\ settleFailures[p] + 1 < MaxSettleFailures
  /\ settleFailures' = [settleFailures EXCEPT ![p] = @ + 1]
  /\ done' = done \ {p}
  /\ timers' = timers \cup Armed({p})
  /\ epoch' = Bumped({p})
  /\ UNCHANGED pend

\* Telegram refused for now.
ReopenPending(p, op) ==
  /\ <<p, op>> \in settling
  /\ settling' = settling \ {<<p, op>>}
  /\ MarkPassing(p, op)
  /\ terminal' = Without(terminal, p)
  /\ ReopenLost(p) \/ ReopenGivesUp(p) \/ ReopenRetries(p)
  /\ UNCHANGED <<key, removed, firing, arriving, delivering, checking, renotifying,
                 processVars>>

\* discardPending
BuggyDiscard(p) ==                    \* the marker is not released
  /\ pend' = Without(pend, p)
  /\ done' = IF InTable(p) THEN done \cup {p} ELSE done
  /\ timers' = IF InTable(p) THEN Stopped({p}) ELSE timers
  /\ UNCHANGED <<terminal, key, removed, settleFailures, epoch, firing>>
Discard(p) ==
  /\ pend' = Without(pend, p)
  /\ terminal' = Without(terminal, p)
  /\ done' = IF InTable(p) THEN done \cup {p} ELSE done
  /\ timers' = IF InTable(p) THEN Stopped({p}) ELSE timers
  /\ UNCHANGED <<key, removed, settleFailures, epoch, firing>>

\* abandonSettlement: the error proves that no retry can succeed.
AbandonSettlement(p, op) ==
  /\ <<p, op>> \in settling
  /\ settling' = settling \ {<<p, op>>}
  /\ MarkPassing(p, op)
  /\ Discard(p)
  /\ UNCHANGED <<arriving, delivering, checking, renotifying, processVars>>

-----------------------------------------------------------------------------
(* Re-arming outside a settlement *)

\* onRecovery: every unfinished object gets a fresh timer; some are then re-notified, one
\* after another, before the heartbeat goroutine can start another recovery.
OnRecovery(ps) ==
  /\ phase = "running"
  /\ renotifying = {}
  /\ LivePendings # {}
  /\ ps \subseteq LivePendings
  /\ Rearmable(LivePendings)
  /\ Rearm(LivePendings)
  /\ renotifying' = ps
  /\ UNCHANGED <<tableVars, firing, settling, arriving, delivering, checking, processVars>>

\* renotifyPending: dropIfAlreadyJoined found the applicant in the group already.
DropJoined(p) ==
  /\ p \in renotifying
  /\ renotifying' = renotifying \ {p}
  /\ Discard(p)
  /\ UNCHANGED <<passing, settling, arriving, delivering, checking, processVars>>

\* renotifyPending: the challenge was sent again, or nothing was.
Renotified(p) ==
  /\ p \in renotifying
  /\ renotifying' = renotifying \ {p}
  /\ UNCHANGED <<tableVars, timerVars, settling, arriving, delivering, checking,
                 processVars>>

\* beginKernelFallback and completeDMDelivery: a new question gets a new window.
NewWindow(p) ==
  /\ Live(p)
  /\ Rearmable({p})
  /\ Rearm({p})
  /\ UNCHANGED <<tableVars, firing, handlerVars, processVars>>

-----------------------------------------------------------------------------
(* Groups *)

\* The verifications of a group, marked and stopped as they leave the maps
Cancel(ps) ==
  /\ removed' = removed \cup ps
  /\ done' = done \cup ps
  /\ timers' = Stopped(ps)

\* SetEnabled(false): the settings commit, then cancelGroupVerifications.
CancelGroupVerifications(g) ==
  /\ status[g] # "unregistered"
  /\ status' = [status EXCEPT ![g] = "disabled"]
  /\ Cancel(Entries(pend, g))
  /\ pend' = Cleared(pend, g)
  /\ UNCHANGED <<terminal, key, passing, settleFailures, epoch, firing, handlerVars, phase>>

\* The registration is gone: RemoveGroup also takes claims already in flight.
RemoveGroup(g) ==
  /\ status[g] # "unregistered"
  /\ status' = [status EXCEPT ![g] = "unregistered"]
  /\ Cancel(Entries(pend, g) \cup Entries(terminal, g))
  /\ pend' = Cleared(pend, g)
  /\ terminal' = Cleared(terminal, g)
  /\ UNCHANGED <<key, passing, settleFailures, epoch, firing, handlerVars, phase>>

\* SetEnabled(true), or the group is registered again.
EnableGroup(g) ==
  /\ status[g] # "enabled"
  /\ status' = [status EXCEPT ![g] = "enabled"]
  /\ UNCHANGED <<tableVars, timerVars, handlerVars, phase>>

\* stopForShutdown
StopForShutdown ==
  /\ phase = "running"
  /\ phase' = "stopping"
  /\ timers' = Stopped({p \in Pendings : InTable(p)})
  /\ UNCHANGED <<tableVars, epoch, firing, handlerVars, status>>

-----------------------------------------------------------------------------
Arrival(k) == Arrive(k) \/ TurnAway(k) \/ \E p \in Pendings : StartPending(k, p)

Expiry(t) == Fire(t) \/ DeferExpiry(t) \/ ClaimPendingExpiry(t) \/ DropExpiry(t)

Outcome(p, op) == FinishTerminal(p, op) \/ ReopenPending(p, op) \/ AbandonSettlement(p, op)

Admin(p) ==
  \/ CheckAdmin(p) \/ DismissAdmin(p)
  \/ \E q \in Pendings, op \in Ops : ClaimAdmin(p, q, op)

Recovery ==
  \/ \E ps \in SUBSET LivePendings : OnRecovery(ps)
  \/ \E p \in Pendings : DropJoined(p) \/ Renotified(p)

GroupChange(g) == CancelGroupVerifications(g) \/ RemoveGroup(g) \/ EnableGroup(g)

Next ==
  \/ \E k \in Keys : Arrival(k)
  \/ \E p \in Pendings : FinishPendingChallenge(p) \/ NewWindow(p) \/ Admin(p)
  \/ \E t \in timers \cup firing : Expiry(t)
  \/ \E p \in Pendings, op \in Ops : ClaimPendingNonce(p, op) \/ Outcome(p, op)
  \/ Recovery
  \/ \E g \in Groups : GroupChange(g)
  \/ StopForShutdown

Spec == Init /\ [][Next]_vars

\* What the runtime owes.  An armed timer fires, its callback runs to its end, and every
\* Telegram call of a settlement returns, with a result or its timeout.  Applicants,
\* administrators and recoveries owe nothing.
ExpiryOf(p) ==
  \E t \in firing : t[1] = p /\ (DeferExpiry(t) \/ ClaimPendingExpiry(t) \/ DropExpiry(t))
Fairness ==
  \A p \in Pendings :
    /\ WF_vars(\E t \in timers : t[1] = p /\ Fire(t))
    /\ WF_vars(ExpiryOf(p))
    /\ WF_vars(\E op \in Ops : Outcome(p, op))

\* What is asked of the network: it is not down at every single expiry of a verification.
OutagesEnd ==
  \A p \in Pendings : SF_vars(\E t \in firing : t[1] = p /\ ClaimPendingExpiry(t))

-----------------------------------------------------------------------------
Tables == [Keys -> Pendings \cup {NoPending}]
Counts == [Pendings -> Nat]
TimerSet == Pendings \X Nat

\* Every variable holds the kind of value the Go declarations give it.
TypeOK ==
  /\ pend \in Tables /\ terminal \in Tables
  /\ key \in [Pendings -> Keys \cup {NoKey}]
  /\ done \subseteq Pendings /\ removed \subseteq Pendings /\ passing \subseteq Pendings
  /\ settleFailures \in Counts
  /\ epoch \in Counts
  /\ timers \subseteq TimerSet /\ firing \subseteq TimerSet
  /\ settling \subseteq Pendings \X Ops
  /\ arriving \subseteq Keys
  /\ delivering \subseteq Pendings /\ checking \subseteq Pendings
  /\ renotifying \subseteq Pendings
  /\ status \in [Groups -> Statuses]
  /\ phase \in Phases

\* One settlement at a time: an answer, a timer and an administrator racing for the same
\* verification never both call Telegram about it.
SoleSettler ==
  \A p \in Pendings, a, b \in Ops :
    <<p, a>> \in settling /\ <<p, b>> \in settling => a = b

\* A claimed entry and a terminal marker each belong to a settlement that is still
\* running.  Either one left behind would block its applicant from ever being verified
\* again (startPending answers pendingBlockedTerminal).
NothingWedged ==
  \A k \in Keys, p \in Pendings :
    (terminal[k] = p \/ (pend[k] = p /\ p \in done))
      => \E op \in Ops : <<p, op>> \in settling

\* Nobody is forgotten: while the process runs, every open verification has an armed
\* timer or a running callback that may still act on it.
NobodyForgotten ==
  phase = "running" =>
    \A p \in LivePendings : <<p, epoch[p]>> \in timers \cup firing

\* A fresh window holds: an armed timer belongs to an open verification and is its only
\* one, and no callback left over from an earlier window can settle that verification.
FreshWindowHolds ==
  \A t \in timers :
    /\ Live(t[1])
    /\ \A u \in timers : u[1] = t[1] => u = t
    /\ \A f \in firing : ~(f[1] = t[1] /\ Current(f))

\* The queue never exceeds its caps, whatever replaces, reopens or restores entries.
CapacityBounded ==
  /\ Cardinality(OccupiedKeys) <= GlobalCap
  /\ \A g \in Groups : Cardinality(OccupiedIn(g)) <= GroupCap

\* The end of one settlement leaves every other verification alone, even one that took
\* over its key after the group was removed and registered again.
SettlementKeepsToItsOwn ==
  [][\A p \in Pendings, op \in Ops : Outcome(p, op) =>
       \A k \in Keys :
         /\ pend[k] # p => pend'[k] = pend[k]
         /\ terminal[k] # p => terminal'[k] = terminal[k]]_vars

\* A shutdown freezes the table: once no handler is under way, expiring timers and late
\* answers settle nothing, and what Shutdown saves is what the next process finds.
FrozenAfterShutdown ==
  [][(/\ phase = "stopping"
      /\ settling = {} /\ arriving = {} /\ delivering = {} /\ checking = {} /\ renotifying = {}
      /\ ~\E g \in Groups : GroupChange(g))
     => UNCHANGED tableVars]_vars

-----------------------------------------------------------------------------
(* What the repository says of this code and the code does not do *)

\* Service.terminal: "claimed terminal actions remain here until their Telegram call
\* returns" (a removed group cancels its claims on purpose).
MarkerLastsAsLongAsTheCall ==
  \A p \in Pendings, op \in Ops :
    <<p, op>> \in settling /\ p \notin removed => terminal[key[p]] = p

\* OnAdminAction: "The nonce ties the button to the verification it was posted for."
ButtonSettlesItsOwnVerification ==
  [][\A p, q \in Pendings, op \in Ops : ClaimAdmin(p, q, op) => p = q]_vars

\* outage-recovery.md: Shutdown "refuses later settlement claims"
ShutdownRefusesClaims == [][phase = "stopping" => settling' \subseteq settling]_vars

=============================================================================
