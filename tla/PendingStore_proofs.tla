------------------------ MODULE PendingStore_proofs ------------------------
(***************************************************************************)
(* Safety of the verification table and of pending.json, for every number  *)
(* of groups, applicants and objects, and for every cap and bound.         *)
(*                                                                         *)
(* IInv is the inductive invariant of the table.  Its first half ties the  *)
(* two maps to the settlements in flight; its second half ties the timers  *)
(* to the epochs.  StoreInv adds the file: the invariant survives restarts *)
(* and crashes, what has ended stays ended, and what is not in the file    *)
(* is on its way there.                                                    *)
(***************************************************************************)
EXTENDS PendingStore, FiniteSetTheorems, TLAPS

\* Both maps file an object under the key it was created with.
Keyed ==
  \A k \in Keys, p \in Pendings : pend[k] = p \/ terminal[k] = p => key[p] = k

\* A claimed entry carries its marker.
ClaimedIsMarked ==
  \A k \in Keys, p \in Pendings : pend[k] = p /\ p \in done => terminal[k] = p

\* A marker belongs to a settlement in flight.
MarkedIsSettling ==
  \A k \in Keys, p \in Pendings : terminal[k] = p => \E op \in Ops : <<p, op>> \in settling

\* A settlement in flight holds its claim.
SettlingIsClaimed ==
  \A p \in Pendings, op \in Ops : <<p, op>> \in settling => p \in done /\ key[p] # NoKey

\* An object nobody has created yet is not claimed.
FreshIsOpen == \A p \in done : key[p] # NoKey

RenotifiedWasCreated == \A p \in renotifying : key[p] # NoKey

ClaimInv ==
  /\ Keyed /\ ClaimedIsMarked /\ MarkedIsSettling /\ SettlingIsClaimed
  /\ FreshIsOpen /\ RenotifiedWasCreated /\ SoleSettler

\* An armed timer is the latest one of an open verification.
TimerIsLatest == \A t \in timers : Live(t[1]) /\ t[2] = epoch[t[1]]

\* A callback never runs ahead of the epoch, nor beside the timer it came from.
FiringIsPast == \A t \in firing : t[2] <= epoch[t[1]] /\ t \notin timers

TimerInv == TimerIsLatest /\ FiringIsPast /\ NobodyForgotten

IInv == TypeOK /\ ClaimInv /\ TimerInv

-----------------------------------------------------------------------------
(* Types *)

LEMMA WithoutType ==
  ASSUME NEW table \in Tables, NEW p \in Pendings
  PROVE  Without(table, p) \in Tables
BY DEF Without, Tables

LEMMA ClearedType ==
  ASSUME NEW table \in Tables, NEW g \in Groups
  PROVE  Cleared(table, g) \in Tables
BY DEF Cleared, Tables

LEMMA EntriesType ==
  ASSUME NEW table, NEW g \in Groups
  PROVE  Entries(table, g) \subseteq Pendings
BY DEF Entries

\* Arming and re-arming keep timers and epochs of their types.
LEMMA TimerTypes ==
  ASSUME TypeOK, NEW ps \in SUBSET Pendings
  PROVE  /\ Stopped(ps) \subseteq TimerSet
         /\ Armed(ps) \subseteq TimerSet
         /\ Bumped(ps) \in Counts
BY DEF TypeOK, Stopped, Armed, Bumped, TimerSet, Counts

LEMMA InitType == Init => TypeOK
BY BoundAssumption DEF Init, TypeOK, NoEntries, Tables, Counts, TimerSet, Statuses, Phases

LEMMA ClaimType ==
  ASSUME TypeOK, NEW p \in Pendings, NEW op \in Ops, Claim(p, op), key[p] \in Keys
  PROVE  /\ done' \subseteq Pendings /\ timers' \subseteq TimerSet /\ terminal' \in Tables
         /\ settling' \subseteq Pendings \X Ops
<1>1. Stopped({p}) \subseteq TimerSet
  BY TimerTypes
<1> QED
  BY <1>1 DEF Claim, TypeOK, Tables

LEMMA DiscardType ==
  ASSUME TypeOK, NEW p \in Pendings, Discard(p)
  PROVE  /\ pend' \in Tables /\ terminal' \in Tables
         /\ done' \subseteq Pendings /\ timers' \subseteq TimerSet
<1>1. Stopped({p}) \subseteq TimerSet
  BY TimerTypes
<1>2. pend \in Tables /\ terminal \in Tables
  BY DEF TypeOK
<1> QED
  BY <1>1, <1>2, WithoutType DEF Discard, TypeOK

LEMMA NextType == TypeOK /\ [Next]_vars => TypeOK'
<1> SUFFICES ASSUME TypeOK, [Next]_vars PROVE TypeOK'
  OBVIOUS
<1> USE DEF tableVars, timerVars, handlerVars, processVars
<1>1. ASSUME NEW k \in Keys, Arrive(k) PROVE TypeOK'
  BY <1>1 DEF Arrive, TypeOK
<1>2. ASSUME NEW k \in Keys, TurnAway(k) PROVE TypeOK'
  BY <1>2 DEF TurnAway, TypeOK
<1>3. ASSUME NEW k \in Keys, NEW p \in Pendings, StartPending(k, p) PROVE TypeOK'
  <2> DEFINE replaced == {pend[k]} \ {NoPending}
  <2>1. replaced \subseteq Pendings
    BY DEF TypeOK, Tables
  <2>2. /\ Stopped(replaced) \subseteq TimerSet
        /\ Armed({p}) \subseteq TimerSet
        /\ Bumped({p}) \in Counts
    BY <2>1, TimerTypes
  <2>3. done' = done \cup replaced /\ timers' = Stopped(replaced) \cup Armed({p})
    BY <1>3 DEF StartPending
  <2>4. pend' \in Tables /\ key' \in [Pendings -> Keys \cup {NoKey}]
    BY <1>3 DEF StartPending, TypeOK, Tables
  <2>5. arriving' \subseteq Keys /\ delivering' \subseteq Pendings
    BY <1>3 DEF StartPending, TypeOK
  <2> HIDE DEF replaced
  <2> QED
    BY <1>3, <2>1, <2>2, <2>3, <2>4, <2>5 DEF StartPending, TypeOK
<1>4. ASSUME NEW p \in Pendings, FinishPendingChallenge(p) PROVE TypeOK'
  <2>1. Stopped({p}) \subseteq TimerSet /\ Armed({p}) \subseteq TimerSet /\ Bumped({p}) \in Counts
    BY TimerTypes
  <2> QED
    BY <1>4, <2>1 DEF FinishPendingChallenge, Rearm, TypeOK
<1>5. ASSUME NEW t \in timers, Fire(t) PROVE TypeOK'
  BY <1>5 DEF Fire, TypeOK
<1>6. ASSUME NEW t \in firing, DeferExpiry(t) PROVE TypeOK'
  <2>0. t[1] \in Pendings
    BY DEF TypeOK, TimerSet
  <2>1. Stopped({t[1]}) \subseteq TimerSet /\ Armed({t[1]}) \subseteq TimerSet
        /\ Bumped({t[1]}) \in Counts
    BY <2>0, TimerTypes
  <2>2. timers' \subseteq TimerSet /\ epoch' \in Counts
    BY <1>6, <2>1 DEF DeferExpiry, Rearm, TypeOK
  <2> QED
    BY <1>6, <2>2 DEF DeferExpiry, TypeOK
<1>7. ASSUME NEW t \in firing, ClaimPendingExpiry(t) PROVE TypeOK'
  <2> DEFINE op == IF t[1] \in passing THEN "approve" ELSE "decline"
  <2>0. t[1] \in Pendings /\ op \in Ops
    BY DEF TypeOK, TimerSet, Ops
  <2>1. Claim(t[1], op) /\ key[t[1]] \in Keys
    BY <1>7, <2>0 DEF ClaimPendingExpiry, Current, Live, InTable, TypeOK
  <2> HIDE DEF op
  <2>2. /\ done' \subseteq Pendings /\ timers' \subseteq TimerSet /\ terminal' \in Tables
        /\ settling' \subseteq Pendings \X Ops
    BY <2>0, <2>1, ClaimType
  <2> QED
    BY <1>7, <2>1, <2>2 DEF ClaimPendingExpiry, Claim, TypeOK
<1>8. ASSUME NEW t \in firing, DropExpiry(t) PROVE TypeOK'
  BY <1>8 DEF DropExpiry, TypeOK
<1>9. ASSUME NEW p \in Pendings, NEW op \in Ops, ClaimPendingNonce(p, op) PROVE TypeOK'
  <2>1. Claim(p, op) /\ key[p] \in Keys
    BY <1>9 DEF ClaimPendingNonce, Live, InTable, TypeOK
  <2>2. /\ done' \subseteq Pendings /\ timers' \subseteq TimerSet /\ terminal' \in Tables
        /\ settling' \subseteq Pendings \X Ops
    BY <2>1, ClaimType
  <2> QED
    BY <1>9, <2>1, <2>2 DEF ClaimPendingNonce, Claim, TypeOK
<1>10. ASSUME NEW p \in Pendings, CheckAdmin(p) PROVE TypeOK'
  BY <1>10 DEF CheckAdmin, TypeOK
<1>11. ASSUME NEW p \in Pendings, NEW q \in Pendings, NEW op \in Ops, ClaimAdmin(p, q, op)
       PROVE  TypeOK'
  <2>1. Claim(q, op) /\ key[q] \in Keys
    BY <1>11 DEF ClaimAdmin, Live, InTable, TypeOK
  <2>2. /\ done' \subseteq Pendings /\ timers' \subseteq TimerSet /\ terminal' \in Tables
        /\ settling' \subseteq Pendings \X Ops
    BY <2>1, ClaimType
  <2> QED
    BY <1>11, <2>1, <2>2 DEF ClaimAdmin, Claim, TypeOK
<1>12. ASSUME NEW p \in Pendings, DismissAdmin(p) PROVE TypeOK'
  BY <1>12 DEF DismissAdmin, TypeOK
<1>13. ASSUME NEW p \in Pendings, NEW op \in Ops, FinishTerminal(p, op) PROVE TypeOK'
  <2>1. Without(pend, p) \in Tables /\ Without(terminal, p) \in Tables
    BY WithoutType DEF TypeOK
  <2> QED
    BY <1>13, <2>1 DEF FinishTerminal, TypeOK
<1>14. ASSUME NEW p \in Pendings, NEW op \in Ops, ReopenPending(p, op) PROVE TypeOK'
  <2>1. Without(pend, p) \in Tables /\ Without(terminal, p) \in Tables
    BY WithoutType DEF TypeOK
  <2>2. Stopped({p}) \subseteq TimerSet /\ Armed({p}) \subseteq TimerSet /\ Bumped({p}) \in Counts
    BY TimerTypes
  <2>3. [settleFailures EXCEPT ![p] = @ + 1] \in Counts
    BY DEF TypeOK, Counts
  <2>4. passing' \subseteq Pendings
    BY <1>14 DEF ReopenPending, MarkPassing, TypeOK
  <2> QED
    BY <1>14, <2>1, <2>2, <2>3, <2>4
    DEF ReopenPending, ReopenLost, ReopenGivesUp, ReopenRetries, TypeOK
<1>15. ASSUME NEW p \in Pendings, NEW op \in Ops, AbandonSettlement(p, op) PROVE TypeOK'
  <2>1. /\ pend' \in Tables /\ terminal' \in Tables
        /\ done' \subseteq Pendings /\ timers' \subseteq TimerSet
    BY <1>15, DiscardType DEF AbandonSettlement
  <2>2. passing' \subseteq Pendings
    BY <1>15 DEF AbandonSettlement, MarkPassing, TypeOK
  <2> QED
    BY <1>15, <2>1, <2>2 DEF AbandonSettlement, Discard, TypeOK
<1>16. ASSUME NEW ps \in SUBSET LivePendings, OnRecovery(ps) PROVE TypeOK'
  <2>0. LivePendings \in SUBSET Pendings
    BY DEF LivePendings
  <2>1. /\ Stopped(LivePendings) \subseteq TimerSet /\ Armed(LivePendings) \subseteq TimerSet
        /\ Bumped(LivePendings) \in Counts
    BY <2>0, TimerTypes
  <2> QED
    BY <1>16, <2>0, <2>1 DEF OnRecovery, Rearm, TypeOK
<1>17. ASSUME NEW p \in Pendings, DropJoined(p) PROVE TypeOK'
  <2>1. /\ pend' \in Tables /\ terminal' \in Tables
        /\ done' \subseteq Pendings /\ timers' \subseteq TimerSet
    BY <1>17, DiscardType DEF DropJoined
  <2> QED
    BY <1>17, <2>1 DEF DropJoined, Discard, TypeOK
<1>18. ASSUME NEW p \in Pendings, Renotified(p) PROVE TypeOK'
  BY <1>18 DEF Renotified, TypeOK
<1>19. ASSUME NEW p \in Pendings, NewWindow(p) PROVE TypeOK'
  <2>1. Stopped({p}) \subseteq TimerSet /\ Armed({p}) \subseteq TimerSet /\ Bumped({p}) \in Counts
    BY TimerTypes
  <2> QED
    BY <1>19, <2>1 DEF NewWindow, Rearm, TypeOK
<1>20. ASSUME NEW g \in Groups, CancelGroupVerifications(g) PROVE TypeOK'
  <2>1. Cleared(pend, g) \in Tables
    BY ClearedType DEF TypeOK
  <2>2. Entries(pend, g) \in SUBSET Pendings
    BY EntriesType
  <2>3. Stopped(Entries(pend, g)) \subseteq TimerSet
    BY <2>2, TimerTypes
  <2> QED
    BY <1>20, <2>1, <2>2, <2>3 DEF CancelGroupVerifications, Cancel, TypeOK, Statuses
<1>21. ASSUME NEW g \in Groups, RemoveGroup(g) PROVE TypeOK'
  <2>1. Cleared(pend, g) \in Tables /\ Cleared(terminal, g) \in Tables
    BY ClearedType DEF TypeOK
  <2>2. Entries(pend, g) \cup Entries(terminal, g) \in SUBSET Pendings
    BY EntriesType
  <2>3. Stopped(Entries(pend, g) \cup Entries(terminal, g)) \subseteq TimerSet
    BY <2>2, TimerTypes
  <2> QED
    BY <1>21, <2>1, <2>2, <2>3 DEF RemoveGroup, Cancel, TypeOK, Statuses
<1>22. ASSUME NEW g \in Groups, EnableGroup(g) PROVE TypeOK'
  BY <1>22 DEF EnableGroup, TypeOK, Statuses
<1>23. CASE StopForShutdown
  <2>1. Stopped({p \in Pendings : InTable(p)}) \subseteq TimerSet
    BY TimerTypes
  <2> QED
    BY <1>23, <2>1 DEF StopForShutdown, TypeOK, Phases
<1>24. CASE UNCHANGED vars
  BY <1>24 DEF vars, TypeOK
<1> QED
  BY <1>1, <1>2, <1>3, <1>4, <1>5, <1>6, <1>7, <1>8, <1>9, <1>10, <1>11, <1>12, <1>13,
     <1>14, <1>15, <1>16, <1>17, <1>18, <1>19, <1>20, <1>21, <1>22, <1>23, <1>24
  DEF Next, Arrival, Expiry, Outcome, Admin, Recovery, GroupChange, Fire, DeferExpiry,
      ClaimPendingExpiry, DropExpiry

\* Every reachable state is well typed.
THEOREM TypeCorrect == Spec => []TypeOK
BY InitType, NextType, PTL DEF Spec

-----------------------------------------------------------------------------
(* Claims *)

LEMMA NoKeyIsNoKey == NoKey \notin Keys
BY DEF NoKey, Keys

\* An object that is not in the table, or not claimed, has no settlement in flight.
LEMMA OpenIsUnclaimed ==
  ASSUME ClaimInv, NEW p \in Pendings, p \notin done, NEW op \in Ops
  PROVE  <<p, op>> \notin settling
BY DEF ClaimInv, SettlingIsClaimed

\* Steps that touch neither map, no claim and no settlement.
LEMMA ClaimFrame ==
  ASSUME ClaimInv, UNCHANGED <<pend, terminal, key, done, settling>>,
         renotifying' \subseteq renotifying \cup LivePendings
  PROVE  ClaimInv'
BY DEF ClaimInv, Keyed, ClaimedIsMarked, MarkedIsSettling, SettlingIsClaimed, FreshIsOpen,
       RenotifiedWasCreated, SoleSettler, LivePendings, Live, InTable

\* The claim every settlement starts with.
LEMMA ClaimStep ==
  ASSUME TypeOK, ClaimInv, NEW p \in Pendings, NEW op \in Ops, Live(p), Claim(p, op),
         UNCHANGED renotifying
  PROVE  ClaimInv'
<1> DEFINE k == key[p]
<1>1. k \in Keys /\ pend[k] = p /\ p \notin done
  BY DEF Live, InTable, TypeOK
<1>2. \A o \in Ops : <<p, o>> \notin settling
  BY <1>1, OpenIsUnclaimed
<1>3. /\ done' = done \cup {p} /\ settling' = settling \cup {<<p, op>>}
      /\ terminal' = [terminal EXCEPT ![k] = p] /\ pend' = pend /\ key' = key
  BY DEF Claim
<1>4. terminal \in [Keys -> Pendings \cup {NoPending}]
  BY DEF TypeOK, Tables
<1>5. Keyed'
  BY <1>1, <1>3, <1>4 DEF ClaimInv, Keyed
<1>6. ClaimedIsMarked'
  BY <1>1, <1>3, <1>4 DEF ClaimInv, Keyed, ClaimedIsMarked
<1>7. MarkedIsSettling'
  BY <1>3, <1>4 DEF ClaimInv, MarkedIsSettling
<1>8. SettlingIsClaimed'
  BY <1>1, <1>3, NoKeyIsNoKey DEF ClaimInv, SettlingIsClaimed
<1>9. FreshIsOpen' /\ RenotifiedWasCreated'
  BY <1>1, <1>3, NoKeyIsNoKey DEF ClaimInv, FreshIsOpen, RenotifiedWasCreated
<1>10. SoleSettler'
  BY <1>2, <1>3 DEF ClaimInv, SoleSettler
<1> QED
  BY <1>5, <1>6, <1>7, <1>8, <1>9, <1>10 DEF ClaimInv

\* What deleting an object from a map leaves behind
LEMMA WithoutEntries ==
  ASSUME NEW table \in Tables, NEW p \in Pendings, key[p] \in Keys, NEW k \in Keys,
         table[k] = p => key[p] = k
  PROVE  /\ table[k] # p => Without(table, p)[k] = table[k]
         /\ Without(table, p)[k] # p
BY NoPendingAssumption DEF Without, Tables

\* A settlement ends and its object leaves the maps it was in: finishTerminal, the two ways
\* reopenPending has of not re-arming, abandonSettlement and the discard of recovery.
LEMMA LeaveStep ==
  ASSUME TypeOK, ClaimInv, NEW p \in Pendings, key[p] # NoKey,
         terminal' = Without(terminal, p),
         pend' = Without(pend, p),
         done' \in {done, done \cup {p}},
         \/ settling' = settling
         \/ \E op \in Ops : <<p, op>> \in settling /\ settling' = settling \ {<<p, op>>},
         settling' = settling => (\A op \in Ops : <<p, op>> \in settling => p \in done'),
         renotifying' \subseteq renotifying, UNCHANGED key
  PROVE  ClaimInv'
<1>1. key[p] \in Keys /\ pend \in Tables /\ terminal \in Tables
  BY DEF TypeOK
<1>2. \A k \in Keys : /\ pend[k] # p => pend'[k] = pend[k]
                      /\ pend'[k] # p
                      /\ terminal[k] # p => terminal'[k] = terminal[k]
                      /\ terminal'[k] # p
  BY <1>1, WithoutEntries DEF ClaimInv, Keyed
<1>3. \A k \in Keys, q \in Pendings : /\ pend'[k] = q => pend[k] = q /\ q # p
                                      /\ terminal'[k] = q => terminal[k] = q /\ q # p
  BY <1>1, NoPendingAssumption DEF Without, Tables, ClaimInv, Keyed
<1>4. Keyed'
  BY <1>3 DEF ClaimInv, Keyed
<1>5. ClaimedIsMarked'
  BY <1>2, <1>3 DEF ClaimInv, ClaimedIsMarked
<1>6. MarkedIsSettling'
  <2> SUFFICES ASSUME NEW k \in Keys, NEW q \in Pendings, terminal'[k] = q
               PROVE  \E op \in Ops : <<q, op>> \in settling'
    BY DEF MarkedIsSettling
  <2>1. q # p /\ terminal[k] = q
    BY <1>3
  <2>2. PICK op \in Ops : <<q, op>> \in settling
    BY <2>1 DEF ClaimInv, MarkedIsSettling
  <2> QED
    BY <2>1, <2>2
<1>7. SettlingIsClaimed'
  BY DEF ClaimInv, SettlingIsClaimed
<1>8. FreshIsOpen' /\ RenotifiedWasCreated'
  BY DEF ClaimInv, FreshIsOpen, RenotifiedWasCreated
<1>9. SoleSettler'
  BY DEF ClaimInv, SoleSettler
<1> QED
  BY <1>4, <1>5, <1>6, <1>7, <1>8, <1>9 DEF ClaimInv

\* A fresh object takes its key, from nobody or from an open verification.
LEMMA StartStep ==
  ASSUME TypeOK, ClaimInv, NEW k \in Keys, NEW p \in Pendings, StartPending(k, p)
  PROVE  ClaimInv'
<1> DEFINE replaced == {pend[k]} \ {NoPending}
<1>1. /\ pend' = [pend EXCEPT ![k] = p] /\ key' = [key EXCEPT ![p] = k]
      /\ done' = done \cup replaced /\ terminal' = terminal /\ settling' = settling
      /\ renotifying' = renotifying
      /\ key[p] = NoKey /\ terminal[k] = NoPending
  BY DEF StartPending, Startable
<1>2. pend \in [Keys -> Pendings \cup {NoPending}] /\ terminal \in [Keys -> Pendings \cup {NoPending}]
  BY DEF TypeOK, Tables
<1>3. key \in [Pendings -> Keys \cup {NoKey}]
  BY DEF TypeOK
<1>4. p \notin done /\ p \notin renotifying /\ \A j \in Keys : pend[j] # p /\ terminal[j] # p
  BY <1>1, NoKeyIsNoKey DEF ClaimInv, Keyed, FreshIsOpen, RenotifiedWasCreated
<1>5. \A q \in replaced : q \in Pendings /\ key[q] = k /\ q # p
  BY <1>2, <1>4 DEF ClaimInv, Keyed
<1> HIDE DEF replaced
<1>6. Keyed'
  BY <1>1, <1>2, <1>3, <1>4 DEF ClaimInv, Keyed
<1>7. ClaimedIsMarked'
  <2> SUFFICES ASSUME NEW j \in Keys, NEW q \in Pendings, pend'[j] = q, q \in done'
               PROVE  terminal'[j] = q
    BY DEF ClaimedIsMarked
  <2>1. j # k
    BY <1>1, <1>2, <1>4, <1>5
  <2>2. pend[j] = q /\ key[q] = j
    BY <1>1, <1>2, <2>1 DEF ClaimInv, Keyed
  <2>3. q \in done
    BY <1>1, <1>5, <2>1, <2>2
  <2> QED
    BY <1>1, <2>2, <2>3 DEF ClaimInv, ClaimedIsMarked
<1>8. MarkedIsSettling'
  BY <1>1 DEF ClaimInv, MarkedIsSettling
<1>9. SettlingIsClaimed'
  BY <1>1, <1>3, NoKeyIsNoKey DEF ClaimInv, SettlingIsClaimed
<1>10. FreshIsOpen' /\ RenotifiedWasCreated'
  BY <1>1, <1>3, <1>5, NoKeyIsNoKey DEF ClaimInv, FreshIsOpen, RenotifiedWasCreated, TypeOK
<1>11. SoleSettler'
  BY <1>1 DEF ClaimInv, SoleSettler
<1> QED
  BY <1>6, <1>7, <1>8, <1>9, <1>10, <1>11 DEF ClaimInv

\* A settlement that failed for now hands the verification back.
LEMMA RetryStep ==
  ASSUME TypeOK, ClaimInv, NEW p \in Pendings, NEW op \in Ops, <<p, op>> \in settling,
         settling' = settling \ {<<p, op>>}, terminal' = Without(terminal, p),
         done' = done \ {p}, UNCHANGED <<pend, key, renotifying>>
  PROVE  ClaimInv'
<1>1. key[p] \in Keys /\ terminal \in Tables /\ p \in done
  BY DEF ClaimInv, SettlingIsClaimed, TypeOK
<1>2. \A o \in Ops : <<p, o>> \notin settling'
  BY DEF ClaimInv, SoleSettler
<1>3. \A k \in Keys : /\ terminal[k] # p => terminal'[k] = terminal[k]
                      /\ terminal'[k] # p
  BY <1>1, WithoutEntries DEF ClaimInv, Keyed
<1>4. \A k \in Keys, q \in Pendings : terminal'[k] = q => terminal[k] = q /\ q # p
  BY <1>1, <1>3, NoPendingAssumption DEF Without, Tables, ClaimInv, Keyed
<1>5. Keyed' /\ FreshIsOpen' /\ RenotifiedWasCreated'
  BY <1>4 DEF ClaimInv, Keyed, FreshIsOpen, RenotifiedWasCreated
<1>6. ClaimedIsMarked'
  BY <1>3 DEF ClaimInv, ClaimedIsMarked
<1>7. MarkedIsSettling'
  <2> SUFFICES ASSUME NEW k \in Keys, NEW q \in Pendings, terminal'[k] = q
               PROVE  \E o \in Ops : <<q, o>> \in settling'
    BY DEF MarkedIsSettling
  <2>1. q # p /\ terminal[k] = q
    BY <1>4
  <2>2. PICK o \in Ops : <<q, o>> \in settling
    BY <2>1 DEF ClaimInv, MarkedIsSettling
  <2> QED
    BY <2>1, <2>2
<1>8. SettlingIsClaimed'
  BY <1>2 DEF ClaimInv, SettlingIsClaimed
<1>9. SoleSettler'
  BY DEF ClaimInv, SoleSettler
<1> QED
  BY <1>5, <1>6, <1>7, <1>8, <1>9 DEF ClaimInv

\* What a group's cancellation finds: objects filed under the group's keys
LEMMA EntriesAreKeyed ==
  ASSUME ClaimInv, NEW g \in Groups, NEW p \in Entries(pend, g) \cup Entries(terminal, g)
  PROVE  p \in Pendings /\ key[p] \in Keys /\ key[p][1] = g
<1>1. p \in Pendings
  BY DEF Entries
<1>2. PICK u \in Users : pend[<<g, u>>] = p \/ terminal[<<g, u>>] = p
  BY DEF Entries
<1>3. <<g, u>> \in Keys
  BY DEF Keys
<1>4. key[p] = <<g, u>>
  BY <1>1, <1>2, <1>3 DEF ClaimInv, Keyed
<1> QED
  BY <1>1, <1>3, <1>4

\* A group is switched off or removed: its objects leave the table claimed for good.
LEMMA CancelStep ==
  ASSUME TypeOK, ClaimInv, NEW g \in Groups, NEW ps,
         \A p \in ps : p \in Pendings /\ key[p] \in Keys /\ key[p][1] = g,
         pend' = Cleared(pend, g),
         terminal' = terminal \/ terminal' = Cleared(terminal, g),
         done' = done \cup ps,
         UNCHANGED <<key, settling, renotifying>>
  PROVE  ClaimInv'
<1>1. \A k \in Keys, p \in Pendings : /\ pend'[k] = p => pend[k] = p /\ k[1] # g
                                      /\ terminal'[k] = p => terminal[k] = p
  BY NoPendingAssumption DEF Cleared
<1>2. \A k \in Keys : k[1] # g => pend'[k] = pend[k] /\ terminal'[k] = terminal[k]
  BY DEF Cleared
<1>3. Keyed' /\ MarkedIsSettling'
  BY <1>1 DEF ClaimInv, Keyed, MarkedIsSettling
<1>4. ClaimedIsMarked'
  <2> SUFFICES ASSUME NEW k \in Keys, NEW p \in Pendings, pend'[k] = p, p \in done'
               PROVE  terminal'[k] = p
    BY DEF ClaimedIsMarked
  <2>1. pend[k] = p /\ k[1] # g /\ key[p] = k
    BY <1>1 DEF ClaimInv, Keyed
  <2>2. p \in done
    BY <2>1
  <2> QED
    BY <1>2, <2>1, <2>2 DEF ClaimInv, ClaimedIsMarked
<1>5. SettlingIsClaimed' /\ RenotifiedWasCreated' /\ SoleSettler'
  BY DEF ClaimInv, SettlingIsClaimed, RenotifiedWasCreated, SoleSettler
<1>6. FreshIsOpen'
  BY NoKeyIsNoKey DEF ClaimInv, FreshIsOpen
<1> QED
  BY <1>3, <1>4, <1>5, <1>6 DEF ClaimInv

LEMMA InitClaim == Init => ClaimInv
BY NoPendingAssumption
DEF Init, NoEntries, ClaimInv, Keyed, ClaimedIsMarked, MarkedIsSettling, SettlingIsClaimed,
    FreshIsOpen, RenotifiedWasCreated, SoleSettler

-----------------------------------------------------------------------------
(* Timers *)

\* The one shape every step has for the timers: the objects qs leave the open part of the
\* table and lose their timer, the objects ps are open afterwards under a new timer, and a
\* callback ends only if it belongs to one of these or has lost.
LEMMA TimerStep ==
  ASSUME TypeOK, TimerInv, NEW ps \in SUBSET Pendings, NEW qs \in SUBSET Pendings,
         timers' = Stopped(qs) \cup Armed(ps), epoch' = Bumped(ps),
         firing' \subseteq firing,
         \A t \in firing : t \in firing' \/ t[1] \in ps \cup qs \/ ~Current(t) \/ phase' # "running",
         \A p \in Pendings : Live(p)' <=> (Live(p) /\ p \notin qs) \/ p \in ps,
         \A p \in ps : p \in qs \/ ~Live(p),
         phase' = "running" => phase = "running"
  PROVE  TimerInv'
<1>1. /\ timers \subseteq Pendings \X Nat /\ firing \subseteq Pendings \X Nat
      /\ epoch \in [Pendings -> Nat]
  BY DEF TypeOK, TimerSet, Counts
<1>2. \A p \in Pendings : epoch'[p] = IF p \in ps THEN epoch[p] + 1 ELSE epoch[p]
  BY DEF Bumped
<1>3. TimerIsLatest'
  <2> SUFFICES ASSUME NEW t \in timers' PROVE Live(t[1])' /\ t[2] = epoch'[t[1]]
    BY DEF TimerIsLatest
  <2>1. CASE t \in Armed(ps)
    BY <1>2, <2>1 DEF Armed
  <2>2. CASE t \in Stopped(qs)
    <3>1. t \in timers /\ t[1] \in Pendings /\ t = <<t[1], t[2]>>
      BY <1>1, <2>2 DEF Stopped
    <3>2. Live(t[1]) /\ t[2] = epoch[t[1]]
      BY <3>1 DEF TimerInv, TimerIsLatest
    <3>3. t[1] \notin qs
      BY <2>2, <3>1, <3>2 DEF Stopped
    <3>4. t[1] \notin ps
      BY <3>2, <3>3
    <3>5. Live(t[1])'
      BY <3>1, <3>2, <3>3
    <3> QED
      BY <1>2, <3>1, <3>2, <3>4, <3>5
  <2> QED
    BY <2>1, <2>2
<1>4. FiringIsPast'
  <2> SUFFICES ASSUME NEW t \in firing' PROVE t[2] <= epoch'[t[1]] /\ t \notin timers'
    BY DEF FiringIsPast
  <2>1. t \in firing /\ t[1] \in Pendings /\ t[2] \in Nat /\ epoch[t[1]] \in Nat
    BY <1>1
  <2>2. t[2] <= epoch[t[1]] /\ t \notin timers
    BY <2>1 DEF TimerInv, FiringIsPast
  <2>3. t \notin Armed(ps)
    BY <2>1, <2>2 DEF Armed
  <2> QED
    BY <1>2, <2>1, <2>2, <2>3 DEF Stopped
<1>5. NobodyForgotten'
  <2> SUFFICES ASSUME phase' = "running", NEW p \in Pendings, Live(p)'
               PROVE  <<p, epoch'[p]>> \in timers' \cup firing'
    BY DEF NobodyForgotten, LivePendings
  <2>1. CASE p \in ps
    BY <1>2, <2>1 DEF Armed
  <2>2. CASE p \notin ps
    <3>1. Live(p) /\ p \notin qs /\ epoch'[p] = epoch[p]
      BY <1>2, <2>2
    <3>2. <<p, epoch[p]>> \in timers \cup firing
      BY <3>1 DEF TimerInv, NobodyForgotten, LivePendings
    <3>3. CASE <<p, epoch[p]>> \in timers
      BY <3>1, <3>3 DEF Stopped
    <3>4. CASE <<p, epoch[p]>> \in firing
      <4>1. Current(<<p, epoch[p]>>)
        BY <3>1 DEF Current
      <4>2. <<p, epoch[p]>> \in firing'
        BY <2>2, <3>1, <3>4, <4>1
      <4> QED
        BY <3>1, <4>2
    <3> QED
      BY <3>2, <3>3, <3>4
  <2> QED
    BY <2>1, <2>2
<1> QED
  BY <1>3, <1>4, <1>5 DEF TimerInv

\* Stopping or arming nothing
LEMMA NoTimers ==
  ASSUME TypeOK
  PROVE  Stopped({}) = timers /\ Armed({}) = {} /\ Bumped({}) = epoch
BY DEF Stopped, Armed, Bumped, TypeOK, Counts

\* The closing half of TimerStep: nothing is armed.
LEMMA CloseStep ==
  ASSUME TypeOK, TimerInv, NEW qs \in SUBSET Pendings,
         timers' = Stopped(qs), epoch' = epoch, firing' \subseteq firing,
         \A t \in firing : t \in firing' \/ t[1] \in qs \/ ~Current(t) \/ phase' # "running",
         \A p \in Pendings : Live(p)' <=> Live(p) /\ p \notin qs,
         phase' = "running" => phase = "running"
  PROVE  TimerInv'
<1>1. timers' = Stopped(qs) \cup Armed({}) /\ epoch' = Bumped({})
  BY NoTimers
<1>2. \A p \in Pendings : Live(p)' <=> (Live(p) /\ p \notin qs) \/ p \in {}
  OBVIOUS
<1>3. \A t \in firing : t \in firing' \/ t[1] \in {} \cup qs \/ ~Current(t) \/ phase' # "running"
  OBVIOUS
<1> HIDE DEF Stopped, Armed, Bumped
<1> QED
  BY <1>1, <1>2, <1>3, TimerStep

\* A re-arming outside a settlement
LEMMA RearmStep ==
  ASSUME TypeOK, TimerInv, NEW ps \in SUBSET Pendings, \A p \in ps : Live(p),
         Rearm(ps), firing' \subseteq firing,
         \A t \in firing : t \in firing' \/ t[1] \in ps \/ ~Current(t),
         UNCHANGED <<pend, key, done, phase>>
  PROVE  TimerInv'
<1>1. \A p \in Pendings : Live(p)' <=> Live(p)
  BY DEF Live, InTable
<1>2. timers' = Stopped(ps) \cup Armed(ps) /\ epoch' = Bumped(ps)
  BY DEF Rearm
<1>3. \A p \in Pendings : Live(p)' <=> (Live(p) /\ p \notin ps) \/ p \in ps
  BY <1>1
<1>4. \A t \in firing : t \in firing' \/ t[1] \in ps \cup ps \/ ~Current(t) \/ phase' # "running"
  OBVIOUS
<1> QED
  BY <1>2, <1>3, <1>4, TimerStep

\* A step that leaves entries, claims, epochs and timers alone
LEMMA TimerFrame ==
  ASSUME TypeOK, TimerInv, UNCHANGED <<pend, key, done, epoch, timers>>,
         firing' \subseteq firing,
         \A t \in firing : t \in firing' \/ ~Current(t) \/ phase' # "running",
         phase' = "running" => phase = "running"
  PROVE  TimerInv'
<1>1. timers' = Stopped({})
  BY NoTimers
<1>2. \A p \in Pendings : Live(p)' <=> Live(p) /\ p \notin {}
  BY DEF Live, InTable
<1>3. \A t \in firing : t \in firing' \/ t[1] \in {} \/ ~Current(t) \/ phase' # "running"
  OBVIOUS
<1> QED
  BY <1>1, <1>2, <1>3, CloseStep

LEMMA InitTimer == Init => TimerInv
BY NoPendingAssumption
DEF Init, NoEntries, TimerInv, TimerIsLatest, FiringIsPast, NobodyForgotten, LivePendings,
    Live, InTable

-----------------------------------------------------------------------------
(* Every step preserves both halves *)

\* Deleting one object from pend takes that object, and no other, out of the table.
LEMMA WithoutInTable ==
  ASSUME TypeOK, NEW p \in Pendings, key[p] # NoKey, pend' = Without(pend, p), UNCHANGED key
  PROVE  /\ ~InTable(p)'
         /\ \A q \in Pendings \ {p} : InTable(q)' <=> InTable(q)
<1>1. key[p] \in Keys /\ pend \in [Keys -> Pendings \cup {NoPending}]
      /\ \A q \in Pendings : key[q] \in Keys \cup {NoKey}
  BY DEF TypeOK, Tables
<1>2. ~InTable(p)'
  BY <1>1, NoPendingAssumption DEF Without, InTable
<1>3. ASSUME NEW q \in Pendings \ {p}, key[q] # NoKey PROVE pend'[key[q]] = q <=> pend[key[q]] = q
  BY <1>1, <1>3, NoPendingAssumption DEF Without
<1> QED
  BY <1>2, <1>3 DEF InTable

LEMMA SettlingHasKey ==
  ASSUME ClaimInv, NEW p \in Pendings, NEW op \in Ops, <<p, op>> \in settling
  PROVE  p \in done /\ key[p] # NoKey /\ ~Live(p)
BY DEF ClaimInv, SettlingIsClaimed, Live

LEMMA ClaimKeeps ==
  ASSUME IInv, NEW p \in Pendings, NEW op \in Ops, Live(p), Claim(p, op), UNCHANGED renotifying,
         firing' \subseteq firing, \A t \in firing : t \in firing' \/ t[1] = p,
         UNCHANGED phase
  PROVE  ClaimInv' /\ TimerInv'
<1>1. ClaimInv'
  BY ClaimStep DEF IInv
<1>2. timers' = Stopped({p}) /\ UNCHANGED epoch
  BY DEF Claim
<1>3. \A q \in Pendings : Live(q)' <=> Live(q) /\ q \notin {p}
  BY DEF Claim, Live, InTable
<1>4. TimerInv'
  BY <1>2, <1>3, CloseStep DEF IInv
<1> QED
  BY <1>1, <1>4

LEMMA StartKeeps ==
  ASSUME IInv, NEW k \in Keys, NEW p \in Pendings, StartPending(k, p)
  PROVE  ClaimInv' /\ TimerInv'
<1> DEFINE replaced == {pend[k]} \ {NoPending}
<1>1. ClaimInv'
  BY StartStep DEF IInv
<1>2. /\ pend' = [pend EXCEPT ![k] = p] /\ key' = [key EXCEPT ![p] = k]
      /\ done' = done \cup replaced /\ firing' = firing /\ phase' = phase
      /\ timers' = Stopped(replaced) \cup Armed({p}) /\ epoch' = Bumped({p})
      /\ key[p] = NoKey
  BY DEF StartPending, processVars
<1>3. /\ pend \in [Keys -> Pendings \cup {NoPending}]
      /\ key \in [Pendings -> Keys \cup {NoKey}]
  BY DEF IInv, TypeOK, Tables
<1>4. replaced \in SUBSET Pendings /\ p \notin replaced /\ p \notin done /\ ~Live(p)
  BY <1>2, <1>3, NoKeyIsNoKey DEF IInv, ClaimInv, Keyed, FreshIsOpen, Live, InTable
<1>5. \A q \in replaced : key[q] = k /\ pend[k] = q
  BY <1>3 DEF IInv, ClaimInv, Keyed
<1> HIDE DEF replaced
<1>6. Live(p)'
  BY <1>2, <1>3, <1>4, NoKeyIsNoKey DEF Live, InTable
<1>7. ASSUME NEW q \in Pendings, q # p PROVE Live(q)' <=> Live(q) /\ q \notin replaced
  <2>1. key'[q] = key[q] /\ key[q] \in Keys \cup {NoKey}
    BY <1>2, <1>3, <1>7
  <2>2. CASE key[q] = k
    <3>1. ~Live(q)'
      BY <1>2, <1>3, <1>7, <2>1, <2>2 DEF Live, InTable
    <3>2. Live(q) => q \in replaced
      BY <2>2, <1>7, NoPendingAssumption DEF Live, InTable, replaced
    <3> QED
      BY <3>1, <3>2
  <2>3. CASE key[q] # k
    BY <1>2, <1>3, <1>5, <2>1, <2>3 DEF Live, InTable
  <2> QED
    BY <2>2, <2>3
<1>8. \A q \in Pendings : Live(q)' <=> (Live(q) /\ q \notin replaced) \/ q \in {p}
  BY <1>6, <1>7
<1>9. TimerInv'
  BY <1>2, <1>4, <1>8, TimerStep DEF IInv
<1> QED
  BY <1>1, <1>9

LEMMA FinishKeeps ==
  ASSUME IInv, NEW p \in Pendings, NEW op \in Ops, FinishTerminal(p, op)
  PROVE  ClaimInv' /\ TimerInv'
<1>1. /\ <<p, op>> \in settling /\ settling' = settling \ {<<p, op>>}
      /\ pend' = Without(pend, p) /\ terminal' = Without(terminal, p)
      /\ UNCHANGED <<key, done, epoch, timers, firing, renotifying, phase>>
  BY DEF FinishTerminal, timerVars, processVars
<1>2. p \in done /\ key[p] # NoKey
  BY <1>1, SettlingHasKey DEF IInv
<1>3. ClaimInv'
  BY <1>1, <1>2, LeaveStep DEF IInv
<1>4. \A q \in Pendings : Live(q)' <=> Live(q) /\ q \notin {}
  BY <1>1, <1>2, WithoutInTable DEF IInv, Live
<1>5. timers' = Stopped({})
  BY <1>1, NoTimers DEF IInv
<1>6. TimerInv'
  BY <1>1, <1>4, <1>5, CloseStep DEF IInv
<1> QED
  BY <1>3, <1>6

LEMMA ReopenKeeps ==
  ASSUME IInv, NEW p \in Pendings, NEW op \in Ops, ReopenPending(p, op)
  PROVE  ClaimInv' /\ TimerInv'
<1>1. /\ <<p, op>> \in settling /\ settling' = settling \ {<<p, op>>}
      /\ terminal' = Without(terminal, p)
      /\ UNCHANGED <<key, firing, renotifying, phase>>
  BY DEF ReopenPending, processVars
<1>2. p \in done /\ key[p] # NoKey /\ ~Live(p)
  BY <1>1, SettlingHasKey DEF IInv
<1>3. CASE ReopenLost(p)
  <2>1. pend' = Without(pend, p) /\ UNCHANGED <<pend, done, timers, epoch>>
    BY <1>2, <1>3 DEF ReopenLost, Without, InTable
  <2>2. ClaimInv'
    BY <1>1, <1>2, <2>1, LeaveStep DEF IInv
  <2>3. TimerInv'
    BY <1>1, <2>1, TimerFrame DEF IInv
  <2> QED
    BY <2>2, <2>3
<1>4. CASE ReopenGivesUp(p)
  <2>1. pend' = Without(pend, p) /\ timers' = Stopped({p}) /\ UNCHANGED <<done, epoch>>
    BY <1>4 DEF ReopenGivesUp
  <2>2. ClaimInv'
    BY <1>1, <1>2, <2>1, LeaveStep DEF IInv
  <2>3. \A q \in Pendings : Live(q)' <=> Live(q) /\ q \notin {p}
    BY <1>1, <1>2, <2>1, WithoutInTable DEF IInv, Live
  <2>4. TimerInv'
    BY <1>1, <2>1, <2>3, CloseStep DEF IInv
  <2> QED
    BY <2>2, <2>4
<1>5. CASE ReopenRetries(p)
  <2>1. /\ InTable(p) /\ done' = done \ {p} /\ epoch' = Bumped({p}) /\ UNCHANGED pend
        /\ timers' = Stopped({}) \cup Armed({p})
    BY <1>5, NoTimers DEF ReopenRetries, IInv
  <2>2. ClaimInv'
    BY <1>1, <2>1, RetryStep DEF IInv
  <2>3. \A q \in Pendings : Live(q)' <=> (Live(q) /\ q \notin {}) \/ q \in {p}
    BY <1>1, <2>1 DEF Live, InTable
  <2>4. TimerInv'
    BY <1>1, <1>2, <2>1, <2>3, TimerStep DEF IInv
  <2> QED
    BY <2>2, <2>4
<1> QED
  BY <1>3, <1>4, <1>5 DEF ReopenPending

\* Discarding an object created earlier, with or without its own settlement ending.
LEMMA DiscardKeeps ==
  ASSUME IInv, NEW p \in Pendings, key[p] # NoKey, Discard(p),
         \/ settling' = settling
         \/ \E op \in Ops : <<p, op>> \in settling /\ settling' = settling \ {<<p, op>>},
         renotifying' \subseteq renotifying, UNCHANGED phase
  PROVE  ClaimInv' /\ TimerInv'
<1>1. /\ pend' = Without(pend, p) /\ terminal' = Without(terminal, p)
      /\ done' = IF InTable(p) THEN done \cup {p} ELSE done
      /\ timers' = IF InTable(p) THEN Stopped({p}) ELSE timers
      /\ UNCHANGED <<key, epoch, firing>>
  BY DEF Discard
<1>2. \A op \in Ops : <<p, op>> \in settling => p \in done'
  BY <1>1, SettlingHasKey DEF IInv
<1>3. done' \in {done, done \cup {p}}
  BY <1>1
<1>4. ClaimInv'
  BY <1>1, <1>2, <1>3, LeaveStep DEF IInv
<1>5. /\ ~InTable(p)' /\ \A q \in Pendings \ {p} : InTable(q)' <=> InTable(q)
  BY <1>1, WithoutInTable DEF IInv
<1>6. CASE InTable(p)
  <2>1. \A q \in Pendings : Live(q)' <=> Live(q) /\ q \notin {p}
    BY <1>1, <1>5, <1>6 DEF Live
  <2> QED
    BY <1>1, <1>4, <1>6, <2>1, CloseStep DEF IInv
<1>7. CASE ~InTable(p)
  <2>1. \A q \in Pendings : Live(q)' <=> Live(q) /\ q \notin {}
    BY <1>1, <1>5, <1>7 DEF Live
  <2>2. timers' = Stopped({})
    BY <1>1, <1>7, NoTimers DEF IInv
  <2> QED
    BY <1>1, <1>4, <2>1, <2>2, CloseStep DEF IInv
<1> QED
  BY <1>6, <1>7

LEMMA CancelKeeps ==
  ASSUME IInv, NEW g \in Groups, NEW ps,
         ps = Entries(pend, g) \/ ps = Entries(pend, g) \cup Entries(terminal, g),
         Cancel(ps), pend' = Cleared(pend, g),
         terminal' = terminal \/ terminal' = Cleared(terminal, g),
         UNCHANGED <<key, epoch, firing, settling, renotifying, phase>>
  PROVE  ClaimInv' /\ TimerInv'
<1>1. \A p \in ps : p \in Pendings /\ key[p] \in Keys /\ key[p][1] = g
  BY EntriesAreKeyed DEF IInv
<1>2. done' = done \cup ps /\ timers' = Stopped(ps)
  BY DEF Cancel
<1>3. ClaimInv'
  BY <1>1, <1>2, CancelStep DEF IInv
<1>4. \A p \in Pendings : key[p] \in Keys \cup {NoKey}
  BY DEF IInv, TypeOK
<1>5. ASSUME NEW p \in Pendings, Live(p), p \notin ps PROVE Live(p)'
  <2>1. key[p] \in Keys /\ pend[key[p]] = p
    BY <1>4, <1>5 DEF Live, InTable
  <2>2. PICK h \in Groups, u \in Users : key[p] = <<h, u>>
    BY <2>1 DEF Keys
  <2>3. h # g
    BY <1>5, <2>1, <2>2 DEF Entries
  <2> QED
    BY <1>2, <1>5, <2>1, <2>2, <2>3 DEF Live, InTable, Cleared
<1>6. ASSUME NEW p \in Pendings, Live(p)' PROVE Live(p) /\ p \notin ps
  <2>1. key[p] \in Keys /\ Cleared(pend, g)[key[p]] = p /\ p \notin done'
    BY <1>4, <1>6 DEF Live, InTable
  <2>2. pend[key[p]] = p /\ key[p] # NoKey
    BY <2>1, NoPendingAssumption, NoKeyIsNoKey DEF Cleared
  <2> QED
    BY <1>2, <2>1, <2>2 DEF Live, InTable
<1>7. TimerInv'
  BY <1>1, <1>2, <1>5, <1>6, CloseStep DEF IInv
<1> QED
  BY <1>3, <1>7

LEMMA FireKeeps ==
  ASSUME IInv, NEW t \in timers, Fire(t)
  PROVE  ClaimInv' /\ TimerInv'
<1>1. /\ UNCHANGED <<pend, terminal, key, done, settling, renotifying, epoch, phase>>
      /\ timers' = timers \ {t} /\ firing' = firing \cup {t}
  BY DEF Fire, tableVars, handlerVars, processVars
<1>2. ClaimInv'
  BY <1>1, ClaimFrame DEF IInv
<1>3. t[1] \in Pendings /\ epoch[t[1]] \in Nat /\ t[2] = epoch[t[1]]
  BY DEF IInv, TypeOK, TimerSet, Counts, TimerInv, TimerIsLatest
<1>4. TimerIsLatest' /\ FiringIsPast'
  BY <1>1, <1>3 DEF IInv, TimerInv, TimerIsLatest, FiringIsPast, Live, InTable
<1>5. NobodyForgotten'
  BY <1>1 DEF IInv, TimerInv, NobodyForgotten, LivePendings, Live, InTable
<1> QED
  BY <1>2, <1>4, <1>5 DEF TimerInv

LEMMA ShutdownKeeps ==
  ASSUME IInv, StopForShutdown
  PROVE  ClaimInv' /\ TimerInv'
<1>1. /\ UNCHANGED <<pend, terminal, key, done, settling, renotifying, epoch, firing>>
      /\ timers' \subseteq timers /\ phase' = "stopping"
  BY DEF StopForShutdown, tableVars, handlerVars, Stopped
<1>2. ClaimInv'
  BY <1>1, ClaimFrame DEF IInv
<1>3. TimerIsLatest' /\ FiringIsPast' /\ NobodyForgotten'
  BY <1>1 DEF IInv, TimerInv, TimerIsLatest, FiringIsPast, NobodyForgotten, Live, InTable
<1> QED
  BY <1>2, <1>3 DEF TimerInv

\* Handlers that only move between the handler sets, and changes of the settings alone
LEMMA FrameKeeps ==
  ASSUME IInv, UNCHANGED <<pend, terminal, key, done, settling, epoch, timers, phase>>,
         firing' \subseteq firing,
         \A t \in firing : t \in firing' \/ ~Current(t) \/ phase = "stopping",
         renotifying' \subseteq renotifying
  PROVE  ClaimInv' /\ TimerInv'
<1>1. ClaimInv'
  BY ClaimFrame DEF IInv
<1>2. TimerInv'
  BY TimerFrame DEF IInv
<1> QED
  BY <1>1, <1>2

LEMMA RearmKeeps ==
  ASSUME IInv, NEW ps \in SUBSET Pendings, \A p \in ps : Live(p), Rearm(ps),
         firing' \subseteq firing, \A t \in firing : t \in firing' \/ t[1] \in ps,
         UNCHANGED <<pend, terminal, key, done, settling, phase>>,
         renotifying' \subseteq renotifying \cup LivePendings
  PROVE  ClaimInv' /\ TimerInv'
<1>1. ClaimInv'
  BY ClaimFrame DEF IInv
<1>2. TimerInv'
  BY RearmStep DEF IInv
<1> QED
  BY <1>1, <1>2

\* A window that keeps its number: the callback of the old one is gone.
LEMMA SameWindowKeeps ==
  ASSUME IInv, NEW t \in firing, Current(t), timers' = timers \cup {t}, firing' = firing \ {t},
         UNCHANGED <<pend, terminal, key, done, settling, epoch, phase, renotifying>>
  PROVE  ClaimInv' /\ TimerInv'
<1>1. ClaimInv'
  BY ClaimFrame DEF IInv
<1>2. TimerIsLatest' /\ FiringIsPast'
  BY DEF IInv, TimerInv, TimerIsLatest, FiringIsPast, Current, Live, InTable
<1>3. NobodyForgotten'
  BY DEF IInv, TimerInv, NobodyForgotten, LivePendings, Live, InTable
<1> QED
  BY <1>1, <1>2, <1>3 DEF TimerInv

LEMMA NextKeeps == IInv /\ [Next]_vars => ClaimInv' /\ TimerInv'
<1> SUFFICES ASSUME IInv, [Next]_vars PROVE ClaimInv' /\ TimerInv'
  OBVIOUS
<1> USE DEF tableVars, timerVars, handlerVars, processVars
<1>1. ASSUME NEW k \in Keys, Arrival(k) PROVE ClaimInv' /\ TimerInv'
  <2>1. ASSUME Arrive(k) \/ TurnAway(k) PROVE ClaimInv' /\ TimerInv'
    BY <2>1, FrameKeeps DEF Arrive, TurnAway
  <2> QED
    BY <1>1, <2>1, StartKeeps DEF Arrival
<1>2. ASSUME NEW p \in Pendings, FinishPendingChallenge(p) PROVE ClaimInv' /\ TimerInv'
  <2>1. CASE Live(p) /\ Rearm({p})
    BY <1>2, <2>1, RearmKeeps DEF FinishPendingChallenge
  <2>2. CASE UNCHANGED <<epoch, timers>>
    BY <1>2, <2>2, FrameKeeps DEF FinishPendingChallenge
  <2> QED
    BY <1>2, <2>1, <2>2 DEF FinishPendingChallenge
<1>3. ASSUME NEW p \in Pendings, NewWindow(p) PROVE ClaimInv' /\ TimerInv'
  BY <1>3, RearmKeeps DEF NewWindow
<1>4. ASSUME NEW p \in Pendings, Admin(p) PROVE ClaimInv' /\ TimerInv'
  <2>1. ASSUME CheckAdmin(p) \/ DismissAdmin(p) PROVE ClaimInv' /\ TimerInv'
    BY <2>1, FrameKeeps DEF CheckAdmin, DismissAdmin
  <2>2. ASSUME NEW q \in Pendings, NEW op \in Ops, ClaimAdmin(p, q, op)
        PROVE  ClaimInv' /\ TimerInv'
    BY <2>2, ClaimKeeps DEF ClaimAdmin
  <2> QED
    BY <1>4, <2>1, <2>2 DEF Admin
<1>5. ASSUME NEW t \in timers \cup firing, Expiry(t) PROVE ClaimInv' /\ TimerInv'
  <2>0. t[1] \in Pendings
    BY DEF IInv, TypeOK, TimerSet
  <2>1. CASE Fire(t)
    BY <2>1, FireKeeps DEF Fire
  <2>2. CASE DeferExpiry(t)
    <3>1. CASE Rearm({t[1]})
      BY <2>0, <2>2, <3>1, RearmKeeps DEF DeferExpiry, Current
    <3>2. CASE timers' = timers \cup {t} /\ UNCHANGED epoch
      BY <2>2, <3>2, SameWindowKeeps DEF DeferExpiry
    <3> QED
      BY <2>2, <3>1, <3>2 DEF DeferExpiry
  <2>3. CASE ClaimPendingExpiry(t)
    <3>1. PICK op \in Ops : Claim(t[1], op)
      BY <2>3 DEF ClaimPendingExpiry, Ops
    <3>2. Live(t[1]) /\ firing' = firing \ {t} /\ UNCHANGED <<renotifying, phase>>
      BY <2>3 DEF ClaimPendingExpiry, Current
    <3> QED
      BY <2>0, <3>1, <3>2, ClaimKeeps
  <2>4. CASE DropExpiry(t)
    BY <2>4, FrameKeeps DEF DropExpiry
  <2> QED
    BY <1>5, <2>1, <2>2, <2>3, <2>4 DEF Expiry
<1>6. ASSUME NEW p \in Pendings, NEW op \in Ops, ClaimPendingNonce(p, op)
      PROVE  ClaimInv' /\ TimerInv'
  BY <1>6, ClaimKeeps DEF ClaimPendingNonce
<1>7. ASSUME NEW p \in Pendings, NEW op \in Ops, Outcome(p, op) PROVE ClaimInv' /\ TimerInv'
  <2>1. CASE AbandonSettlement(p, op)
    <3>1. key[p] # NoKey
      BY <2>1, SettlingHasKey DEF AbandonSettlement, IInv
    <3> QED
      BY <2>1, <3>1, DiscardKeeps DEF AbandonSettlement
  <2> QED
    BY <1>7, <2>1, FinishKeeps, ReopenKeeps DEF Outcome
<1>8. ASSUME NEW ps \in SUBSET LivePendings, OnRecovery(ps) PROVE ClaimInv' /\ TimerInv'
  <2>1. LivePendings \in SUBSET Pendings /\ \A p \in LivePendings : Live(p)
    BY DEF LivePendings
  <2> QED
    BY <1>8, <2>1, RearmKeeps DEF OnRecovery
<1>9. ASSUME NEW p \in Pendings, DropJoined(p) PROVE ClaimInv' /\ TimerInv'
  <2>1. key[p] # NoKey
    BY <1>9 DEF DropJoined, IInv, ClaimInv, RenotifiedWasCreated
  <2> QED
    BY <1>9, <2>1, DiscardKeeps DEF DropJoined
<1>10. ASSUME NEW p \in Pendings, Renotified(p) PROVE ClaimInv' /\ TimerInv'
  BY <1>10, FrameKeeps DEF Renotified
<1>11. ASSUME NEW g \in Groups, CancelGroupVerifications(g) PROVE ClaimInv' /\ TimerInv'
  BY <1>11, CancelKeeps DEF CancelGroupVerifications
<1>12. ASSUME NEW g \in Groups, RemoveGroup(g) PROVE ClaimInv' /\ TimerInv'
  BY <1>12, CancelKeeps DEF RemoveGroup
<1>13. ASSUME NEW g \in Groups, EnableGroup(g) PROVE ClaimInv' /\ TimerInv'
  BY <1>13, FrameKeeps DEF EnableGroup
<1>14. CASE StopForShutdown
  BY <1>14, ShutdownKeeps
<1>15. CASE UNCHANGED vars
  BY <1>15, FrameKeeps DEF vars
<1> QED
  BY <1>1, <1>2, <1>3, <1>4, <1>5, <1>6, <1>7, <1>8, <1>9, <1>10, <1>11, <1>12, <1>13,
     <1>14, <1>15
  DEF Next, Recovery, GroupChange

-----------------------------------------------------------------------------
(* What leaves and what enters the table *)

\* Only startPending adds to the table or gives an object its key.
LEMMA OnlyStartPendingAdds ==
  ASSUME [Next]_vars
  PROVE  \/ \E k \in Keys, p \in Pendings : StartPending(k, p)
         \/ /\ UNCHANGED key
            /\ \/ UNCHANGED pend
               \/ \E p \in Pendings : pend' = Without(pend, p)
               \/ \E g \in Groups : pend' = Cleared(pend, g)
<1>1. ASSUME NEW p \in Pendings, NEW op \in Ops, Outcome(p, op)
      PROVE  UNCHANGED key /\ (UNCHANGED pend \/ pend' = Without(pend, p))
  BY <1>1 DEF Outcome, FinishTerminal, ReopenPending, ReopenLost, ReopenGivesUp,
              ReopenRetries, AbandonSettlement, Discard
<1>2. ASSUME NEW g \in Groups, GroupChange(g)
      PROVE  UNCHANGED key /\ (UNCHANGED pend \/ pend' = Cleared(pend, g))
  BY <1>2 DEF GroupChange, CancelGroupVerifications, RemoveGroup, EnableGroup, tableVars
<1>3. ASSUME Recovery
      PROVE  UNCHANGED key /\ (UNCHANGED pend \/ \E p \in Pendings : pend' = Without(pend, p))
  BY <1>3 DEF Recovery, OnRecovery, DropJoined, Renotified, Discard, tableVars
<1>4. ASSUME NEW t \in timers \cup firing, Expiry(t) PROVE UNCHANGED <<key, pend>>
  BY <1>4 DEF Expiry, Fire, DeferExpiry, ClaimPendingExpiry, DropExpiry, Claim, tableVars
<1>5. ASSUME NEW p \in Pendings,
             \/ FinishPendingChallenge(p) \/ NewWindow(p) \/ Admin(p)
             \/ \E op \in Ops : ClaimPendingNonce(p, op)
      PROVE  UNCHANGED <<key, pend>>
  BY <1>5 DEF FinishPendingChallenge, NewWindow, Admin, CheckAdmin, DismissAdmin, ClaimAdmin,
              ClaimPendingNonce, Claim, tableVars
<1>6. ASSUME (\E k \in Keys : Arrive(k) \/ TurnAway(k)) \/ StopForShutdown \/ UNCHANGED vars
      PROVE  UNCHANGED <<key, pend>>
  BY <1>6 DEF Arrive, TurnAway, StopForShutdown, vars, tableVars
<1> QED
  BY <1>1, <1>2, <1>3, <1>4, <1>5, <1>6 DEF Next, Arrival

LEMMA OccupiedIsFinite == IsFiniteSet(OccupiedKeys) /\ \A g : IsFiniteSet(OccupiedIn(g))
<1>1. IsFiniteSet(Keys)
  BY FiniteAssumption, FS_Product DEF Keys
<1>2. OccupiedKeys \in SUBSET Keys
  BY DEF OccupiedKeys
<1>3. IsFiniteSet(OccupiedKeys)
  BY <1>1, <1>2, FS_Subset
<1>4. \A g : OccupiedIn(g) \in SUBSET OccupiedKeys
  BY DEF OccupiedIn
<1> QED
  BY <1>3, <1>4, FS_Subset

\* Leaving, or replacing an entry, frees room or keeps it as it was.
LEMMA RoomKept ==
  ASSUME CapacityBounded, OccupiedKeys' \subseteq OccupiedKeys
  PROVE  CapacityBounded'
<1>1. Cardinality(OccupiedKeys') <= Cardinality(OccupiedKeys)
  BY OccupiedIsFinite, FS_Subset
<1>2. ASSUME NEW g \in Groups PROVE Cardinality(OccupiedIn(g)') <= Cardinality(OccupiedIn(g))
  <2>1. OccupiedIn(g)' \subseteq OccupiedIn(g)
    BY DEF OccupiedIn
  <2> QED
    BY <2>1, OccupiedIsFinite, FS_Subset
<1>3. /\ Cardinality(OccupiedKeys) \in Nat /\ Cardinality(OccupiedKeys)' \in Nat
      /\ \A g : Cardinality(OccupiedIn(g)) \in Nat /\ Cardinality(OccupiedIn(g)') \in Nat
  <2>1. OccupiedKeys' \in SUBSET OccupiedKeys /\ \A g : OccupiedIn(g)' \in SUBSET OccupiedIn(g)
    BY DEF OccupiedIn
  <2> QED
    BY <2>1, OccupiedIsFinite, FS_Subset, FS_CardinalityType
<1> QED
  BY <1>1, <1>2, <1>3, CapAssumption DEF CapacityBounded

LEMMA CapacityStep == TypeOK /\ CapacityBounded /\ [Next]_vars => CapacityBounded'
<1> SUFFICES ASSUME TypeOK, CapacityBounded, [Next]_vars PROVE CapacityBounded'
  OBVIOUS
<1>0. pend \in Tables
  BY DEF TypeOK
<1>1. ASSUME NEW k \in Keys, NEW p \in Pendings, StartPending(k, p) PROVE CapacityBounded'
  <2>1. OccupiedKeys' = OccupiedKeys \cup {k}
    BY <1>0, <1>1, NoPendingAssumption DEF StartPending, OccupiedKeys, Tables
  <2>2. CASE k \in OccupiedKeys
    BY <2>1, <2>2, RoomKept
  <2>3. CASE k \notin OccupiedKeys
    <3>1. CapacityOK(k[1])
      BY <1>1, <2>3 DEF StartPending, Startable, OccupiedKeys
    <3>2. \A g : OccupiedIn(g)' = IF g = k[1] THEN OccupiedIn(g) \cup {k} ELSE OccupiedIn(g)
      BY <2>1 DEF OccupiedIn
    <3>3. Cardinality(OccupiedKeys \cup {k}) = Cardinality(OccupiedKeys) + 1
      BY <2>3, OccupiedIsFinite, FS_AddElement
    <3>4. \A g : Cardinality(OccupiedIn(g) \cup {k}) = Cardinality(OccupiedIn(g)) + 1
      <4>1. \A g : k \notin OccupiedIn(g)
        BY <2>3 DEF OccupiedIn
      <4> QED
        BY <4>1, OccupiedIsFinite, FS_AddElement
    <3>5. Cardinality(OccupiedKeys) \in Nat /\ \A g : Cardinality(OccupiedIn(g)) \in Nat
      BY OccupiedIsFinite, FS_CardinalityType
    <3>6. Cardinality(OccupiedKeys)' <= GlobalCap
      BY <2>1, <3>1, <3>3, <3>5, CapAssumption DEF CapacityOK
    <3>7. ASSUME NEW g \in Groups PROVE Cardinality(OccupiedIn(g)') <= GroupCap
      BY <3>1, <3>2, <3>4, <3>5, CapAssumption DEF CapacityOK, CapacityBounded
    <3> QED
      BY <3>6, <3>7 DEF CapacityBounded
  <2> QED
    BY <2>2, <2>3
<1>2. ASSUME \/ UNCHANGED pend
             \/ \E p \in Pendings : pend' = Without(pend, p)
             \/ \E g \in Groups : pend' = Cleared(pend, g)
      PROVE  CapacityBounded'
  <2>1. OccupiedKeys' \subseteq OccupiedKeys
    BY <1>0, <1>2 DEF OccupiedKeys, Without, Cleared, Tables
  <2> QED
    BY <2>1, RoomKept
<1> QED
  BY <1>1, <1>2, OnlyStartPendingAdds

-----------------------------------------------------------------------------
(* The theorems *)

\* The invariant holds at every moment of every run.
THEOREM Inductive == Spec => []IInv
<1>1. Init => IInv
  BY InitType, InitClaim, InitTimer DEF IInv
<1>2. IInv /\ [Next]_vars => IInv'
  BY NextType, NextKeeps DEF IInv
<1> QED
  BY <1>1, <1>2, PTL DEF Spec

\* An answer, a timer and an administrator never settle the same verification at once.
THEOREM OneSettlement == Spec => []SoleSettler
<1>1. IInv => SoleSettler
  BY DEF IInv, ClaimInv
<1> QED
  BY <1>1, Inductive, PTL

\* No claim or marker outlives its settlement, so nobody is locked out of verification.
THEOREM NobodyWedged == Spec => []NothingWedged
<1>1. IInv => NothingWedged
  BY DEF IInv, ClaimInv, ClaimedIsMarked, MarkedIsSettling, NothingWedged
<1> QED
  BY <1>1, Inductive, PTL

\* Every open verification of a running process has a timer or a callback that may act.
THEOREM EverybodyTimed == Spec => []NobodyForgotten
<1>1. IInv => NobodyForgotten
  BY DEF IInv, TimerInv
<1> QED
  BY <1>1, Inductive, PTL

LEMMA WindowHeld == IInv => FreshWindowHolds
<1> SUFFICES ASSUME IInv, NEW t \in timers
             PROVE  /\ Live(t[1])
                    /\ \A u \in timers : u[1] = t[1] => u = t
                    /\ \A f \in firing : ~(f[1] = t[1] /\ Current(f))
  BY DEF FreshWindowHolds
<1>1. \A u \in timers : Live(u[1]) /\ u[2] = epoch[u[1]] /\ u = <<u[1], u[2]>>
  BY DEF IInv, TypeOK, TimerSet, TimerInv, TimerIsLatest
<1>2. \A f \in firing : f \notin timers /\ f = <<f[1], f[2]>>
  BY DEF IInv, TypeOK, TimerSet, TimerInv, FiringIsPast
<1> QED
  BY <1>1, <1>2 DEF Current

\* A stale timer or callback never settles a verification that was given a fresh window.
THEOREM WindowsHold == Spec => []FreshWindowHolds
BY WindowHeld, Inductive, PTL

\* The end of one settlement changes no entry and no marker but its own.
THEOREM OutcomesAreLocal == Spec => SettlementKeepsToItsOwn
<1> DEFINE Local ==
      \A p \in Pendings, op \in Ops : Outcome(p, op) =>
        \A k \in Keys :
          /\ pend[k] # p => pend'[k] = pend[k]
          /\ terminal[k] # p => terminal'[k] = terminal[k]
<1>1. TypeOK /\ [Next]_vars => [Local]_vars
  <2> SUFFICES ASSUME TypeOK, NEW p \in Pendings, NEW op \in Ops, Outcome(p, op), NEW k \in Keys
               PROVE  /\ pend[k] # p => pend'[k] = pend[k]
                      /\ terminal[k] # p => terminal'[k] = terminal[k]
    OBVIOUS
  <2>1. pend' \in {pend, Without(pend, p)} /\ terminal' = Without(terminal, p)
    BY DEF Outcome, FinishTerminal, ReopenPending, ReopenLost, ReopenGivesUp, ReopenRetries,
           AbandonSettlement, Discard
  <2>2. \A table \in Tables : table[k] # p => Without(table, p)[k] = table[k]
    BY DEF Without, Tables
  <2> QED
    BY <2>1, <2>2 DEF TypeOK
<1> QED
  BY <1>1, TypeCorrect, PTL DEF Spec, SettlementKeepsToItsOwn

LEMMA InitFits == Init => CapacityBounded
<1> SUFFICES ASSUME Init PROVE CapacityBounded
  OBVIOUS
<1>1. OccupiedKeys = {} /\ \A g : OccupiedIn(g) = {}
  BY DEF Init, OccupiedKeys, OccupiedIn, NoEntries
<1> QED
  BY <1>1, FS_EmptySet, CapAssumption DEF CapacityBounded

\* The queue stays within both of its caps.
THEOREM WithinCapacity == Spec => []CapacityBounded
BY InitFits, CapacityStep, TypeCorrect, PTL DEF Spec

\* After a shutdown, nothing but the handlers already under way changes the table.
THEOREM ShutdownFreezes == Spec => FrozenAfterShutdown
<1> DEFINE Frozen ==
      (/\ phase = "stopping"
       /\ settling = {} /\ arriving = {} /\ delivering = {} /\ checking = {} /\ renotifying = {}
       /\ ~\E g \in Groups : GroupChange(g))
      => UNCHANGED tableVars
<1>1. [Next]_vars => [Frozen]_vars
  BY DEF Next, vars, tableVars, handlerVars, Arrival, Arrive, TurnAway, StartPending,
         FinishPendingChallenge, NewWindow, Admin, CheckAdmin, DismissAdmin, ClaimAdmin,
         Expiry, Fire, DeferExpiry, ClaimPendingExpiry, DropExpiry, ClaimPendingNonce,
         Outcome, FinishTerminal, ReopenPending, AbandonSettlement, Recovery, OnRecovery,
         DropJoined, Renotified, StopForShutdown
<1> QED
  BY <1>1, PTL DEF Spec, FrozenAfterShutdown

-----------------------------------------------------------------------------
(* The life of a verification: the table implements Verification *)

LEMMA LifeValues ==
  ASSUME NEW p \in Pendings
  PROVE  /\ LifeOf[p] = "unasked" <=> key[p] = NoKey
         /\ LifeOf[p] = "open" <=> Live(p)
         /\ LifeOf[p] = "claimed" <=> InTable(p) /\ p \in done
         /\ LifeOf[p] = "ended" <=> key[p] # NoKey /\ ~InTable(p)
BY DEF LifeOf, Live, InTable

LEMMA LifeFrame ==
  ASSUME UNCHANGED <<pend, key, done>>
  PROVE  UNCHANGED LifeOf
BY DEF LifeOf, InTable

LEMMA LifeLeaves ==
  ASSUME TypeOK, NEW p \in Pendings, key[p] # NoKey, pend' = Without(pend, p), UNCHANGED key,
         done' \in {done, done \cup {p}}
  PROVE  LifeOf' = [LifeOf EXCEPT ![p] = "ended"]
<1>1. ~InTable(p)' /\ \A q \in Pendings \ {p} : InTable(q)' <=> InTable(q)
  BY WithoutInTable
<1>2. ASSUME NEW q \in Pendings PROVE LifeOf'[q] = IF q = p THEN "ended" ELSE LifeOf[q]
  BY <1>1 DEF LifeOf
<1>3. /\ LifeOf = [q \in Pendings |-> LifeOf[q]]
      /\ LifeOf' = [q \in Pendings |-> LifeOf'[q]]
  BY DEF LifeOf
<1> QED
  BY <1>2, <1>3

LEMMA ClaimLives ==
  ASSUME NEW p \in Pendings, NEW op \in Ops, Live(p), Claim(p, op)
  PROVE  Life!Settle(p, op)
<1>1. /\ UNCHANGED <<pend, key>> /\ done' = done \cup {p}
      /\ settling' = settling \cup {<<p, op>>}
  BY DEF Claim
<1>2. LifeOf' = [LifeOf EXCEPT ![p] = "claimed"]
  BY <1>1 DEF LifeOf, Live, InTable
<1> QED
  BY <1>1, <1>2, LifeValues DEF Life!Settle

LEMMA StartLives ==
  ASSUME TypeOK, ClaimInv, NEW k \in Keys, NEW p \in Pendings, StartPending(k, p)
  PROVE  Life!Ask(k, p)
<1>1. /\ pend' = [pend EXCEPT ![k] = p] /\ key' = [key EXCEPT ![p] = k]
      /\ done' = done \cup ({pend[k]} \ {NoPending}) /\ settling' = settling
      /\ key[p] = NoKey /\ pend[k] \notin done
  BY DEF StartPending, Startable
<1>2. /\ pend \in [Keys -> Pendings \cup {NoPending}] /\ key \in [Pendings -> Keys \cup {NoKey}]
      /\ p \notin done /\ p # pend[k]
      /\ \A q \in Pendings : pend[k] = q => key[q] = k
  BY <1>1, NoKeyIsNoKey DEF TypeOK, Tables, ClaimInv, FreshIsOpen, Keyed
<1> DEFINE earlier == {q \in Pendings : key[q] = k}
<1>3. \A q \in earlier : LifeOf[q] # "claimed"
  BY <1>1, LifeValues DEF InTable
<1>4. LifeOf'[p] = "open"
  BY <1>1, <1>2, NoKeyIsNoKey DEF LifeOf, InTable
<1>5. ASSUME NEW q \in Pendings \ {p}
      PROVE  LifeOf'[q] = IF q \in earlier THEN "ended" ELSE LifeOf[q]
  <2>1. key'[q] = key[q] /\ key[q] \in Keys \cup {NoKey}
    BY <1>1, <1>2
  <2>2. CASE key[q] = k
    BY <1>1, <1>2, <2>1, <2>2, NoKeyIsNoKey DEF LifeOf, InTable
  <2>3. CASE key[q] # k
    BY <1>1, <1>2, <2>1, <2>3 DEF LifeOf, InTable
  <2> QED
    BY <2>2, <2>3
<1>6. LifeOf' = [q \in Pendings |-> LifeOf'[q]]
  BY DEF LifeOf
<1>7. LifeOf' = [[q \in Pendings |-> IF q \in earlier THEN "ended" ELSE LifeOf[q]]
                   EXCEPT ![p] = "open"]
  BY <1>4, <1>5, <1>6
<1> QED
  BY <1>1, <1>3, <1>7, LifeValues DEF Life!Ask, Life!Ending

\* The calls of a settlement return: the object leaves the table, or is open again, or had
\* left it before.
LEMMA OutcomeLives ==
  ASSUME IInv, NEW p \in Pendings, NEW op \in Ops, Outcome(p, op)
  PROVE  Life!Return(p, op)
<1>1. /\ <<p, op>> \in settling /\ settling' = settling \ {<<p, op>>} /\ UNCHANGED key
  BY DEF Outcome, FinishTerminal, ReopenPending, AbandonSettlement, Discard
<1>2. p \in done /\ key[p] # NoKey
  BY <1>1, SettlingHasKey DEF IInv
<1>3. LifeOf[p] = IF InTable(p) THEN "claimed" ELSE "ended"
  BY <1>2 DEF LifeOf
<1>4. LifeOf = [q \in Pendings |-> LifeOf[q]]
  BY DEF LifeOf
<1>5. CASE pend' = Without(pend, p) /\ done' \in {done, done \cup {p}}
  <2>1. LifeOf' = [LifeOf EXCEPT ![p] = "ended"]
    BY <1>1, <1>2, <1>5, LifeLeaves DEF IInv
  <2>2. CASE InTable(p)
    BY <1>1, <1>3, <2>1, <2>2 DEF Life!Return
  <2>3. CASE ~InTable(p)
    BY <1>1, <1>3, <1>4, <2>1, <2>3 DEF Life!Return
  <2> QED
    BY <2>2, <2>3
<1>6. CASE ReopenPending(p, op) /\ ReopenLost(p)
  <2>1. UNCHANGED LifeOf
    BY <1>1, <1>6, LifeFrame DEF ReopenLost
  <2> QED
    BY <1>1, <1>2, <1>3, <1>6, <2>1 DEF Life!Return, ReopenLost
<1>7. CASE ReopenRetries(p)
  <2>1. LifeOf' = [LifeOf EXCEPT ![p] = "open"]
    BY <1>1, <1>2, <1>7 DEF ReopenRetries, LifeOf, InTable
  <2> QED
    BY <1>1, <1>3, <1>7, <2>1 DEF Life!Return, ReopenRetries
<1>8. FinishTerminal(p, op) \/ (ReopenPending(p, op) /\ ReopenGivesUp(p)) \/ AbandonSettlement(p, op)
      => pend' = Without(pend, p) /\ done' \in {done, done \cup {p}}
  BY DEF FinishTerminal, ReopenGivesUp, AbandonSettlement, Discard
<1> QED
  BY <1>5, <1>6, <1>7, <1>8 DEF Outcome, ReopenPending

\* Recovery found the applicant in the group.
LEMMA DropLives ==
  ASSUME IInv, NEW p \in Pendings, DropJoined(p)
  PROVE  Life!Cancel({p}) \/ UNCHANGED <<key, LifeOf, settling>>
<1>1. /\ pend' = Without(pend, p) /\ done' \in {done, done \cup {p}} /\ UNCHANGED <<key, settling>>
      /\ key[p] # NoKey
  BY DEF DropJoined, Discard, IInv, ClaimInv, RenotifiedWasCreated
<1>2. LifeOf' = [LifeOf EXCEPT ![p] = "ended"]
  BY <1>1, LifeLeaves DEF IInv
<1>3. LifeOf = [q \in Pendings |-> LifeOf[q]]
  BY DEF LifeOf
<1>4. CASE InTable(p)
  <2>1. LifeOf[p] \in {"open", "claimed"}
    BY <1>1, <1>4 DEF LifeOf
  <2>2. LifeOf' = Life!Ending({p})
    BY <1>2, <1>3 DEF Life!Ending
  <2> QED
    BY <1>1, <2>1, <2>2 DEF Life!Cancel
<1>5. CASE ~InTable(p)
  BY <1>1, <1>2, <1>3, <1>5 DEF LifeOf
<1> QED
  BY <1>4, <1>5

\* A group is disabled or removed.
LEMMA CancelLives ==
  ASSUME TypeOK, ClaimInv, NEW g \in Groups, NEW ps,
         ps = Entries(pend, g) \/ ps = Entries(pend, g) \cup Entries(terminal, g),
         done' = done \cup ps, pend' = Cleared(pend, g), UNCHANGED <<key, settling>>
  PROVE  Life!Cancel(Entries(pend, g))
<1> DEFINE V == Entries(pend, g)
<1>1. \A p \in ps : p \in Pendings /\ key[p] \in Keys /\ key[p][1] = g
  BY EntriesAreKeyed
<1>2. \A p \in Pendings : key[p] \in Keys \cup {NoKey}
  BY DEF TypeOK
<1>3. ASSUME NEW p \in Pendings, p \in V PROVE InTable(p) /\ ~InTable(p)'
  <2>1. PICK u \in Users : pend[<<g, u>>] = p
    BY <1>3 DEF Entries
  <2>2. <<g, u>> \in Keys /\ <<g, u>>[1] = g
    BY DEF Keys
  <2>3. key[p] = <<g, u>> /\ key[p] # NoKey
    BY <2>1, <2>2, NoKeyIsNoKey DEF ClaimInv, Keyed
  <2>4. pend'[<<g, u>>] = NoPending
    BY <2>2 DEF Cleared
  <2> QED
    BY <2>1, <2>3, <2>4, NoPendingAssumption DEF InTable
<1>4. ASSUME NEW p \in Pendings, InTable(p), p \notin V PROVE InTable(p)' /\ p \notin ps
  <2>1. key[p] \in Keys /\ pend[key[p]] = p
    BY <1>2, <1>4 DEF InTable
  <2>2. PICK h \in Groups, u \in Users : key[p] = <<h, u>>
    BY <2>1 DEF Keys
  <2>3. h # g
    BY <1>4, <2>1, <2>2 DEF Entries
  <2>4. pend'[key[p]] = p
    BY <2>1, <2>2, <2>3 DEF Cleared
  <2> QED
    BY <1>1, <1>4, <2>2, <2>3, <2>4 DEF InTable
<1>5. ASSUME NEW p \in Pendings, ~InTable(p) PROVE ~InTable(p)'
  BY <1>2, <1>5, NoPendingAssumption DEF InTable, Cleared
<1>6. ASSUME NEW p \in Pendings PROVE LifeOf'[p] = IF p \in V THEN "ended" ELSE LifeOf[p]
  <2>1. CASE p \in V
    BY <1>3, <2>1 DEF LifeOf, InTable
  <2>2. CASE p \notin V /\ InTable(p)
    BY <1>4, <2>2 DEF LifeOf
  <2>3. CASE p \notin V /\ ~InTable(p)
    BY <1>5, <2>3 DEF LifeOf
  <2> QED
    BY <2>1, <2>2, <2>3
<1>7. LifeOf' = [p \in Pendings |-> LifeOf'[p]]
  BY DEF LifeOf
<1>8. LifeOf' = [p \in Pendings |-> IF p \in V THEN "ended" ELSE LifeOf[p]]
  BY <1>6, <1>7
<1>9. V \subseteq Pendings /\ \A p \in V : LifeOf[p] \in {"open", "claimed"}
  BY <1>3, LifeValues DEF Entries, Live
<1> QED
  BY <1>8, <1>9 DEF Life!Cancel, Life!Ending

LEMMA StepLives == IInv /\ [Next]_vars => [Life!Step]_<<key, LifeOf, settling>>
<1> SUFFICES ASSUME IInv, [Next]_vars PROVE [Life!Step]_<<key, LifeOf, settling>>
  OBVIOUS
<1> USE DEF tableVars, timerVars, handlerVars, processVars
<1> DEFINE Lives == Life!Step \/ UNCHANGED <<key, LifeOf, settling>>
<1>0. /\ \A p \in Pendings, op \in Ops : Life!Settle(p, op) \/ Life!Return(p, op) => Lives
      /\ \A p \in Pendings, k \in Keys : Life!Ask(k, p) => Lives
      /\ \A V \in SUBSET Pendings : Life!Cancel(V) => Lives
      /\ UNCHANGED <<pend, key, done, settling>> => Lives
  BY LifeFrame DEF Life!Step
<1> HIDE DEF Lives
<1>1. ASSUME NEW k \in Keys, Arrival(k) PROVE Lives
  <2>1. Arrive(k) \/ TurnAway(k) => Lives
    BY <1>0 DEF Arrive, TurnAway
  <2> QED
    BY <1>0, <1>1, <2>1, StartLives DEF Arrival, IInv
<1>2. ASSUME NEW p \in Pendings, FinishPendingChallenge(p) \/ NewWindow(p) PROVE Lives
  BY <1>0, <1>2 DEF FinishPendingChallenge, NewWindow
<1>3. ASSUME NEW p \in Pendings, Admin(p) PROVE Lives
  <2>1. CheckAdmin(p) \/ DismissAdmin(p) => Lives
    BY <1>0 DEF CheckAdmin, DismissAdmin
  <2>2. ASSUME NEW q \in Pendings, NEW op \in Ops, ClaimAdmin(p, q, op) PROVE Lives
    BY <1>0, <2>2, ClaimLives DEF ClaimAdmin
  <2> QED
    BY <1>3, <2>1, <2>2 DEF Admin
<1>4. ASSUME NEW t \in timers \cup firing, Expiry(t) PROVE Lives
  <2>1. t[1] \in Pendings
    BY DEF IInv, TypeOK, TimerSet
  <2>2. CASE ClaimPendingExpiry(t)
    <3>1. PICK op \in Ops : Claim(t[1], op)
      BY <2>2 DEF ClaimPendingExpiry, Ops
    <3> QED
      BY <1>0, <2>1, <2>2, <3>1, ClaimLives DEF ClaimPendingExpiry, Current
  <2>3. Fire(t) \/ DeferExpiry(t) \/ DropExpiry(t) => Lives
    BY <1>0 DEF Fire, DeferExpiry, DropExpiry
  <2> QED
    BY <1>4, <2>2, <2>3 DEF Expiry
<1>5. ASSUME NEW p \in Pendings, NEW op \in Ops, ClaimPendingNonce(p, op) PROVE Lives
  BY <1>0, <1>5, ClaimLives DEF ClaimPendingNonce
<1>6. ASSUME NEW p \in Pendings, NEW op \in Ops, Outcome(p, op) PROVE Lives
  BY <1>0, <1>6, OutcomeLives
<1>7. ASSUME Recovery PROVE Lives
  <2>1. ASSUME NEW p \in Pendings, DropJoined(p) PROVE Lives
    <3>1. CASE Life!Cancel({p})
      BY <1>0, <3>1
    <3> QED
      BY <2>1, <3>1, DropLives DEF Lives
  <2>2. ASSUME \/ \E ps \in SUBSET LivePendings : OnRecovery(ps)
               \/ \E p \in Pendings : Renotified(p)
        PROVE  Lives
    BY <1>0, <2>2 DEF OnRecovery, Renotified
  <2> QED
    BY <1>7, <2>1, <2>2 DEF Recovery
<1>8. ASSUME NEW g \in Groups, GroupChange(g) PROVE Lives
  <2>1. CASE EnableGroup(g)
    BY <1>0, <2>1 DEF EnableGroup
  <2>2. CASE CancelGroupVerifications(g) \/ RemoveGroup(g)
    <3>1. Life!Cancel(Entries(pend, g))
      BY <2>2, CancelLives DEF CancelGroupVerifications, RemoveGroup, Cancel, IInv
    <3> QED
      BY <1>0, <3>1, EntriesType
  <2> QED
    BY <1>8, <2>1, <2>2 DEF GroupChange
<1>9. ASSUME StopForShutdown \/ UNCHANGED vars PROVE Lives
  BY <1>0, <1>9 DEF StopForShutdown, vars
<1> QED
  BY <1>1, <1>2, <1>3, <1>4, <1>5, <1>6, <1>7, <1>8, <1>9 DEF Next, Lives

-----------------------------------------------------------------------------
(* The table in the file: restarts and crashes *)

DiskType == disk \in [pend : Tables, passing : SUBSET Pendings, settleFailures : Counts]

\* The file keeps each object under the key it was created with.
DiskKeyed == \A k \in Keys, p \in Pendings : disk.pend[k] = p => key[p] = k

StoreInv ==
  /\ IInv /\ DiskType /\ DiskKeyed
  /\ unsaved \in BOOLEAN /\ restarts \in Nat

-----------------------------------------------------------------------------
(* Steps of the table *)

\* Every handler of StoreNext is a handler of the table.
LEMMA HandlersAreTableSteps == SavingStep \/ QuietStep => Next
<1>1. ASSUME SavingStep PROVE Next
  BY <1>1 DEF SavingStep, Next, Arrival, Admin, Outcome, Expiry, Ops
<1>2. ASSUME QuietStep PROVE Next
  BY <1>2 DEF QuietStep, Next, Arrival, Admin, Outcome, Expiry, Ops
<1> QED
  BY <1>1, <1>2

\* A key is given once, and only a new object enters the table.
LEMMA NoReturn ==
  ASSUME TypeOK, [Next]_vars, NEW p \in Pendings, key[p] # NoKey
  PROVE  /\ key'[p] = key[p]
         /\ pend[key[p]] # p => pend'[key[p]] # p
<1>0. key[p] \in Keys /\ pend \in Tables /\ terminal \in Tables /\ p # NoPending
  BY NoPendingAssumption DEF TypeOK
<1>1. ASSUME NEW k \in Keys, NEW q \in Pendings, StartPending(k, q)
      PROVE  key'[p] = key[p] /\ (pend[key[p]] # p => pend'[key[p]] # p)
  BY <1>0, <1>1 DEF StartPending, TypeOK, Tables
<1>2. ASSUME UNCHANGED key,
             \/ UNCHANGED pend
             \/ \E q \in Pendings : pend' = Without(pend, q)
             \/ \E g \in Groups : pend' = Cleared(pend, g)
      PROVE  key'[p] = key[p] /\ (pend[key[p]] # p => pend'[key[p]] # p)
  BY <1>0, <1>2 DEF Without, Cleared, Tables
<1> QED
  BY <1>1, <1>2, OnlyStartPendingAdds

-----------------------------------------------------------------------------
(* The invariant *)

LEMMA SnapshotType ==
  ASSUME TypeOK
  PROVE  /\ Snapshot \in [pend : Tables, passing : SUBSET Pendings, settleFailures : Counts]
         /\ Snapshot.pend = pend
BY DEF TypeOK, Snapshot, Counts

LEMMA StoreInitially == StoreInit => StoreInv
<1> SUFFICES ASSUME StoreInit PROVE StoreInv
  OBVIOUS
<1>1. IInv
  BY InitType, InitClaim, InitTimer DEF StoreInit, IInv
<1>2. DiskType /\ DiskKeyed
  BY <1>1, SnapshotType DEF StoreInit, DiskType, DiskKeyed, IInv, ClaimInv, Keyed
<1> QED
  BY <1>1, <1>2 DEF StoreInv, StoreInit

\* A restart rebuilds the invariant from the file alone.
LEMMA RestartType == StoreInv /\ Restart => TypeOK'
<1> SUFFICES ASSUME StoreInv, Restart PROVE TypeOK'
  OBVIOUS
<1> DEFINE restored == {p \in Pendings : \E k \in Keys :
                          disk.pend[k] = p /\ status[k[1]] # "unregistered"}
<1>1. pend' \in Tables /\ terminal' \in Tables
  BY DEF Restart, Tables, NoEntries
<1>2. settleFailures' \in Counts /\ epoch' \in Counts
  BY DEF Restart, Counts, StoreInv, DiskType
<1>3. timers' \subseteq TimerSet
  BY DEF Restart, Loaded, TimerSet
<1>4. passing' \subseteq Pendings /\ renotifying' \subseteq Pendings /\ phase' \in Phases
  BY DEF Restart, Phases
<1>5. key' \in [Pendings -> Keys \cup {NoKey}] /\ status' \in [Groups -> Statuses]
  BY DEF Restart, StoreInv, IInv, TypeOK
<1> QED
  BY <1>1, <1>2, <1>3, <1>4, <1>5 DEF Restart, TypeOK

LEMMA RestartKeeps == StoreInv /\ Restart => ClaimInv' /\ TimerInv'
<1> SUFFICES ASSUME StoreInv, Restart PROVE ClaimInv' /\ TimerInv'
  OBVIOUS
<1> DEFINE restored == {p \in Pendings : \E k \in Keys :
                          disk.pend[k] = p /\ status[k[1]] # "unregistered"}
<1>1. /\ pend' = [k \in Keys |-> IF disk.pend[k] \in restored THEN disk.pend[k] ELSE NoPending]
      /\ \A k \in Keys : terminal'[k] = NoPending
      /\ done' = {} /\ firing' = {} /\ settling' = {} /\ renotifying' \subseteq restored
      /\ epoch' = [p \in Pendings |-> IF p \in restored THEN 1 ELSE 0]
      /\ timers' = {<<p, 1>> : p \in restored}
      /\ key' = key
  BY DEF Restart, NoEntries, Loaded
<1>2. \A k \in Keys, p \in Pendings : disk.pend[k] = p => key[p] = k
  BY DEF StoreInv, DiskKeyed
<1>3. \A p \in restored : key[p] \in Keys /\ disk.pend[key[p]] = p
  BY <1>2
<1>4. \A p \in Pendings : p # NoPending
  BY NoPendingAssumption
<1>5. \A p \in Pendings : Live(p)' <=> p \in restored
  <2>1. \A p \in restored : Live(p)'
    BY <1>1, <1>3, NoKeyIsNoKey DEF Live, InTable
  <2>2. ASSUME NEW p \in Pendings, Live(p)' PROVE p \in restored
    <3>1. key[p] \in Keys /\ pend'[key[p]] = p
      BY <1>1, <2>2 DEF Live, InTable, StoreInv, IInv, TypeOK
    <3> QED
      BY <3>1, <1>1, <1>4
  <2> QED
    BY <2>1, <2>2
<1>6. ClaimInv'
  <2>1. Keyed'
    BY <1>1, <1>2, <1>4 DEF Keyed
  <2>2. RenotifiedWasCreated'
    BY <1>1, <1>3, NoKeyIsNoKey DEF RenotifiedWasCreated
  <2> QED
    BY <2>1, <2>2, <1>1, <1>4 DEF ClaimInv, ClaimedIsMarked, MarkedIsSettling,
       SettlingIsClaimed, FreshIsOpen, SoleSettler
<1>7. TimerInv'
  <2>1. TimerIsLatest'
    BY <1>1, <1>5 DEF TimerIsLatest
  <2>2. FiringIsPast'
    BY <1>1 DEF FiringIsPast
  <2>3. NobodyForgotten'
    BY <1>1, <1>5 DEF NobodyForgotten, LivePendings
  <2> QED
    BY <2>1, <2>2, <2>3 DEF TimerInv
<1> QED
  BY <1>6, <1>7

LEMMA StoreStep == StoreInv /\ [StoreNext]_allVars => StoreInv'
<1> SUFFICES ASSUME StoreInv, [StoreNext]_allVars PROVE StoreInv'
  OBVIOUS
<1>1. ASSUME [Next]_vars, UNCHANGED disk PROVE (IInv /\ DiskType /\ DiskKeyed)'
  <2>1. IInv'
    BY <1>1, NextType, NextKeeps DEF StoreInv, IInv
  <2>2. DiskKeyed'
    <3> SUFFICES ASSUME NEW k \in Keys, NEW p \in Pendings, disk.pend[k] = p
                 PROVE  key'[p] = k
      BY <1>1 DEF DiskKeyed
    <3>1. key[p] = k
      BY DEF StoreInv, DiskKeyed
    <3> QED
      BY <3>1, <1>1, NoReturn, NoKeyIsNoKey DEF StoreInv, IInv
  <2> QED
    BY <1>1, <2>1, <2>2 DEF StoreInv, DiskType
<1>2. CASE (SavingStep \/ QuietStep) /\ UNCHANGED <<disk, restarts>> /\ unsaved' \in {unsaved, TRUE}
  BY <1>1, <1>2, HandlersAreTableSteps DEF StoreInv
<1>3. CASE Shutdown
  BY <1>1, <1>3 DEF Shutdown, Next, StoreInv
<1>4. CASE UNCHANGED allVars
  BY <1>1, <1>4 DEF allVars, storeVars, StoreInv
<1>5. CASE Save
  <2>1. IInv'
    BY <1>1, <1>5, NextType, NextKeeps DEF Save, StoreInv, IInv
  <2>2. DiskType' /\ DiskKeyed'
    BY <1>5, SnapshotType DEF Save, DiskType, DiskKeyed, StoreInv, IInv, ClaimInv, Keyed,
       vars, tableVars
  <2> QED
    BY <1>5, <2>1, <2>2 DEF Save, StoreInv
<1>6. CASE Restart
  BY <1>6, RestartType, RestartKeeps DEF Restart, StoreInv, IInv, DiskType, DiskKeyed
<1> QED
  BY <1>2, <1>3, <1>4, <1>5, <1>6 DEF StoreNext

-----------------------------------------------------------------------------
(* The theorems *)

\* The invariant of the table holds through every crash and restart.
THEOREM StoreInductive == StoreSpec => []StoreInv
<1> QED
  BY StoreInitially, StoreStep, PTL DEF StoreSpec

\* pending.json and the table hold well-formed records in every life of the process.
THEOREM StoreTypeCorrect == StoreSpec => []StoreTypeOK
<1>1. StoreInv => StoreTypeOK
  BY DEF StoreInv, IInv, DiskType, StoreTypeOK
<1> QED
  BY <1>1, StoreInductive, PTL

\* Across restarts, too, nobody is settled twice at once, locked out or forgotten, and no timer
\* of an earlier window settles a fresh one.
THEOREM SafeAcrossRestarts ==
  StoreSpec => [](SoleSettler /\ NothingWedged /\ NobodyForgotten /\ FreshWindowHolds)
<1>1. StoreInv => SoleSettler /\ NothingWedged /\ NobodyForgotten
  BY DEF StoreInv, IInv, ClaimInv, TimerInv, ClaimedIsMarked, MarkedIsSettling, NothingWedged
<1>2. StoreInv => FreshWindowHolds
  BY WindowHeld DEF StoreInv
<1> QED
  BY <1>1, <1>2, StoreInductive, PTL

\* A verification that has left the table and the file never returns: no late handler, stale
\* timer, crash or restart brings it back.
THEOREM EndedForGood == StoreSpec => EndedStaysEnded
<1>1. StoreInv /\ [StoreNext]_allVars => [\A p \in Pendings : Ended(p) => Ended(p)']_allVars
  <2> SUFFICES ASSUME StoreInv, StoreNext, NEW p \in Pendings, Ended(p)
               PROVE  Ended(p)'
    OBVIOUS
  <2>0. /\ key[p] \in Keys /\ pend[key[p]] # p /\ disk.pend[key[p]] # p
        /\ p # NoPending /\ TypeOK /\ key[p] # NoKey
    BY NoPendingAssumption DEF Ended, InTable, StoreInv, IInv, TypeOK
  <2>1. ASSUME [Next]_vars, disk'.pend \in {disk.pend, pend} PROVE Ended(p)'
    BY <2>0, <2>1, NoReturn DEF Ended, InTable
  <2>2. CASE (SavingStep \/ QuietStep) /\ UNCHANGED disk
    BY <2>1, <2>2, HandlersAreTableSteps
  <2>3. CASE Shutdown
    BY <2>1, <2>3 DEF Shutdown, Next
  <2>4. CASE Save
    BY <2>0, <2>1, <2>4, SnapshotType DEF Save
  <2>5. CASE Restart
    BY <2>0, <2>5 DEF Restart, Ended, InTable
  <2> QED
    BY <2>2, <2>3, <2>4, <2>5 DEF StoreNext
<1> QED
  BY <1>1, StoreInductive, PTL DEF StoreSpec, EndedStaysEnded

\* The caps hold for what the file lists, so that load restores no more than fits.
FiledKeys == {k \in Keys : disk.pend[k] # NoPending}
FiledIn(g) == {k \in FiledKeys : k[1] = g}
FileWithinCaps ==
  /\ Cardinality(FiledKeys) <= GlobalCap
  /\ \A g \in Groups : Cardinality(FiledIn(g)) <= GroupCap

LEMMA FiledLikeTable ==
  ASSUME disk.pend = pend, CapacityBounded PROVE FileWithinCaps
BY DEF FileWithinCaps, FiledKeys, FiledIn, CapacityBounded, OccupiedKeys, OccupiedIn

\* A restart restores no key that the file does not list.
LEMMA RestoredFits == ASSUME Restart, FileWithinCaps PROVE CapacityBounded'
<1>1. OccupiedKeys' \subseteq FiledKeys /\ \A g : OccupiedIn(g)' \subseteq FiledIn(g)
  <2>1. OccupiedKeys' \subseteq FiledKeys
    BY DEF Restart, OccupiedKeys, FiledKeys
  <2> QED
    BY <2>1 DEF OccupiedIn, FiledIn
<1>2. IsFiniteSet(FiledKeys) /\ \A g : IsFiniteSet(FiledIn(g))
  <2>1. IsFiniteSet(Keys)
    BY FiniteAssumption, FS_Product DEF Keys
  <2>2. FiledKeys \in SUBSET Keys /\ \A g : FiledIn(g) \in SUBSET Keys
    BY DEF FiledKeys, FiledIn
  <2> QED
    BY <2>1, <2>2, FS_Subset
<1>3. /\ Cardinality(OccupiedKeys') <= Cardinality(FiledKeys)
      /\ Cardinality(OccupiedKeys') \in Nat /\ Cardinality(FiledKeys) \in Nat
  BY <1>1, <1>2, FS_Subset, FS_CardinalityType
<1>4. \A g : /\ Cardinality(OccupiedIn(g)') <= Cardinality(FiledIn(g))
             /\ Cardinality(OccupiedIn(g)') \in Nat /\ Cardinality(FiledIn(g)) \in Nat
  BY <1>1, <1>2, FS_Subset, FS_CardinalityType
<1> QED
  BY <1>3, <1>4, CapAssumption DEF CapacityBounded, FileWithinCaps

LEMMA CapacityStoreStep ==
  ASSUME StoreInv, CapacityBounded, FileWithinCaps, [StoreNext]_allVars
  PROVE  (CapacityBounded /\ FileWithinCaps)'
<1>1. ASSUME [Next]_vars PROVE CapacityBounded'
  BY <1>1, CapacityStep DEF StoreInv, IInv
<1>2. ASSUME UNCHANGED disk PROVE FileWithinCaps'
  BY <1>2 DEF FileWithinCaps, FiledKeys, FiledIn
<1>3. CASE (SavingStep \/ QuietStep) /\ UNCHANGED disk
  BY <1>1, <1>2, <1>3, HandlersAreTableSteps
<1>4. CASE Shutdown
  BY <1>1, <1>2, <1>4 DEF Shutdown, Next
<1>5. CASE UNCHANGED allVars
  BY <1>1, <1>2, <1>5 DEF allVars, storeVars
<1>6. CASE Save
  <2>1. CapacityBounded' /\ (disk.pend)' = pend'
    BY <1>1, <1>6, SnapshotType DEF Save, StoreInv, IInv, vars, tableVars
  <2> QED
    BY <2>1 DEF FileWithinCaps, FiledKeys, FiledIn, CapacityBounded, OccupiedKeys, OccupiedIn
<1>7. CASE Restart
  BY <1>2, <1>7, RestoredFits DEF Restart
<1> QED
  BY <1>3, <1>4, <1>5, <1>6, <1>7 DEF StoreNext

\* The queue stays within its caps in every life of the process: what a crash leaves in the
\* file fits, although load does not count.
THEOREM CapacityAcrossRestarts == StoreSpec => []CapacityBounded
<1>1. StoreInit => CapacityBounded /\ FileWithinCaps
  BY InitFits, FiledLikeTable, SnapshotType, InitType DEF StoreInit
<1>2. StoreInv /\ CapacityBounded /\ FileWithinCaps /\ [StoreNext]_allVars
      => (CapacityBounded /\ FileWithinCaps)'
  BY CapacityStoreStep
<1> QED
  BY <1>1, <1>2, StoreInductive, PTL DEF StoreSpec

-----------------------------------------------------------------------------
(* The life of a verification across crashes: PendingStore implements Verification *)

\* What the file lists, and what it lists after a save
LEMMA FiledFrame == ASSUME UNCHANGED <<key, disk>> PROVE UNCHANGED Filed
BY DEF Filed

\* An asked object whose record the file keeps under its key is listed, whatever key a fresh
\* object is given.
LEMMA FiledStays ==
  ASSUME StoreInv, [Next]_vars, UNCHANGED disk
  PROVE  UNCHANGED Filed
<1>1. ASSUME NEW p \in Pendings PROVE p \in Filed <=> p \in Filed'
  <2>1. CASE key[p] # NoKey
    BY <2>1, NoReturn DEF Filed, StoreInv, IInv
  <2>2. CASE key[p] = NoKey
    <3>1. \A k \in Keys : disk.pend[k] # p
      BY <2>2, NoKeyIsNoKey DEF StoreInv, DiskKeyed
    <3>2. TypeOK'
      BY NextType DEF StoreInv, IInv
    <3> QED
      BY <2>2, <3>1, <3>2 DEF Filed, TypeOK
  <2> QED
    BY <2>1, <2>2
<1> QED
  BY <1>1 DEF Filed

LEMMA SaveLives == ASSUME StoreInv, Save PROVE Life!Save
<1>1. (disk.pend)' = pend /\ UNCHANGED <<pend, key, done, settling>>
  BY SnapshotType DEF Save, StoreInv, IInv, vars, tableVars, handlerVars
<1>2. UNCHANGED LifeOf
  BY <1>1 DEF LifeOf, InTable
<1>3. Filed' = {p \in Pendings : InTable(p)}
  BY <1>1 DEF Filed, InTable
<1>4. \A p \in Pendings : InTable(p) <=> LifeOf[p] \in {"open", "claimed"}
  BY DEF LifeOf, InTable
<1> QED
  BY <1>1, <1>2, <1>3, <1>4 DEF Life!Save, Life!lifeVars

LEMMA RestartLives == ASSUME StoreInv, Restart PROVE \E V \in SUBSET Filed : Life!Restart(V)
<1> DEFINE restored == {p \in Pendings : \E k \in Keys :
                          disk.pend[k] = p /\ status[k[1]] # "unregistered"}
<1>1. /\ pend' = [k \in Keys |-> IF disk.pend[k] \in restored THEN disk.pend[k] ELSE NoPending]
      /\ done' = {} /\ settling' = {} /\ UNCHANGED <<key, disk>>
  BY DEF Restart
<1>2. \A k \in Keys, p \in Pendings : disk.pend[k] = p => key[p] = k
  BY DEF StoreInv, DiskKeyed
<1>3. \A p \in Pendings : p # NoPending
  BY NoPendingAssumption
<1>4. restored \subseteq Filed /\ \A p, q \in restored : key[p] = key[q] => p = q
  BY <1>2, NoKeyIsNoKey DEF Filed
<1>5. \A p \in Pendings : InTable(p)' <=> p \in restored
  <2>1. ASSUME NEW p \in restored PROVE InTable(p)'
    <3>1. key[p] \in Keys /\ disk.pend[key[p]] = p
      BY <1>2
    <3> QED
      BY <1>1, <3>1, NoKeyIsNoKey DEF InTable
  <2>2. ASSUME NEW p \in Pendings, InTable(p)' PROVE p \in restored
    <3>1. key[p] \in Keys /\ pend'[key[p]] = p
      BY <1>1, <2>2 DEF InTable, StoreInv, IInv, TypeOK
    <3> QED
      BY <3>1, <1>1, <1>3
  <2> QED
    BY <2>1, <2>2
<1>6. LifeOf' = [p \in Pendings |-> IF p \in restored THEN "open"
                                  ELSE IF LifeOf[p] = "unasked" THEN "unasked" ELSE "ended"]
  <2>1. ASSUME NEW p \in Pendings PROVE p \in restored => key[p] # NoKey
    BY <1>4 DEF Filed
  <2>2. ASSUME NEW p \in Pendings PROVE LifeOf[p] = "unasked" <=> key[p] = NoKey
    BY LifeValues
  <2> QED
    BY <1>1, <1>5, <2>1, <2>2 DEF LifeOf
<1>7. Filed' = Filed
  BY <1>1, FiledFrame
<1>8. Life!Restart(restored)
  BY <1>1, <1>4, <1>6, <1>7 DEF Life!Restart
<1> QED
  BY <1>4, <1>8

LEMMA StoreLives == StoreInv /\ [StoreNext]_allVars => [Life!Next]_(Life!verificationVars)
<1> SUFFICES ASSUME StoreInv, [StoreNext]_allVars
             PROVE  Life!Next \/ UNCHANGED <<key, LifeOf, settling, Filed>>
  BY DEF Life!verificationVars, Life!lifeVars
<1>1. ASSUME [Next]_vars, UNCHANGED disk
      PROVE  Life!Next \/ UNCHANGED <<key, LifeOf, settling, Filed>>
  BY <1>1, StepLives, FiledStays DEF Life!Next, StoreInv
<1>2. CASE (SavingStep \/ QuietStep) /\ UNCHANGED disk
  BY <1>1, <1>2, HandlersAreTableSteps
<1>3. CASE Shutdown
  BY <1>1, <1>3 DEF Shutdown, Next
<1>4. CASE UNCHANGED allVars
  BY <1>1, <1>4 DEF allVars, storeVars
<1>5. CASE Save
  BY <1>5, SaveLives DEF Life!Next
<1>6. CASE Restart
  BY <1>6, RestartLives DEF Life!Next
<1> QED
  BY <1>2, <1>3, <1>4, <1>5, <1>6 DEF StoreNext

\* internal/verify with its maps, markers, timers and records implements Verification: one
\* verification and one verdict at a time for an applicant, an ended one is never acted on
\* again, and a crash brings back no more than pending.json lists.
THEOREM ImplementsVerification == StoreSpec => VerificationsLive
<1>1. StoreInit => Life!Init
  BY SnapshotType, InitType, NoPendingAssumption
  DEF StoreInit, Init, Life!Init, LifeOf, Filed
<1> QED
  BY <1>1, StoreLives, StoreInductive, PTL DEF StoreSpec, VerificationsLive, Life!Spec

-----------------------------------------------------------------------------
(* What the file does not list yet *)

\* A record that is not in the file as it is in the table is on its way there: a handler has
\* a save to do, a settlement, a delivery or a recovery under way will save, or it is one of
\* the two exceptions of UnsavedOnlyAfterFailedApproval.
Accounted(k) ==
  \/ disk.pend[k] = pend[k]
  \/ unsaved
  \/ \E op \in Ops : <<pend[k], op>> \in settling
  \/ pend[k] \in delivering
  \/ renotifying # {}
  \/ \E p \in passing : key[p] = k
  \/ pend[k] = NoPending /\ restarts > 0

FileInv == \A k \in Keys : Accounted(k)

\* A handler that leaves the table and its work alone, or takes on more, accounts for as much.
LEMMA AccountedFrame ==
  ASSUME NEW k \in Keys, Accounted(k), UNCHANGED storeVars,
         pend'[k] = pend[k], settling \subseteq settling', delivering \subseteq delivering',
         renotifying # {} => renotifying' # {},
         passing \subseteq passing', \A p \in passing : key[p] = k => key'[p] = k
  PROVE  Accounted(k)'
BY DEF Accounted, storeVars

\* startPending's object is delivered before it is saved.
LEMMA ArrivalAccounted ==
  ASSUME StoreInv, FileInv, UNCHANGED storeVars, NEW j \in Keys, Arrival(j), NEW k \in Keys
  PROVE  Accounted(k)'
<1>0. Accounted(k) /\ pend \in Tables
  BY DEF FileInv, StoreInv, IInv, TypeOK
<1>1. CASE Arrive(j) \/ TurnAway(j)
  BY <1>0, <1>1, AccountedFrame DEF Arrive, TurnAway, tableVars
<1>2. ASSUME NEW p \in Pendings, StartPending(j, p) PROVE Accounted(k)'
  <2>1. CASE k = j
    BY <1>0, <1>2, <2>1 DEF StartPending, Tables, Accounted
  <2>2. CASE k # j
    <3>1. \A q \in passing : key[q] = k => key'[q] = k
      BY <1>2, NoKeyIsNoKey DEF StartPending, StoreInv, IInv, TypeOK
    <3>2. pend'[k] = pend[k]
      BY <1>0, <1>2, <2>2 DEF StartPending, Tables
    <3> QED
      BY <1>0, <1>2, <3>1, <3>2, AccountedFrame DEF StartPending
  <2> QED
    BY <2>1, <2>2
<1> QED
  BY <1>1, <1>2 DEF Arrival

\* A delivery that finds its object claimed leaves the save to the settlement.
LEMMA DeliveryAccounted ==
  ASSUME StoreInv, FileInv, UNCHANGED storeVars, NEW p \in Pendings, NEW k \in Keys,
         ~Live(p), FinishPendingChallenge(p)
  PROVE  Accounted(k)'
<1>0. Accounted(k) /\ p # NoPending
  BY NoPendingAssumption DEF FileInv
<1>1. CASE pend[k] = p
  <2>1. key[p] = k /\ key[p] # NoKey
    BY <1>1, NoKeyIsNoKey DEF StoreInv, IInv, ClaimInv, Keyed
  <2>2. p \in done /\ terminal[k] = p
    BY <1>1, <2>1 DEF Live, InTable, StoreInv, IInv, ClaimInv, ClaimedIsMarked
  <2>3. \E op \in Ops : <<p, op>> \in settling
    BY <2>2 DEF StoreInv, IInv, ClaimInv, MarkedIsSettling
  <2> QED
    BY <1>1, <2>3 DEF FinishPendingChallenge, tableVars, Accounted
<1>2. CASE pend[k] # p
  BY <1>0, <1>2 DEF FinishPendingChallenge, tableVars, storeVars, Accounted
<1> QED
  BY <1>1, <1>2

\* A failed approval marks what was in the table as passing.
LEMMA FailedApprovalAccounted ==
  ASSUME StoreInv, FileInv, UNCHANGED storeVars, NEW p \in Pendings, NEW k \in Keys,
         ReopenPending(p, "approve")
  PROVE  Accounted(k)'
<1>0. Accounted(k) /\ p # NoPending /\ pend \in Tables /\ key[p] # NoKey
  BY NoPendingAssumption
  DEF FileInv, StoreInv, IInv, TypeOK, ClaimInv, SettlingIsClaimed, ReopenPending, Ops
<1>1. UNCHANGED <<key, delivering, renotifying>> /\ passing \subseteq passing'
      /\ \A q \in Pendings, op \in Ops : q # p /\ <<q, op>> \in settling => <<q, op>> \in settling'
  BY DEF ReopenPending, MarkPassing
<1>2. CASE pend[k] = p
  <2>1. key[p] = k /\ p \in passing'
    BY <1>0, <1>2 DEF ReopenPending, MarkPassing, InTable, StoreInv, IInv, ClaimInv, Keyed
  <2> QED
    BY <1>1, <2>1 DEF Accounted
<1>3. CASE pend[k] # p
  <2>1. pend'[k] = pend[k]
    BY <1>0, <1>3 DEF ReopenPending, ReopenLost, ReopenGivesUp, ReopenRetries, Without, Tables
  <2>2. pend[k] \in Pendings => \A op \in Ops : <<pend[k], op>> \in settling => <<pend[k], op>> \in settling'
    BY <1>1, <1>3
  <2>3. \A op \in Ops : <<pend[k], op>> \in settling => pend[k] \in Pendings
    BY DEF StoreInv, IInv, TypeOK
  <2> QED
    BY <1>0, <1>1, <2>1, <2>2, <2>3 DEF Accounted, storeVars
<1> QED
  BY <1>2, <1>3

LEMMA QuietAccounted ==
  ASSUME StoreInv, FileInv, UNCHANGED storeVars, QuietStep, NEW k \in Keys
  PROVE  Accounted(k)'
<1>0. Accounted(k)
  BY DEF FileInv
<1>1. CASE \E p \in Pendings : Admin(p) \/ \E op \in Ops : ClaimPendingNonce(p, op)
  BY <1>0, <1>1, AccountedFrame
  DEF Admin, CheckAdmin, DismissAdmin, ClaimAdmin, ClaimPendingNonce, Claim, tableVars
<1>2. CASE \E t \in timers \cup firing : Fire(t) \/ ClaimPendingExpiry(t) \/ DropExpiry(t)
  BY <1>0, <1>2, AccountedFrame DEF Fire, ClaimPendingExpiry, DropExpiry, Claim, tableVars, handlerVars
<1>3. CASE Recovery /\ renotifying' # {}
  BY <1>3 DEF Accounted
<1>4. CASE \E g \in Groups : GroupChange(g) /\ <<pend', terminal'>> = <<pend, terminal>>
  BY <1>0, <1>4, AccountedFrame
  DEF GroupChange, CancelGroupVerifications, RemoveGroup, EnableGroup, tableVars, handlerVars
<1> QED
  BY <1>1, <1>2, <1>3, <1>4, ArrivalAccounted, DeliveryAccounted, FailedApprovalAccounted
  DEF QuietStep

LEMMA FileInitially == StoreInit => FileInv
BY SnapshotType DEF StoreInit, Snapshot, FileInv, Accounted

LEMMA FileStep == StoreInv /\ FileInv /\ [StoreNext]_allVars => FileInv'
<1> SUFFICES ASSUME StoreInv, FileInv, [StoreNext]_allVars, NEW k \in Keys
             PROVE  Accounted(k)'
  BY DEF FileInv
<1>1. CASE (SavingStep /\ unsaved' = TRUE) \/ Shutdown
  BY <1>1 DEF Shutdown, Accounted
<1>2. CASE QuietStep /\ UNCHANGED <<disk, unsaved, restarts>>
  BY <1>2, QuietAccounted DEF storeVars
<1>3. CASE Save
  BY <1>3, SnapshotType DEF Save, Accounted, StoreInv, IInv, vars, tableVars
<1>4. CASE Restart
  <2>1. /\ disk' = disk /\ restarts' > 0
        /\ pend'[k] \in {disk.pend[k], NoPending}
    BY <1>4 DEF Restart, StoreInv
  <2> QED
    BY <2>1 DEF Accounted
<1>5. CASE UNCHANGED allVars
  BY <1>5, AccountedFrame DEF allVars, vars, tableVars, handlerVars, FileInv
<1> QED
  BY <1>1, <1>2, <1>3, <1>4, <1>5 DEF StoreNext

\* Whenever no handler is under way and every save has run, pending.json lists the table, but
\* for failed approvals and the records a restart skipped.
THEOREM FileListsTheTable == StoreSpec => []UnsavedOnlyAfterFailedApproval
<1>1. StoreInit => StoreInv /\ FileInv
  BY StoreInitially, FileInitially
<1>2. (StoreInv /\ FileInv) /\ [StoreNext]_allVars => (StoreInv /\ FileInv)'
  BY StoreStep, FileStep
<1>3. FileInv => UnsavedOnlyAfterFailedApproval
  BY DEF FileInv, Accounted, UnsavedOnlyAfterFailedApproval, Quiescent
<1> QED
  BY <1>1, <1>2, <1>3, PTL DEF StoreSpec
=============================================================================
