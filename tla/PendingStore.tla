---------------------------- MODULE PendingStore ----------------------------
(***************************************************************************)
(* The verification table together with pending.json and the life of the   *)
(* process: which handlers save, what a restart restores, what a crash at  *)
(* any point loses.                                                        *)
(*                                                                         *)
(* Service.save is one step here: store.Save takes its snapshot and        *)
(* commits it under one lock, so a crash in between is a crash before it.  *)
(* Any handler, for any applicant, may save at any time; `unsaved` says    *)
(* that some handler has changed the table and still has its save to do.   *)
(***************************************************************************)
EXTENDS PendingTable

CONSTANT MaxRestarts         \* bound: how often the process stops and comes back

ASSUME RestartAssumption == MaxRestarts \in Nat

VARIABLES
  disk,                      \* pending.json
  unsaved,                   \* a handler has yet to call Service.save
  restarts                   \* counts towards MaxRestarts

storeVars == <<disk, unsaved, restarts>>
allVars == <<vars, storeVars>>

\* The records save writes: what the table holds, whether or not it is claimed
BuggySnapshot ==                      \* the record has no field for passing
  [pend |-> pend,
   settleFailures |-> [p \in Pendings |-> IF InTable(p) THEN settleFailures[p] ELSE 0]]
Snapshot ==
  [pend |-> pend,
   passing |-> {p \in passing : InTable(p)},
   settleFailures |-> [p \in Pendings |-> IF InTable(p) THEN settleFailures[p] ELSE 0]]

StoreInit == Init /\ disk = Snapshot /\ unsaved = FALSE /\ restarts = 0

-----------------------------------------------------------------------------
\* Handlers that return, or wait for Telegram, with a save still to come
SavingStep ==
  \/ \E k \in Keys, p \in Pendings : StartPending(k, p)  \* the post-join gate, before it mutes
  \/ \E p \in Pendings :
       \/ Live(p) /\ FinishPendingChallenge(p)
       \/ NewWindow(p)
       \/ \E op \in Ops : FinishTerminal(p, op) \/ AbandonSettlement(p, op)
       \/ \E op \in Ops \ {"approve"} : ReopenPending(p, op)
  \/ \E t \in firing : DeferExpiry(t)
  \/ Recovery /\ renotifying' = {}
  \/ \E g \in Groups : GroupChange(g) /\ <<pend', terminal'>> # <<pend, terminal>>

\* Handlers that leave the file alone: no change to a record, the join-request gate, which
\* saves once the challenge is delivered, and a failed approval (executeApprove and
\* executeRelease return without a save).
QuietStep ==
  \/ \E k \in Keys : Arrival(k)
  \/ \E p \in Pendings :
       \/ ~Live(p) /\ FinishPendingChallenge(p)
       \/ ReopenPending(p, "approve")
       \/ Admin(p)
       \/ \E op \in Ops : ClaimPendingNonce(p, op)
  \/ \E t \in timers \cup firing : Fire(t) \/ ClaimPendingExpiry(t) \/ DropExpiry(t)
  \/ Recovery /\ renotifying' # {}
  \/ \E g \in Groups : GroupChange(g) /\ <<pend', terminal'>> = <<pend, terminal>>

BuggySave ==                          \* refuses to write once shutting down
  /\ disk' = IF phase = "running" THEN Snapshot ELSE disk
  /\ unsaved' = FALSE
  /\ UNCHANGED <<vars, restarts>>
Save ==
  /\ disk' = Snapshot
  /\ unsaved' = FALSE
  /\ UNCHANGED <<vars, restarts>>

\* Shutdown: stopForShutdown, then its own save.
Shutdown ==
  /\ restarts < MaxRestarts
  /\ StopForShutdown
  /\ unsaved' = TRUE
  /\ UNCHANGED <<disk, restarts>>

\* load arms one timer for each record it restores.
BuggyLoaded(ps) == {}                 \* it restores the entries only
Loaded(ps) == {<<p, 1>> : p \in ps}

\* The process exits or crashes and systemd starts it again.  What was in memory is gone;
\* load restores the records of the groups that are still registered, arms each and, after
\* a long outage, re-notifies some of them.  The old process's objects keep their keys
\* here only so that no nonce is used twice.
Restart ==
  LET restored == {p \in Pendings : \E k \in Keys :
                     disk.pend[k] = p /\ status[k[1]] # "unregistered"} IN
  /\ restarts < MaxRestarts
  /\ restarts' = restarts + 1
  /\ phase' = "running"
  /\ pend' = [k \in Keys |-> IF disk.pend[k] \in restored THEN disk.pend[k] ELSE NoPending]
  /\ terminal' = NoEntries
  /\ done' = {} /\ removed' = {}
  /\ passing' = disk.passing \cap restored
  /\ settleFailures' =
       [p \in Pendings |-> IF p \in restored THEN disk.settleFailures[p] ELSE 0]
  /\ epoch' = [p \in Pendings |-> IF p \in restored THEN 1 ELSE 0]
  /\ timers' = Loaded(restored)
  /\ firing' = {} /\ settling' = {}
  /\ arriving' = {} /\ delivering' = {} /\ checking' = {}
  /\ renotifying' \in SUBSET restored
  /\ unsaved' \in BOOLEAN             \* load adjusted a deadline and saves
  /\ UNCHANGED <<key, status, disk>>

StoreNext ==
  \/ SavingStep /\ unsaved' = TRUE /\ UNCHANGED <<disk, restarts>>
  \/ QuietStep /\ UNCHANGED <<disk, unsaved, restarts>>
  \/ Save
  \/ Shutdown
  \/ Restart

StoreSpec == StoreInit /\ [][StoreNext]_allVars

\* A process that was told to stop is started again.
StoreFairness == Fairness /\ WF_allVars(phase = "stopping" /\ Restart)
StoreFairSpec == StoreSpec /\ StoreFairness /\ OutagesEnd

-----------------------------------------------------------------------------
\* pending.json holds well-formed records of the objects the table knows.
StoreTypeOK ==
  /\ TypeOK
  /\ disk \in [pend : Tables, passing : SUBSET Pendings, settleFailures : Counts]
  /\ unsaved \in BOOLEAN
  /\ restarts \in Nat

Quiescent == settling = {} /\ delivering = {} /\ renotifying = {} /\ ~unsaved

\* A crash between handlers loses nobody and brings nobody back: once no handler is under
\* way and every save has run, the file lists the table.  Two exceptions: a failed approval
\* does not save, and load leaves the records it skipped in the file until the next save (a
\* key that is vacant after a restart is not asked about).
UnsavedOnlyAfterFailedApproval ==
  Quiescent =>
    \A k \in Keys :
      \/ disk.pend[k] = pend[k]
      \/ \E p \in passing : key[p] = k
      \/ pend[k] = NoPending /\ restarts > 0

\* What has ended, in memory and in the file, stays ended: no late handler, stale timer or
\* restart brings a verification back.
Ended(p) == key[p] # NoKey /\ ~InTable(p) /\ disk.pend[key[p]] # p
EndedStaysEnded == [][\A p \in Pendings : Ended(p) => Ended(p)']_allVars

\* The maps, markers, claims and records add up to the promise of Verification: an applicant
\* has one verification at a time, one verdict is carried out on it, a failed attempt reopens
\* only a verification that is still there, one that has ended is never acted on again, and a
\* crash brings back no more than the file lists.
LifeOf ==
  [p \in Pendings |->
     IF key[p] = NoKey THEN "unasked"
     ELSE IF ~InTable(p) THEN "ended"
     ELSE IF p \in done THEN "claimed" ELSE "open"]
Filed == {p \in Pendings : key[p] # NoKey /\ disk.pend[key[p]] = p}
Life == INSTANCE Verification
          WITH Verifications <- Pendings, Applicants <- Keys, Nobody <- NoKey, Verdicts <- Ops,
               applicant <- key, life <- LifeOf, calls <- settling, filed <- Filed
VerificationsLive == Life!Spec

\* Every verification ends, even when the process is stopped or crashes on the way and
\* outages defer it over and over: once Telegram answers at an expiry, it is settled, and a
\* settlement that keeps failing is given up.
EndsAcrossRestarts == \A p \in Pendings : InTable(p) ~> ~InTable(p)

-----------------------------------------------------------------------------
(* What the repository says of this code and the code does not do *)

\* pendingRec.Passing: "answered correctly; the settlement retry must approve"
PassSurvivesRestart ==
  Quiescent => \A p \in passing : InTable(p) => p \in disk.passing

\* state.go: "Verification deferral is capped at 48 hours so an outage cannot hold a pending
\* slot indefinitely."
OutageHoldsNoSlot == StoreFairness => EndsAcrossRestarts

=============================================================================
