# A verification development of gentoo-zh-verify-bot

The bot guards Telegram groups: it challenges whoever asks to join (or has just joined) with a
question, admits or declines them, and keeps everything it must remember in a handful of JSON
files. This directory holds TLA+ models of the parts where order, concurrency and failure decide
whether that works, the TLC runs that check them on small instances, and proofs, checked by
TLAPS, of what matters most for every size of instance.

## 1. The system

| part | source | state | operations | hard behaviour |
|---|---|---|---|---|
| verification table | `internal/verify/service.go`, `state.go` | `pend`, `terminal`, one `*pending` per applicant with `done`, `removed`, `passing`, `settleFailures`, `epoch`, its timer; `shuttingDown` | join (request or post-join), answer, administrator button, expiry, deferral, recovery, disable and remove a group, shutdown | up to 64 handlers, the heartbeat and every timer share one mutex that is released around each Telegram call |
| `pending.json` | `verify/state.go` (`save`, `load`) | the stored records, the heartbeat time | save after most handlers, load at start | crash between a change and its save; records of groups no longer registered |
| failures | `verify/state.go` (`verifyfail.json`) | failures per applicant and group, cooldown | record, prune, clear, automatic ban | recorded and persisted apart from the verification that caused them |
| grading | `verify/kernel.go`, `OnAnswer` | tries, hints, fallback question | grade an answer, remind, fall back to questions | one-shot reminders that must survive replacement and restart |
| Telegram side | `verify/service.go`, `internal/tg` | restriction and membership of the applicant | hold, release, remove, ban, approve | administrators act in Telegram itself at any moment |
| state files | `internal/store/json.go` | the file, its temporary files, the write mutex | `Save`, `Write`, `Load`, `ReclaimTemps` | crash and power failure between any two system calls |
| settings | `internal/store/settings.go` | sparse overrides with revisions, registrations, one immutable snapshot | `CommitGroup`, `CommitGlobal`, `CommitRegistrations`, `NewSettings` | optimistic concurrency, failed writes, `config.json` drifting away from the file |
| runtime registration | `cmd/gentoo-zh-verify-bot/registration.go` | pending registrations, unknown groups to leave, deadlines | enrolment, membership changes, unregistration | deadlines racing membership updates, Telegram asked in the middle |
| settings panel | `internal/panel` | one session per administrator: revision, draft, prompt, token | callbacks, text input, confirmation | a session minutes old, two devices |
| feed | `internal/feed` | cursors, tracked posts, retry counters | poll, post, refresh, evict | a post that succeeded and a cursor that was not saved |
| moderation | `internal/moderate` | warning counters, whitelist | warn, clear, kick at the limit, filter channels | counter and kick not atomic |
| life cycle | `cmd/gentoo-zh-verify-bot/main.go` | handler slots, update queue | start, drain, stop | a drain with a deadline |
| lookups, config, texts | `internal/lookup`, `config`, `i18n`, `bot`, `edition` | small caches | queries, parsing, menus | none that a model would show |

How they interact. A Telegram update runs one handler goroutine (at most 64). A handler reads the
settings snapshot without a lock, takes `Service.mu` for a moment, calls Telegram, takes `mu`
again, and usually ends with `save`, which takes the process-wide write mutex of `store` and then
`mu` for the snapshot. Timers call `onExpiry` on goroutines of their own; the heartbeat goroutine
calls `onRecovery` after an outage; the panel and the registration service commit settings and,
when a group is disabled or unregistered, call back into the table. What makes each part correct:

* table: one settlement at a time per verification; nobody stuck behind a marker; everybody timed;
  a re-armed window is respected; the caps hold; a settlement of the past leaves its successor alone;
* `pending.json`: a crash between handlers loses nobody and revives nobody; marks and counters
  that a retry depends on survive;
* state files: no torn read, no acknowledged save lost, no old state over a new one, no
  undecodable file overwritten;
* settings: the snapshot is always valid and is what the file holds; no edit silently undone;
* failures: a failure counts once, a ban that did not happen is tried again, a pass clears them;
* grading: a try is charged for a reply to that verification, a strike for tries used up;
* registration: a group that was enrolled is never left, a leave deadline is never forgotten, a
  nonce pays for one group;
* panel: what is committed was composed from what its author saw; a replaced panel is done;
* feed: the cursor never passes what was not posted; nothing is repeated without a reason;
* moderation: a kick is earned, a reached limit is kept; the group's own channel and an allowed
  one are not banned;
* life cycle: every update confirmed to Telegram is handled; a shutdown ends.

## 2. Modules

| module | models | what an action is |
|---|---|---|
| `PendingTable` | the table, timers, claims and settlements in one process life | one critical section of `Service.mu`; a handler waiting for Telegram is a member of `arriving`, `delivering`, `checking`, `settling` or `renotifying` |
| `Verification` | what `internal/verify` promises of a verification across crashes (abstract) | asked once, claimed by one verdict, the verdict's calls returned, canceled; saved, reopened by a restart |
| `PendingStore` | `PendingTable` + `pending.json` + crash, shutdown, restart | the same actions, marked with whether their handler saves; `Save`; `Restart` |
| `Applicant` | what an applicant writes and presses, how it is graded, tries and hints, the settlement's steps, strikes, cooldown and automatic ban, in two groups at once, with both state files | the code between two Telegram calls; `work[w]` is the goroutine's place |
| `AtomicFile` | what `internal/store` promises of a state file (abstract) | replace, acknowledge, power failure, damage, move aside |
| `StateFile` | `json.go`, system call by system call | mutex, snapshot, write, fsync, rename, directory fsync, failure, crash, load |
| `Settings` | `settings.go` commits and `NewSettings` | the checks of a commit, its write, its publication, its failure; reload |
| `Registration` | `registration.go`: owner claim, nonces, enrolment, unregistration, leaving unknown groups | the code between two Telegram calls; a transition lock is a goroutine in `ask`, `commit` or `leaving` |
| `PanelSession` | `internal/panel`: sessions, screens, prompts, drafts, confirmations, tombstones | a callback or reply is a chain of steps under the session's lock: check, dispatch, commit, render |
| `Feed` | `feed.go`: one chat's poll of Bugzilla or the news page | one message posted or edited, with the change of the cursor or the list that follows |
| `Moderation` | `internal/moderate`, and the linked-channel cache of `internal/tg` | the code between two Telegram calls or saves |
| `Lifecycle` | `main.go`, `sd_notify.go`: polling, forwarding, handlers, shutdown, systemd | one channel operation, one call, one stage of the shutdown |
| `MC...` | instances for TLC (symmetry, scenarios) | |
| `..._proofs` | inductive invariants and theorems | |

`PendingStore` EXTENDS `PendingTable` and conjoins every action with what happens to the file.
It instantiates `Verification` (`life <- LifeOf`, read off the map and `done`; `calls <- settling`;
`filed <- Filed`, the objects `pending.json` lists) and is shown to implement it: maps, markers, timers,
epochs and records disappear.
`StateFile` instantiates `AtomicFile` (`content <- file, risk <- atRisk`) and is shown to implement
it. `PendingStore`, `Applicant`, `Feed` and `Moderation` use a save as one step; `StateFile` is why
they may: `store.Save` takes its snapshot under the same mutex as the rename, so a crash inside a
save is a crash before or after it. `Settings` keeps the write and the publication apart, because
readers can tell; `Registration` and `PanelSession` use what is proved of `Settings`: a commit is
accepted when the revision it names is in force.

Correspondence of the state, where names differ from the code:

* `PendingTable`: an element of `Pendings` is the identity of a `*pending` together with its nonce;
  `key` is the map key it was created under. A fresh element stands for `newNonce()`. `timers`
  holds the armed `time.AfterFunc` timers as object and epoch; `Timer.Stop` removes the latest one
  of its object; `firing` are callbacks that have started, which `Stop` cannot recall. `settling`
  are routines between the claim and their last table change (`executeApprove` and
  `executeRelease`: "approve"; `finishDecline`; `executeBan`). Their Telegram calls may answer
  anything: success or "already gone" (`FinishTerminal`), a retryable error (`ReopenPending`), an
  error proving that no retry helps (`AbandonSettlement`). `phase = "stopping"` is `shuttingDown`;
  `status` stands for what the settings say of a group.
* `Settings`: an override record is its revision and the name of the edit that wrote it (0 is the
  baseline), so that "who overwrote whom" can be stated; `leftover` is a history variable.
* `StateFile`: states are numbered as the program produces them; `acked` is a history variable.
* `Applicant`: one applicant; a reply is a kind (a correct report, one that names another system
  beside it, an undated or declared "no Linux", a copied sample, an agent's token, a fallback
  answer, anything else); `charged` and `failed` are history variables, and `age` is the age of a
  failure record on the two scales the code has, the cooldown and the window.
* `Registration`: deadlines are ticks, 0 is none; `issued`, `spent`, `enrolled`, `tried` and `left`
  are history variables.
* `PanelSession`: a scope's content is its revision; `shown`, `seen` and `replaced` record what an
  administrator looked at. A session is an index; a token is current while `byUser` points to it.
* `Feed`: a bug's state is unconfirmed, confirmed or resolved; `posts`, `newsPosts`, `shown`,
  `rejected` and `base` say what the channel has got. `writable` is the negation of
  `writeDisabled`. `doubts` counts lost answers and restarts and nothing else: failed saves have a
  bound of their own (`faults`), and a save that is skipped because writes are disabled has none.
* `Moderation`: `due` and `since` are history variables (limits reached, warnings since the last
  kick), `excused` the members two handlers worked on at once, `apart` when a channel was last
  known not to be the linked one.
* `Lifecycle`: an update is its number, `offset` what the next `getUpdates` confirms.

Operators named `Buggy...` stand beside the operator they vary. No action uses them; they document
which slip each property catches.

### Choices that a reader should know

* A settings commit that disables a group and the cancellation that follows are one step in
  `PendingTable`; likewise unregistration and `RemoveGroup`.
* Buttons posted before nonces existed carry none and act by key; they are left out. The button
  modelled has a nonce.
* `load` re-notifies synchronously, before polling starts. `Restart` lets that overlap with
  handlers: more behaviours than the code has, never fewer.
* `load`'s capacity test cannot fail, as the file holds no more than the table did; `Restart`
  leaves it out.
* In `PendingStore` writes succeed; a failed write of `pending.json` only logs, and is a crash
  before the save as far as the file goes. What the file itself may then hold is `StateFile`'s part.
* `Settings` leaves out commits that change nothing (they write nothing and return the same
  revision), the mode without a path, schema migrations, nonces and the owner claim (those are in
  `Registration`). It merges the read of the bot's membership into the loop's read of the
  registrations.
* `Applicant` leaves to `PendingTable` what that module has: the post-join gate, the bound on
  failed settlements, the delivery of the first challenge, several applicants. It assumes that a
  settlement takes less than the cooldown (180 s by default; an API call is cut off after 45 s), as
  `docs/deployment.md` advises.
* In `Registration` a deadline handler's two writes are one step: they happen under one transition
  lock, and a crash between them leaves a record that `Restart` schedules again. Changes that ask
  Telegram nothing are one step with their lock. An owner claim replaced, a nonce dropped when it
  lapsed, and the texts sent are as in the code; the failure of an owner-claim save is retried by
  the next message.
* `Applicant`'s `OnKernelAnswer` reads in one step whether a reply trips a verification and which
  groups it goes to. The code has one read for the first (`trippedPending`) and two for the second
  (`kernelPendingGroups`), the later of which follows the calls of the first decline: a group that
  starts to ask during those calls is refused by the code and not in the model. Each grading and
  each refusal looks its verification up again in both.
* `PanelSession` has one administrator per panel and lets one behaviour visit one part of the menu
  (`Tours`); sessions do not share anything but the revisions, so that other panels appear as
  `OtherCommit`. Paging and the limits on lists are left out.
* `Feed` follows bugs or news, not both: within one chat they share only the file, which is saved
  once at the end of a poll. A poll fetches at its start.
* `Moderation` has one group; its members' half and its channels' half share only the handlers,
  and a behaviour exercises one of them (`half`).
* `Lifecycle` counts a handler as done when its goroutine has given its slot back.

## 3. Runs

Bounds are CONSTANTS; they limit how often the environment does something, never what the code
does once it is asked.

| run | instance | shows |
|---|---|---|
| `Table` | 2 applicants for 1 place in the group, 2 objects, one of them re-armed (on top of a running callback), 1 handler | `SoleSettler`, `NothingWedged`, `NobodyForgotten`, `FreshWindowHolds`, `CapacityBounded`, `SettlementKeepsToItsOwn`, `FrozenAfterShutdown` |
| `Restarts` | `PendingStore`: 1 applicant, 2 objects, a restart at any point | types, `UnsavedOnlyAfterFailedApproval`, `EndedStaysEnded`, `VerificationsLive` (refinement) |
| `EndsAcross` | `PendingStore`: 1 object, 2 attempts, epochs to 2, a restart, fair | `EndsAcrossRestarts`, `VerificationsLive` |
| `Applicant` | 2 groups, 2 questions, 2 goroutines, 3 verifications, a failed call, a crash; scenarios pair the replies that interact | `TriesAreReplies`, `StrikesAreFailures`, `NoFailureForgotten`, `StrikesAreEarned` |
| `Saves` | 2 writers | `AckedSurvives`, `AtomicSaves` (refinement); deadlock checked |
| `Commits` | 2 groups, 2 editors, 2 enrolment loops, 2 edits, 2 registration changes, 1 restart | `SnapshotValid`, `FileIsWhatReadersSee`, `NoLostEdit`, `RevisionsGrow`, `NoLostRegistration` |
| `Enrolment` | 2 groups, 2 goroutines, 1 nonce, 2 updates, a fault, a restart, a tick | `EnrolledGroupKept`, `NonceSpentOnce`, `PendingIsNotLeaving`, `NoLeaveForgotten` |
| `Panel` | 1 administrator, 2 goroutines, 2 panels, 2 prompts, 2 commits; nine tours of the menu | `NothingUnseenIsOverwritten`, `ReplacedPanelIsDone` |
| `Posts` | 4 bugs, filed unconfirmed, in batches of 2, 2 tracked, 4 news items on pages of 2, a failed save, a lost answer or restart | `CursorCovers`, `RepeatsAreExplained`, `RoomForOpenBugs` |
| `Moderation` | 3 members and an administrator, 2 channels, limit 2, a table of 2 counters, 4 updates, a fault, a restart | `LimitReachedIsKept`, `KicksAreEarned`, `OnlyRuledOutChannelsBarred`, `AllowedChannelsMayPost` |
| `Shutdown` | 3 updates in batches of 2, a channel of 1, 2 handler slots, fair | `NothingConfirmedIsLost`, `ShutdownEnds`, `UpdatesAreHandled` |

Why the bounds are enough: every property of the table relates at most two objects under one key
(a settlement and its successor), a stale callback needs two epochs of one of them, and a cap needs
one applicant more than places: `Table` has all three (`MaxRearmed` bounds how many objects get a later
window). A crash meets a settlement and its successor in `Restarts`; a second attempt needs a retry,
which `EndsAcross` has. A reply in flight meets a re-application, an expiry or the same reply's grading
in another group: two goroutines and three verifications. A nonce is redeemed twice by two groups;
a leave meets an enrolment with two goroutines. A draft goes stale with one other commit, and is
opened, left and saved within two prompts and two commits. A batch that fails half way needs two
posts, a cursor that lags one failed save and one restart, a full table one entry more than its places; three updates
fill the channel, the slots and leave one waiting. The proofs of section 5 lift what they cover to
every bound. Symmetry is used only for safety runs, on sets whose elements the module never tells
apart. Deadlock is not checked where the process may really stop: after a shutdown, or when the
bounded events are used up.

Fairness, in the table: an armed timer fires, a callback that started runs to its end, a
settlement's Telegram call returns (every call has a context with a timeout). Nothing is assumed
of applicants, administrators or handlers. A callback that finds Telegram unreachable defers its
verification as often as it likes: the code's cap of 48 hours (`maxVerificationDeferral`) shortens
the windows to a minute and ends nothing, so `DeferExpiry` has no bound. `EndsAcrossRestarts`
therefore assumes of the network what the code depends on (`OutagesEnd`): Telegram is not down at
every single expiry of a verification. `MaxEpoch` bounds the other two ways to get a new window, a
recovery and a new prompt: there are finitely many of them. `StoreFairness` adds that a
process told to stop is started again (systemd `Restart=`).
In `Lifecycle`: goroutines that can step do, handlers return (again: timeouts), the shutdown's deadline
passes, and the polling goroutine sees its context end. Nothing is assumed of Telegram, of the
signal or of the components, which the shutdown waits for with a deadline only.

### Where the code and the documents disagree

One run checks a sentence of the repository that the code does not keep: `AnswerElsewhere`. A reply
that "correctly answers one of the others is not a wrong answer here" (`kernel.go:665`), but when
the group it answers is graded first, its verification is gone before the next group compares, and
a try is charged there.

The following were found in the same way. Each is a definition at the end of its module that no
passing run checks; TLC shows the counterexample when the property is put into the cfg named.

| property | cfg | sentence | what the code does |
|---|---|---|---|
| `PendingTable!MarkerLastsAsLongAsTheCall` | `Table` | "claimed terminal actions remain here until their Telegram call returns" (`service.go:220`) | a recovery discards a verification that was claimed meanwhile, marker included |
| `PendingTable!ButtonSettlesItsOwnVerification` | `Table`, `MaxHandlers = 2` | "The nonce ties the button to the verification it was posted for" (`service.go:1958`) | the nonce is compared before the administrator lookup and not after it |
| `PendingTable!ShutdownRefusesClaims` | `Table` | Shutdown "refuses later settlement claims" (`docs/outage-recovery.md:57`) | the two administrator claims do not test `shuttingDown` |
| `PendingStore!OutageHoldsNoSlot` | `EndsAcross`, `SPECIFICATION StoreSpec` | "Verification deferral is capped at 48 hours so an outage cannot hold a pending slot indefinitely." (`state.go:605`) | past the cap an expiry that finds Telegram unreachable is deferred all the same, by a minute, for as long as the outage lasts (`state.go:668`, `765`), and the slot stays taken |
| `PendingStore!PassSurvivesRestart` | `Restarts`, `MaxSettleFailures = 2` | "answered correctly; the settlement retry must approve" (`service.go:196`) | the failure path of an approval does not save the mark, nor the count of attempts ("persisted so the retry stays bounded across restarts") |
| `Settings!StaleEditRefused` | `Commits`, 3 edits and registration changes | "A mismatch ends the session with a concurrent-change message rather than merging" (`docs/admin.md:96`) | unregistering a group deletes its revision, so a session from before matches again |
| `Settings!FailedCommitStaysUnseen` | `Commits` | "readers never observe an override whose commit failed" (`docs/state-persistence.md:21`) | a failed directory flush leaves the new file in place; it takes effect at the next start |
| `Applicant!PassingIsNotDeclined` | `Applicant`, profiles `Pressers` | "Declining them would be a lie" (`state.go:687`, of an applicant who passed) | a wrong press while the approval is being retried declines the applicant who had already answered correctly |
| `Feed!NothingVisibleChanged` | `Posts`, `MaxChanges = 2`, `MaxDoubts = 0` | "nothing visible changed" (`feed.go:552`) | an edit that succeeds while its confirmation reply fails keeps the old state; when the bug changes back before the next poll, the two agree and the edited message stays wrong |
| `Feed!EveryCycleWrites` | `Posts` | "an unreadable feed file does not latch writes off: feed code starts empty and calls `Write` again every cycle" (`docs/feed.md:69`) | `loadFeedState` sets `writeDisabled` when the file could not be read, and `saveFeedState` then returns before it writes (`feed.go:347`, `371`) |
| `PanelSession!SettingsRepliesAreNotGraded` | `Panel` | "settings replies cannot be consumed as kernel answers" (`docs/admin.md:78`) | a text sent in reply to a chat-picker prompt, after a verification started, reaches the grading |
| `PanelSession!CancelDiscardsDraft` | `Panel` | "Session expiry, close, cancel, or a conflicting committed revision discards an unsaved draft." (`docs/admin.md:88`) | canceling the confirmation of a deletion returns to the list of questions with the draft still in the session; a channel draft survives in the same way |

Differences that no property states: `docs/deployment.md:117` says that the deadline of an unknown group
is lost on a restart, and the code persists it; `/unmute` fails with an error when the chat has no
default permissions (`docs/moderation.md:27`); a text reply to a prompt that wants a chat ends the session as if
a save had failed, and "cancel" after a newer revision ends it as a conflict; a white-list entry
from the panel is merged without comparing revisions (`docs/admin.md:96`); `warnKick` lifts its own ban
afterwards, and with it a `/ban` given meanwhile; a failed settlement that is retried restamps the
time at which the applicant failed.

The passing properties are stated with these excluded by name: `UnsavedOnlyAfterFailedApproval`
excepts keys with a passing object, `NoLostEdit` speaks of scopes whose revision is never reset,
`FileIsWhatReadersSee` admits the leftover of a failed commit, `StrikesAreFailures` admits one
strike for a crash between the two files, `KicksAreEarned` excepts a cleared counter that never
reached its file, `NoLeaveForgotten` a group that was enrolled once.

## 4. Hazards

PROJECT.json lists what is hard to test in this code, each at its line, with the property that
watches it, or the reason why none does: the code allows it and the table above says where to see it,
or nobody promises otherwise. Two more that no property states: the panel reads a tombstone before
it takes the session's lock (`session.go:283`), and the unlocked removal of a session lets a handler
that is already past its check commit.

## 5. Proofs

All theorems hold for every value of the constants that satisfies the modules' assumptions: any
sets of groups, applicants and objects (the caps need groups and applicants to be finite), any caps above
zero, any number of writers, handlers and updates. Every safety property that a passing run checks
is a theorem. Each module has its inductive invariant `IInv` (TLC checked it first, on the run of
the module), a lemma per action, and the properties as consequences; an action property follows
from the invariant and one step.

**`PendingStore_proofs`**, the table first. The safety properties are not inductive one by one. `IInv`
strengthens them together: both maps file an object under its own key (`Keyed`), a claimed entry
carries its marker, a marker belongs to a settlement in flight, a settlement in flight holds its claim
and is the only one (`SoleSettler`); an armed timer is the latest one of an open verification
(`TimerIsLatest`), a callback that started is of the current epoch or an earlier one and no longer
armed (`FiringIsPast`), and open entries have one or the other (`NobodyForgotten`). Capacity needs
cardinality facts about the occupied keys (a replacement keeps the set, an arrival adds one key where
there was room, everything else shrinks it). `SettlementKeepsToItsOwn` and `FrozenAfterShutdown` are
action properties from the same invariant.

Then the file. `StoreInv` adds that the file holds well-formed records under their own keys. A restart
re-establishes `IInv` from the file alone, so every theorem of the table holds in every process life
(`SafeAcrossRestarts`), and `EndedStaysEnded` holds across them. The caps do too
(`CapacityAcrossRestarts`): the keys that the file lists are within the caps (`FileWithinCaps`), and a
restart restores no others. For `FileListsTheTable` the invariant
`FileInv` accounts for each key while handlers run: file and memory agree there, or a save is still
due, or a handler that will save is at work on it, or it is one of the two exceptions.

`ImplementsVerification` maps every step to one of `Verification` or to a stutter: an arrival asks, a claim
settles, the three ends of a settlement return, cancellations cancel, and timers, deferrals, re-deliveries
and the shutdown change nothing there; a save files what goes on, and a restart reopens some of it.
It rests on `IInv`, by which a settlement in flight still holds its claim or its verification is over, so
that `ReopenPending` gives back only what is claimed, and on the file keeping each object under its own
key, so that a fresh object is not listed before it is saved.

**`Store_proofs`**, the atomic file. The invariant: a save under way holds the mutex of a process that
may write (`MutexInv`); nothing on disk is newer than what was produced, and the file of a process
that may write is no newer than its memory (`AgeInv`); a snapshot not yet renamed is no older than the
file it will replace (`SnapInv`); and `AckedSurvives`. From it, `SavesSurvive`, and `Implements`:
every step of `StateFile` is a step of `AtomicFile` or leaves `content`, `risk` and `acked` alone.

Then the settings. The invariant says what a commit under way may change. Its `next` is as valid
as what it replaces (`CommitIsValid`), and once written is what the file holds
(`WrittenIsOnDisk`). An editor's commit follows the revision its session captured and changes that scope only
(`EditorCommit`); a registration commit takes the next registration revision and drops
only records of groups that go (`MutatorCommit`). A captured revision still in force vouches for the
edit its editor saw (`CaptureInv`), and a read revision for the registrations its loop read
(`ReadInv`). With `TypeOK`, `SnapshotValid` and `FileIsWhatReadersSee` this is inductive over
commits, their failures before and after the rename, and restarts with another `config.json`;
`NoLostEdit`, `NoLostRegistration` and `RevisionsGrow` are action properties from it.

**`Registration_proofs`.** The four safety properties hold for any groups, users, nonces and
handlers. The invariant makes explicit what the handlers rely on. The transition lock of a group has
one holder (`Exclusive`). Under it a handler knows (`Knows`) that its snapshot is the record in
force when their revisions agree, that the group it is leaving is not registered, and that a group it
saw the bot in has not been left since; what another group's handler writes disturbs none of this, because it
moves the revision and touches its own group only. A nonce that still has a deadline has paid for
nothing, and one not drawn yet has none (`NonceInv`); every deadline in force has its timer
(`TimerInv`). `WorkersStep` and `DeadlinesStep` state once, for any step of a goroutine, what the
others keep and which deadlines stay cared for; each action then has a lemma that gives the change of
the record it makes.

**`Lifecycle_proofs`.** The updates are in line (`InLine`): those whose handlers started, the one the
forwarder holds, those buffered and those fetched are consecutive and end at the offset, so that
none is lost or started twice. From it follow `NothingConfirmedIsLost` and, with the cardinality of
the running handlers, `HandlersHoldSlots` (with `SlotsAreHeld`). `ShutdownInv` says that before the deadline the loop stops
only once its stream is forwarded and the shutdown goes on only once the handlers have returned.

**`Applicant_proofs`.** `WorkInv` says what a goroutine may rely on while it waits for Telegram: one
that settles holds the claim of its verification (`ClaimHeld`) and is the only one in its group, and
one that refuses for wrong answers does so with all tries charged or for a verification that is gone
(`RefusalEarned`). No nonce in memory, in the file or among the failures is ahead of those issued
(`NonceInv`), which is why a new verification is never taken for one that failed. Tries are bounded by
what was charged in memory and in the file (`TriesInv`). `CountInv` keeps the strikes between the
failures and the failures plus one per crash; it needs the notion of a `Ghost`, a verification that
was struck and that a crash brought back from the file: its second strike is already paid for by that crash.

**`Feed_proofs`.** A batch leaves out no listed bug before its newest one (`BatchInv`), and a page reaches
back from the newest item (`PageInv`); that is what lets the cursor jump over numbers without passing
anything. Bugs are filed in order and no cursor is ahead of them (`FiledInv`, `NewsInv`). An item above the
cursor was posted only for a doubt, one below it once more (`RepeatInv`; saves, failed ones included, leave
both the cursor and the doubts alone), and memory and file keep
the limit (`RoomInv`). The next bug to post and the resolved bug to give up are least and greatest
elements of sets of numbers, which exist by the well-ordering of the naturals (`LeastNat`).

**`Moderation_proofs`.** A handler at work is at a stage of its half of the package (`StageInv`), so that
the proof splits into members and channels. Members: `EarnedInv` says that no counter, in memory or in
the file, runs ahead of the warnings it stands for, that two handlers with the same member excuse it,
and that whoever is about to kick has the warnings behind it; `LimitReachedIsKept` is inductive
as it stands, given that a full table gives up counters below the limit first. Channels: a reading of
the linked channel rules out every other one for as long as it is cached (`LinkInv`), and a post still
being filtered when its channel is allowed is known to be (`AllowInv`).

**`PanelSession_proofs`.** A session in a lock is in the hands of one handler (`LockInv`, `HolderInv`), and
that handler's job fits the session it holds (`HeldFits`). The heart is an order of three revisions: the
one a commit expects is at most the one the administrator saw, which is at most the one in force;
a commit is accepted when the first is the last, so all three agree. The screens that show bot-wide settings
move the first up to the last whenever they are built (`Recaptured`), and show what they
captured; a prompt keeps what it was armed over, as the screen that waits for its answer captures
nothing. `SessionInv` keeps that for
drafts, confirmations and prompts while a session rests (`Remembers`, `Shows`). A press that may
still act suits the screen it was made on (`PressInv`): the reason why a confirmation pressed on
one screen cannot act on another. `MapInv` says that a replaced panel is in no map and in no lock.
`SessionStep` and `QuietStep` state once what a step of one handler leaves of the others' work. The
assumption `NoneAssumption` says that the marker for "nothing" is none of the drafts,
prompts, confirmations or revisions.

What stays with TLC. Liveness (`EndsAcrossRestarts`, `ShutdownEnds`, `UpdatesAreHandled`), because
fairness and ENABLED are outside the prover; the counterexamples of section 3, which are no theorems.
The prover's library cannot be used for induction over data, as its theorems take an operator as a
parameter; no proof here needs it: where one could (the first of a set, the size of a set
after a change) the well-ordering of the naturals and the facts about finite sets do.

## 6. Plan

Done in the order of what an error would cost: the table, its file, the file layer under it, the
settings that drive it; then registration, grading and failures, the panel, the feed, moderation
and the life cycle. What is left:

1. the restriction of a post-join gate in Telegram beside the table: nobody stays muted whose
   verification ended as passed, cancelled or removed; a just-admitted member is not challenged again;
2. `PanelSession` and `Settings` as a refinement (an editor is a session), and `Registration`'s
   unregistration composed with `RemoveGroup`;
3. the size limit of `verifyfail.json`.

Not modelled, for good: parsing of answers and of lookup results, texts and translations, menus,
the stateless lookup services (`internal/lookup`: queries of public services and the parsing of their
answers, about a fifth of the implementation), configuration parsing, `/purge`, wall-clock
arithmetic beyond the order of deadlines.
