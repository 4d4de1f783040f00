-------------------------------- MODULE Feed --------------------------------
(***************************************************************************)
(* The feed of internal/feed for one destination: it posts the bugs and    *)
(* the news above a cursor, remembers the message of each posted bug,      *)
(* edits that message when the bug changes, and saves its state after      *)
(* each poll.  Bugzilla changes at any time, Telegram may refuse a call,   *)
(* may limit it, and may carry out a call whose answer is lost; the        *)
(* process may end between any two of these.                               *)
(***************************************************************************)
EXTENDS Naturals, FiniteSets

CONSTANTS MaxBug,        \* bugs are filed as 1, 2, ... MaxBug
          Filters,       \* the sets of bugs a product and component filter may let through
          BornAs,        \* bound: the states new bugs are filed in
          MaxNews,       \* news items are published as 1, 2, ... MaxNews
          NewsWindow,    \* how many items the fetched page lists
          FetchLimit,    \* recentBugsLimit
          MaxTracked,    \* maxTracked
          MaxEdits,      \* maxEditsPerCycle
          MaxMisses,     \* maxTrackMisses
          MaxEditFails,  \* maxEditFails
          MaxTries,      \* maxConfirmTries
          MaxChanges,    \* bound: changes made at Bugzilla to bugs already filed
          MaxDoubts,     \* bound: lost answers and process ends
          MaxFaults      \* bound: writes of the file that fail

ASSUME SizeAssumption ==
  MaxBug \in Nat /\ MaxNews \in Nat \ {0} /\ Filters \subseteq SUBSET (1..MaxBug)
ASSUME LimitAssumption ==
  /\ NewsWindow \in Nat \ {0} /\ FetchLimit \in Nat \ {0} /\ MaxTracked \in Nat \ {0}
  /\ MaxEdits \in Nat /\ MaxMisses \in Nat /\ MaxEditFails \in Nat /\ MaxTries \in Nat
  /\ MaxChanges \in Nat /\ MaxDoubts \in Nat /\ MaxFaults \in Nat

Bugs == 1..MaxBug
Open == {"unconfirmed", "confirmed"}
ASSUME BornAssumption == BornAs \subseteq Open \cup {"resolved"}
Statuses == Open \cup {"resolved"}
Listings == Statuses \cup {"unfiled", "gone"}       \* gone: deleted, or moved out of sight
TrackedBugs == [state : Statuses, misses : Nat, editFails : Nat, tries : Nat]
Untracked == [state |-> "none"]
States == [last : Nat, news : Nat, tracked : [Bugs -> TrackedBugs \cup {Untracked}]]

VARIABLES
  on,         \* what this destination has switched on: "bugs", "news", "silent" (SilentBugs)
  matching,   \* the bugs that pass the product and component filter
  bug,        \* Bugzilla: how each bug is listed
  published,  \* the newest news item
  st,         \* feedState in memory
  file,       \* feed-<chat>.json
  writable,   \* feedState.writeDisabled is not set
  poll,       \* the poll under way: its stage and what it fetched
  posts,      \* how many messages the channel holds about each bug
  newsPosts,  \* how many it holds about each news item
  shown,      \* the state the tracked message of each bug shows
  rejected,   \* bugs and news whose message Telegram refused for good
  base,       \* the newest bug and item a baseline skipped
  changes, doubts, faults

upstream == <<on, matching, bug, published, changes>>
channel == <<posts, newsPosts, shown, rejected>>
storage == <<file, writable, faults>>
vars == <<upstream, st, storage, poll, channel, base, doubts>>

Fresh == [last |-> 0, news |-> 0, tracked |-> [b \in Bugs |-> Untracked]]
Unfetched == [b \in Bugs |-> "unfiled"]
IdlePoll == [at |-> "idle", batch |-> Unfetched, page |-> {}, byID |-> Unfetched, ok |-> FALSE,
             todo |-> {}, edits |-> 0]

Init ==
  /\ on \in {{"bugs"}, {"bugs", "silent"}, {"news"}} /\ matching \in Filters
  /\ bug = [b \in Bugs |-> IF b = 1 THEN "unconfirmed" ELSE "unfiled"] /\ published = 1
  /\ st = Fresh /\ file = Fresh /\ writable = TRUE /\ poll = IdlePoll
  /\ posts = [b \in Bugs |-> 0] /\ newsPosts = [n \in 1..MaxNews |-> 0]
  /\ shown = Unfetched /\ rejected = [bugs |-> {}, news |-> {}]
  /\ base = [bugs |-> 0, news |-> 0]
  /\ changes = 0 /\ doubts = 0 /\ faults = 0

Tracked(s) == {b \in Bugs : s.tracked[b] # Untracked}
ResolvedIn(s) == {b \in Tracked(s) : s.tracked[b].state = "resolved"}
Newest(S) == CHOOSE b \in S : \A c \in S : c <= b
Oldest(S) == CHOOSE b \in S : \A c \in S : b <= c

-----------------------------------------------------------------------------
(* Bugzilla and the news page.  A poll fetches once, at its start, so that a change during a   *)
(* poll is a change before the next one.                                                       *)

Between == poll.at = "idle"

Filed == {b \in Bugs : bug[b] # "unfiled"}
Listed == {b \in Bugs : bug[b] \in Statuses}

FileBug ==
  /\ Between /\ "bugs" \in on /\ Cardinality(Filed) < MaxBug
  /\ \E s \in BornAs : bug' = [bug EXCEPT ![Cardinality(Filed) + 1] = s]
  /\ UNCHANGED <<on, matching, published, changes, st, storage, poll, channel, base, doubts>>

ChangeBug ==
  /\ Between /\ "bugs" \in on /\ changes < MaxChanges /\ changes' = changes + 1
  /\ \E b \in Listed, s \in Statuses \cup {"gone"} : s # bug[b] /\ bug' = [bug EXCEPT ![b] = s]
  /\ UNCHANGED <<on, matching, published, st, storage, poll, channel, base, doubts>>

PublishNews ==
  /\ Between /\ "news" \in on /\ published < MaxNews /\ published' = published + 1
  /\ UNCHANGED <<on, matching, bug, changes, st, storage, poll, channel, base, doubts>>

-----------------------------------------------------------------------------
(* One poll *)

\* The first ids above the cursor, or only the newest one when there is no cursor yet.
Recent(last) ==
  LET above == {b \in Listed : b > last} IN
  IF last = 0 THEN (IF above = {} THEN {} ELSE {Newest(above)})
  ELSE {b \in above : Cardinality({c \in above : c < b}) < FetchLimit}

NewsPage == IF "news" \in on THEN {n \in 1..published : n + NewsWindow > published} ELSE {}

\* fetchBugsByIDWith: the chunks that came back; a bug that is gone is in none of them.
FetchBugsByID(got) == [b \in Bugs |-> IF b \in got \cap Listed THEN bug[b] ELSE "unfiled"]

\* Every fetch may fail; the refetch of the tracked bugs may fail in part.
PollAll ==
  /\ poll.at = "idle"
  /\ \E fetched \in {{}, Recent(st.last)}, page \in {{}, NewsPage}, got \in SUBSET Tracked(st) :
       poll' = [at |-> "bugs",
                batch |-> [b \in Bugs |-> IF b \in fetched THEN bug[b] ELSE "unfiled"],
                page |-> page,
                byID |-> FetchBugsByID(got),
                ok |-> got # {} /\ got = Tracked(st),
                todo |-> {}, edits |-> 0]
  /\ UNCHANGED <<upstream, st, storage, channel, base, doubts>>

Remaining == {b \in Bugs : poll.batch[b] # "unfiled" /\ b > st.last}
ToNews == poll' = [poll EXCEPT !.at = "news", !.batch = Unfetched]

\* Without a cursor, the newest bug becomes the baseline and nothing is posted.
BaselineBugs ==
  /\ poll.at = "bugs" /\ "bugs" \in on /\ st.last = 0 /\ Remaining # {}
  /\ st' = [st EXCEPT !.last = Newest(Remaining)]
  /\ base' = [base EXCEPT !.bugs = Newest(Remaining)]
  /\ ToNews
  /\ UNCHANGED <<upstream, storage, channel, doubts>>

\* evictOne: the oldest resolved bug, or the oldest one when all are open.
BuggyEvicted(s) == Oldest(Tracked(s))
Evicted(s) == IF ResolvedIn(s) # {} THEN Oldest(ResolvedIn(s)) ELSE Oldest(Tracked(s))
Evict(s) == IF Cardinality(Tracked(s)) < MaxTracked THEN s
            ELSE [s EXCEPT !.tracked[Evicted(s)] = Untracked]

TrackBug(s, b, state) ==
  [Evict(s) EXCEPT !.tracked[b] = [state |-> state, misses |-> 0, editFails |-> 0, tries |-> 0]]
Advance(s, b) == [s EXCEPT !.last = b]

PostBug(b) ==
  /\ posts' = [posts EXCEPT ![b] = @ + 1]
  /\ shown' = [shown EXCEPT ![b] = poll.batch[b]]

\* The oldest bug above the cursor: filtered, sent, refused for good, or not sent, which ends
\* the batch.  A message whose answer is lost counts as not sent.
BuggyPostNextBug ==                    \* a bug that was not sent is left behind
  LET b == Oldest(Remaining) IN
  /\ poll.at = "bugs" /\ "bugs" \in on /\ st.last # 0 /\ Remaining # {}
  /\ \/ /\ st' = TrackBug(Advance(st, b), b, poll.batch[b]) /\ PostBug(b)
        /\ UNCHANGED <<poll, rejected, doubts>>
     \/ st' = Advance(st, b) /\ UNCHANGED <<poll, posts, shown, rejected, doubts>>
  /\ UNCHANGED <<upstream, storage, newsPosts, base>>
PostNextBug ==
  LET b == Oldest(Remaining) IN
  /\ poll.at = "bugs" /\ "bugs" \in on /\ st.last # 0 /\ Remaining # {}
  /\ \/ /\ b \notin matching
        /\ st' = Advance(st, b)
        /\ UNCHANGED <<poll, posts, shown, rejected, doubts>>
     \/ /\ b \in matching
        /\ st' = TrackBug(Advance(st, b), b, poll.batch[b]) /\ PostBug(b)
        /\ UNCHANGED <<poll, rejected, doubts>>
     \/ /\ b \in matching
        /\ st' = Advance(st, b)
        /\ rejected' = [rejected EXCEPT !.bugs = @ \cup {b}]
        /\ UNCHANGED <<poll, posts, shown, doubts>>
     \/ /\ b \in matching /\ ToNews
        /\ \/ UNCHANGED <<posts, shown, doubts>>
           \/ PostBug(b) /\ doubts < MaxDoubts /\ doubts' = doubts + 1
        /\ UNCHANGED <<st, rejected>>
  /\ UNCHANGED <<upstream, storage, newsPosts, base>>

BugsDone ==
  /\ poll.at = "bugs" /\ ("bugs" \notin on \/ Remaining = {})
  /\ ToNews
  /\ UNCHANGED <<upstream, st, storage, channel, base, doubts>>

\* The tracked messages are refreshed after the news, in the order of a Go map.
StartRefresh == poll' = [poll EXCEPT !.at = "refresh", !.page = {}, !.todo = Tracked(st)]

\* No cursor, or a cursor that is no longer on the page: the newest item becomes the baseline.
BaselineNews ==
  /\ poll.at = "news" /\ "news" \in on /\ poll.page # {} /\ st.news \notin poll.page
  /\ st' = [st EXCEPT !.news = Newest(poll.page)]
  /\ base' = [base EXCEPT !.news = Newest(poll.page)]
  /\ StartRefresh
  /\ UNCHANGED <<upstream, storage, channel, doubts>>

NewsAbove == {n \in poll.page : n > st.news}

PostNextNews ==
  LET n == Oldest(NewsAbove)
      Post == newsPosts' = [newsPosts EXCEPT ![n] = @ + 1]
  IN /\ poll.at = "news" /\ "news" \in on /\ st.news \in poll.page /\ NewsAbove # {}
     /\ \/ st' = [st EXCEPT !.news = n] /\ Post /\ UNCHANGED <<poll, rejected, doubts>>
        \/ /\ st' = [st EXCEPT !.news = n]
           /\ rejected' = [rejected EXCEPT !.news = @ \cup {n}]
           /\ UNCHANGED <<poll, newsPosts, doubts>>
        \/ /\ StartRefresh
           /\ \/ UNCHANGED <<newsPosts, doubts>>
              \/ Post /\ doubts < MaxDoubts /\ doubts' = doubts + 1
           /\ UNCHANGED <<st, rejected>>
     /\ UNCHANGED <<upstream, storage, posts, shown, base>>

\* The whole page was walked once the newest item is reached.
NewsDone ==
  /\ poll.at = "news"
  /\ "news" \notin on \/ poll.page = {} \/ (st.news \in poll.page /\ NewsAbove = {})
  /\ StartRefresh
  /\ UNCHANGED <<upstream, st, storage, channel, base, doubts>>

-----------------------------------------------------------------------------
(* refreshTracked *)

Handled(b) == poll' = [poll EXCEPT !.todo = @ \ {b}, !.byID[b] = "unfiled"]
Edited(b) == poll' = [poll EXCEPT !.todo = @ \ {b}, !.byID[b] = "unfiled", !.edits = @ + 1]
EndRefresh == poll' = [IdlePoll EXCEPT !.at = "save"]
Change(b, rec) == st' = [st EXCEPT !.tracked[b] = rec]
Refreshing(b) == poll.at = "refresh" /\ b \in poll.todo

\* Not in the refetch: counted as gone only when the whole refetch succeeded.
MissBug(b) ==
  LET tb == st.tracked[b] IN
  /\ Refreshing(b) /\ poll.byID[b] = "unfiled"
  /\ IF ~poll.ok THEN UNCHANGED st
     ELSE Change(b, IF tb.misses + 1 >= MaxMisses THEN Untracked
                    ELSE [tb EXCEPT !.misses = @ + 1])
  /\ Handled(b)
  /\ UNCHANGED <<upstream, storage, channel, base, doubts>>

KeepBug(b) ==
  LET tb == st.tracked[b] IN
  /\ Refreshing(b) /\ poll.byID[b] = tb.state
  /\ Change(b, [tb EXCEPT !.misses = 0])
  /\ Handled(b)
  /\ UNCHANGED <<upstream, storage, channel, base, doubts>>

Stale(b) == Refreshing(b) /\ poll.byID[b] \notin {"unfiled", st.tracked[b].state}
Editable(b) == Stale(b) /\ poll.edits < MaxEdits

\* The bug was posted silently and is now confirmed: a notice is owed beside the edit, unless
\* the destination wants every bug silent.
OwesNotice(b) ==
  "silent" \notin on /\ st.tracked[b].state = "unconfirmed" /\ poll.byID[b] = "confirmed"

\* The edit landed: the state follows, unless the notice it owes was not sent, which is tried
\* again in a later poll, at most MaxTries times.
EditSucceeds(b) ==
  LET cur == poll.byID[b]
      tb == [st.tracked[b] EXCEPT !.misses = 0, !.editFails = 0]
      tries == tb.tries + 1
  IN /\ Editable(b)
     /\ shown' = [shown EXCEPT ![b] = cur]
     /\ \/ ~OwesNotice(b) /\ Change(b, [tb EXCEPT !.state = cur]) /\ Edited(b)
        \/ OwesNotice(b) /\ Change(b, [tb EXCEPT !.state = cur, !.tries = 0]) /\ Edited(b)
        \/ /\ OwesNotice(b)
           /\ IF tries >= MaxTries
              THEN Change(b, [tb EXCEPT !.state = cur, !.tries = tries]) /\ Edited(b)
              ELSE Change(b, [tb EXCEPT !.tries = tries]) /\ (Edited(b) \/ EndRefresh)
     /\ UNCHANGED <<upstream, storage, posts, newsPosts, rejected, base, doubts>>

\* A refusal that is final, or the last of several alike, gives the message up; others keep it.
EditFails(b) ==
  LET tb == [st.tracked[b] EXCEPT !.misses = 0]
      fails == tb.editFails + 1
  IN /\ Editable(b)
     /\ \/ Change(b, tb) /\ EndRefresh /\ UNCHANGED shown                       \* 429
        \/ Change(b, Untracked) /\ Edited(b) /\ UNCHANGED shown                 \* final
        \/ /\ Change(b, IF fails >= MaxEditFails THEN Untracked ELSE [tb EXCEPT !.editFails = fails])
           /\ Edited(b) /\ UNCHANGED shown                                      \* another 400
        \/ /\ Change(b, [tb EXCEPT !.editFails = 0]) /\ Edited(b)               \* transient
           /\ UNCHANGED shown \/ shown' = [shown EXCEPT ![b] = poll.byID[b]]
     /\ UNCHANGED <<upstream, storage, posts, newsPosts, rejected, base, doubts>>

RefreshDone ==
  /\ poll.at = "refresh"
  /\ poll.todo = {} \/ (poll.edits >= MaxEdits /\ \E b \in poll.todo : Stale(b))
  /\ EndRefresh
  /\ UNCHANGED <<upstream, st, storage, channel, base, doubts>>

BuggySaveFeedState ==                  \* a failed write falls back to what the file holds
  /\ poll.at = "save"
  /\ \/ writable /\ file' = st /\ UNCHANGED <<st, faults>>
     \/ ~writable /\ UNCHANGED <<st, file, faults>>
     \/ writable /\ faults < MaxFaults /\ faults' = faults + 1 /\ st' = file /\ UNCHANGED file
  /\ poll' = IdlePoll
  /\ UNCHANGED <<upstream, writable, channel, base, doubts>>
\* saveFeedState after every poll.  A write may fail and is not retried before the next one;
\* nothing is written over a file that could not be read.
SaveFeedState ==
  /\ poll.at = "save"
  /\ \/ writable /\ file' = st /\ UNCHANGED faults
     \/ ~writable /\ UNCHANGED <<file, faults>>
     \/ writable /\ faults < MaxFaults /\ faults' = faults + 1 /\ UNCHANGED file
  /\ poll' = IdlePoll
  /\ UNCHANGED <<upstream, st, writable, channel, base, doubts>>

\* loadFeedState: the file; afresh, when it did not decode and was moved aside; or afresh
\* with writes disabled, when it could not be read or moved.
LoadFeedState(stored) ==
  \/ st' = stored /\ file' = stored /\ writable' = TRUE
  \/ st' = Fresh /\ file' = Fresh /\ writable' = TRUE
  \/ st' = Fresh /\ file' = stored /\ writable' = FALSE

\* The process ends, with a last flush when it is told to stop, and starts again.
Restart ==
  /\ doubts < MaxDoubts /\ doubts' = doubts + 1
  /\ LoadFeedState(file) \/ (poll.at = "idle" /\ writable /\ LoadFeedState(st))
  /\ poll' = IdlePoll
  /\ UNCHANGED <<upstream, channel, base, faults>>

Next ==
  \/ FileBug \/ ChangeBug \/ PublishNews
  \/ PollAll \/ BaselineBugs \/ PostNextBug \/ BugsDone
  \/ BaselineNews \/ PostNextNews \/ NewsDone
  \/ \E b \in Bugs : MissBug(b) \/ KeepBug(b) \/ EditSucceeds(b) \/ EditFails(b)
  \/ RefreshDone \/ SaveFeedState
  \/ Restart

Spec == Init /\ [][Next]_vars

-----------------------------------------------------------------------------
\* Every variable holds the kind of value the Go declarations give it.
TypeOK ==
  /\ on \subseteq {"bugs", "news", "silent"} /\ matching \subseteq Bugs
  /\ bug \in [Bugs -> Listings] /\ published \in Nat
  /\ st \in States /\ file \in States /\ writable \in BOOLEAN
  /\ poll \in [at : {"idle", "bugs", "news", "refresh", "save"}, batch : [Bugs -> Listings],
               page : SUBSET (1..MaxNews), byID : [Bugs -> Listings], ok : BOOLEAN,
               todo : SUBSET Bugs, edits : Nat]
  /\ posts \in [Bugs -> Nat] /\ newsPosts \in [1..MaxNews -> Nat]
  /\ shown \in [Bugs -> Listings]
  /\ rejected \in [bugs : SUBSET Bugs, news : SUBSET (1..MaxNews)]
  /\ base \in [bugs : Nat, news : Nat]
  /\ changes \in Nat /\ doubts \in Nat /\ faults \in Nat

\* The cursor, in memory and in the file, never passes an item the channel has not got: each one
\* since the last baseline was posted, filtered, or refused for good.
BugsDelivered(s) ==
  \A b \in Bugs : base.bugs < b /\ b <= s.last =>
    posts[b] > 0 \/ b \notin matching \/ b \in rejected.bugs \/ bug[b] = "gone"
NewsDelivered(s) ==
  \A n \in 1..MaxNews : base.news < n /\ n <= s.news => newsPosts[n] > 0 \/ n \in rejected.news
CursorCovers == BugsDelivered(st) /\ BugsDelivered(file) /\ NewsDelivered(st) /\ NewsDelivered(file)

\* An item is posted again only for an answer that was lost or a process that ended, which is
\* all that `doubts` counts: refused sends, any number of failed saves, writes that are
\* disabled and a full batch do not repeat what the channel has got.
RepeatsAreExplained ==
  /\ \A b \in Bugs : posts[b] <= 1 + doubts
  /\ \A n \in 1..MaxNews : newsPosts[n] <= 1 + doubts

\* The tracked messages stay within their limit, and a full list never gives up an open bug
\* while it holds a resolved one.
RoomForOpenBugs ==
  [][/\ Cardinality(Tracked(st')) <= MaxTracked
     /\ PostNextBug =>
          \A b \in Tracked(st) \ Tracked(st') : b \in ResolvedIn(st) \/ ResolvedIn(st) = {}]_vars

-----------------------------------------------------------------------------
(* What the repository says of this code and the code does not do *)

\* feed.go: a tracked bug whose state key is the fetched one is passed over, as "nothing visible
\* changed".
NothingVisibleChanged == [][\A b \in Bugs : KeepBug(b) => shown[b] = poll.byID[b]]_vars

\* feed.md: an unreadable file "does not latch writes off", the feed "calls Write again every
\* cycle"; so after a poll the file holds the state, unless the write failed.
EveryCycleWrites == [][SaveFeedState => file' = st \/ faults' > faults]_vars

=============================================================================
