----------------------------- MODULE Feed_proofs -----------------------------
(***************************************************************************)
(* The feed neither loses nor repeats an item, for any number of bugs,     *)
(* filters, pages and limits.                                              *)
(*                                                                         *)
(* A batch lists everything up to its newest bug (BatchInv), so that the   *)
(* bugs the cursor jumps over are no longer listed; a page reaches to the  *)
(* newest item (PageInv), so that a baseline never moves the news cursor   *)
(* back.  An item above the cursor was posted only for a doubt, one below  *)
(* it once more (RepeatInv).                                               *)
(***************************************************************************)
EXTENDS Feed, FiniteSetTheorems, WellFoundedInduction, TLAPS

Seen == Statuses \cup {"unfiled"}      \* what a fetch can show of a bug
InBatch(b) == poll.batch[b] # "unfiled"

\* Bugs are filed one after the other, and no cursor is ahead of them.
FiledInv ==
  /\ \A b, c \in Bugs : c <= b /\ b \in Filed => c \in Filed
  /\ \A b \in Bugs : b <= st.last \/ b <= file.last => b \in Filed

NewsInv == published \in 1..MaxNews /\ st.news <= published /\ file.news <= published

\* A first batch is the newest bug; a later one leaves out nothing before its newest bug.
BatchInv ==
  poll.at = "bugs" =>
    /\ \A b \in Bugs : InBatch(b) => b \in Listed
    /\ \A b \in Bugs, c \in Listed :
         InBatch(b) => IF st.last = 0 THEN c <= b ELSE c <= st.last \/ b <= c \/ InBatch(c)

PageInv ==
  poll.at \in {"bugs", "news"} =>
    poll.page = {} \/ poll.page = {n \in 1..published : n + NewsWindow > published}

PollInv ==
  /\ poll.batch \in [Bugs -> Seen] /\ poll.byID \in [Bugs -> Seen]
  /\ poll.todo \subseteq (IF poll.at = "refresh" THEN Tracked(st) ELSE {})
  /\ BatchInv /\ PageInv

\* Above the cursor only a doubt posts an item; below it the item was posted once more.
RepeatInv ==
  /\ \A b \in Bugs : posts[b] <= doubts + (IF b <= st.last THEN 1 ELSE 0)
  /\ \A n \in 1..MaxNews : newsPosts[n] <= doubts + (IF n <= st.news THEN 1 ELSE 0)

RoomInv == Cardinality(Tracked(st)) <= MaxTracked /\ Cardinality(Tracked(file)) <= MaxTracked

IInv == TypeOK /\ FiledInv /\ NewsInv /\ PollInv /\ CursorCovers /\ RepeatInv /\ RoomInv
Polls == [at : {"idle", "bugs", "news", "refresh", "save"}, batch : [Bugs -> Listings],
          page : SUBSET (1..MaxNews), byID : [Bugs -> Listings], ok : BOOLEAN,
          todo : SUBSET Bugs, edits : Nat]

-----------------------------------------------------------------------------
(* The first and the last of a set of numbers *)

LEMMA LeastNat == ASSUME NEW T \in SUBSET Nat, T # {} PROVE \E x \in T : \A y \in T : x <= y
<1> DEFINE R == OpToRel(<, Nat)
<1>1. IsWellFoundedOn(R, Nat)
  BY NatLessThanWellFounded, Zenon
<1>2. \A x, y \in Nat : <<y, x>> \notin R => x <= y
  BY DEF OpToRel
<1> HIDE DEF R
<1>3. PICK x \in T : \A y \in T : ~(<<y, x>> \in R)
  BY <1>1, WFMin
<1> QED
  BY <1>2, <1>3

LEMMA GreatestNat ==
  ASSUME NEW N \in Nat, NEW T \in SUBSET (1..N), T # {} PROVE \E x \in T : \A y \in T : y <= x
<1> DEFINE U == {n \in 0..N : N - n \in T}
<1>1. U \in SUBSET Nat
  OBVIOUS
<1>2. \A y \in T : N - y \in U /\ y \in 1..N
  OBVIOUS
<1>3. \A u \in U : N - u \in T /\ u \in 0..N
  OBVIOUS
<1> HIDE DEF U
<1>4. PICK u \in U : \A v \in U : u <= v
  BY <1>1, <1>2, LeastNat
<1> QED
  BY <1>2, <1>3, <1>4

LEMMA FirstOf ==
  ASSUME NEW T \in SUBSET Nat, T # {} PROVE Oldest(T) \in T /\ \A y \in T : Oldest(T) <= y
BY LeastNat DEF Oldest

LEMMA LastOf ==
  ASSUME NEW N \in Nat, NEW T \in SUBSET (1..N), T # {}
  PROVE  Newest(T) \in T /\ \A y \in T : y <= Newest(T)
BY GreatestNat DEF Newest

-----------------------------------------------------------------------------
(* Bugzilla and the news page *)

LEMMA Types ==
  ASSUME IInv
  PROVE  /\ st \in States /\ file \in States /\ poll \in Polls
         /\ st.last \in Nat /\ file.last \in Nat /\ st.news \in Nat /\ file.news \in Nat
         /\ published \in Nat /\ doubts \in Nat /\ MaxBug \in Nat /\ MaxNews \in Nat
         /\ Bugs \subseteq Nat /\ Bugs = 1..MaxBug
BY SizeAssumption DEF IInv, TypeOK, States, Polls, Bugs

\* The filed bugs are numbered without gaps.
LEMMA Filing ==
  ASSUME IInv PROVE \E n \in 0..MaxBug : Filed = 1..n /\ Cardinality(Filed) = n
<1>1. CASE Filed = {}
  BY <1>1, FS_EmptySet, Types
<1>2. CASE Filed # {}
  <2>1. Filed \in SUBSET (1..MaxBug)
    BY DEF Filed, Bugs
  <2>2. PICK n \in Filed : \A b \in Filed : b <= n
    BY <1>2, <2>1, GreatestNat, Types
  <2>3. n \in 1..MaxBug /\ \A b \in 1..n : b \in Filed
    BY <2>1, <2>2, Types DEF IInv, FiledInv
  <2>4. Filed = 1..n
    <3>1. \A b \in Filed : b \in 1..MaxBug /\ b <= n
      BY <2>1, <2>2
    <3>2. \A b \in 1..MaxBug : b <= n => b \in 1..n
      BY <2>3, Types
    <3> QED
      BY <2>3, <3>1, <3>2
  <2>5. Cardinality(1..n) = n
    BY <2>3, FS_Interval, Types
  <2> QED
    BY <2>3, <2>4, <2>5
<1> QED
  BY <1>1, <1>2

\* What is delivered stays delivered while a bug keeps being filed and what is gone is gone.
LEMMA UpstreamKeeps ==
  ASSUME IInv, poll.at = "idle", UNCHANGED <<on, matching, st, storage, poll, channel, base, doubts>>,
         bug' \in [Bugs -> Listings], published' \in 1..MaxNews, published' >= published,
         changes' \in Nat, FiledInv',
         \A b \in Bugs : bug[b] = "gone" => bug'[b] = "gone"
  PROVE  IInv'
<1>1. TypeOK'
  <2>1. published' \in Nat
    BY Types
  <2> QED
    BY <2>1 DEF IInv, TypeOK, storage, channel
<1>2. NewsInv'
  BY Types DEF IInv, NewsInv, storage
<1>3. PollInv'
  BY DEF IInv, PollInv, BatchInv, PageInv, Tracked
<1>4. CursorCovers'
  BY DEF IInv, CursorCovers, BugsDelivered, NewsDelivered, channel, storage
<1>5. RepeatInv' /\ RoomInv'
  BY DEF IInv, RepeatInv, RoomInv, Tracked, channel, storage
<1> QED
  BY <1>1, <1>2, <1>3, <1>4, <1>5 DEF IInv

LEMMA FileBugKeeps == ASSUME IInv, FileBug PROVE IInv'
<1>1. PICK n \in 0..MaxBug : Filed = 1..n /\ Cardinality(Filed) = n
  BY Filing
<1>2. PICK s \in BornAs : bug' = [bug EXCEPT ![n + 1] = s]
  BY <1>1 DEF FileBug
<1>3. /\ poll.at = "idle" /\ n < MaxBug
      /\ UNCHANGED <<on, matching, published, changes, st, storage, poll, channel, base, doubts>>
  BY <1>1 DEF FileBug, Between
<1>4. s \in Statuses /\ n + 1 \in Bugs
  BY <1>1, <1>3, BornAssumption, Types DEF Statuses
<1>5. /\ bug' \in [Bugs -> Listings]
      /\ \A b \in Bugs : bug'[b] = IF b = n + 1 THEN s ELSE bug[b]
  BY <1>2, <1>4 DEF IInv, TypeOK, Listings
<1>6. bug[n + 1] = "unfiled"
  BY <1>1, <1>4, Types DEF Filed
<1>7. Filed' = 1..(n + 1)
  <2>1. \A b \in Bugs : b \in Filed' <=> b = n + 1 \/ b \in 1..n
    BY <1>1, <1>4, <1>5 DEF Filed, Statuses, Open
  <2> QED
    BY <1>1, <1>3, <2>1, Types DEF Filed
<1>8. FiledInv'
  BY <1>1, <1>3, <1>7, Types DEF IInv, FiledInv, storage
<1>9. published' \in 1..MaxNews /\ published' >= published /\ changes' \in Nat
  BY <1>3, Types DEF IInv, NewsInv, TypeOK
<1> QED
  BY <1>3, <1>5, <1>6, <1>8, <1>9, UpstreamKeeps

LEMMA ChangeBugKeeps == ASSUME IInv, ChangeBug PROVE IInv'
<1>1. PICK b \in Listed, s \in Statuses \cup {"gone"} : bug' = [bug EXCEPT ![b] = s]
  BY DEF ChangeBug
<1>2. /\ poll.at = "idle" /\ changes' = changes + 1
      /\ UNCHANGED <<on, matching, published, st, storage, poll, channel, base, doubts>>
  BY DEF ChangeBug, Between
<1>3. /\ bug' \in [Bugs -> Listings] /\ b \in Bugs /\ bug[b] \in Statuses
      /\ \A c \in Bugs : bug'[c] = IF c = b THEN s ELSE bug[c]
  BY <1>1 DEF IInv, TypeOK, Listings, Listed
<1>4. Filed' = Filed /\ \A c \in Bugs : bug[c] = "gone" => bug'[c] = "gone"
  BY <1>1, <1>3 DEF Filed, Statuses, Open
<1>5. FiledInv'
  BY <1>2, <1>4 DEF IInv, FiledInv, storage
<1>6. published' \in 1..MaxNews /\ published' >= published /\ changes' \in Nat
  BY <1>2, Types DEF IInv, NewsInv, TypeOK
<1> QED
  BY <1>2, <1>3, <1>4, <1>5, <1>6, UpstreamKeeps

LEMMA PublishNewsKeeps == ASSUME IInv, PublishNews PROVE IInv'
<1>1. /\ poll.at = "idle" /\ published < MaxNews /\ published' = published + 1
      /\ UNCHANGED <<on, matching, bug, changes, st, storage, poll, channel, base, doubts>>
  BY DEF PublishNews, Between
<1>2. FiledInv'
  BY <1>1 DEF IInv, FiledInv, Filed, storage
<1>3. /\ published' \in 1..MaxNews /\ published' >= published /\ changes' \in Nat
      /\ bug' \in [Bugs -> Listings]
  BY <1>1, Types DEF IInv, NewsInv, TypeOK
<1> QED
  BY <1>1, <1>2, <1>3, UpstreamKeeps

-----------------------------------------------------------------------------
(* The stages of a poll *)

\* Only the poll moves on.
LEMMA PollKeeps ==
  ASSUME IInv, UNCHANGED <<upstream, st, storage, channel, base, doubts>>, poll' \in Polls, PollInv'
  PROVE  IInv'
<1>1. TypeOK'
  BY DEF IInv, TypeOK, Polls, upstream, storage, channel
<1>2. FiledInv' /\ NewsInv' /\ RoomInv'
  BY DEF IInv, FiledInv, NewsInv, RoomInv, Filed, Tracked, upstream, storage
<1>3. CursorCovers' /\ RepeatInv'
  BY DEF IInv, CursorCovers, BugsDelivered, NewsDelivered, RepeatInv, upstream, channel, storage
<1> QED
  BY <1>1, <1>2, <1>3 DEF IInv

LEMMA TrackedAreBugs == Tracked(st) \subseteq Bugs
BY DEF Tracked

\* A fetch above the cursor leaves out no listed bug before one it returns.
LEMMA RecentBelow ==
  ASSUME IInv, NEW b \in Recent(st.last)
  PROVE  /\ b \in Listed
         /\ \A c \in Listed : IF st.last = 0 THEN c <= b ELSE c <= st.last \/ b <= c \/ c \in Recent(st.last)
<1> DEFINE above == {c \in Listed : c > st.last}
<1>0. Listed \subseteq Bugs /\ Listed \in SUBSET (1..MaxBug) /\ Listed \subseteq Nat
  BY Types DEF Listed, Bugs
<1>1. CASE st.last = 0
  <2>1. above = Listed
    <3>1. \A c \in Listed : c > st.last
      BY <1>0, <1>1, Types
    <3> QED
      BY <3>1
  <2>2. above # {} /\ b = Newest(above)
    BY <1>1 DEF Recent
  <2>3. b \in above /\ \A c \in above : c <= b
    BY <1>0, <2>1, <2>2, LastOf, Types
  <2> QED
    BY <1>1, <2>1, <2>3
<1>2. CASE st.last # 0
  <2>1. Recent(st.last) = {c \in above : Cardinality({d \in above : d < c}) < FetchLimit}
    BY <1>2 DEF Recent
  <2>2. ASSUME NEW c \in Listed, c > st.last, c < b PROVE c \in Recent(st.last)
    <3>1. b \in above /\ c \in above
      BY <2>1, <2>2
    <3> DEFINE before(x) == {d \in above : d < x}
    <3>2. before(c) \subseteq before(b)
      <4>1. b \in Nat /\ c \in Nat /\ above \subseteq Nat
        BY <1>0, <3>1
      <4>2. \A d \in above : d < c => d < b
        BY <2>2, <4>1
      <4> QED
        BY <4>2
    <3>3. IsFiniteSet(1..MaxBug)
      BY FS_Interval, Types
    <3>4. before(b) \subseteq 1..MaxBug
      BY <1>0
    <3>5. IsFiniteSet(before(b))
      BY <3>3, <3>4, FS_Subset
    <3>6. /\ Cardinality(before(c)) <= Cardinality(before(b))
          /\ Cardinality(before(c)) \in Nat /\ Cardinality(before(b)) \in Nat
      BY <3>2, <3>5, FS_Subset, FS_CardinalityType
    <3>7. Cardinality(before(b)) < FetchLimit /\ FetchLimit \in Nat
      BY <2>1, LimitAssumption
    <3>8. Cardinality(before(c)) < FetchLimit
      BY <3>6, <3>7
    <3> QED
      BY <2>1, <3>1, <3>8
  <2>3. b \in Listed /\ b \in Nat
    BY <1>0, <2>1
  <2> QED
    BY <1>0, <1>2, <2>2, <2>3, Types
<1> QED
  BY <1>1, <1>2

LEMMA PollAllKeeps == ASSUME IInv, PollAll PROVE IInv'
<1>1. PICK fetched \in {{}, Recent(st.last)}, page \in {{}, NewsPage}, got \in SUBSET Tracked(st) :
        poll' = [at |-> "bugs",
                 batch |-> [b \in Bugs |-> IF b \in fetched THEN bug[b] ELSE "unfiled"],
                 page |-> page, byID |-> FetchBugsByID(got),
                 ok |-> got # {} /\ got = Tracked(st), todo |-> {}, edits |-> 0]
  BY DEF PollAll
<1>2. UNCHANGED <<upstream, st, storage, channel, base, doubts>>
  BY DEF PollAll
<1>3. \A b \in fetched : /\ b \in Listed
                         /\ \A c \in Listed : IF st.last = 0 THEN c <= b
                                              ELSE c <= st.last \/ b <= c \/ c \in fetched
  <2>1. CASE fetched = {}
    BY <2>1
  <2>2. CASE fetched = Recent(st.last)
    BY <2>2, RecentBelow
  <2> QED
    BY <1>1, <2>1, <2>2
<1> DEFINE batch == [b \in Bugs |-> IF b \in fetched THEN bug[b] ELSE "unfiled"]
           ok == got # {} /\ got = Tracked(st)
<1>4. batch \in [Bugs -> Seen] /\ \A b \in Bugs : batch[b] # "unfiled" <=> b \in fetched
  BY <1>3 DEF Seen, Listed, Statuses, Open
<1>5. FetchBugsByID(got) \in [Bugs -> Seen]
  BY DEF FetchBugsByID, Seen, Listed
<1>6. page = {} \/ page = {n \in 1..published : n + NewsWindow > published}
  BY <1>1 DEF NewsPage
<1>7. page \in SUBSET (1..MaxNews)
  BY <1>6, Types DEF IInv, NewsInv
<1>8. ok \in BOOLEAN
  OBVIOUS
<1> HIDE DEF batch, ok
<1>9. /\ poll'.at = "bugs" /\ poll'.batch = batch /\ poll'.page = page /\ poll'.todo = {}
      /\ poll'.byID = FetchBugsByID(got) /\ poll'.ok = ok /\ poll'.edits = 0
  BY <1>1 DEF batch, ok
<1>10. poll' \in Polls
  <2>1. batch \in [Bugs -> Listings] /\ FetchBugsByID(got) \in [Bugs -> Listings]
    BY <1>4, <1>5 DEF Seen, Listings
  <2> QED
    BY <1>1, <1>7, <1>8, <2>1 DEF Polls, batch, ok
<1>11. BatchInv'
  <2>1. Listed' = Listed /\ st' = st /\ \A b \in Bugs : InBatch(b)' <=> b \in fetched
    BY <1>2, <1>4, <1>9 DEF Listed, InBatch, upstream
  <2>2. fetched \subseteq Bugs /\ Listed \subseteq Bugs
    BY <1>3 DEF Listed
  <2> QED
    BY <1>3, <2>1, <2>2 DEF BatchInv
<1>12. PageInv'
  BY <1>2, <1>6, <1>9 DEF PageInv, upstream
<1>13. PollInv'
  BY <1>4, <1>5, <1>9, <1>11, <1>12 DEF PollInv
<1> QED
  BY <1>2, <1>10, <1>13, PollKeeps

\* The poll goes to its next stage.
LEMMA ToNewsKeeps ==
  ASSUME IInv, poll.at = "bugs", ToNews
  PROVE  /\ poll' \in Polls /\ poll'.at = "news" /\ poll'.page = poll.page
         /\ UNCHANGED published => BatchInv' /\ PageInv'
         /\ poll'.batch \in [Bugs -> Seen] /\ poll'.byID \in [Bugs -> Seen] /\ poll'.todo = poll.todo
<1>1. poll \in Polls /\ Unfetched \in [Bugs -> Seen] /\ Unfetched \in [Bugs -> Listings]
  BY Types DEF Unfetched, Seen, Listings
<1>2. /\ poll' \in Polls /\ poll'.at = "news" /\ poll'.page = poll.page /\ poll'.todo = poll.todo
      /\ poll'.batch = Unfetched /\ poll'.byID = poll.byID
  BY <1>1 DEF ToNews, Polls
<1> QED
  BY <1>1, <1>2 DEF IInv, PollInv, BatchInv, PageInv

LEMMA StartRefreshKeeps ==
  ASSUME IInv, StartRefresh, st'.tracked = st.tracked
  PROVE  poll' \in Polls /\ PollInv'
<1>1. poll \in Polls /\ Tracked(st) \subseteq Bugs /\ Tracked(st') = Tracked(st)
  BY Types DEF Tracked
<1>2. /\ poll' \in Polls /\ poll'.at = "refresh" /\ poll'.todo = Tracked(st)
      /\ poll'.batch = poll.batch /\ poll'.byID = poll.byID
  BY <1>1 DEF StartRefresh, Polls
<1> QED
  BY <1>1, <1>2 DEF IInv, PollInv, BatchInv, PageInv

LEMMA IdlePollFits ==
  ASSUME poll' = IdlePoll \/ EndRefresh
  PROVE  poll' \in Polls /\ PollInv'
<1>1. Unfetched \in [Bugs -> Seen] /\ Unfetched \in [Bugs -> Listings]
  BY DEF Unfetched, Seen, Listings
<1>2. /\ poll' \in Polls /\ poll'.at \in {"idle", "save"} /\ poll'.todo = {}
      /\ poll'.batch = Unfetched /\ poll'.byID = Unfetched
  <2>1. IdlePoll \in Polls
    BY <1>1 DEF IdlePoll, Polls
  <2>2. CASE poll' = IdlePoll
    BY <2>1, <2>2 DEF IdlePoll
  <2>3. CASE EndRefresh
    <3>1. /\ poll' \in Polls /\ poll'.at = "save" /\ poll'.todo = IdlePoll.todo
          /\ poll'.batch = IdlePoll.batch /\ poll'.byID = IdlePoll.byID
      BY <2>1, <2>3 DEF EndRefresh, Polls
    <3> QED
      BY <3>1 DEF IdlePoll
  <2> QED
    BY <2>2, <2>3
<1> QED
  BY <1>1, <1>2 DEF PollInv, BatchInv, PageInv

LEMMA StagesKeep == ASSUME IInv, BugsDone \/ NewsDone \/ RefreshDone PROVE IInv'
<1>1. UNCHANGED <<upstream, st, storage, channel, base, doubts>>
  BY DEF BugsDone, NewsDone, RefreshDone
<1>2. CASE BugsDone
  <2>1. poll' \in Polls /\ PollInv'
    BY <1>1, <1>2, ToNewsKeeps DEF BugsDone, IInv, PollInv, Tracked, upstream
  <2> QED
    BY <1>1, <2>1, PollKeeps
<1>3. CASE NewsDone
  BY <1>1, <1>3, StartRefreshKeeps, PollKeeps DEF NewsDone
<1>4. CASE RefreshDone
  BY <1>1, <1>4, IdlePollFits, PollKeeps DEF RefreshDone
<1> QED
  BY <1>2, <1>3, <1>4

-----------------------------------------------------------------------------
(* The tracked messages *)

LEMMA TrackedSet ==
  ASSUME NEW s \in States
  PROVE  /\ Tracked(s) \subseteq Bugs /\ IsFiniteSet(Tracked(s)) /\ Cardinality(Tracked(s)) \in Nat
         /\ Tracked(s) \subseteq Nat /\ ResolvedIn(s) \subseteq Tracked(s)
         /\ \A b \in Tracked(s) : s.tracked[b] \in TrackedBugs
<1>1. Tracked(s) \subseteq Bugs /\ ResolvedIn(s) \subseteq Tracked(s)
  BY DEF Tracked, ResolvedIn
<1>2. IsFiniteSet(Bugs) /\ Bugs \subseteq Nat
  BY FS_Interval, SizeAssumption DEF Bugs
<1>3. \A b \in Tracked(s) : s.tracked[b] \in TrackedBugs
  BY DEF Tracked, States
<1> QED
  BY <1>1, <1>2, <1>3, FS_Subset, FS_CardinalityType

LEMMA NotUntracked == \A rec \in TrackedBugs : rec # Untracked
BY DEF TrackedBugs, Untracked, Statuses, Open

\* evictOne makes room by giving up one message, that of a resolved bug if there is one.
LEMMA Eviction ==
  ASSUME NEW s \in States, Cardinality(Tracked(s)) <= MaxTracked
  PROVE  /\ Evict(s) \in States /\ Evict(s).last = s.last /\ Evict(s).news = s.news
         /\ Tracked(Evict(s)) \subseteq Tracked(s)
         /\ Cardinality(Tracked(Evict(s))) + 1 <= MaxTracked
         /\ \A b \in Tracked(s) \ Tracked(Evict(s)) : b \in ResolvedIn(s) \/ ResolvedIn(s) = {}
<1>1. Cardinality(Tracked(s)) \in Nat /\ MaxTracked \in Nat \ {0} /\ IsFiniteSet(Tracked(s))
  BY TrackedSet, LimitAssumption
<1>2. CASE Cardinality(Tracked(s)) < MaxTracked
  BY <1>1, <1>2 DEF Evict
<1>3. CASE ~(Cardinality(Tracked(s)) < MaxTracked)
  <2> DEFINE e == Evicted(s)
             t == [s EXCEPT !.tracked[e] = Untracked]
  <2>1. Tracked(s) # {}
    BY <1>1, <1>3, FS_EmptySet
  <2>2. e \in Tracked(s) /\ (e \in ResolvedIn(s) \/ ResolvedIn(s) = {})
    BY <2>1, TrackedSet, FirstOf DEF Evicted
  <2>3. Evict(s) = t
    BY <1>3 DEF Evict
  <2> HIDE DEF e
  <2>4. t \in States /\ t.last = s.last /\ t.news = s.news
        /\ \A b \in Bugs : t.tracked[b] = IF b = e THEN Untracked ELSE s.tracked[b]
    BY <2>2 DEF States, Tracked
  <2> HIDE DEF t
  <2>5. Tracked(t) = Tracked(s) \ {e}
    BY <2>4 DEF Tracked
  <2>6. Cardinality(Tracked(t)) = Cardinality(Tracked(s)) - 1
    BY <1>1, <2>2, <2>5, FS_RemoveElement
  <2> QED
    BY <1>1, <1>3, <2>2, <2>3, <2>4, <2>5, <2>6
<1> QED
  BY <1>2, <1>3

LEMMA Tracking ==
  ASSUME NEW s \in States, Cardinality(Tracked(s)) <= MaxTracked,
         NEW b \in Bugs, NEW state \in Statuses
  PROVE  LET t == TrackBug(s, b, state) IN
         /\ t \in States /\ t.last = s.last /\ t.news = s.news
         /\ Cardinality(Tracked(t)) <= MaxTracked
         /\ \A c \in Tracked(s) \ Tracked(t) : c \in ResolvedIn(s) \/ ResolvedIn(s) = {}
<1> DEFINE e == Evict(s)
           rec == [state |-> state, misses |-> 0, editFails |-> 0, tries |-> 0]
           t == [e EXCEPT !.tracked[b] = rec]
<1>1. /\ e \in States /\ e.last = s.last /\ e.news = s.news /\ Tracked(e) \subseteq Tracked(s)
      /\ Cardinality(Tracked(e)) + 1 <= MaxTracked
      /\ \A c \in Tracked(s) \ Tracked(e) : c \in ResolvedIn(s) \/ ResolvedIn(s) = {}
  BY Eviction
<1>2. TrackBug(s, b, state) = t
  BY DEF TrackBug
<1> HIDE DEF e
<1>3. rec \in TrackedBugs /\ rec # Untracked
  <2>1. rec \in TrackedBugs
    BY DEF TrackedBugs
  <2> QED
    BY <2>1, NotUntracked
<1> HIDE DEF rec
<1>4. /\ t \in States /\ t.last = e.last /\ t.news = e.news
      /\ \A c \in Bugs : t.tracked[c] = IF c = b THEN rec ELSE e.tracked[c]
  BY <1>1, <1>3 DEF States
<1> HIDE DEF t
<1>5. Tracked(t) = Tracked(e) \cup {b}
  BY <1>3, <1>4 DEF Tracked
<1>6. IsFiniteSet(Tracked(e)) /\ Cardinality(Tracked(e)) \in Nat /\ MaxTracked \in Nat
  BY <1>1, TrackedSet, LimitAssumption
<1>7. \/ Cardinality(Tracked(t)) = Cardinality(Tracked(e))
      \/ Cardinality(Tracked(t)) = Cardinality(Tracked(e)) + 1
  BY <1>5, <1>6, FS_AddElement
<1> QED
  BY <1>1, <1>2, <1>4, <1>5, <1>6, <1>7

-----------------------------------------------------------------------------
(* Posting bugs *)

LEMMA RemainingIsListed ==
  ASSUME IInv, poll.at = "bugs"
  PROVE  /\ Remaining \in SUBSET (1..MaxBug) /\ Remaining \subseteq Nat
         /\ Remaining \subseteq Bugs /\ Remaining \subseteq Listed
BY Types DEF Remaining, IInv, PollInv, BatchInv, InBatch

\* What lies between the cursor and the next bug to post has gone from Bugzilla.
LEMMA SkippedAreGone ==
  ASSUME IInv, poll.at = "bugs", st.last # 0, Remaining # {}
  PROVE  LET b == Oldest(Remaining) IN
         /\ b \in Bugs /\ b \in Listed /\ st.last < b /\ poll.batch[b] \in Statuses
         /\ \A c \in Bugs : st.last < c /\ c < b => bug[c] = "gone"
<1> DEFINE b == Oldest(Remaining)
<1>1. b \in Remaining /\ \A c \in Remaining : b <= c
  BY RemainingIsListed, FirstOf
<1> HIDE DEF b
<1>2. b \in Bugs /\ b \in Listed /\ st.last < b /\ InBatch(b)
  BY <1>1, RemainingIsListed, Types DEF Remaining, InBatch
<1>3. poll.batch[b] \in Statuses
  BY <1>2 DEF IInv, PollInv, Seen, InBatch
<1>4. ASSUME NEW c \in Bugs, st.last < c, c < b PROVE bug[c] = "gone"
  <2>1. c \notin Listed
    <3> SUFFICES ASSUME c \in Listed PROVE FALSE
      OBVIOUS
    <3>1. c <= st.last \/ b <= c \/ InBatch(c)
      BY <1>2 DEF IInv, PollInv, BatchInv
    <3>2. InBatch(c)
      BY <1>2, <1>4, <3>1, Types
    <3>3. c \in Remaining
      BY <1>4, <3>2 DEF Remaining, InBatch
    <3> QED
      BY <1>1, <1>2, <1>4, <3>3, Types
  <2>2. c \in Filed
    <3>1. b \in Filed
      BY <1>2 DEF Listed, Filed, Statuses, Open
    <3> QED
      BY <1>2, <1>4, <3>1, Types DEF IInv, FiledInv
  <2> QED
    BY <2>1, <2>2 DEF Listed, Filed, IInv, TypeOK, Listings
<1> QED
  BY <1>2, <1>3, <1>4 DEF b

\* The cursor moves to the next bug, which the channel has got or will never get.
LEMMA CursorAdvances ==
  ASSUME IInv, poll.at = "bugs", st.last # 0, Remaining # {},
         NEW b, b = Oldest(Remaining),
         st' \in States, st'.last = b, st'.news = st.news, Cardinality(Tracked(st')) <= MaxTracked,
         UNCHANGED <<upstream, storage, poll, newsPosts, base, doubts>>,
         posts' = posts \/ posts' = [posts EXCEPT ![b] = @ + 1],
         shown' \in [Bugs -> Listings],
         rejected' \in [bugs : SUBSET Bugs, news : SUBSET (1..MaxNews)],
         rejected.bugs \subseteq rejected'.bugs, rejected'.news = rejected.news,
         posts'[b] > 0 \/ b \notin matching \/ b \in rejected'.bugs
  PROVE  IInv'
<1>1. /\ b \in Bugs /\ b \in Listed /\ st.last < b
      /\ \A c \in Bugs : st.last < c /\ c < b => bug[c] = "gone"
  BY SkippedAreGone
<1>2. /\ posts' \in [Bugs -> Nat] /\ posts \in [Bugs -> Nat]
      /\ \A c \in Bugs : posts'[c] >= posts[c] /\ (posts'[c] = posts[c] \/ (c = b /\ posts'[c] = posts[c] + 1))
  BY <1>1 DEF IInv, TypeOK
<1>3. TypeOK'
  BY <1>2 DEF IInv, TypeOK, upstream, storage
<1>4. FiledInv'
  <2>1. b \in Filed /\ b <= MaxBug
    BY <1>1, Types DEF Listed, Filed, Statuses, Open
  <2>2. \A c \in Bugs : c <= b => c \in Filed
    BY <1>1, <2>1 DEF IInv, FiledInv
  <2> QED
    BY <2>1, <2>2 DEF IInv, FiledInv, Filed, upstream, storage
<1>5. NewsInv' /\ PageInv'
  BY DEF IInv, NewsInv, PollInv, PageInv, upstream, storage
<1>6. BatchInv'
  <2>1. b # 0 /\ \A c \in Bugs : c <= st.last => c <= b
    BY <1>1, Types
  <2> QED
    BY <2>1, <1>1, Types DEF IInv, PollInv, BatchInv, InBatch, Listed, upstream
<1>7. PollInv'
  BY <1>5, <1>6 DEF IInv, PollInv
<1>8. BugsDelivered(st)'
  <2> SUFFICES ASSUME NEW c \in Bugs, base.bugs < c, c <= b
               PROVE posts'[c] > 0 \/ c \notin matching \/ c \in rejected'.bugs \/ bug[c] = "gone"
    BY DEF BugsDelivered, upstream
  <2>1. CASE c <= st.last
    BY <1>2, <2>1 DEF IInv, CursorCovers, BugsDelivered
  <2>2. CASE st.last < c /\ c < b
    BY <1>1, <2>2
  <2> QED
    BY <1>1, <2>1, <2>2, Types
<1>9. BugsDelivered(file)'
  BY <1>2 DEF IInv, CursorCovers, BugsDelivered, upstream, storage
<1>10. CursorCovers'
  BY <1>8, <1>9 DEF IInv, CursorCovers, NewsDelivered, storage
<1>11. RepeatInv'
  <2>1. ASSUME NEW c \in Bugs PROVE posts'[c] <= doubts + (IF c <= b THEN 1 ELSE 0)
    <3>1. /\ posts[c] <= doubts + (IF c <= st.last THEN 1 ELSE 0)
          /\ posts'[c] = posts[c] \/ (c = b /\ posts'[c] = posts[c] + 1)
      BY <1>2 DEF IInv, RepeatInv
    <3>2. /\ posts[c] \in Nat /\ b \in Nat /\ c \in Nat /\ st.last \in Nat /\ doubts \in Nat
          /\ st.last < b
      BY <1>1, <1>2, Types
    <3> QED
      BY <3>1, <3>2
  <2> QED
    BY <2>1 DEF IInv, RepeatInv
<1>12. RoomInv'
  BY DEF IInv, RoomInv, storage
<1> QED
  BY <1>3, <1>4, <1>5, <1>7, <1>10, <1>11, <1>12 DEF IInv

LEMMA PostNextBugKeeps == ASSUME IInv, PostNextBug PROVE IInv'
<1> DEFINE b == Oldest(Remaining)
<1>1. /\ poll.at = "bugs" /\ st.last # 0 /\ Remaining # {}
      /\ UNCHANGED <<upstream, storage, newsPosts, base>>
  BY DEF PostNextBug
<1>2. b \in Bugs /\ b \in Listed /\ st.last < b /\ poll.batch[b] \in Statuses
  BY <1>1, SkippedAreGone
<1>3. PICK n : n = b
  OBVIOUS
<1>4. /\ Advance(st, b) \in States /\ Advance(st, b).last = n /\ Advance(st, b).news = st.news
      /\ Tracked(Advance(st, b)) = Tracked(st)
  BY <1>2, <1>3, Types DEF Advance, States, Tracked
<1>5. Cardinality(Tracked(st)) <= MaxTracked
  BY DEF IInv, RoomInv
<1>6. /\ rejected \in [bugs : SUBSET Bugs, news : SUBSET (1..MaxNews)]
      /\ shown \in [Bugs -> Listings] /\ posts \in [Bugs -> Nat]
  BY DEF IInv, TypeOK
<1>7. CASE b \notin matching /\ st' = Advance(st, b) /\ UNCHANGED <<poll, posts, shown, rejected, doubts>>
  BY <1>1, <1>3, <1>4, <1>5, <1>6, <1>7, CursorAdvances
<1>8. CASE /\ st' = TrackBug(Advance(st, b), b, poll.batch[b]) /\ PostBug(b)
           /\ UNCHANGED <<poll, rejected, doubts>>
  <2>1. /\ st' \in States /\ st'.last = n /\ st'.news = st.news
        /\ Cardinality(Tracked(st')) <= MaxTracked
    BY <1>2, <1>4, <1>5, <1>8, Tracking
  <2>2. posts' = [posts EXCEPT ![n] = @ + 1] /\ posts'[n] > 0
    BY <1>2, <1>3, <1>6, <1>8 DEF PostBug
  <2>3. shown' \in [Bugs -> Listings]
    BY <1>2, <1>6, <1>8 DEF PostBug, Listings
  <2> QED
    BY <1>1, <1>3, <1>6, <1>8, <2>1, <2>2, <2>3, CursorAdvances
<1>9. CASE /\ st' = Advance(st, b)
           /\ rejected' = [rejected EXCEPT !.bugs = @ \cup {b}]
           /\ UNCHANGED <<poll, posts, shown, doubts>>
  <2>1. /\ rejected' \in [bugs : SUBSET Bugs, news : SUBSET (1..MaxNews)]
        /\ rejected.bugs \subseteq rejected'.bugs /\ rejected'.news = rejected.news
        /\ n \in rejected'.bugs
    BY <1>2, <1>3, <1>6, <1>9
  <2> QED
    BY <1>1, <1>3, <1>4, <1>5, <1>6, <1>9, <2>1, CursorAdvances
<1>10. CASE /\ ToNews /\ UNCHANGED <<st, rejected>>
            /\ \/ UNCHANGED <<posts, shown, doubts>>
               \/ PostBug(b) /\ doubts' = doubts + 1
  <2>1. poll' \in Polls /\ PollInv'
    BY <1>1, <1>10, ToNewsKeeps DEF IInv, PollInv, Tracked, upstream
  <2>2. CASE UNCHANGED <<posts, shown, doubts>>
    BY <1>1, <1>10, <2>1, <2>2, PollKeeps DEF channel
  <2>3. CASE PostBug(b) /\ doubts' = doubts + 1
    <3>1. /\ posts' \in [Bugs -> Nat] /\ shown' \in [Bugs -> Listings]
          /\ \A c \in Bugs : posts'[c] >= posts[c] /\ posts'[c] <= posts[c] + 1
      BY <1>2, <1>6, <2>3 DEF PostBug, Listings
    <3>2. TypeOK'
      <4>1. doubts' \in Nat
        BY <2>3, Types
      <4>2. poll' \in Polls /\ st' = st /\ rejected' = rejected
        BY <1>10, <2>1
      <4> QED
        BY <1>1, <3>1, <4>1, <4>2 DEF IInv, TypeOK, Polls, upstream, storage
    <3>3. FiledInv' /\ NewsInv' /\ RoomInv'
      BY <1>1, <1>10 DEF IInv, FiledInv, NewsInv, RoomInv, Filed, Tracked, upstream, storage
    <3>4. CursorCovers'
      BY <1>1, <1>6, <1>10, <3>1 DEF IInv, CursorCovers, BugsDelivered, NewsDelivered,
            upstream, storage
    <3>5. RepeatInv'
      <4>1. ASSUME NEW c \in Bugs PROVE posts'[c] <= doubts' + (IF c <= st'.last THEN 1 ELSE 0)
        BY <1>6, <1>10, <2>3, <3>1, Types DEF IInv, RepeatInv
      <4>2. ASSUME NEW k \in 1..MaxNews
            PROVE newsPosts'[k] <= doubts' + (IF k <= st'.news THEN 1 ELSE 0)
        <5>1. /\ newsPosts[k] <= doubts + (IF k <= st.news THEN 1 ELSE 0)
              /\ newsPosts[k] \in Nat /\ doubts \in Nat
          BY Types DEF IInv, RepeatInv, TypeOK
        <5> QED
          BY <1>1, <1>10, <2>3, <5>1
      <4> QED
        BY <4>1, <4>2 DEF RepeatInv
    <3> QED
      BY <2>1, <3>2, <3>3, <3>4, <3>5 DEF IInv
  <2> QED
    BY <1>10, <2>2, <2>3
<1> QED
  BY <1>7, <1>8, <1>9, <1>10 DEF PostNextBug

LEMMA BaselineBugsKeeps == ASSUME IInv, BaselineBugs PROVE IInv'
<1> DEFINE b == Newest(Remaining)
<1>1. /\ poll.at = "bugs" /\ st.last = 0 /\ Remaining # {} /\ st' = [st EXCEPT !.last = b]
      /\ base' = [base EXCEPT !.bugs = b] /\ ToNews
      /\ UNCHANGED <<upstream, storage, channel, doubts>>
  BY DEF BaselineBugs
<1>2. b \in Remaining
  BY <1>1, RemainingIsListed, LastOf, Types
<1>3. PICK n : n = b
  OBVIOUS
<1>4. n \in Bugs /\ n \in Listed /\ InBatch(n) /\ n \in Nat
  BY <1>1, <1>2, <1>3, RemainingIsListed DEF Remaining, InBatch
<1>5. \A c \in Bugs : n < c /\ c \in Filed => bug[c] = "gone"
  <2>1. \A c \in Listed : c <= n
    BY <1>1, <1>4 DEF IInv, PollInv, BatchInv
  <2>2. ASSUME NEW c \in Bugs, n < c, c \in Filed PROVE bug[c] = "gone"
    BY <1>4, <2>1, <2>2, Types DEF IInv, TypeOK, Listings, Listed, Filed
  <2> QED
    BY <2>2
<1>6. /\ st' \in States /\ st'.last = n /\ st'.news = st.news /\ Tracked(st') = Tracked(st)
      /\ base' \in [bugs : Nat, news : Nat] /\ base'.bugs = n /\ base'.news = base.news
  BY <1>1, <1>3, <1>4, Types DEF States, Tracked, IInv, TypeOK
<1>7. poll' \in Polls /\ PollInv'
  BY <1>1, <1>6, ToNewsKeeps DEF IInv, PollInv, upstream
<1>8. TypeOK'
  BY <1>1, <1>6, <1>7 DEF IInv, TypeOK, Polls, upstream, storage, channel
<1>9. FiledInv'
  <2>1. n \in Filed /\ n <= MaxBug
    BY <1>4, Types DEF Listed, Filed, Statuses, Open
  <2>2. \A c \in Bugs : c <= n => c \in Filed
    BY <1>4, <2>1 DEF IInv, FiledInv
  <2> QED
    BY <1>1, <1>6, <2>1, <2>2 DEF IInv, FiledInv, Filed, upstream, storage
<1>10. NewsInv' /\ RoomInv'
  BY <1>1, <1>6 DEF IInv, NewsInv, RoomInv, upstream, storage
<1>11. CursorCovers'
  <2>1. BugsDelivered(st)'
    BY <1>4, <1>6, Types DEF BugsDelivered
  <2>2. BugsDelivered(file)'
    <3> SUFFICES ASSUME NEW c \in Bugs, n < c, c <= file.last PROVE bug[c] = "gone"
      BY <1>1, <1>6 DEF BugsDelivered, upstream, storage
    <3> QED
      BY <1>5 DEF IInv, FiledInv
  <2> QED
    BY <1>1, <1>6, <2>1, <2>2 DEF IInv, CursorCovers, NewsDelivered, channel, storage
<1>12. RepeatInv'
  <2>1. ASSUME NEW c \in Bugs PROVE posts'[c] <= doubts' + (IF c <= st'.last THEN 1 ELSE 0)
    <3>1. posts[c] <= doubts /\ posts[c] \in Nat
      <4>1. ~(c <= st.last)
        BY <1>1, Types
      <4> QED
        BY <4>1, Types DEF IInv, RepeatInv, TypeOK
    <3> QED
      BY <1>1, <3>1, Types DEF channel
  <2> QED
    BY <1>1, <1>6, <2>1 DEF IInv, RepeatInv, channel
<1> QED
  BY <1>7, <1>8, <1>9, <1>10, <1>11, <1>12 DEF IInv

-----------------------------------------------------------------------------
(* Posting news *)

LEMMA PageReachesNewest ==
  ASSUME IInv, poll.at = "news", poll.page # {}
  PROVE  /\ poll.page \in SUBSET (1..MaxNews) /\ poll.page \subseteq Nat
         /\ Newest(poll.page) = published /\ published \in 1..MaxNews
         /\ \A n \in 1..published : n \in poll.page <=> n + NewsWindow > published
         /\ \A n \in poll.page : n <= published
<1>1. poll.page = {n \in 1..published : n + NewsWindow > published}
  BY DEF IInv, PollInv, PageInv
<1>2. published \in 1..MaxNews /\ NewsWindow \in Nat \ {0} /\ MaxNews \in Nat
  BY LimitAssumption, Types DEF IInv, NewsInv
<1>3. published \in poll.page /\ \A n \in poll.page : n <= published
  BY <1>1, <1>2
<1>4. poll.page \in SUBSET (1..MaxNews) /\ poll.page \subseteq Nat
  BY <1>1, <1>2
<1>5. Newest(poll.page) = published
  <2>1. Newest(poll.page) \in poll.page /\ \A n \in poll.page : n <= Newest(poll.page)
    BY <1>2, <1>4, LastOf
  <2> QED
    BY <1>2, <1>3, <1>4, <2>1
<1> QED
  BY <1>1, <1>2, <1>3, <1>4, <1>5

LEMMA BaselineNewsKeeps == ASSUME IInv, BaselineNews PROVE IInv'
<1>1. /\ poll.at = "news" /\ poll.page # {} /\ StartRefresh
      /\ st' = [st EXCEPT !.news = published] /\ base' = [base EXCEPT !.news = published]
      /\ UNCHANGED <<upstream, storage, channel, doubts>>
  BY PageReachesNewest DEF BaselineNews
<1>2. published \in 1..MaxNews /\ published \in Nat
  BY Types DEF IInv, NewsInv
<1>3. /\ st' \in States /\ st'.last = st.last /\ st'.news = published /\ st'.tracked = st.tracked
      /\ Tracked(st') = Tracked(st)
      /\ base' \in [bugs : Nat, news : Nat] /\ base'.bugs = base.bugs /\ base'.news = published
  BY <1>1, <1>2, Types DEF States, Tracked, IInv, TypeOK
<1>4. poll' \in Polls /\ PollInv'
  BY <1>1, <1>3, StartRefreshKeeps
<1>5. TypeOK'
  BY <1>1, <1>3, <1>4 DEF IInv, TypeOK, Polls, upstream, storage, channel
<1>6. FiledInv' /\ RoomInv'
  BY <1>1, <1>3 DEF IInv, FiledInv, RoomInv, Filed, upstream, storage
<1>7. NewsInv'
  BY <1>1, <1>3, Types DEF IInv, NewsInv, upstream, storage
<1>8. CursorCovers'
  <2>1. NewsDelivered(st)' /\ NewsDelivered(file)'
    <3> SUFFICES ASSUME NEW n \in 1..MaxNews, published < n, n <= published \/ n <= file.news
                 PROVE FALSE
      BY <1>1, <1>3 DEF NewsDelivered, storage
    <3> QED
      BY Types DEF IInv, NewsInv
  <2>2. BugsDelivered(st)' /\ BugsDelivered(file)'
    BY <1>1, <1>3 DEF IInv, CursorCovers, BugsDelivered, upstream, channel, storage
  <2> QED
    BY <2>1, <2>2 DEF CursorCovers
<1>9. RepeatInv'
  <2>1. ASSUME NEW n \in 1..MaxNews
        PROVE newsPosts'[n] <= doubts' + (IF n <= st'.news THEN 1 ELSE 0)
    <3>1. /\ newsPosts[n] <= doubts + (IF n <= st.news THEN 1 ELSE 0)
          /\ newsPosts[n] \in Nat /\ doubts \in Nat
          /\ n <= st.news => n <= published
      <4>1. newsPosts[n] <= doubts + (IF n <= st.news THEN 1 ELSE 0) /\ newsPosts[n] \in Nat
        BY DEF IInv, RepeatInv, TypeOK
      <4>2. n <= st.news => n <= published
        BY Types DEF IInv, NewsInv
      <4> QED
        BY <4>1, <4>2, Types
    <3> QED
      BY <1>1, <1>3, <3>1 DEF channel
  <2> QED
    BY <1>1, <1>3, <2>1 DEF IInv, RepeatInv, channel
<1> QED
  BY <1>4, <1>5, <1>6, <1>7, <1>8, <1>9 DEF IInv

\* The next item follows the cursor: none is skipped.
LEMMA NextItem ==
  ASSUME IInv, poll.at = "news", st.news \in poll.page, NewsAbove # {}
  PROVE  Oldest(NewsAbove) = st.news + 1 /\ st.news + 1 \in 1..published /\ st.news + 1 \in 1..MaxNews
<1>1. /\ poll.page \subseteq Nat /\ published \in 1..MaxNews /\ MaxNews \in Nat /\ published \in Nat
      /\ \A n \in 1..published : n \in poll.page <=> n + NewsWindow > published
      /\ \A n \in poll.page : n <= published
  BY PageReachesNewest, Types
<1>2. NewsAbove \in SUBSET Nat /\ \A n \in NewsAbove : n > st.news /\ n <= published
  BY <1>1 DEF NewsAbove
<1>3. Oldest(NewsAbove) \in NewsAbove /\ \A n \in NewsAbove : Oldest(NewsAbove) <= n
  BY <1>2, FirstOf
<1>4. st.news \in 1..published /\ st.news + NewsWindow > published
  <2>1. st.news \in 1..published
    BY <1>1, Types DEF IInv, TypeOK
  <2> QED
    BY <1>1, <2>1
<1>5. st.news + 1 \in 1..published
  <2>1. PICK m \in NewsAbove : m > st.news /\ m <= published /\ m \in Nat
    BY <1>2, <1>3
  <2> QED
    BY <1>1, <1>4, <2>1
<1>6. st.news + 1 \in NewsAbove
  <2>1. (st.news + 1) + NewsWindow > published
    BY <1>1, <1>4, LimitAssumption
  <2>2. st.news + 1 \in poll.page
    BY <1>1, <1>5, <2>1
  <2> QED
    BY <1>4, <2>2 DEF NewsAbove
<1>7. Oldest(NewsAbove) = st.news + 1
  <2>1. Oldest(NewsAbove) > st.news /\ Oldest(NewsAbove) <= st.news + 1
    BY <1>2, <1>3, <1>6
  <2>2. Oldest(NewsAbove) \in Nat /\ st.news \in Nat
    BY <1>2, <1>3, Types
  <2> QED
    BY <2>1, <2>2
<1>8. st.news + 1 \in 1..MaxNews
  BY <1>1, <1>5
<1> QED
  BY <1>5, <1>7, <1>8

LEMMA PostNextNewsKeeps == ASSUME IInv, PostNextNews PROVE IInv'
<1> DEFINE n == Oldest(NewsAbove)
<1>1. /\ poll.at = "news" /\ st.news \in poll.page /\ NewsAbove # {}
      /\ UNCHANGED <<upstream, storage, posts, shown, base>>
  BY DEF PostNextNews
<1>2. PICK k : k = n
  OBVIOUS
<1>3. k = st.news + 1 /\ k \in 1..published /\ k \in 1..MaxNews /\ k \in Nat
  BY <1>1, <1>2, NextItem, Types
<1>4. /\ rejected \in [bugs : SUBSET Bugs, news : SUBSET (1..MaxNews)]
      /\ newsPosts \in [1..MaxNews -> Nat] /\ doubts \in Nat /\ doubts' \in Nat
  <2>1. doubts' = doubts \/ doubts' = doubts + 1
    BY DEF PostNextNews
  <2> QED
    BY <2>1, Types DEF IInv, TypeOK
<1>5. CASE /\ st' = [st EXCEPT !.news = k] /\ UNCHANGED <<poll, doubts>>
           /\ \/ newsPosts' = [newsPosts EXCEPT ![k] = @ + 1] /\ rejected' = rejected
              \/ newsPosts' = newsPosts /\ rejected' = [rejected EXCEPT !.news = @ \cup {k}]
  <2>1. /\ st' \in States /\ st'.last = st.last /\ st'.news = k /\ Tracked(st') = Tracked(st)
    BY <1>3, <1>5, Types DEF States, Tracked
  <2>2. /\ newsPosts' \in [1..MaxNews -> Nat]
        /\ rejected' \in [bugs : SUBSET Bugs, news : SUBSET (1..MaxNews)]
        /\ rejected'.bugs = rejected.bugs /\ rejected.news \subseteq rejected'.news
        /\ newsPosts'[k] > 0 \/ k \in rejected'.news
        /\ \A m \in 1..MaxNews : newsPosts'[m] >= newsPosts[m]
              /\ (newsPosts'[m] = newsPosts[m] \/ (m = k /\ newsPosts'[m] = newsPosts[m] + 1))
    <3>1. CASE newsPosts' = [newsPosts EXCEPT ![k] = @ + 1] /\ rejected' = rejected
      BY <1>3, <1>4, <3>1
    <3>2. CASE newsPosts' = newsPosts /\ rejected' = [rejected EXCEPT !.news = @ \cup {k}]
      BY <1>3, <1>4, <3>2
    <3> QED
      BY <1>5, <3>1, <3>2
  <2>3. TypeOK'
    BY <1>1, <1>4, <1>5, <2>1, <2>2 DEF IInv, TypeOK, upstream, storage
  <2>4. FiledInv' /\ RoomInv'
    BY <1>1, <2>1 DEF IInv, FiledInv, RoomInv, Filed, upstream, storage
  <2>5. NewsInv'
    BY <1>1, <1>3, <2>1, Types DEF IInv, NewsInv, upstream, storage
  <2>6. PollInv'
    BY <1>1, <1>5, <2>1 DEF IInv, PollInv, BatchInv, PageInv, upstream
  <2>7. CursorCovers'
    <3>1. BugsDelivered(st)' /\ BugsDelivered(file)'
      BY <1>1, <2>1, <2>2 DEF IInv, CursorCovers, BugsDelivered, upstream, storage
    <3>2. NewsDelivered(file)'
      BY <1>1, <1>4, <2>2 DEF IInv, CursorCovers, NewsDelivered, storage
    <3>3. NewsDelivered(st)'
      <4> SUFFICES ASSUME NEW m \in 1..MaxNews, base.news < m, m <= k
                   PROVE newsPosts'[m] > 0 \/ m \in rejected'.news
        BY <1>1, <2>1 DEF NewsDelivered
      <4>1. CASE m = k
        BY <2>2, <4>1
      <4>2. CASE m # k
        <5>1. m <= st.news
          BY <1>3, <4>2, Types
        <5> QED
          BY <1>4, <2>2, <5>1 DEF IInv, CursorCovers, NewsDelivered
      <4> QED
        BY <4>1, <4>2
    <3> QED
      BY <3>1, <3>2, <3>3 DEF CursorCovers
  <2>8. RepeatInv'
    <3>1. ASSUME NEW m \in 1..MaxNews
          PROVE newsPosts'[m] <= doubts' + (IF m <= st'.news THEN 1 ELSE 0)
      <4>1. /\ newsPosts[m] <= doubts + (IF m <= st.news THEN 1 ELSE 0)
            /\ newsPosts[m] \in Nat /\ st.news \in Nat
        BY <1>4, Types DEF IInv, RepeatInv
      <4> QED
        BY <1>3, <1>4, <1>5, <2>1, <2>2, <4>1
    <3> QED
      BY <1>1, <1>5, <2>1, <3>1 DEF IInv, RepeatInv
  <2> QED
    BY <2>3, <2>4, <2>5, <2>6, <2>7, <2>8 DEF IInv
<1>6. CASE /\ StartRefresh /\ UNCHANGED <<st, rejected>>
           /\ \/ UNCHANGED <<newsPosts, doubts>>
              \/ newsPosts' = [newsPosts EXCEPT ![k] = @ + 1] /\ doubts' = doubts + 1
  <2>1. poll' \in Polls /\ PollInv'
    BY <1>6, StartRefreshKeeps
  <2>2. CASE UNCHANGED <<newsPosts, doubts>>
    BY <1>1, <1>6, <2>1, <2>2, PollKeeps DEF channel
  <2>3. CASE newsPosts' = [newsPosts EXCEPT ![k] = @ + 1] /\ doubts' = doubts + 1
    <3>1. /\ newsPosts' \in [1..MaxNews -> Nat]
          /\ \A m \in 1..MaxNews : newsPosts'[m] >= newsPosts[m] /\ newsPosts'[m] <= newsPosts[m] + 1
      BY <1>3, <1>4, <2>3
    <3>2. TypeOK'
      BY <1>1, <1>4, <1>6, <2>1, <3>1 DEF IInv, TypeOK, Polls, upstream, storage
    <3>3. FiledInv' /\ NewsInv' /\ RoomInv'
      BY <1>1, <1>6 DEF IInv, FiledInv, NewsInv, RoomInv, Filed, Tracked, upstream, storage
    <3>4. CursorCovers'
      BY <1>1, <1>4, <1>6, <3>1 DEF IInv, CursorCovers, BugsDelivered, NewsDelivered,
            upstream, storage
    <3>5. RepeatInv'
      <4>1. ASSUME NEW m \in 1..MaxNews
            PROVE newsPosts'[m] <= doubts' + (IF m <= st'.news THEN 1 ELSE 0)
        <5>1. newsPosts[m] <= doubts + (IF m <= st.news THEN 1 ELSE 0) /\ newsPosts[m] \in Nat
          BY <1>4 DEF IInv, RepeatInv
        <5> QED
          BY <1>4, <1>6, <2>3, <3>1, <5>1
      <4>2. ASSUME NEW b \in Bugs PROVE posts'[b] <= doubts' + (IF b <= st'.last THEN 1 ELSE 0)
        <5>1. posts[b] <= doubts + (IF b <= st.last THEN 1 ELSE 0) /\ posts[b] \in Nat
          BY DEF IInv, RepeatInv, TypeOK
        <5> QED
          BY <1>1, <1>4, <1>6, <2>3, <5>1
      <4> QED
        BY <4>1, <4>2 DEF RepeatInv
    <3> QED
      BY <2>1, <3>2, <3>3, <3>4, <3>5 DEF IInv
  <2> QED
    BY <1>6, <2>2, <2>3
<1> QED
  BY <1>2, <1>5, <1>6 DEF PostNextNews

-----------------------------------------------------------------------------
(* refreshTracked *)

\* One tracked message is handled, kept or given up.
LEMMA RefreshStep ==
  ASSUME IInv, NEW b \in Bugs, Refreshing(b),
         NEW rec \in TrackedBugs \cup {Untracked}, Change(b, rec) \/ st' = st,
         Handled(b) \/ Edited(b) \/ EndRefresh, shown' \in [Bugs -> Listings],
         UNCHANGED <<upstream, storage, posts, newsPosts, rejected, base, doubts>>
  PROVE  IInv'
<1>1. /\ st' \in States /\ st'.last = st.last /\ st'.news = st.news
      /\ Tracked(st') \subseteq Tracked(st) /\ Tracked(st) \ {b} \subseteq Tracked(st')
  <2>1. CASE st' = st
    BY <2>1, Types
  <2>2. CASE Change(b, rec)
    <3>1. b \in Tracked(st)
      BY DEF Refreshing, IInv, PollInv
    <3>2. /\ st' \in States /\ st'.last = st.last /\ st'.news = st.news
          /\ \A c \in Bugs : st'.tracked[c] = IF c = b THEN rec ELSE st.tracked[c]
      BY <2>2, Types DEF Change, States
    <3> QED
      BY <3>1, <3>2 DEF Tracked
  <2> QED
    BY <2>1, <2>2
<1>2. poll' \in Polls /\ PollInv'
  <2>1. CASE EndRefresh
    BY <2>1, IdlePollFits
  <2>2. CASE Handled(b) \/ Edited(b)
    <3>1. poll \in Polls /\ poll.byID \in [Bugs -> Seen] /\ poll.batch \in [Bugs -> Seen]
          /\ poll.at = "refresh" /\ poll.todo \subseteq Tracked(st)
      BY Types DEF IInv, PollInv, Refreshing
    <3>2. /\ poll' \in Polls /\ poll'.at = "refresh" /\ poll'.todo = poll.todo \ {b}
          /\ poll'.batch = poll.batch /\ poll'.byID = [poll.byID EXCEPT ![b] = "unfiled"]
      <4>1. [poll.byID EXCEPT ![b] = "unfiled"] \in [Bugs -> Listings]
        BY <3>1 DEF Polls, Listings
      <4>2. PICK edits \in Nat :
              poll' = [poll EXCEPT !.todo = @ \ {b}, !.byID[b] = "unfiled", !.edits = edits]
        <5>1. poll.edits \in Nat /\ poll.edits + 1 \in Nat
          BY <3>1 DEF Polls
        <5>2. CASE Handled(b)
          <6>1. poll' = [poll EXCEPT !.todo = @ \ {b}, !.byID[b] = "unfiled", !.edits = poll.edits]
            BY <3>1, <5>2 DEF Handled, Polls
          <6> QED
            BY <5>1, <6>1
        <5>3. CASE Edited(b)
          BY <5>1, <5>3 DEF Edited
        <5> QED
          BY <2>2, <5>2, <5>3
      <4> QED
        BY <3>1, <4>1, <4>2 DEF Polls
    <3>3. poll'.byID \in [Bugs -> Seen] /\ poll'.todo \subseteq Tracked(st')
      BY <1>1, <3>1, <3>2 DEF Seen
    <3> QED
      BY <3>1, <3>2, <3>3 DEF PollInv, BatchInv, PageInv
  <2> QED
    BY <2>1, <2>2
<1>3. TypeOK'
  BY <1>1, <1>2 DEF IInv, TypeOK, Polls, upstream, storage
<1>4. FiledInv' /\ NewsInv'
  BY <1>1 DEF IInv, FiledInv, NewsInv, Filed, upstream, storage
<1>5. CursorCovers' /\ RepeatInv'
  BY <1>1 DEF IInv, CursorCovers, BugsDelivered, NewsDelivered, RepeatInv, upstream, storage
<1>6. RoomInv'
  <2>1. Cardinality(Tracked(st')) <= Cardinality(Tracked(st))
    BY <1>1, TrackedSet, FS_Subset, Types
  <2>2. Cardinality(Tracked(st')) \in Nat /\ Cardinality(Tracked(st)) \in Nat /\ MaxTracked \in Nat
    BY <1>1, TrackedSet, LimitAssumption, Types
  <2> QED
    BY <2>1, <2>2 DEF IInv, RoomInv, storage
<1> QED
  BY <1>2, <1>3, <1>4, <1>5, <1>6 DEF IInv

LEMMA InHand ==
  ASSUME IInv, NEW b \in Bugs, Refreshing(b)
  PROVE  st.tracked[b] \in TrackedBugs /\ poll.byID[b] \in Seen /\ shown \in [Bugs -> Listings]
<1>1. b \in Tracked(st)
  BY DEF Refreshing, IInv, PollInv
<1> QED
  BY <1>1, TrackedSet, Types DEF IInv, PollInv, TypeOK

LEMMA MissKeeps == ASSUME IInv, NEW b \in Bugs, MissBug(b) \/ KeepBug(b) PROVE IInv'
<1> DEFINE tb == st.tracked[b]
           missed == [tb EXCEPT !.misses = @ + 1]
           kept == [tb EXCEPT !.misses = 0]
<1>1. Refreshing(b)
  BY DEF MissBug, KeepBug
<1>2. tb \in TrackedBugs /\ shown \in [Bugs -> Listings]
  BY <1>1, InHand
<1>3. missed \in TrackedBugs /\ kept \in TrackedBugs
  BY <1>2 DEF TrackedBugs
<1>4. PICK rec \in {missed, kept, Untracked} : st' = st \/ Change(b, rec)
  BY DEF MissBug, KeepBug
<1>5. Handled(b) /\ UNCHANGED <<upstream, storage, channel, base, doubts>>
  BY DEF MissBug, KeepBug
<1> HIDE DEF missed, kept
<1> QED
  BY <1>1, <1>2, <1>3, <1>4, <1>5, RefreshStep DEF channel

LEMMA SucceedKeeps == ASSUME IInv, NEW b \in Bugs, EditSucceeds(b) PROVE IInv'
<1> DEFINE cur == poll.byID[b]
           tb == [st.tracked[b] EXCEPT !.misses = 0, !.editFails = 0]
           told == [tb EXCEPT !.state = cur]
           reset == [tb EXCEPT !.state = cur, !.tries = 0]
           last == [tb EXCEPT !.state = cur, !.tries = tb.tries + 1]
           owed == [tb EXCEPT !.tries = tb.tries + 1]
<1>1. Refreshing(b) /\ cur \in Statuses /\ UNCHANGED <<upstream, storage, posts, newsPosts, rejected, base, doubts>>
  <2>1. Refreshing(b) /\ cur # "unfiled"
    BY DEF EditSucceeds, Editable, Stale
  <2> QED
    BY <2>1, InHand DEF EditSucceeds, Seen
<1>2. st.tracked[b] \in TrackedBugs /\ shown \in [Bugs -> Listings]
  BY <1>1, InHand
<1>3. tb \in TrackedBugs /\ tb.tries \in Nat
  BY <1>2 DEF TrackedBugs
<1> HIDE DEF tb
<1>4. /\ told \in TrackedBugs /\ reset \in TrackedBugs
      /\ last \in TrackedBugs /\ owed \in TrackedBugs
  <2> DEFINE n == tb.tries + 1
  <2>1. n \in Nat
    BY <1>3
  <2> HIDE DEF n
  <2>2. told \in TrackedBugs /\ reset \in TrackedBugs
    BY <1>1, <1>3 DEF TrackedBugs
  <2>3. /\ [tb EXCEPT !.state = cur, !.tries = n] \in TrackedBugs
        /\ [tb EXCEPT !.tries = n] \in TrackedBugs
    BY <1>1, <1>3, <2>1 DEF TrackedBugs
  <2> QED
    BY <2>2, <2>3 DEF n
<1>5. PICK rec \in {told, reset, last, owed} : Change(b, rec)
  BY DEF EditSucceeds, tb
<1>6. (Edited(b) \/ EndRefresh) /\ shown' = [shown EXCEPT ![b] = cur]
  BY DEF EditSucceeds
<1>7. shown' \in [Bugs -> Listings]
  BY <1>1, <1>2, <1>6 DEF Listings
<1> HIDE DEF told, reset, last, owed
<1> QED
  BY <1>1, <1>4, <1>5, <1>6, <1>7, RefreshStep

LEMMA FailKeeps == ASSUME IInv, NEW b \in Bugs, EditFails(b) PROVE IInv'
<1> DEFINE tb == [st.tracked[b] EXCEPT !.misses = 0]
           again == [tb EXCEPT !.editFails = tb.editFails + 1]
           reset == [tb EXCEPT !.editFails = 0]
<1>1. Refreshing(b) /\ UNCHANGED <<upstream, storage, posts, newsPosts, rejected, base, doubts>>
  BY DEF EditFails, Editable, Stale
<1>2. st.tracked[b] \in TrackedBugs /\ shown \in [Bugs -> Listings] /\ poll.byID[b] \in Seen
  BY <1>1, InHand
<1>3. tb \in TrackedBugs /\ tb.editFails \in Nat
  BY <1>2 DEF TrackedBugs
<1> HIDE DEF tb
<1>4. {again, reset} \subseteq TrackedBugs
  BY <1>3 DEF TrackedBugs
<1>5. PICK rec \in {tb, again, reset, Untracked} : Change(b, rec)
  BY DEF EditFails, tb
<1>6. /\ Edited(b) \/ EndRefresh
      /\ UNCHANGED shown \/ shown' = [shown EXCEPT ![b] = poll.byID[b]]
  BY DEF EditFails
<1>7. shown' \in [Bugs -> Listings]
  BY <1>2, <1>6 DEF Listings, Seen
<1> HIDE DEF again, reset
<1> QED
  BY <1>1, <1>3, <1>4, <1>5, <1>6, <1>7, RefreshStep

-----------------------------------------------------------------------------
(* Saves and restarts *)

\* The state is saved, or read back, or lost: only a doubt moves a cursor back.
LEMMA StoredKeeps ==
  ASSUME IInv, UNCHANGED <<upstream, channel, base>>, writable' \in BOOLEAN, faults' \in Nat,
         file' \in {file, st, Fresh}, st' \in {st, file, Fresh},
         poll' = IdlePoll, doubts' \in Nat, doubts' >= doubts,
         st' # st => doubts' >= doubts + 1
  PROVE  IInv'
<1>1. /\ Fresh \in States /\ Tracked(Fresh) = {} /\ Fresh.last = 0 /\ Fresh.news = 0
      /\ Cardinality(Tracked(Fresh)) <= MaxTracked
  <2>1. Fresh \in States /\ Tracked(Fresh) = {} /\ Fresh.last = 0 /\ Fresh.news = 0
    BY DEF Fresh, States, Tracked
  <2> QED
    BY <2>1, FS_EmptySet, LimitAssumption
<1>2. PICK s \in {st, file, Fresh} : st' = s
  OBVIOUS
<1>3. /\ file' \in States /\ st' \in States
      /\ Cardinality(Tracked(st')) <= MaxTracked /\ Cardinality(Tracked(file')) <= MaxTracked
  BY <1>1, Types DEF IInv, RoomInv
<1>4. poll' \in Polls /\ PollInv'
  BY IdlePollFits
<1>5. TypeOK'
  BY <1>3, <1>4 DEF IInv, TypeOK, Polls, upstream, storage, channel
<1>6. FiledInv' /\ NewsInv'
  <2>1. st'.last \in {st.last, file.last, 0} /\ file'.last \in {st.last, file.last, 0}
        /\ st'.news \in {st.news, file.news, 0} /\ file'.news \in {st.news, file.news, 0}
    BY <1>1
  <2>2. \A b \in Bugs : ~(b <= 0)
    BY Types
  <2> QED
    <3>1. Filed' = Filed /\ published' = published
      BY DEF Filed, upstream
    <3>2. FiledInv'
      BY <2>1, <2>2, <3>1, Types DEF IInv, FiledInv
    <3>3. NewsInv'
      BY <2>1, <3>1, Types DEF IInv, NewsInv
    <3> QED
      BY <3>2, <3>3
<1>7. CursorCovers'
  <2>1. BugsDelivered(Fresh) /\ NewsDelivered(Fresh)
    BY <1>1, Types DEF BugsDelivered, NewsDelivered
  <2>2. BugsDelivered(file') /\ NewsDelivered(file') /\ BugsDelivered(st') /\ NewsDelivered(st')
    BY <2>1 DEF IInv, CursorCovers
  <2> QED
    BY <2>2 DEF CursorCovers, BugsDelivered, NewsDelivered, upstream, channel
<1>8. RepeatInv'
  <2>1. ASSUME NEW b \in Bugs PROVE posts'[b] <= doubts' + (IF b <= st'.last THEN 1 ELSE 0)
    <3>1. posts[b] <= doubts + (IF b <= st.last THEN 1 ELSE 0) /\ posts[b] \in Nat
      BY DEF IInv, RepeatInv, TypeOK
    <3> QED
      BY <3>1, Types DEF channel
  <2>2. ASSUME NEW n \in 1..MaxNews PROVE newsPosts'[n] <= doubts' + (IF n <= st'.news THEN 1 ELSE 0)
    <3>1. newsPosts[n] <= doubts + (IF n <= st.news THEN 1 ELSE 0) /\ newsPosts[n] \in Nat
      BY DEF IInv, RepeatInv, TypeOK
    <3> QED
      BY <3>1, Types DEF channel
  <2> QED
    BY <2>1, <2>2 DEF RepeatInv
<1>9. RoomInv'
  BY <1>3 DEF RoomInv
<1> QED
  BY <1>4, <1>5, <1>6, <1>7, <1>8, <1>9 DEF IInv

LEMMA SaveKeeps == ASSUME IInv, SaveFeedState PROVE IInv'
<1>1. /\ UNCHANGED <<upstream, st, writable, channel, base, doubts>> /\ poll' = IdlePoll
      /\ file' \in {file, st} /\ faults' \in {faults, faults + 1}
  BY DEF SaveFeedState
<1>2. writable' \in BOOLEAN /\ faults' \in Nat /\ doubts \in Nat
  BY <1>1 DEF IInv, TypeOK
<1> QED
  BY <1>1, <1>2, StoredKeeps

LEMMA RestartKeeps == ASSUME IInv, Restart PROVE IInv'
<1>1. /\ UNCHANGED <<upstream, channel, base, faults>> /\ poll' = IdlePoll /\ doubts' = doubts + 1
      /\ LoadFeedState(file) \/ LoadFeedState(st)
  BY DEF Restart
<1>2. file' \in {file, st, Fresh} /\ st' \in {st, file, Fresh} /\ writable' \in BOOLEAN
  BY <1>1 DEF LoadFeedState
<1>3. faults' \in Nat /\ doubts \in Nat
  BY <1>1 DEF IInv, TypeOK
<1> QED
  BY <1>1, <1>2, <1>3, StoredKeeps

-----------------------------------------------------------------------------
(* The theorems *)

LEMMA Initially == Init => IInv
<1> SUFFICES ASSUME Init PROVE IInv
  OBVIOUS
<1>1. /\ st = Fresh /\ file = Fresh /\ poll = IdlePoll /\ doubts = 0 /\ published = 1
      /\ posts = [b \in Bugs |-> 0] /\ newsPosts = [n \in 1..MaxNews |-> 0]
      /\ bug = [b \in Bugs |-> IF b = 1 THEN "unconfirmed" ELSE "unfiled"]
  BY DEF Init
<1>2. /\ Fresh \in States /\ Tracked(Fresh) = {} /\ Fresh.last = 0 /\ Fresh.news = 0
      /\ Bugs \subseteq Nat /\ \A b \in Bugs : ~(b <= 0)
  BY SizeAssumption DEF Fresh, States, Tracked, Bugs
<1>3. /\ IdlePoll \in Polls /\ IdlePoll.at = "idle" /\ IdlePoll.todo = {}
      /\ IdlePoll.batch \in [Bugs -> Seen] /\ IdlePoll.byID \in [Bugs -> Seen]
  BY DEF IdlePoll, Polls, Unfetched, Seen, Listings
<1>4. TypeOK
  <2>1. bug \in [Bugs -> Listings] /\ shown \in [Bugs -> Listings]
    BY <1>1 DEF Listings, Statuses, Open, Init, Unfetched
  <2>2. matching \subseteq Bugs
    BY SizeAssumption DEF Init, Bugs
  <2>3. rejected \in [bugs : SUBSET Bugs, news : SUBSET (1..MaxNews)] /\ base \in [bugs : Nat, news : Nat]
    BY DEF Init
  <2> QED
    BY <1>1, <1>2, <1>3, <2>1, <2>2, <2>3 DEF Init, TypeOK, Polls
<1>5. FiledInv /\ NewsInv
  <2>1. \A b \in Bugs : b \in Filed <=> b = 1
    BY <1>1 DEF Filed
  <2> QED
    BY <1>1, <1>2, <2>1, SizeAssumption DEF FiledInv, NewsInv, Bugs
<1>6. PollInv
  BY <1>1, <1>3 DEF PollInv, BatchInv, PageInv
<1>7. CursorCovers
  BY <1>1, <1>2, SizeAssumption DEF CursorCovers, BugsDelivered, NewsDelivered, Init
<1>8. RepeatInv
  BY <1>1, <1>2, SizeAssumption DEF RepeatInv
<1>9. RoomInv
  BY <1>1, <1>2, FS_EmptySet, LimitAssumption DEF RoomInv
<1> QED
  BY <1>4, <1>5, <1>6, <1>7, <1>8, <1>9 DEF IInv

LEMMA NextKeeps == IInv /\ [Next]_vars => IInv'
<1> SUFFICES ASSUME IInv, [Next]_vars PROVE IInv'
  OBVIOUS
<1>1. CASE UNCHANGED vars
  <2>1. poll' \in Polls /\ PollInv'
    BY <1>1, Types DEF IInv, PollInv, BatchInv, PageInv, InBatch, Listed, Tracked, vars, upstream
  <2> QED
    BY <1>1, <2>1, PollKeeps DEF vars
<1>2. ASSUME NEW b \in Bugs, MissBug(b) \/ KeepBug(b) \/ EditSucceeds(b) \/ EditFails(b) PROVE IInv'
  BY <1>2, MissKeeps, SucceedKeeps, FailKeeps
<1>3. CASE FileBug \/ ChangeBug \/ PublishNews
  BY <1>3, FileBugKeeps, ChangeBugKeeps, PublishNewsKeeps
<1>4. CASE PollAll \/ BugsDone \/ NewsDone \/ RefreshDone
  BY <1>4, PollAllKeeps, StagesKeep
<1>5. CASE BaselineBugs \/ PostNextBug
  BY <1>5, BaselineBugsKeeps, PostNextBugKeeps
<1>6. CASE BaselineNews \/ PostNextNews
  BY <1>6, BaselineNewsKeeps, PostNextNewsKeeps
<1>7. CASE SaveFeedState \/ Restart
  BY <1>7, SaveKeeps, RestartKeeps
<1> QED
  BY <1>1, <1>2, <1>3, <1>4, <1>5, <1>6, <1>7 DEF Next

\* Every reachable state satisfies the inductive invariant: fetched batches and pages are complete
\* up to their newest item, and no cursor is ahead of what was filed or published.
THEOREM Inductive == Spec => []IInv
BY Initially, NextKeeps, PTL DEF Spec

\* The feed's state in memory and on disk, its poll and its counters keep their types.
THEOREM TypeCorrect == Spec => []TypeOK
<1>1. IInv => TypeOK
  BY DEF IInv
<1> QED
  BY <1>1, Inductive, PTL

\* Nothing is lost: whatever the batch limit, the failed sends and saves and the restarts, the
\* cursor in memory and the one in the file have passed only bugs and news that were posted,
\* filtered, refused for good or gone (pollBugs, pollNews, saveFeedState).
THEOREM NothingIsLost == Spec => []CursorCovers
<1>1. IInv => CursorCovers
  BY DEF IInv
<1> QED
  BY <1>1, Inductive, PTL

\* Nothing is repeated but for a lost answer or a process that ended: a full batch, a failed send,
\* and any number of failed or disabled saves post no bug and no news item twice (the cursor
\* advances in memory after each send, and a save never moves it).
THEOREM RepeatsHaveCause == Spec => []RepeatsAreExplained
<1>1. IInv => RepeatsAreExplained
  <2> SUFFICES ASSUME IInv PROVE RepeatsAreExplained
    OBVIOUS
  <2>1. ASSUME NEW b \in Bugs PROVE posts[b] <= 1 + doubts
    BY Types DEF IInv, RepeatInv, TypeOK
  <2>2. ASSUME NEW n \in 1..MaxNews PROVE newsPosts[n] <= 1 + doubts
    <3>1. newsPosts[n] <= doubts + (IF n <= st.news THEN 1 ELSE 0) /\ newsPosts[n] \in Nat
      BY DEF IInv, RepeatInv, TypeOK
    <3> QED
      BY <3>1, Types
  <2> QED
    BY <2>1, <2>2 DEF RepeatsAreExplained
<1> QED
  BY <1>1, Inductive, PTL

\* The tracked messages never exceed maxTracked, and a full list makes room by giving up a
\* resolved bug as long as it holds one (evictOne).
THEOREM OpenBugsKeepTheirRoom == Spec => RoomForOpenBugs
<1>1. ASSUME IInv, IInv', [Next]_vars
      PROVE  [/\ Cardinality(Tracked(st')) <= MaxTracked
              /\ PostNextBug =>
                   \A b \in Tracked(st) \ Tracked(st') : b \in ResolvedIn(st) \/ ResolvedIn(st) = {}]_vars
  <2>1. Cardinality(Tracked(st')) <= MaxTracked
    BY <1>1 DEF IInv, RoomInv
  <2>2. ASSUME PostNextBug, NEW c \in Tracked(st) \ Tracked(st')
        PROVE c \in ResolvedIn(st) \/ ResolvedIn(st) = {}
    <3> DEFINE b == Oldest(Remaining)
               s == Advance(st, b)
    <3>1. b \in Bugs /\ poll.batch[b] \in Statuses /\ b \in Nat
      BY <1>1, <2>2, SkippedAreGone, Types DEF PostNextBug
    <3>2. /\ s \in States /\ Tracked(s) = Tracked(st) /\ ResolvedIn(s) = ResolvedIn(st)
          /\ Cardinality(Tracked(s)) <= MaxTracked
      <4>1. s \in States /\ s.tracked = st.tracked
        BY <1>1, <3>1, Types DEF Advance, States
      <4> QED
        BY <1>1, <4>1 DEF Tracked, ResolvedIn, IInv, RoomInv
    <3>3. st' \in {st, s, TrackBug(s, b, poll.batch[b])}
      BY <2>2 DEF PostNextBug
    <3> HIDE DEF b, s
    <3>4. st' = TrackBug(s, b, poll.batch[b])
      BY <2>2, <3>2, <3>3
    <3> QED
      BY <2>2, <3>1, <3>2, <3>4, Tracking
  <2> QED
    BY <2>1, <2>2
<1> QED
  BY <1>1, Inductive, PTL DEF Spec, RoomForOpenBugs
=============================================================================
