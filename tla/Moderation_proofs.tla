-------------------------- MODULE Moderation_proofs --------------------------
(***************************************************************************)
(* Proofs about Moderation, for any members, channels and handlers, any    *)
(* limits and lives of the cache, and any bounds: the warning counters     *)
(* keep what they owe, a kick is earned, a banned channel had been ruled   *)
(* out as the group's own, and an allowed one may post.                    *)
(***************************************************************************)
EXTENDS Moderation, FiniteSetTheorems, SequenceTheorems, WellFoundedInduction, TLAPS

(* The inductive invariant *)

MemberStages == {"save", "kick", "unban", "clear", "cleared"}
FilterStages == {"link", "fetch", "store", "judge", "bar"}
ChannelStages == FilterStages \cup {"commit", "lift"}
Task == [at : {"idle"} \cup MemberStages \cup ChannelStages, who : Members \cup Channels \cup {None},
         op : {"none", "allow", "deny", "toggle"}, rev : Nat, asked : Nat,
         id : Channels \cup {None}, known : BOOLEAN, count : Nat]

\* A handler at work is at a stage of its half of the package, with a subject of that half.
StageInv ==
  /\ handler \in [Handlers -> Task]
  /\ \A h \in Handlers :
       \/ handler[h] = Idle
       \/ half = "members" /\ handler[h].at \in MemberStages /\ handler[h].who \in Members
       \/ half = "channels" /\ handler[h].at \in ChannelStages /\ handler[h].who \in Channels

\* Owed but not yet written: the entry a handler cleared and still has to save.
Unsaved(m) == \E h \in Handlers : At(h, "cleared") /\ handler[h].who = m
Threatens(h) == At(h, "kick") \/ (At(h, "save") /\ handler[h].count >= WarnLimit)

\* No counter, in memory or in the file, runs ahead of the warnings it stands for, and two
\* handlers of one member excuse that member.
EarnedInv ==
  half = "members" =>
    /\ \A m \in Members \ excused : counters[m] <= since[m] /\ (file[m] <= since[m] \/ Unsaved(m))
    /\ \A g, h \in Handlers :
         g # h /\ ~At(g, "idle") /\ handler[g].who = handler[h].who => handler[g].who \in excused
    /\ \A h \in Handlers : Threatens(h) =>
         handler[h].who \in excused \/ since[handler[h].who] >= WarnLimit

\* A post of an allowed channel that is still being filtered is known to be.
AllowInv ==
  /\ AllowedChannelsMayPost
  /\ half = "members" => barred = {}
  /\ \A h \in Handlers : handler[h].at \in FilterStages /\ Allowed(handler[h].who) =>
       handler[h].who \in unlifted

\* A reading rules out every channel but the one it names, for as long as it is cached.
RulesOut(id, t) == \A d \in Channels \ {id} : apart[d] # 0 /\ apart[d] + LinkedTTL >= t
Reading(x) ==
  /\ x.asked <= now
  /\ x.at \in {"idle", "link", "fetch"} => ~x.known
  /\ x.at = "store" /\ x.known =>
       \A d \in Channels \ {x.id} : apart[d] # 0 /\ apart[d] >= x.asked
  /\ x.at \in {"judge", "bar"} /\ x.known => RulesOut(x.id, x.asked)
  /\ x.at = "bar" => x.known /\ x.id # x.who
LinkInv ==
  /\ now \in Nat \ {0}
  /\ \A d \in Channels : apart[d] <= now /\ (d # linked => apart[d] = now)
  /\ cache.known => RulesOut(cache.id, cache.expires)
  /\ half = "channels" => \A h \in Handlers : Reading(handler[h])

IInv == TypeOK /\ StageInv /\ LimitReachedIsKept /\ EarnedInv /\ AllowInv /\ LinkInv

-----------------------------------------------------------------------------
(* The parts of a state, and the two halves of the package *)

MemberNext ==
  \/ \E h \in Handlers :
       \/ \E m \in Members : OnWarn(h, m) \/ OnClearWarn(h, m) \/ Moderate(h, m)
       \/ SaveCount(h) \/ KickBan(h) \/ KickUnban(h) \/ ClearAfterKick(h) \/ SaveCleared(h)
  \/ \E m \in Members : Rejoin(m)
  \/ Restart
ChannelNext ==
  \/ \E h \in Handlers :
       \/ \E c \in Channels : PostAs(h, c) \/ \E op \in {"allow", "deny", "toggle"} : OnBC(h, op, c)
       \/ LinkedChat(h) \/ GetChat(h) \/ StoreLink(h) \/ Judge(h) \/ BanSenderChat(h)
       \/ CommitRefused(h) \/ CommitBC(h) \/ UnbanSenderChat(h)
  \/ Relink \/ Tick

\* A step belongs to one half of the package and leaves the other half's state alone.
LEMMA Halves ==
  ASSUME StageInv, Next
  PROVE  \/ half = "members" /\ MembersOnly /\ MemberNext
         \/ half = "channels" /\ ChannelsOnly /\ ChannelNext
<1>1. ASSUME NEW h \in Handlers, NEW m \in Members,
             OnWarn(h, m) \/ OnClearWarn(h, m) \/ Moderate(h, m)
      PROVE  half = "members" /\ MembersOnly
  BY <1>1 DEF OnWarn, OnClearWarn, Moderate, Begin
<1>2. ASSUME Restart PROVE half = "members" /\ MembersOnly
  BY <1>2 DEF Restart
<1>3. ASSUME NEW m \in Members, Rejoin(m) PROVE half = "members" /\ MembersOnly
  BY <1>3 DEF Rejoin
<1>4. ASSUME NEW h \in Handlers,
             SaveCount(h) \/ KickBan(h) \/ KickUnban(h) \/ ClearAfterKick(h) \/ SaveCleared(h)
      PROVE  half = "members" /\ MembersOnly
  <2>1. handler[h].at \in {"save", "kick", "unban", "clear", "cleared"}
    BY <1>4 DEF SaveCount, KickBan, KickUnban, ClearAfterKick, SaveCleared, At
  <2>2. half = "members"
    BY <2>1 DEF StageInv, Idle, At, ChannelStages, FilterStages
  <2> QED
    BY <1>4, <2>2 DEF SaveCount, KickBan, KickUnban, ClearAfterKick, SaveCleared
<1>5. ASSUME NEW h \in Handlers, NEW c \in Channels,
             PostAs(h, c) \/ \E op \in {"allow", "deny", "toggle"} : OnBC(h, op, c)
      PROVE  half = "channels" /\ ChannelsOnly
  BY <1>5 DEF PostAs, OnBC, Begin
<1>6. ASSUME NEW h \in Handlers,
             \/ LinkedChat(h) \/ GetChat(h) \/ StoreLink(h) \/ Judge(h) \/ BanSenderChat(h)
             \/ CommitRefused(h) \/ CommitBC(h) \/ UnbanSenderChat(h)
      PROVE  half = "channels" /\ ChannelsOnly
  <2>1. handler[h].at \in ChannelStages
    BY <1>6 DEF LinkedChat, GetChat, StoreLink, Judge, BanSenderChat, CommitRefused, CommitBC,
                UnbanSenderChat, At, ChannelStages, FilterStages
  <2>2. half = "channels"
    BY <2>1 DEF StageInv, Idle, At, ChannelStages, FilterStages, MemberStages
  <2> QED
    BY <1>6, <2>2 DEF LinkedChat, GetChat, StoreLink, Judge, BanSenderChat, CommitRefused, CommitBC,
                      UnbanSenderChat
<1>7. ASSUME Relink \/ Tick PROVE half = "channels" /\ ChannelsOnly
  BY <1>7 DEF Relink, Tick
<1> QED
  BY <1>1, <1>2, <1>3, <1>4, <1>5, <1>6, <1>7 DEF Next, Handle, MemberNext, ChannelNext

LEMMA Types ==
  ASSUME TypeOK
  PROVE  /\ counters \in [Members -> Nat] /\ file \in [Members -> Nat] /\ since \in [Members -> Nat]
         /\ apart \in [Channels -> Nat] /\ LinkedTTL \in Nat /\ LinkedFailTTL \in Nat
         /\ WarnLimit \in Nat \ {0} /\ WarnCounterMax \in Nat \ {0} /\ WhitelistMax \in Nat \ {0}
         /\ Members \subseteq Nat /\ IsFiniteSet(Members)
BY MemberAssumption, LimitAssumption, TTLAssumption DEF TypeOK

LEMMA CacheType ==
  ASSUME TypeOK
  PROVE  cache.id \in Channels \cup {None} /\ cache.known \in BOOLEAN /\ cache.expires \in Nat
BY DEF TypeOK

\* The state after a step of one handler, which turns to the task t.
LEMMA Turns ==
  ASSUME StageInv, NEW h \in Handlers, NEW t \in Task, handler' = [handler EXCEPT ![h] = t],
         half' = half,
         \/ t = Idle
         \/ half = "members" /\ t.at \in MemberStages /\ t.who \in Members
         \/ half = "channels" /\ t.at \in ChannelStages /\ t.who \in Channels
  PROVE  StageInv'
BY DEF StageInv, At

LEMMA Tasks ==
  ASSUME StageInv, NEW h \in Handlers
  PROVE  /\ handler[h] \in Task /\ Idle \in Task
         /\ handler[h].asked \in Nat /\ handler[h].count \in Nat /\ handler[h].rev \in Nat
         /\ handler[h].known \in BOOLEAN /\ handler[h].id \in Channels \cup {None}
<1>1. handler[h] \in Task
  BY DEF StageInv
<1>2. Idle \in Task
  BY DEF Idle, Task
<1> QED
  BY <1>1, <1>2 DEF Task

LEMMA MemberStageStep ==
  ASSUME TypeOK, StageInv, half = "members", MembersOnly, MemberNext
  PROVE  StageInv'
<1> half' = half
  BY DEF MembersOnly
<1>1. ASSUME NEW h \in Handlers, NEW m \in Members, OnWarn(h, m) PROVE StageInv'
  <2>0. PICK n \in Nat : n = counters[m] + 1
    BY Types
  <2> DEFINE t == [Idle EXCEPT !.at = "save", !.who = m, !.count = n]
  <2>1. handler' = [handler EXCEPT ![h] = t]
    BY <1>1, <2>0 DEF OnWarn
  <2>2. t \in Task /\ t.at = "save" /\ t.who = m
    BY DEF Task, Idle, MemberStages
  <2> HIDE DEF t
  <2> QED
    BY <2>1, <2>2, Turns DEF MemberStages
<1>2. ASSUME NEW h \in Handlers, NEW m \in Members, OnClearWarn(h, m) PROVE StageInv'
  <2> DEFINE t == [Idle EXCEPT !.at = "cleared", !.who = m]
  <2>1. handler' = [handler EXCEPT ![h] = t]
    BY <1>2 DEF OnClearWarn
  <2>2. t \in Task /\ t.at = "cleared" /\ t.who = m
    BY DEF Task, Idle, MemberStages
  <2> HIDE DEF t
  <2> QED
    BY <2>1, <2>2, Turns DEF MemberStages
<1>3. ASSUME NEW h \in Handlers, Done(h) PROVE StageInv'
  BY <1>3, Tasks, Turns DEF Done, Idle
<1>4. ASSUME NEW h \in Handlers, NEW s \in MemberStages, ~At(h, "idle"), Go(h, s) PROVE StageInv'
  <2> DEFINE t == [handler[h] EXCEPT !.at = s]
  <2>1. handler' = [handler EXCEPT ![h] = t]
    BY <1>4, Tasks DEF Go
  <2>2. t \in Task /\ t.at = s /\ t.who = handler[h].who
    BY Tasks DEF Task
  <2>3. handler[h].who \in Members
    BY <1>4 DEF StageInv, Idle, At
  <2> HIDE DEF t
  <2> QED
    BY <2>1, <2>2, <2>3, Turns
<1>5. ASSUME handler' = handler PROVE StageInv'
  BY <1>5 DEF StageInv, At
<1>6. ASSUME Restart PROVE StageInv'
  BY <1>6 DEF Restart, StageInv, At, Idle, Task
<1>7. ASSUME NEW h \in Handlers,
             SaveCount(h) \/ KickBan(h) \/ KickUnban(h) \/ ClearAfterKick(h) \/ SaveCleared(h)
      PROVE  StageInv'
  <2>1. ~At(h, "idle")
    BY <1>7 DEF SaveCount, KickBan, KickUnban, ClearAfterKick, SaveCleared, At
  <2>2. Done(h) \/ \E s \in MemberStages : Go(h, s)
    BY <1>7 DEF SaveCount, KickBan, KickUnban, ClearAfterKick, SaveCleared, MemberStages
  <2> QED
    BY <2>1, <2>2, <1>3, <1>4
<1>8. ASSUME NEW m \in Members, Rejoin(m) PROVE handler' = handler
  BY <1>8 DEF Rejoin
<1>9. ASSUME NEW h \in Handlers, NEW m \in Members, Moderate(h, m) PROVE handler' = handler
  BY <1>9 DEF Moderate
<1> QED
  BY <1>1, <1>2, <1>5, <1>6, <1>7, <1>8, <1>9 DEF MemberNext

LEMMA ChannelStageStep ==
  ASSUME TypeOK, StageInv, now \in Nat, half = "channels", ChannelsOnly, ChannelNext
  PROVE  StageInv'
<1> half' = half
  BY DEF ChannelsOnly
<1>1. ASSUME NEW h \in Handlers, NEW c \in Channels, PostAs(h, c) PROVE StageInv'
  <2> DEFINE t == [Idle EXCEPT !.at = "link", !.who = c]
  <2>1. handler' = [handler EXCEPT ![h] = t]
    BY <1>1 DEF PostAs
  <2>2. t \in Task /\ t.at = "link" /\ t.who = c
    BY DEF Task, Idle, ChannelStages, FilterStages
  <2> HIDE DEF t
  <2> QED
    BY <2>1, <2>2, Turns DEF ChannelStages, FilterStages
<1>2. ASSUME NEW h \in Handlers, NEW c \in Channels, NEW op \in {"allow", "deny", "toggle"},
             OnBC(h, op, c)
      PROVE  StageInv'
  <2> DEFINE t == [Idle EXCEPT !.at = "commit", !.op = op, !.who = c, !.rev = revision]
  <2>1. handler' = [handler EXCEPT ![h] = t]
    BY <1>2 DEF OnBC
  <2>2. t \in Task /\ t.at = "commit" /\ t.who = c
    BY DEF TypeOK, Task, Idle, ChannelStages
  <2> HIDE DEF t
  <2> QED
    BY <2>1, <2>2, Turns DEF ChannelStages
<1>3. ASSUME NEW h \in Handlers, Done(h) PROVE StageInv'
  BY <1>3, Tasks, Turns DEF Done, Idle
<1>4. ASSUME NEW h \in Handlers, NEW s \in ChannelStages, ~At(h, "idle"), NEW t \in Task,
             t.at = s, t.who = handler[h].who, handler' = [handler EXCEPT ![h] = t]
      PROVE  StageInv'
  <2>1. handler[h].who \in Channels
    BY <1>4 DEF StageInv, Idle, At
  <2> QED
    BY <2>1, <1>4, Turns
<1>5. ASSUME NEW h \in Handlers, NEW s \in ChannelStages, ~At(h, "idle"), Go(h, s) PROVE StageInv'
  <2> DEFINE t == [handler[h] EXCEPT !.at = s]
  <2>1. handler' = [handler EXCEPT ![h] = t]
    BY <1>5, Tasks DEF Go
  <2>2. t \in Task /\ t.at = s /\ t.who = handler[h].who
    BY Tasks DEF Task
  <2> HIDE DEF t
  <2> QED
    BY <2>1, <2>2, <1>4, <1>5
<1>6. ASSUME NEW h \in Handlers, LinkedChat(h) PROVE StageInv'
  <2>1. ~At(h, "idle")
    BY <1>6 DEF LinkedChat, At
  <2>2. CASE now < cache.expires
    <3> DEFINE t == [handler[h] EXCEPT !.at = "judge", !.asked = now, !.id = cache.id, !.known = cache.known]
    <3>1. handler' = [handler EXCEPT ![h] = t]
      BY <1>6, <2>2 DEF LinkedChat
    <3>2. t \in Task /\ t.at = "judge" /\ t.who = handler[h].who
      BY Tasks, CacheType DEF Task, ChannelStages, FilterStages
    <3> HIDE DEF t
    <3> QED
      BY <3>1, <3>2, <2>1, <1>4 DEF ChannelStages, FilterStages
  <2>3. CASE ~(now < cache.expires)
    <3> DEFINE t == [handler[h] EXCEPT !.at = "fetch", !.asked = now]
    <3>1. handler' = [handler EXCEPT ![h] = t]
      BY <1>6, <2>3 DEF LinkedChat
    <3>2. t \in Task /\ t.at = "fetch" /\ t.who = handler[h].who
      BY Tasks DEF Task, ChannelStages, FilterStages
    <3> HIDE DEF t
    <3> QED
      BY <3>1, <3>2, <2>1, <1>4 DEF ChannelStages, FilterStages
  <2> QED
    BY <2>2, <2>3
<1>7. ASSUME NEW h \in Handlers, GetChat(h) PROVE StageInv'
  <2>1. ~At(h, "idle")
    BY <1>7 DEF GetChat, At
  <2> DEFINE t == [handler[h] EXCEPT !.at = "store", !.id = linked, !.known = TRUE]
  <2>2. CASE handler' = [handler EXCEPT ![h].at = "store", ![h].id = linked, ![h].known = TRUE]
    <3>1. handler' = [handler EXCEPT ![h] = t]
      BY <2>2, Tasks DEF StageInv
    <3>2. t \in Task /\ t.at = "store" /\ t.who = handler[h].who
      BY ZenonT(60), Tasks DEF TypeOK, Task, ChannelStages, FilterStages
    <3> HIDE DEF t
    <3> QED
      BY <3>1, <3>2, <2>1, <1>4 DEF ChannelStages, FilterStages
  <2>3. CASE Go(h, "store")
    BY <2>1, <2>3, <1>5 DEF ChannelStages, FilterStages
  <2> QED
    BY <1>7, <2>2, <2>3 DEF GetChat
<1>8. ASSUME NEW h \in Handlers, StoreLink(h) \/ Judge(h) \/ BanSenderChat(h)
             \/ CommitRefused(h) \/ CommitBC(h) \/ UnbanSenderChat(h)
      PROVE  StageInv'
  <2>1. ~At(h, "idle")
    BY <1>8 DEF StoreLink, Judge, BanSenderChat, CommitRefused, CommitBC, UnbanSenderChat, At
  <2>2. Done(h) \/ \E s \in ChannelStages : Go(h, s)
    BY <1>8 DEF StoreLink, Judge, BanSenderChat, CommitRefused, CommitBC, UnbanSenderChat,
                ChannelStages, FilterStages
  <2> QED
    BY <2>1, <2>2, <1>3, <1>5
<1>9. ASSUME Relink \/ Tick PROVE StageInv'
  BY <1>9 DEF Relink, Tick, StageInv, At
<1> QED
  BY <1>1, <1>2, <1>6, <1>7, <1>8, <1>9 DEF ChannelNext

-----------------------------------------------------------------------------
(* The counter table *)

LEMMA PrunedCounters ==
  ASSUME NEW c \in [Members -> Nat]
  PROVE  /\ Pruned(c) \in [Members -> Nat]
         /\ \A m \in Members : Pruned(c)[m] = 0 \/ Pruned(c)[m] = c[m]
BY DEF Pruned

\* The pruning takes from the bottom: a counter goes only with every lower one.
LEMMA PruningTakesTheLowest ==
  ASSUME NEW c \in [Members -> Nat], TypeOK,
         NEW d \in Members, NEW n \in Members, c[n] < c[d], c[d] > 0, Pruned(c)[d] = 0
  PROVE  Pruned(c)[n] = 0
<1> DEFINE Above(m) == {k \in Counted(c) : Below(c, m, k)}
<1>1. Cardinality(Above(d)) >= WarnCounterMax
  BY DEF Pruned
<1>2. Above(d) \subseteq Above(n)
  <2> SUFFICES ASSUME NEW k \in Counted(c), Below(c, d, k) PROVE Below(c, n, k)
    OBVIOUS
  <2>1. c[k] \in Nat /\ c[n] \in Nat /\ c[d] \in Nat
    BY DEF Counted
  <2> QED
    BY <2>1 DEF Below
<1>3. IsFiniteSet(Above(n)) /\ IsFiniteSet(Above(d))
  <2>1. Above(n) \subseteq Members /\ Above(d) \subseteq Members
    BY DEF Counted
  <2> QED
    BY <2>1, Types, FS_Subset
<1>4. Cardinality(Above(d)) <= Cardinality(Above(n))
  BY <1>2, <1>3, FS_Subset
<1>5. Cardinality(Above(d)) \in Nat /\ Cardinality(Above(n)) \in Nat
  BY <1>3, FS_CardinalityType
<1>6. Cardinality(Above(n)) >= WarnCounterMax
  BY <1>1, <1>4, <1>5, Types
<1> QED
  BY <1>6 DEF Pruned

\* What is still due after a pruning kept its counter.
LEMMA StillDueIsKept ==
  ASSUME NEW c \in [Members -> Nat], TypeOK, NEW D \in SUBSET Members,
         \A m \in D : c[m] >= WarnLimit
  PROVE  \A m \in StillDue(D, Pruned(c)) : m \in D /\ Pruned(c)[m] >= WarnLimit
<1> SUFFICES ASSUME NEW d \in StillDue(D, Pruned(c)) PROVE d \in D /\ Pruned(c)[d] >= WarnLimit
  OBVIOUS
<1>1. d \in D /\ c[d] \in Nat /\ c[d] >= WarnLimit /\ c[d] > 0
  BY Types DEF StillDue
<1>2. Pruned(c)[d] # 0
  <2> SUFFICES ASSUME Pruned(c)[d] = 0 PROVE FALSE
    OBVIOUS
  <2>1. PICK n \in Counted(Pruned(c)) : Pruned(c)[n] < WarnLimit
    BY DEF StillDue
  <2>2. n \in Members /\ Pruned(c)[n] > 0
    BY <2>1 DEF Counted
  <2>3. Pruned(c)[n] = c[n] /\ c[n] \in Nat /\ c[n] < c[d]
    BY <1>1, <2>1, <2>2, PrunedCounters, Types
  <2> QED
    BY <1>1, <2>2, <2>3, PruningTakesTheLowest
<1> QED
  BY <1>1, <1>2, PrunedCounters

-----------------------------------------------------------------------------
(* The whitelist *)

LEMMA LeastNat == ASSUME NEW T \in SUBSET Nat, T # {} PROVE \E x \in T : \A y \in T : x <= y
<1> DEFINE R == OpToRel(<, Nat)
<1>1. IsWellFoundedOn(R, Nat)
  BY NatLessThanWellFounded, Zenon
<1>2. \A x, y \in Nat : <<y, x>> \notin R => x <= y
  BY DEF OpToRel
<1> HIDE DEF R
<1>3. PICK x \in T : \A y \in T : ~(<<y, x>> \in R)
  BY <1>1, WFMin
<1> QED
  BY <1>2, <1>3

LEMMA SubSeqOf ==
  ASSUME NEW s \in Seq(Channels), NEW a \in 1..Len(s) + 1, NEW b \in 0..Len(s)
  PROVE  /\ SubSeq(s, a, b) \in Seq(Channels)
         /\ \A i \in 1..Len(SubSeq(s, a, b)) : \E j \in 1..Len(s) : SubSeq(s, a, b)[i] = s[j]
<1>1. Len(s) \in Nat /\ \A i \in a..b : s[i] \in Channels
  BY LenProperties
<1>2. /\ SubSeq(s, a, b) \in Seq(Channels)
      /\ Len(SubSeq(s, a, b)) = IF a <= b THEN b - a + 1 ELSE 0
      /\ \A i \in 1..(b - a + 1) : SubSeq(s, a, b)[i] = s[a + i - 1]
  BY <1>1, SubSeqProperties
<1>3. ASSUME NEW i \in 1..Len(SubSeq(s, a, b))
      PROVE  \E j \in 1..Len(s) : SubSeq(s, a, b)[i] = s[j]
  <2>1. i \in 1..(b - a + 1) /\ a + i - 1 \in 1..Len(s)
    BY <1>1, <1>2
  <2> QED
    BY <1>2, <2>1
<1> QED
  BY <1>2, <1>3

\* Removing the first occurrence leaves a whitelist with no new channel.
LEMMA Removed ==
  ASSUME NEW s \in Seq(Channels), NEW c \in Channels
  PROVE  /\ RemoveFirst(s, c) \in Seq(Channels)
         /\ \A i \in 1..Len(RemoveFirst(s, c)) : \E j \in 1..Len(s) : RemoveFirst(s, c)[i] = s[j]
<1>1. CASE ~\E i \in 1..Len(s) : s[i] = c
  BY <1>1 DEF RemoveFirst
<1>2. CASE \E i \in 1..Len(s) : s[i] = c
  <2> DEFINE I == {i \in 1..Len(s) : s[i] = c}
             k == Min(I)
             first == SubSeq(s, 1, k - 1)
             rest == SubSeq(s, k + 1, Len(s))
  <2>1. I # {} /\ I \subseteq 1..Len(s) /\ Len(s) \in Nat /\ I \in SUBSET Nat
    BY <1>2, LenProperties
  <2>2. k \in I
    <3> HIDE DEF I
    <3>1. \E x \in I : \A y \in I : x <= y
      BY <2>1, LeastNat
    <3> QED
      BY <3>1 DEF Min
  <2>3. RemoveFirst(s, c) = first \o rest
    BY <1>2, <2>1 DEF RemoveFirst, RemoveAt, SelectInSeq
  <2>4. k \in 1..Len(s)
    BY <2>1, <2>2
  <2> HIDE DEF k
  <2>5. /\ first \in Seq(Channels) /\ rest \in Seq(Channels)
        /\ \A i \in 1..Len(first) : \E j \in 1..Len(s) : first[i] = s[j]
        /\ \A i \in 1..Len(rest) : \E j \in 1..Len(s) : rest[i] = s[j]
    <3>1. /\ 1 \in 1..Len(s) + 1 /\ k - 1 \in 0..Len(s)
          /\ k + 1 \in 1..Len(s) + 1 /\ Len(s) \in 0..Len(s)
      BY <2>1, <2>4
    <3>2. ASSUME NEW a \in 1..Len(s) + 1, NEW b \in 0..Len(s)
          PROVE  /\ SubSeq(s, a, b) \in Seq(Channels)
                 /\ \A i \in 1..Len(SubSeq(s, a, b)) : \E j \in 1..Len(s) : SubSeq(s, a, b)[i] = s[j]
      BY SubSeqOf
    <3>3. /\ first \in Seq(Channels)
          /\ \A i \in 1..Len(first) : \E j \in 1..Len(s) : first[i] = s[j]
      BY <3>1, <3>2
    <3>4. /\ rest \in Seq(Channels)
          /\ \A i \in 1..Len(rest) : \E j \in 1..Len(s) : rest[i] = s[j]
      BY <3>1, <3>2
    <3> QED
      BY <3>3, <3>4
  <2> HIDE DEF first, rest
  <2>6. /\ first \o rest \in Seq(Channels)
        /\ Len(first \o rest) = Len(first) + Len(rest)
        /\ \A i \in 1..(Len(first) + Len(rest)) : (first \o rest)[i] =
             IF i <= Len(first) THEN first[i] ELSE rest[i - Len(first)]
    BY <2>5, ConcatProperties
  <2>7. Len(first) \in Nat /\ Len(rest) \in Nat
    BY <2>5, LenProperties
  <2>8. ASSUME NEW i \in 1..Len(first \o rest) PROVE \E j \in 1..Len(s) : (first \o rest)[i] = s[j]
    <3>1. CASE i <= Len(first)
      BY <3>1, <2>5, <2>6, <2>7
    <3>2. CASE ~(i <= Len(first))
      <4>1. i - Len(first) \in 1..Len(rest) /\ (first \o rest)[i] = rest[i - Len(first)]
        BY <3>2, <2>6, <2>7
      <4> QED
        BY <4>1, <2>5
    <3> QED
      BY <3>1, <3>2
  <2> QED
    BY <2>3, <2>6, <2>8
<1> QED
  BY <1>1, <1>2

LEMMA Appended ==
  ASSUME NEW s \in Seq(Channels), NEW t \in Seq(Channels), NEW c \in Channels,
         \A i \in 1..Len(t) : \E j \in 1..Len(s) : t[i] = s[j]
  PROVE  /\ Append(t, c) \in Seq(Channels)
         /\ \A i \in 1..Len(Append(t, c)) :
              Append(t, c)[i] = c \/ \E j \in 1..Len(s) : Append(t, c)[i] = s[j]
<1>1. /\ Append(t, c) \in Seq(Channels) /\ Len(t) \in Nat /\ Len(Append(t, c)) = Len(t) + 1
      /\ \A i \in 1..Len(t) : Append(t, c)[i] = t[i]
      /\ Append(t, c)[Len(t) + 1] = c
  OBVIOUS
<1> QED
  BY <1>1

\* Every channel of the next whitelist was on it or is the one being allowed.
LEMMA NextWhitelist ==
  ASSUME TypeOK, NEW c \in Channels, NEW allow \in BOOLEAN
  PROVE  /\ NextChannelWhitelist(c, allow) \in Seq(Channels)
         /\ \A i \in 1..Len(NextChannelWhitelist(c, allow)) :
              \/ allow /\ NextChannelWhitelist(c, allow)[i] = c
              \/ \E j \in 1..Len(whitelist) : NextChannelWhitelist(c, allow)[i] = whitelist[j]
<1>1. whitelist \in Seq(Channels) /\ Len(whitelist) \in Nat
  BY LenProperties DEF TypeOK
<1>2. CASE ~allow
  BY <1>1, <1>2, Removed DEF NextChannelWhitelist
<1>3. CASE allow /\ Allowed(c)
  BY <1>1, <1>3 DEF NextChannelWhitelist
<1>4. CASE allow /\ ~Allowed(c) /\ Len(whitelist) < WhitelistMax
  <2>1. NextChannelWhitelist(c, allow) = Append(whitelist, c)
    BY <1>4 DEF NextChannelWhitelist
  <2> QED
    BY <2>1, <1>1, <1>4, Appended
<1>5. CASE allow /\ ~Allowed(c) /\ ~(Len(whitelist) < WhitelistMax)
  <2> DEFINE tail == SubSeq(whitelist, Len(whitelist) - WhitelistMax + 2, Len(whitelist))
  <2>1. NextChannelWhitelist(c, allow) = Append(tail, c)
    BY <1>5 DEF NextChannelWhitelist
  <2>2. Len(whitelist) - WhitelistMax + 2 \in 1..Len(whitelist) + 1
    BY <1>1, <1>5, Types
  <2>3. tail \in Seq(Channels) /\ \A i \in 1..Len(tail) : \E j \in 1..Len(whitelist) : tail[i] = whitelist[j]
    <3>1. PICK a \in 1..Len(whitelist) + 1 : a = Len(whitelist) - WhitelistMax + 2
      BY <2>2
    <3>2. Len(whitelist) \in 0..Len(whitelist)
      BY <1>1
    <3>3. tail = SubSeq(whitelist, a, Len(whitelist))
      BY <3>1
    <3> HIDE DEF tail
    <3> QED
      BY <3>2, <3>3, <1>1, SubSeqOf
  <2> HIDE DEF tail
  <2> QED
    BY <2>1, <2>3, <1>1, <1>5, Appended
<1> QED
  BY <1>2, <1>3, <1>4, <1>5

-----------------------------------------------------------------------------
(* The members' half *)

LEMMA Warned ==
  ASSUME TypeOK, NEW m \in Members
  PROVE  /\ Incremented(m) \in [Members -> Nat]
         /\ \A n \in Members : Incremented(m)[n] = IF n = m THEN counters[m] + 1 ELSE counters[n]
BY Types DEF Incremented

LEMMA MemberTypes ==
  ASSUME TypeOK, StageInv, half = "members", MembersOnly, MemberNext
  PROVE  TypeOK'
<1>1. ASSUME NEW h \in Handlers, NEW m \in Members, OnWarn(h, m) PROVE TypeOK'
  <2>1. counters' \in [Members -> Nat] /\ since' \in [Members -> Nat]
    BY <1>1, Warned, PrunedCounters, Types DEF OnWarn
  <2>2. due' \subseteq Members
    BY <1>1 DEF OnWarn, StillDue, TypeOK
  <2> QED
    BY <1>1, <2>1, <2>2 DEF OnWarn, TypeOK, MembersOnly, settings, channels, channelHistory, standing
<1>2. ASSUME NEW h \in Handlers, NEW m \in Members, OnClearWarn(h, m) PROVE TypeOK'
  BY <1>2 DEF OnClearWarn, ClearCounter, TypeOK, MembersOnly, settings, channels, channelHistory, standing
<1>3. ASSUME NEW h \in Handlers, NEW m \in Members, Moderate(h, m) PROVE TypeOK'
  BY <1>3 DEF Moderate, TypeOK, MembersOnly, settings, channels, channelHistory, warnings, memberHistory
<1>4. ASSUME NEW h \in Handlers, SaveCount(h) PROVE TypeOK'
  BY <1>4 DEF SaveCount, Save, TypeOK, MembersOnly, settings, channels, channelHistory, standing
<1>5. ASSUME NEW h \in Handlers, KickBan(h) \/ KickUnban(h) PROVE TypeOK'
  BY ZenonT(60), <1>5 DEF KickBan, KickUnban, TypeOK, MembersOnly, settings, channels, channelHistory,
              warnings, memberHistory
<1>6. ASSUME NEW h \in Handlers, ClearAfterKick(h) PROVE TypeOK'
  BY <1>6 DEF ClearAfterKick, ClearCounter, TypeOK, MembersOnly, settings, channels, channelHistory, standing
<1>7. ASSUME NEW h \in Handlers, SaveCleared(h) PROVE TypeOK'
  <2>1. handler[h].who \in Members
    BY <1>7 DEF SaveCleared, StageInv, Idle, At
  <2> QED
    BY <1>7, <2>1 DEF SaveCleared, Save, TypeOK, MembersOnly, settings, channels, channelHistory, standing
<1>8. ASSUME NEW m \in Members, Rejoin(m) PROVE TypeOK'
  BY <1>8 DEF Rejoin, TypeOK, MembersOnly, settings, channels, channelHistory, warnings, memberHistory
<1>9. ASSUME Restart PROVE TypeOK'
  <2>1. NoCounters \in [Members -> Nat] /\ Pruned(file) \in [Members -> Nat]
    BY PrunedCounters, Types DEF NoCounters
  <2>2. excused' \subseteq Members
    <3>1. \A h \in Handlers : handler[h].at \in {"unban", "clear", "cleared"} => handler[h].who \in Members
      BY DEF StageInv, Idle, At
    <3> QED
      BY <1>9, <3>1 DEF Restart, TypeOK
  <2>3. due' \subseteq Members
    BY <1>9 DEF Restart, StillDue, TypeOK
  <2> QED
    BY <1>9, <2>1, <2>2, <2>3 DEF Restart, TypeOK, MembersOnly, settings, channels, channelHistory, standing
<1> QED
  BY <1>1, <1>2, <1>3, <1>4, <1>5, <1>6, <1>7, <1>8, <1>9 DEF MemberNext

LEMMA MemberDue ==
  ASSUME TypeOK, StageInv, LimitReachedIsKept, half = "members", MembersOnly, MemberNext
  PROVE  LimitReachedIsKept'
<1>1. ASSUME NEW h \in Handlers, NEW m \in Members, OnWarn(h, m) PROVE LimitReachedIsKept'
  <2> DEFINE D == IF counters[m] + 1 >= WarnLimit THEN due \cup {m} ELSE due
  <2>1. D \in SUBSET Members /\ \A d \in D : Incremented(m)[d] >= WarnLimit
    <3>1. D \subseteq Members
      BY DEF TypeOK
    <3>2. \A d \in due : d \in Members /\ counters[d] \in Nat /\ counters[d] >= WarnLimit
      BY Types DEF LimitReachedIsKept, TypeOK
    <3> QED
      BY <3>1, <3>2, Warned, Types
  <2>2. counters' = Pruned(Incremented(m)) /\ due' = StillDue(D, Pruned(Incremented(m)))
    BY <1>1 DEF OnWarn
  <2>3. UNCHANGED <<file, dueSaved>>
    BY <1>1 DEF OnWarn
  <2> HIDE DEF D
  <2>4. \A d \in due' : counters'[d] >= WarnLimit
    BY <2>1, <2>2, Warned, StillDueIsKept
  <2> QED
    BY <2>3, <2>4 DEF LimitReachedIsKept
<1>2. ASSUME NEW m \in Members, ClearCounter(m), UNCHANGED <<file, dueSaved>> PROVE LimitReachedIsKept'
  BY <1>2, Types DEF ClearCounter, LimitReachedIsKept, TypeOK
<1>3. ASSUME Save, UNCHANGED <<counters, due>> PROVE LimitReachedIsKept'
  BY <1>3 DEF Save, LimitReachedIsKept
<1>4. ASSUME UNCHANGED <<counters, file, due, dueSaved>> PROVE LimitReachedIsKept'
  BY <1>4 DEF LimitReachedIsKept
<1>5. ASSUME NEW h \in Handlers, ClearAfterKick(h) PROVE LimitReachedIsKept'
  <2>1. handler[h].who \in Members
    BY <1>5 DEF ClearAfterKick, StageInv, Idle, At
  <2> QED
    BY <1>2, <1>5, <2>1 DEF ClearAfterKick
<1>6. ASSUME Restart PROVE LimitReachedIsKept'
  <2>1. CASE /\ counters' = Pruned(file) /\ due' = StillDue(dueSaved, counters')
             /\ UNCHANGED <<file, dueSaved>>
    <3>1. dueSaved \in SUBSET Members /\ \A m \in dueSaved : file[m] >= WarnLimit
      BY DEF TypeOK, LimitReachedIsKept
    <3>2. due' = StillDue(dueSaved, Pruned(file))
      BY <2>1
    <3>3. \A m \in due' : counters'[m] >= WarnLimit
      BY <2>1, <3>1, <3>2, Types, StillDueIsKept
    <3> QED
      BY <2>1, <3>3 DEF LimitReachedIsKept
  <2>2. CASE due' = {} /\ dueSaved' = {}
    BY <2>2 DEF LimitReachedIsKept
  <2>3. CASE due' = {} /\ UNCHANGED <<file, dueSaved>>
    BY <2>3 DEF LimitReachedIsKept
  <2> QED
    BY <1>6, <2>1, <2>2, <2>3 DEF Restart
<1> QED
  BY <1>1, <1>2, <1>3, <1>4, <1>5, <1>6
  DEF MemberNext, OnClearWarn, Moderate, SaveCount, KickBan, KickUnban, SaveCleared, Rejoin,
      warnings, memberHistory

\* What a step of handler h on member m leaves to be said of the others.
LEMMA OthersStand ==
  ASSUME TypeOK, StageInv, half = "members", NEW h \in Handlers, NEW t \in Task,
         handler' = [handler EXCEPT ![h] = t]
  PROVE  /\ handler'[h] = t
         /\ \A g \in Handlers \ {h} : handler'[g] = handler[g]
         /\ \A m \in Members : Unsaved(m) =>
              Unsaved(m)' \/ (At(h, "cleared") /\ handler[h].who = m)
         /\ \A g \in Handlers \ {h} : Threatens(g)' <=> Threatens(g)
<1>1. handler'[h] = t /\ \A g \in Handlers \ {h} : handler'[g] = handler[g]
  BY DEF StageInv
<1>2. ASSUME NEW m \in Members, NEW g \in Handlers, At(g, "cleared"), handler[g].who = m
      PROVE  Unsaved(m)' \/ (At(h, "cleared") /\ handler[h].who = m)
  BY <1>1, <1>2 DEF Unsaved, At
<1>3. ASSUME NEW g \in Handlers \ {h} PROVE Threatens(g)' <=> Threatens(g)
  BY <1>1, <1>3 DEF Threatens, At
<1> QED
  BY <1>1, <1>2, <1>3 DEF Unsaved

\* A handler that goes on with its member, or stops.
LEMMA Proceeds ==
  ASSUME TypeOK, StageInv, half = "members", half' = half, EarnedInv, NEW h \in Handlers, NEW t \in Task,
         handler' = [handler EXCEPT ![h] = t], ~At(h, "idle"),
         t = Idle \/ (t.who = handler[h].who /\ t.at \in MemberStages),
         t.at = "save" => Threatens(h), t.at = "kick" => Threatens(h),
         excused \subseteq excused',
         \A m \in Members \ excused' : counters'[m] <= since'[m] /\ (file'[m] <= since'[m] \/ Unsaved(m)'),
         \A m \in Members : m # handler[h].who => since'[m] = since[m],
         since' = since \/ t.at = "cleared"
  PROVE  EarnedInv'
<1>1. handler'[h] = t /\ \A g \in Handlers \ {h} : handler'[g] = handler[g]
  BY OthersStand
<1>2. StageInv'
  <2>1. handler[h] # Idle
    BY DEF At, Idle
  <2>2. handler[h].who \in Members
    BY <2>1 DEF StageInv
  <2> QED
    BY <2>2, Turns
<1>3. ASSUME NEW g \in Handlers
      PROVE  /\ handler[g].at # "idle" => handler[g].who \in Members
             /\ handler'[g].who \in Members => handler'[g].at # "idle"
  BY <1>2, NoneAssumption DEF StageInv, At, MemberStages, ChannelStages, FilterStages, Idle
<1>4. \A g \in Handlers : ~At(g, "idle")' => handler'[g].who = handler[g].who /\ ~At(g, "idle")
  BY <1>1 DEF At, Idle
<1>5. ASSUME NEW f \in Handlers, NEW g \in Handlers, f # g,
             ~At(f, "idle")', handler'[f].who = handler'[g].who
      PROVE  handler'[f].who \in excused'
  <2>1. ~At(g, "idle")'
    <3>1. handler'[f].who \in Members
      BY <1>2, <1>5 DEF StageInv, At, Idle
    <3> QED
      BY <3>1, <1>3, <1>5 DEF At
  <2>2. handler[f].who = handler[g].who /\ ~At(f, "idle")
    BY <1>4, <1>5, <2>1
  <2>3. handler[f].who \in excused
    BY <2>2, <1>5 DEF EarnedInv
  <2> QED
    BY <2>3, <1>4, <1>5
<1>6. ASSUME NEW g \in Handlers, Threatens(g)'
      PROVE  handler'[g].who \in excused' \/ since'[handler'[g].who] >= WarnLimit
  <2>1. Threatens(g) /\ handler'[g].who = handler[g].who
    <3>1. CASE g = h
      BY <3>1, <1>1, <1>6 DEF Threatens, At, Idle
    <3>2. CASE g # h
      BY <3>2, <1>1, <1>6, OthersStand
    <3> QED
      BY <3>1, <3>2
  <2>2. handler[g].who \in excused \/ since[handler[g].who] >= WarnLimit
    BY <2>1 DEF EarnedInv
  <2>3. CASE since' = since
    BY <2>1, <2>2, <2>3
  <2>4. CASE t.at = "cleared"
    <3>1. g # h
      BY <2>4, <1>1, <1>6 DEF Threatens, At
    <3>2. CASE handler[g].who = handler[h].who
      <4>1. ~At(g, "idle")
        BY <2>1 DEF Threatens, At
      <4> QED
        BY <3>1, <3>2, <4>1, <2>1 DEF EarnedInv
    <3>3. CASE handler[g].who # handler[h].who
      <4>1. handler[g].who \in Members
        <5>1. handler[g].at # "idle"
          BY <2>1 DEF Threatens, At
        <5> QED
          BY <5>1, <1>3
      <4> QED
        BY <4>1, <3>3, <2>1, <2>2
    <3> QED
      BY <3>2, <3>3
  <2> QED
    BY <2>3, <2>4
<1> QED
  BY <1>5, <1>6 DEF EarnedInv

\* A handler that starts on member m, whom the handlers already at work on excuse.
LEMMA Starts ==
  ASSUME TypeOK, StageInv, half = "members", half' = half, EarnedInv, NEW h \in Handlers, NEW m \in Members,
         NEW t \in Task, handler' = [handler EXCEPT ![h] = t], At(h, "idle"),
         t.at \in {"save", "cleared"}, t.who = m,
         excused' = IF Busy(m) THEN excused \cup {m} ELSE excused,
         \A n \in Members \ excused' : counters'[n] <= since'[n] /\ (file'[n] <= since'[n] \/ Unsaved(n)'),
         \A n \in Members : n # m => since'[n] = since[n],
         Threatens(h)' => m \in excused' \/ since'[m] >= WarnLimit
  PROVE  EarnedInv'
<1>1. handler'[h] = t /\ \A g \in Handlers \ {h} : handler'[g] = handler[g]
  BY OthersStand
<1>2. excused \subseteq excused' /\ \A g \in Handlers : handler[g].who = m => m \in excused'
  BY DEF Busy
<1>3. ASSUME NEW f \in Handlers, NEW g \in Handlers, f # g,
             ~At(f, "idle")', handler'[f].who = handler'[g].who
      PROVE  handler'[f].who \in excused'
  <2>1. CASE f = h \/ g = h
    BY <2>1, <1>1, <1>2, <1>3
  <2>2. CASE f # h /\ g # h
    <3>1. handler'[f] = handler[f] /\ handler'[g] = handler[g] /\ ~At(f, "idle")
      BY <2>2, <1>1, <1>3 DEF At
    <3> QED
      BY <3>1, <1>2, <1>3 DEF EarnedInv
  <2> QED
    BY <2>1, <2>2
<1>4. ASSUME NEW g \in Handlers, Threatens(g)'
      PROVE  handler'[g].who \in excused' \/ since'[handler'[g].who] >= WarnLimit
  <2>1. CASE g = h
    BY <2>1, <1>1, <1>4
  <2>2. CASE g # h
    <3>1. Threatens(g) /\ handler'[g] = handler[g]
      BY <2>2, <1>1, <1>4, OthersStand
    <3>2. handler[g].who \in excused \/ since[handler[g].who] >= WarnLimit
      BY <3>1 DEF EarnedInv
    <3>3. handler[g].who \in Members
      <4>1. handler[g].at # "idle"
        BY <3>1 DEF Threatens, At
      <4> QED
        BY <4>1 DEF StageInv, At, Idle
    <3>4. CASE handler[g].who = m
      BY <3>4, <3>1, <1>2
    <3>5. CASE handler[g].who # m
      BY <3>1, <3>2, <3>3, <3>5, <1>2
    <3> QED
      BY <3>4, <3>5
  <2> QED
    BY <2>1, <2>2
<1> QED
  BY <1>3, <1>4 DEF EarnedInv

LEMMA EarnedCounters ==
  ASSUME EarnedInv, half = "members", TypeOK, NEW n \in Members, n \notin excused
  PROVE  /\ counters[n] <= since[n] /\ (file[n] <= since[n] \/ Unsaved(n))
         /\ counters[n] \in Nat /\ file[n] \in Nat /\ since[n] \in Nat
BY Types DEF EarnedInv

LEMMA WarnEarned ==
  ASSUME TypeOK, StageInv, EarnedInv, half = "members", MembersOnly, NEW h \in Handlers, NEW m \in Members,
         OnWarn(h, m)
  PROVE  EarnedInv'
<1>0. PICK n \in Nat : n = counters[m] + 1
  BY Types
<1> DEFINE t == [Idle EXCEPT !.at = "save", !.who = m, !.count = n]
<1>1. handler' = [handler EXCEPT ![h] = t] /\ half' = half /\ At(h, "idle")
  BY <1>0 DEF OnWarn, MembersOnly, Begin
<1>2. t \in Task /\ t.at = "save" /\ t.who = m /\ t.count = n
  BY DEF Task, Idle, MemberStages
<1> HIDE DEF t
<1>3. /\ excused' = IF Busy(m) THEN excused \cup {m} ELSE excused
      /\ file' = file /\ since' = [since EXCEPT ![m] = @ + 1] /\ counters' = Pruned(Incremented(m))
  BY DEF OnWarn
<1>4. ASSUME NEW k \in Members, k \notin excused
      PROVE  /\ since'[k] = IF k = m THEN since[k] + 1 ELSE since[k]
             /\ counters'[k] <= since'[k] /\ (file'[k] <= since'[k] \/ Unsaved(k)')
  <2>1. since'[k] = IF k = m THEN since[k] + 1 ELSE since[k]
    BY <1>3, Types
  <2>2. counters'[k] = 0 \/ counters'[k] = Incremented(m)[k]
    BY <1>3, Warned, PrunedCounters
  <2>3. Unsaved(k) => Unsaved(k)'
    BY <1>1, <1>2, OthersStand DEF At
  <2> QED
    BY <2>1, <2>2, <2>3, <1>3, <1>4, EarnedCounters, Warned
<1>5. excused \subseteq excused'
  BY <1>3
<1>6. \A k \in Members : k # m => since'[k] = since[k]
  BY <1>3, Types
<1>7. m \in excused' \/ counters[m] + 1 <= since'[m]
  BY <1>3, <1>5, EarnedCounters, Types
<1>8. Threatens(h)' => m \in excused' \/ since'[m] >= WarnLimit
  <2>1. handler'[h] = t
    BY <1>1, <1>2, OthersStand
  <2>2. since'[m] \in Nat /\ WarnLimit \in Nat
    BY <1>3, Types
  <2> QED
    BY <2>1, <2>2, <1>0, <1>2, <1>7 DEF Threatens, At
<1> QED
  BY <1>1, <1>2, <1>3, <1>4, <1>5, <1>6, <1>8, Starts

\* Clearing a counter leaves it and what it counted at 0, with the entry still to be saved.
LEMMA Cleared ==
  ASSUME TypeOK, StageInv, EarnedInv, half = "members", NEW h \in Handlers, NEW t \in Task,
         handler' = [handler EXCEPT ![h] = t], t.at = "cleared", t.who \in Members, ~At(h, "cleared"),
         ClearCounter(t.who), file' = file
  PROVE  /\ \A n \in Members \ excused :
              counters'[n] <= since'[n] /\ (file'[n] <= since'[n] \/ Unsaved(n)')
         /\ \A n \in Members : n # t.who => since'[n] = since[n]
<1>1. handler'[h] = t
  BY OthersStand
<1>2. ASSUME NEW n \in Members, n \notin excused, n # t.who
      PROVE  /\ since'[n] = since[n]
             /\ counters'[n] <= since'[n] /\ (file'[n] <= since'[n] \/ Unsaved(n)')
  <2>1. Unsaved(n) => Unsaved(n)'
    BY OthersStand
  <2>2. counters'[n] = counters[n] /\ since'[n] = since[n]
    BY <1>2, Types DEF ClearCounter
  <2> QED
    BY <2>1, <2>2, <1>2, EarnedCounters
<1>3. counters'[t.who] = 0 /\ since'[t.who] = 0 /\ Unsaved(t.who)'
  BY <1>1, Types DEF ClearCounter, Unsaved, At
<1> QED
  BY <1>2, <1>3, Types DEF ClearCounter

LEMMA ClearWarnEarned ==
  ASSUME TypeOK, StageInv, EarnedInv, half = "members", MembersOnly, NEW h \in Handlers, NEW m \in Members,
         OnClearWarn(h, m)
  PROVE  EarnedInv'
<1> DEFINE t == [Idle EXCEPT !.at = "cleared", !.who = m]
<1>1. handler' = [handler EXCEPT ![h] = t] /\ half' = half /\ At(h, "idle")
  BY DEF OnClearWarn, MembersOnly, Begin
<1>2. t \in Task /\ t.at = "cleared" /\ t.who = m
  BY DEF Task, Idle, MemberStages
<1> HIDE DEF t
<1>3. /\ excused' = IF Busy(m) THEN excused \cup {m} ELSE excused
      /\ file' = file /\ ClearCounter(m)
  BY DEF OnClearWarn
<1>4. /\ \A n \in Members \ excused' :
              counters'[n] <= since'[n] /\ (file'[n] <= since'[n] \/ Unsaved(n)')
      /\ \A n \in Members : n # m => since'[n] = since[n]
  BY <1>1, <1>2, <1>3, Cleared DEF At
<1>5. ~Threatens(h)'
  BY <1>1, <1>2, OthersStand DEF Threatens, At
<1> QED
  BY <1>1, <1>2, <1>3, <1>4, <1>5, Starts

\* The task a handler turns to when it goes on to a stage or stops.
LEMMA NextTask ==
  ASSUME StageInv, NEW h \in Handlers, NEW s \in MemberStages, Done(h) \/ Go(h, s)
  PROVE  \E t \in Task :
           /\ handler' = [handler EXCEPT ![h] = t]
           /\ \/ Done(h) /\ t = Idle
              \/ Go(h, s) /\ t.at = s /\ t.who = handler[h].who
<1>1. CASE Done(h)
  BY <1>1, Tasks DEF Done
<1>2. CASE Go(h, s)
  <2> DEFINE t == [handler[h] EXCEPT !.at = s]
  <2>1. handler' = [handler EXCEPT ![h] = t]
    BY <1>2, Tasks DEF Go
  <2>2. t \in Task /\ t.at = s /\ t.who = handler[h].who
    BY Tasks DEF Task
  <2> HIDE DEF t
  <2> QED
    BY <2>1, <2>2, <1>2
<1> QED
  BY <1>1, <1>2

LEMMA SaveEarned ==
  ASSUME TypeOK, StageInv, EarnedInv, half = "members", MembersOnly, NEW h \in Handlers,
         SaveCount(h) \/ SaveCleared(h)
  PROVE  EarnedInv'
<1>1. half' = half /\ ~At(h, "idle") /\ counters' = counters /\ since' = since
  BY DEF SaveCount, SaveCleared, At, MembersOnly
<1>2. file' = counters \/ file' = file
  BY DEF SaveCount, SaveCleared, Save
<1>3. CASE SaveCount(h)
  <2>1. PICK t \in Task :
          /\ handler' = [handler EXCEPT ![h] = t]
          /\ \/ Done(h) /\ t = Idle
             \/ Go(h, "kick") /\ t.at = "kick" /\ t.who = handler[h].who
    BY <1>3, NextTask DEF SaveCount, MemberStages
  <2>2. t.at = "kick" => Threatens(h)
    <3>1. CASE handler[h].count >= WarnLimit
      BY <1>3, <3>1 DEF SaveCount, Threatens
    <3>2. CASE ~(handler[h].count >= WarnLimit)
      <4>1. Done(h)
        BY <1>3, <3>2 DEF SaveCount
      <4>2. t = Idle
        <5>1. handler'[h] = Idle /\ handler'[h] = t
          BY <2>1, <4>1, OthersStand, Tasks DEF Done, StageInv
        <5> QED
          BY <5>1
      <4> QED
        BY <4>2 DEF Idle
    <3> QED
      BY <3>1, <3>2
  <2>3. t.at # "save" /\ excused' = excused
    BY <1>3, <2>1 DEF SaveCount, Idle
  <2>4. \A m \in Members : Unsaved(m) => Unsaved(m)'
    BY <1>3, <2>1, OthersStand DEF SaveCount, At
  <2>5. \A m \in Members \ excused' : counters'[m] <= since'[m] /\ (file'[m] <= since'[m] \/ Unsaved(m)')
    BY <1>1, <1>2, <2>3, <2>4, EarnedCounters
  <2>6. t = Idle \/ (t.who = handler[h].who /\ t.at \in MemberStages)
    BY <2>1 DEF MemberStages
  <2> QED
    BY <1>1, <2>1, <2>2, <2>3, <2>5, <2>6, Proceeds
<1>4. CASE SaveCleared(h)
  <2>1. handler' = [handler EXCEPT ![h] = Idle] /\ Idle \in Task
    BY <1>4, Tasks DEF SaveCleared, Done
  <2>2. excused' = IF file' = counters THEN excused ELSE excused \cup {handler[h].who}
    BY <1>4, <1>1 DEF SaveCleared
  <2>3. \A m \in Members \ excused' : counters'[m] <= since'[m] /\ (file'[m] <= since'[m] \/ Unsaved(m)')
    <3> SUFFICES ASSUME NEW m \in Members, m \notin excused'
                 PROVE  counters'[m] <= since'[m] /\ (file'[m] <= since'[m] \/ Unsaved(m)')
      OBVIOUS
    <3>1. m \notin excused
      BY <2>2
    <3>2. CASE file' = counters
      BY <3>1, <3>2, <1>1, EarnedCounters
    <3>3. CASE file' # counters
      <4>1. file' = file /\ m # handler[h].who
        BY <3>3, <1>2, <2>2
      <4>2. Unsaved(m) => Unsaved(m)'
        BY <4>1, <2>1, OthersStand
      <4> QED
        BY <4>1, <4>2, <3>1, <1>1, EarnedCounters
    <3> QED
      BY <3>2, <3>3
  <2>4. excused \subseteq excused'
    BY <2>2
  <2> QED
    BY <1>1, <2>1, <2>3, <2>4, Proceeds DEF Idle
<1> QED
  BY <1>3, <1>4

LEMMA KickEarned ==
  ASSUME TypeOK, StageInv, EarnedInv, half = "members", MembersOnly, NEW h \in Handlers,
         KickBan(h) \/ KickUnban(h)
  PROVE  EarnedInv'
<1>1. /\ half' = half /\ ~At(h, "idle") /\ ~At(h, "cleared")
      /\ counters' = counters /\ file' = file /\ since' = since /\ excused' = excused
  BY DEF KickBan, KickUnban, At, MembersOnly, warnings, memberHistory
<1>2. PICK s \in {"unban", "clear"} : Done(h) \/ Go(h, s)
  BY DEF KickBan, KickUnban
<1>3. PICK t \in Task :
        /\ handler' = [handler EXCEPT ![h] = t]
        /\ t = Idle \/ (t.at = s /\ t.who = handler[h].who)
  BY <1>2, NextTask DEF MemberStages
<1>4. \A m \in Members : Unsaved(m) => Unsaved(m)'
  BY <1>1, <1>3, OthersStand
<1>5. \A m \in Members \ excused' : counters'[m] <= since'[m] /\ (file'[m] <= since'[m] \/ Unsaved(m)')
  BY <1>1, <1>4, EarnedCounters
<1>6. /\ t.at # "save" /\ t.at # "kick"
      /\ t = Idle \/ (t.who = handler[h].who /\ t.at \in MemberStages)
  BY <1>3 DEF Idle, MemberStages
<1> QED
  BY <1>1, <1>3, <1>5, <1>6, Proceeds

LEMMA ClearEarned ==
  ASSUME TypeOK, StageInv, EarnedInv, half = "members", MembersOnly, NEW h \in Handlers,
         ClearAfterKick(h)
  PROVE  EarnedInv'
<1>1. /\ half' = half /\ ~At(h, "idle") /\ ~At(h, "cleared") /\ ClearCounter(handler[h].who)
      /\ file' = file /\ excused' = excused /\ Go(h, "cleared")
  BY DEF ClearAfterKick, At, MembersOnly
<1>2. handler[h].who \in Members
  BY <1>1 DEF StageInv, At, Idle
<1> DEFINE t == [handler[h] EXCEPT !.at = "cleared"]
<1>3. handler' = [handler EXCEPT ![h] = t]
  BY <1>1, Tasks DEF Go
<1>4. t \in Task /\ t.at = "cleared" /\ t.who = handler[h].who
  BY Tasks DEF Task, MemberStages
<1> HIDE DEF t
<1>5. /\ \A n \in Members \ excused' :
              counters'[n] <= since'[n] /\ (file'[n] <= since'[n] \/ Unsaved(n)')
      /\ \A n \in Members : n # handler[h].who => since'[n] = since[n]
  BY <1>1, <1>2, <1>3, <1>4, Cleared
<1> QED
  BY <1>1, <1>3, <1>4, <1>5, Proceeds DEF MemberStages

LEMMA RestartEarned ==
  ASSUME TypeOK, StageInv, EarnedInv, half = "members", MembersOnly, Restart
  PROVE  EarnedInv'
<1>1. handler' = [h \in Handlers |-> Idle] /\ since' = since /\ excused \subseteq excused'
  BY DEF Restart
<1>2. ASSUME NEW m \in Members, m \notin excused'
      PROVE  counters'[m] <= since'[m] /\ file'[m] <= since'[m]
  <2>1. m \notin excused /\ ~Unsaved(m)
    BY <1>2 DEF Restart, Unsaved, At
  <2>2. file[m] <= since[m] /\ file[m] \in Nat /\ since[m] \in Nat
    BY <2>1, EarnedCounters
  <2>3. \/ counters' = Pruned(file) /\ file' = file
        \/ counters' = NoCounters /\ file' = NoCounters
        \/ counters' = NoCounters /\ file' = file
    BY DEF Restart
  <2>4. NoCounters[m] = 0 /\ Pruned(file)[m] \in {0, file[m]}
    BY PrunedCounters, Types DEF NoCounters
  <2> QED
    BY <2>2, <2>3, <2>4, <1>1
<1>3. \A h \in Handlers : At(h, "idle")' /\ ~Threatens(h)'
  BY <1>1 DEF At, Threatens, Idle
<1> QED
  BY <1>2, <1>3 DEF EarnedInv

LEMMA MemberEarned ==
  ASSUME TypeOK, StageInv, EarnedInv, half = "members", MembersOnly, MemberNext
  PROVE  EarnedInv'
<1>1. ASSUME UNCHANGED <<counters, file, since, excused, handler>> PROVE EarnedInv'
  BY <1>1 DEF EarnedInv, Unsaved, Threatens, At, MembersOnly
<1>2. ASSUME NEW h \in Handlers, NEW m \in Members, Moderate(h, m) \/ Rejoin(m) PROVE EarnedInv'
  BY <1>1, <1>2 DEF Moderate, Rejoin, warnings, memberHistory
<1>3. ASSUME NEW m \in Members, Rejoin(m) PROVE EarnedInv'
  BY <1>1, <1>3 DEF Rejoin, warnings, memberHistory
<1> QED
  BY <1>2, <1>3, WarnEarned, ClearWarnEarned, SaveEarned, KickEarned, ClearEarned, RestartEarned
  DEF MemberNext

-----------------------------------------------------------------------------
(* The channels' half *)

LEMMA ChannelTypes ==
  ASSUME TypeOK, StageInv, LinkInv, half = "channels", ChannelsOnly, ChannelNext
  PROVE  TypeOK'
<1>1. ASSUME UNCHANGED <<settings, channels, channelHistory>> PROVE TypeOK'
  BY <1>1 DEF TypeOK, ChannelsOnly, settings, channels, channelHistory, warnings, standing, memberHistory
<1>2. ASSUME NEW h \in Handlers, NEW c \in Channels,
             PostAs(h, c) \/ \E op \in {"allow", "deny", "toggle"} : OnBC(h, op, c)
      PROVE  TypeOK'
  BY <1>1, <1>2 DEF PostAs, OnBC
<1>3. ASSUME NEW h \in Handlers, LinkedChat(h) \/ GetChat(h) \/ Judge(h) \/ CommitRefused(h) PROVE TypeOK'
  BY <1>1, <1>3 DEF LinkedChat, GetChat, Judge, CommitRefused
<1>4. ASSUME NEW h \in Handlers, StoreLink(h) PROVE TypeOK'
  <2>1. cache' \in [id : Channels \cup {None}, known : BOOLEAN, expires : Nat]
    <3>1. handler[h].asked + (IF handler[h].known THEN LinkedTTL ELSE LinkedFailTTL) \in Nat
      BY Tasks, Types
    <3> DEFINE e == handler[h].asked + (IF handler[h].known THEN LinkedTTL ELSE LinkedFailTTL)
    <3>2. cache' = [id |-> handler[h].id, known |-> handler[h].known, expires |-> e] /\ e \in Nat
      BY <1>4, <3>1 DEF StoreLink
    <3> HIDE DEF e
    <3> QED
      BY <3>2, Tasks
  <2> QED
    BY <1>4, <2>1 DEF StoreLink, TypeOK, ChannelsOnly, settings, channelHistory, warnings, standing,
                      memberHistory
<1>5. ASSUME NEW h \in Handlers, handler[h].who \in Channels, BanSenderChat(h) \/ UnbanSenderChat(h)
      PROVE  TypeOK'
  BY <1>5 DEF BanSenderChat, UnbanSenderChat, TypeOK, ChannelsOnly, settings, channelHistory,
              warnings, standing, memberHistory
<1>6. ASSUME NEW h \in Handlers, handler[h].who \in Channels, CommitBC(h) PROVE TypeOK'
  <2>1. whitelist' \in Seq(Channels)
    BY <1>6, NextWhitelist DEF CommitBC, TypeOK
  <2>2. enabled' \in BOOLEAN /\ revision' \in Nat /\ unlifted' \subseteq Channels
    <3>1. unlifted' = unlifted \/ unlifted' = unlifted \cup {handler[h].who}
          \/ unlifted' = unlifted \ {handler[h].who}
      BY <1>6 DEF CommitBC
    <3>2. enabled' \in BOOLEAN
      <4>1. enabled' = enabled \/ enabled' = ~enabled
        BY <1>6 DEF CommitBC
      <4> QED
        BY <4>1, Zenon DEF TypeOK
    <3>3. revision' \in Nat
      BY <1>6 DEF CommitBC, TypeOK
    <3> QED
      BY <1>6, <3>1, <3>2, <3>3 DEF TypeOK
  <2>3. UNCHANGED <<channels, apart>>
    BY <1>6 DEF CommitBC
  <2> QED
    BY <2>1, <2>2, <2>3 DEF TypeOK, ChannelsOnly, channels, warnings, standing, memberHistory
<1>7. ASSUME NEW h \in Handlers, BanSenderChat(h) \/ UnbanSenderChat(h) \/ CommitBC(h)
      PROVE  handler[h].who \in Channels
  BY <1>7 DEF BanSenderChat, UnbanSenderChat, CommitBC, StageInv, Idle, At
<1>8. ASSUME Relink PROVE TypeOK'
  BY <1>8 DEF Relink, LinkInv, TypeOK, ChannelsOnly, settings, warnings, standing, memberHistory
<1>9. ASSUME Tick PROVE TypeOK'
  BY <1>9 DEF Tick, LinkInv, TypeOK, ChannelsOnly, settings, channels, warnings, standing, memberHistory
<1> QED
  BY <1>2, <1>3, <1>4, <1>5, <1>6, <1>7, <1>8, <1>9 DEF ChannelNext

\* Who is allowed, and who is being filtered, after a step.
LEMMA AllowedAfterCommit ==
  ASSUME TypeOK, NEW h \in Handlers, handler[h].who \in Channels, CommitBC(h),
         NEW c \in Channels, Allowed(c)'
  PROVE  Allowed(c) \/ (handler[h].op = "allow" /\ c = handler[h].who)
<1>1. PICK i \in 1..Len(whitelist') : whitelist'[i] = c
  BY DEF Allowed
<1>2. CASE handler[h].op = "toggle"
  BY <1>1, <1>2 DEF CommitBC, Allowed
<1>3. CASE handler[h].op # "toggle"
  <2>1. PICK allow \in BOOLEAN : allow = (handler[h].op = "allow")
    OBVIOUS
  <2>2. whitelist' = NextChannelWhitelist(handler[h].who, allow)
    BY <1>3, <2>1 DEF CommitBC
  <2>3. \/ allow /\ whitelist'[i] = handler[h].who
        \/ \E j \in 1..Len(whitelist) : whitelist'[i] = whitelist[j]
    BY <1>1, <2>2, NextWhitelist
  <2> QED
    BY <1>1, <2>1, <2>3 DEF Allowed
<1> QED
  BY <1>2, <1>3

\* The channels whose unban is still under way, and those with a post being filtered
Lifting(c) == \E h \in Handlers : At(h, "lift") /\ handler[h].who = c
Unfiltered(h) == handler[h].at \in FilterStages /\ Allowed(handler[h].who) => handler[h].who \in unlifted

LEMMA AllowSplit ==
  AllowInv <=>
    /\ \A c \in Channels : Allowed(c) /\ c \in barred => c \in unlifted \/ Lifting(c)
    /\ half = "members" => barred = {}
    /\ \A h \in Handlers : Unfiltered(h)
BY DEF AllowInv, AllowedChannelsMayPost, Lifting, Unfiltered

\* Nothing new to say: no channel is barred or allowed that was not, no unban is over, and a
\* handler that filters a post did so before.
LEMMA AllowFrame ==
  ASSUME AllowInv, half = "channels", half' = half, UNCHANGED <<barred, whitelist, unlifted>>,
         \A c \in Channels : Lifting(c) => Lifting(c)',
         \A h \in Handlers : Unfiltered(h)'
  PROVE  AllowInv'
<1>1. \A c \in Channels : Allowed(c)' => Allowed(c)
  BY DEF Allowed
<1>2. \A c \in Channels : Allowed(c) /\ c \in barred => c \in unlifted \/ Lifting(c)
  BY AllowSplit
<1>3. \A c \in Channels : Allowed(c)' /\ c \in barred' => c \in unlifted' \/ Lifting(c)'
  BY <1>1, <1>2
<1> QED
  BY <1>3 DEF AllowInv, AllowedChannelsMayPost, Lifting, Unfiltered

\* The task a channel handler turns to, field by field.
Becomes(h, at, who, asked, id, known) ==
  /\ handler'[h].at = at /\ handler'[h].who = who /\ handler'[h].asked = asked
  /\ handler'[h].id = id /\ handler'[h].known = known
Stays(h, at) ==
  Becomes(h, at, handler[h].who, handler[h].asked, handler[h].id, handler[h].known)
Stops(h) == Becomes(h, "idle", None, 0, None, FALSE)
Alone(h) == \A g \in Handlers \ {h} : handler'[g] = handler[g]

LEMMA GoMoves ==
  ASSUME StageInv, NEW h \in Handlers, NEW s \in ChannelStages, Go(h, s)
  PROVE  Alone(h) /\ Stays(h, s)
<1>1. handler \in [Handlers -> Task] /\ handler' = [handler EXCEPT ![h].at = s]
  BY DEF StageInv, Go
<1>2. Alone(h)
  BY <1>1 DEF Alone
<1>3. handler'[h] = [handler[h] EXCEPT !.at = s] /\ handler[h] \in Task
  BY <1>1
<1> QED
  BY <1>2, <1>3 DEF Stays, Becomes, Task

LEMMA DoneMoves ==
  ASSUME StageInv, NEW h \in Handlers, Done(h)
  PROVE  Alone(h) /\ Stops(h)
<1>1. handler'[h] = Idle /\ Alone(h)
  BY DEF StageInv, Done, Alone
<1> QED
  BY <1>1 DEF Stops, Becomes, Idle

LEMMA StartMoves ==
  ASSUME StageInv, NEW h \in Handlers, NEW c \in Channels
  PROVE  /\ PostAs(h, c) => Alone(h) /\ Becomes(h, "link", c, 0, None, FALSE)
         /\ \A op : OnBC(h, op, c) => Alone(h) /\ Becomes(h, "commit", c, 0, None, FALSE)
<1>1. ASSUME PostAs(h, c) PROVE Alone(h) /\ Becomes(h, "link", c, 0, None, FALSE)
  <2>1. handler'[h] = [Idle EXCEPT !.at = "link", !.who = c] /\ Alone(h)
    BY <1>1 DEF StageInv, PostAs, Alone
  <2> QED
    BY <2>1 DEF Becomes, Idle
<1>2. ASSUME NEW op, OnBC(h, op, c) PROVE Alone(h) /\ Becomes(h, "commit", c, 0, None, FALSE)
  <2>1. handler'[h] = [Idle EXCEPT !.at = "commit", !.op = op, !.who = c, !.rev = revision] /\ Alone(h)
    BY <1>2 DEF StageInv, OnBC, Alone
  <2> QED
    BY <2>1 DEF Becomes, Idle
<1> QED
  BY <1>1, <1>2

LEMMA LookupMoves ==
  ASSUME StageInv, NEW h \in Handlers
  PROVE  /\ LinkedChat(h) /\ now < cache.expires =>
              Alone(h) /\ Becomes(h, "judge", handler[h].who, now, cache.id, cache.known)
         /\ LinkedChat(h) /\ ~(now < cache.expires) =>
              Alone(h) /\ Becomes(h, "fetch", handler[h].who, now, handler[h].id, handler[h].known)
         /\ GetChat(h) =>
              /\ Alone(h)
              /\ \/ Becomes(h, "store", handler[h].who, handler[h].asked, linked, TRUE)
                 \/ Stays(h, "store")
<1>0. handler \in [Handlers -> Task] /\ handler[h] \in Task
  BY DEF StageInv
<1>1. ASSUME LinkedChat(h), now < cache.expires
      PROVE  Alone(h) /\ Becomes(h, "judge", handler[h].who, now, cache.id, cache.known)
  <2>1. /\ handler'[h] = [handler[h] EXCEPT !.at = "judge", !.asked = now, !.id = cache.id,
                                            !.known = cache.known]
        /\ Alone(h)
    BY <1>0, <1>1 DEF LinkedChat, Alone
  <2> QED
    BY <1>0, <2>1 DEF Becomes, Task
<1>2. ASSUME LinkedChat(h), ~(now < cache.expires)
      PROVE  Alone(h) /\ Becomes(h, "fetch", handler[h].who, now, handler[h].id, handler[h].known)
  <2>1. handler'[h] = [handler[h] EXCEPT !.at = "fetch", !.asked = now] /\ Alone(h)
    BY <1>0, <1>2 DEF LinkedChat, Alone
  <2> QED
    BY <1>0, <2>1 DEF Becomes, Task
<1>3. ASSUME handler' = [handler EXCEPT ![h].at = "store", ![h].id = linked, ![h].known = TRUE]
      PROVE  Alone(h) /\ Becomes(h, "store", handler[h].who, handler[h].asked, linked, TRUE)
  <2>1. handler'[h] = [handler[h] EXCEPT !.at = "store", !.id = linked, !.known = TRUE] /\ Alone(h)
    BY <1>0, <1>3 DEF Alone
  <2> QED
    BY <1>0, <2>1 DEF Becomes, Task
<1>4. Go(h, "store") => Alone(h) /\ Stays(h, "store")
  BY GoMoves DEF ChannelStages, FilterStages
<1> QED
  BY <1>1, <1>2, <1>3, <1>4 DEF GetChat

\* Every step of a handler that leaves the whitelist, the bans and the channel's history alone:
\* it does not end an unban, and it filters a post only of a channel it filtered or one that is
\* not allowed.
LEMMA AllowMove ==
  ASSUME StageInv, AllowInv, half = "channels", half' = half, UNCHANGED <<barred, whitelist, unlifted>>,
         NEW h \in Handlers, Alone(h), ~At(h, "lift"),
         \/ handler'[h].at \notin FilterStages
         \/ handler[h].at \in FilterStages /\ handler'[h].who = handler[h].who
         \/ ~Allowed(handler'[h].who)
  PROVE  AllowInv'
<1>1. ASSUME NEW c \in Channels, Lifting(c) PROVE Lifting(c)'
  <2>1. PICK g \in Handlers : At(g, "lift") /\ handler[g].who = c
    BY <1>1 DEF Lifting
  <2>2. handler'[g] = handler[g]
    BY <2>1 DEF Alone
  <2> QED
    BY <2>1, <2>2 DEF Lifting, At
<1>2. ASSUME NEW g \in Handlers PROVE Unfiltered(g)'
  <2>1. Unfiltered(g) /\ Unfiltered(h)
    BY DEF AllowInv, Unfiltered
  <2>2. CASE g # h
    BY <2>1, <2>2 DEF Unfiltered, Allowed, Alone
  <2>3. CASE g = h
    BY <2>1, <2>3 DEF Unfiltered, Allowed
  <2> QED
    BY <2>2, <2>3
<1> QED
  BY <1>1, <1>2, AllowFrame

\* A commit of /bc: only the channel it allows is newly allowed, and that one waits for its unban.
LEMMA CommitAllows ==
  ASSUME TypeOK, StageInv, AllowInv, half = "channels", half' = half, NEW h \in Handlers, CommitBC(h)
  PROVE  AllowInv'
<1> DEFINE c == handler[h].who
           allow == handler[h].op = "allow"
<1>1. /\ At(h, "commit") /\ c \in Channels /\ barred' = barred
      /\ unlifted' = IF allow THEN (IF Filtering(c) THEN unlifted \cup {c} ELSE unlifted \ {c}) ELSE unlifted
      /\ IF allow THEN Go(h, "lift") ELSE Done(h)
  BY DEF CommitBC, StageInv, At, Idle, channels
<1>2. /\ Alone(h)
      /\ allow => handler'[h].at = "lift" /\ handler'[h].who = c
      /\ handler'[h].at \in {"lift", "idle"}
  <2>1. CASE allow
    BY <1>1, <2>1, GoMoves DEF Stays, Becomes, ChannelStages
  <2>2. CASE ~allow
    BY <1>1, <2>2, DoneMoves DEF Stops, Becomes
  <2> QED
    BY <2>1, <2>2
<1>3. \A d \in Channels : Allowed(d)' => Allowed(d) \/ (allow /\ d = c)
  BY <1>1, AllowedAfterCommit
<1>4. \A d \in Channels : d # c => (d \in unlifted <=> d \in unlifted')
  BY <1>1
<1> HIDE DEF allow
<1>5. ASSUME NEW d \in Channels, Allowed(d)', d \in barred', d \notin unlifted' PROVE Lifting(d)'
  <2>1. CASE allow /\ d = c
    BY <2>1, <1>2 DEF Lifting, At
  <2>2. CASE ~(allow /\ d = c)
    <3>1. Allowed(d) /\ d \in barred
      BY <2>2, <1>1, <1>3, <1>5
    <3>2. d \notin unlifted
      BY <2>2, <1>1, <1>4, <1>5
    <3>3. PICK g \in Handlers : At(g, "lift") /\ handler[g].who = d
      BY <3>1, <3>2 DEF AllowInv, AllowedChannelsMayPost
    <3>4. handler'[g] = handler[g]
      BY <3>3, <1>1, <1>2 DEF At, Alone
    <3> QED
      BY <3>3, <3>4 DEF Lifting, At
  <2> QED
    BY <2>1, <2>2
<1>6. ASSUME NEW g \in Handlers, handler'[g].at \in FilterStages, Allowed(handler[g].who)'
      PROVE  handler[g].who \in unlifted' /\ handler'[g] = handler[g]
  <2>1. g # h /\ handler'[g] = handler[g] /\ handler[g].at \in FilterStages
    BY <1>2, <1>6 DEF Alone, FilterStages
  <2>2. handler[g].who \in Channels
    BY <2>1 DEF StageInv, Idle, FilterStages
  <2>3. CASE handler[g].who = c
    <3>1. Filtering(c)
      BY <2>1, <2>3 DEF Filtering, FilterStages
    <3>2. CASE allow
      BY <3>1, <3>2, <1>1, <2>1, <2>3
    <3>3. CASE ~allow
      <4>1. Allowed(handler[g].who)
        BY <3>3, <2>2, <1>3, <1>6, <2>1
      <4> QED
        BY <4>1, <3>3, <2>1, <1>1 DEF AllowInv
    <3> QED
      BY <3>2, <3>3
  <2>4. CASE handler[g].who # c
    <3>1. Allowed(handler[g].who)
      BY <2>4, <2>2, <1>3, <1>6, <2>1 DEF Allowed
    <3> QED
      BY <3>1, <2>1, <2>2, <2>4, <1>4 DEF AllowInv
  <2> QED
    BY <2>3, <2>4
<1>7. \A g \in Handlers : Unfiltered(g)'
  <2> SUFFICES ASSUME NEW g \in Handlers, handler'[g].at \in FilterStages,
                      \E i \in 1..Len(whitelist') : whitelist'[i] = handler'[g].who
               PROVE  handler'[g].who \in unlifted'
    BY DEF Unfiltered, Allowed
  <2>1. handler'[g] = handler[g]
    BY <1>2 DEF Alone, FilterStages
  <2>2. Allowed(handler[g].who)'
    BY <2>1 DEF Allowed
  <2> QED
    BY <2>1, <2>2, <1>6
<1>8. half' = "channels"
  OBVIOUS
<1> QED
  BY <1>5, <1>7, <1>8 DEF AllowInv, AllowedChannelsMayPost, Lifting, Unfiltered

LEMMA BanAllows ==
  ASSUME TypeOK, StageInv, AllowInv, half = "channels", half' = half, NEW h \in Handlers,
         BanSenderChat(h)
  PROVE  AllowInv'
<1>1. /\ At(h, "bar") /\ Alone(h) /\ handler'[h].at = "idle"
      /\ barred' \subseteq barred \cup {handler[h].who}
      /\ whitelist' = whitelist /\ unlifted' = unlifted
  BY DoneMoves DEF BanSenderChat, settings, channelHistory, Stops, Becomes
<1>2. \A d : Allowed(d)' <=> Allowed(d)
  BY <1>1 DEF Allowed
<1>3. ASSUME NEW d \in Channels, Allowed(d)', d \in barred', d \notin unlifted' PROVE Lifting(d)'
  <2>1. Allowed(d) /\ d \notin unlifted
    BY <1>1, <1>2, <1>3
  <2>2. d # handler[h].who
    BY <1>1, <2>1 DEF AllowInv, At, FilterStages
  <2>3. PICK g \in Handlers : At(g, "lift") /\ handler[g].who = d
    BY <1>1, <1>3, <2>1, <2>2 DEF AllowInv, AllowedChannelsMayPost
  <2>4. handler'[g] = handler[g]
    BY <2>3, <1>1 DEF At, Alone
  <2> QED
    BY <2>3, <2>4 DEF Lifting, At
<1>4. ASSUME NEW g \in Handlers PROVE Unfiltered(g)'
  <2>1. CASE g = h
    BY <2>1, <1>1 DEF Unfiltered, FilterStages
  <2>2. CASE g # h
    BY <2>2, <1>1 DEF Unfiltered, Alone, AllowInv, Allowed
  <2> QED
    BY <2>1, <2>2
<1>5. half' = "channels"
  OBVIOUS
<1> QED
  BY <1>3, <1>4, <1>5 DEF AllowInv, AllowedChannelsMayPost, Lifting, Unfiltered

LEMMA UnbanAllows ==
  ASSUME TypeOK, StageInv, AllowInv, half = "channels", half' = half, NEW h \in Handlers,
         UnbanSenderChat(h)
  PROVE  AllowInv'
<1>1. /\ At(h, "lift") /\ Alone(h) /\ handler'[h].at = "idle" /\ whitelist' = whitelist
      /\ barred' \subseteq barred /\ unlifted \subseteq unlifted'
      /\ handler[h].who \notin barred' \/ handler[h].who \in unlifted'
  BY DoneMoves DEF UnbanSenderChat, settings, Stops, Becomes
<1>2. \A d : Allowed(d)' <=> Allowed(d)
  BY <1>1 DEF Allowed
<1>3. ASSUME NEW d \in Channels, Allowed(d)', d \in barred', d \notin unlifted' PROVE Lifting(d)'
  <2>1. Allowed(d) /\ d \in barred /\ d \notin unlifted /\ d # handler[h].who
    BY <1>1, <1>2, <1>3
  <2>2. PICK g \in Handlers : At(g, "lift") /\ handler[g].who = d
    BY <2>1 DEF AllowInv, AllowedChannelsMayPost
  <2>3. handler'[g] = handler[g]
    BY <2>1, <2>2, <1>1 DEF Alone
  <2> QED
    BY <2>2, <2>3 DEF Lifting, At
<1>4. ASSUME NEW g \in Handlers PROVE Unfiltered(g)'
  <2>1. CASE g = h
    BY <2>1, <1>1 DEF Unfiltered, FilterStages
  <2>2. CASE g # h
    BY <2>2, <1>1 DEF Unfiltered, Alone, AllowInv, Allowed
  <2> QED
    BY <2>1, <2>2
<1>5. half' = "channels"
  OBVIOUS
<1> QED
  BY <1>3, <1>4, <1>5 DEF AllowInv, AllowedChannelsMayPost, Lifting, Unfiltered

LEMMA ChannelAllows ==
  ASSUME TypeOK, StageInv, AllowInv, half = "channels", ChannelsOnly, ChannelNext
  PROVE  AllowInv'
<1>0. half' = half
  BY DEF ChannelsOnly
<1>1. ASSUME NEW h \in Handlers, NEW c \in Channels, PostAs(h, c) PROVE AllowInv'
  <2>1. /\ ~At(h, "lift") /\ Alone(h) /\ handler'[h].who = c /\ ~Allowed(c)
        /\ UNCHANGED <<barred, whitelist, unlifted>>
    BY <1>1, StartMoves DEF PostAs, Begin, At, Becomes, settings, channels, channelHistory
  <2> QED
    BY <1>0, <2>1, AllowMove
<1>2. ASSUME NEW h \in Handlers, NEW c \in Channels, NEW op, OnBC(h, op, c) PROVE AllowInv'
  <2>1. /\ ~At(h, "lift") /\ Alone(h) /\ handler'[h].at = "commit"
        /\ UNCHANGED <<barred, whitelist, unlifted>>
    BY <1>2, StartMoves DEF OnBC, Begin, At, Becomes, settings, channels, channelHistory
  <2> QED
    BY <1>0, <2>1, AllowMove DEF FilterStages
<1>3. ASSUME NEW h \in Handlers, LinkedChat(h) \/ GetChat(h) PROVE AllowInv'
  <2>1. /\ ~At(h, "lift") /\ handler[h].at \in FilterStages
        /\ UNCHANGED <<barred, whitelist, unlifted>>
    BY <1>3 DEF LinkedChat, GetChat, At, FilterStages, settings, channels, channelHistory
  <2>2. Alone(h) /\ handler'[h].who = handler[h].who
    BY <1>3, LookupMoves DEF Stays, Becomes
  <2> QED
    BY <1>0, <2>1, <2>2, AllowMove
<1>4. ASSUME NEW h \in Handlers, StoreLink(h) \/ Judge(h) PROVE AllowInv'
  <2>1. /\ ~At(h, "lift") /\ handler[h].at \in FilterStages
        /\ UNCHANGED <<barred, whitelist, unlifted>>
    BY <1>4 DEF StoreLink, Judge, At, FilterStages, settings, channels, channelHistory
  <2>2. Done(h) \/ \E s \in {"judge", "bar"} : Go(h, s)
    BY <1>4 DEF StoreLink, Judge
  <2>3. Alone(h) /\ (handler'[h].who = handler[h].who \/ handler'[h].at = "idle")
    BY <2>2, GoMoves, DoneMoves DEF Stays, Stops, Becomes, ChannelStages, FilterStages
  <2>4. handler'[h].at \notin FilterStages \/ handler'[h].who = handler[h].who
    BY <2>3 DEF FilterStages
  <2> QED
    BY <1>0, <2>1, <2>3, <2>4, AllowMove
<1>5. ASSUME NEW h \in Handlers, CommitRefused(h) PROVE AllowInv'
  <2>1. /\ ~At(h, "lift") /\ Alone(h) /\ handler'[h].at = "idle"
        /\ UNCHANGED <<barred, whitelist, unlifted>>
    BY <1>5, DoneMoves DEF CommitRefused, At, Stops, Becomes, settings, channels, channelHistory
  <2> QED
    BY <1>0, <2>1, AllowMove DEF FilterStages
<1>6. ASSUME Relink \/ Tick PROVE AllowInv'
  BY <1>0, <1>6 DEF Relink, Tick, AllowInv, AllowedChannelsMayPost, Allowed, At, settings, channels
<1> QED
  BY <1>0, <1>1, <1>2, <1>3, <1>4, <1>5, <1>6, CommitAllows, BanAllows, UnbanAllows DEF ChannelNext

\* A handler's step that leaves the clock, the link and the cache alone.
LEMMA LinkFrame ==
  ASSUME LinkInv, half = "channels", half' = half, UNCHANGED <<now, linked, apart, cache>>,
         NEW h \in Handlers, Alone(h), Reading(handler'[h])
  PROVE  LinkInv'
<1>1. ASSUME NEW g \in Handlers PROVE Reading(handler'[g])
  BY DEF LinkInv, Alone
<1>2. ASSUME NEW g \in Handlers PROVE Reading(handler[g])'
  BY <1>1 DEF Reading, RulesOut
<1> QED
  BY <1>2 DEF LinkInv, RulesOut

LEMMA Readings ==
  ASSUME TypeOK, StageInv, LinkInv, half = "channels", NEW h \in Handlers
  PROVE  /\ Reading(handler[h]) /\ now \in Nat /\ now # 0
         /\ \A d \in Channels : apart[d] \in Nat /\ apart[d] <= now /\ (d # linked => apart[d] = now)
         /\ handler[h].asked \in Nat /\ handler[h].asked <= now
BY Tasks, Types DEF LinkInv, Reading

LEMMA LinkedChatLinks ==
  ASSUME TypeOK, StageInv, LinkInv, half = "channels", half' = half, NEW h \in Handlers, LinkedChat(h)
  PROVE  LinkInv'
<1>1. UNCHANGED <<now, linked, apart, cache>> /\ handler[h].at = "link"
  BY DEF LinkedChat, At, bounds, channels, channelHistory
<1>2. CASE now < cache.expires
  <2>1. Alone(h) /\ Becomes(h, "judge", handler[h].who, now, cache.id, cache.known)
    BY <1>2, LookupMoves
  <2>2. cache.known => RulesOut(cache.id, now)
    <3> SUFFICES ASSUME cache.known, NEW d \in Channels \ {cache.id}
                 PROVE  apart[d] # 0 /\ apart[d] + LinkedTTL >= now
      BY DEF RulesOut
    <3>1. apart[d] # 0 /\ apart[d] + LinkedTTL >= cache.expires
      BY DEF LinkInv, RulesOut
    <3> QED
      BY <3>1, <1>2, Readings, Types, CacheType
  <2>3. Reading(handler'[h])
    BY <2>1, <2>2, Readings DEF Reading, Becomes
  <2> QED
    BY <1>1, <2>1, <2>3, LinkFrame
<1>3. CASE ~(now < cache.expires)
  <2>1. Alone(h) /\ Becomes(h, "fetch", handler[h].who, now, handler[h].id, handler[h].known)
    BY <1>3, LookupMoves
  <2>2. Reading(handler'[h])
    BY <1>1, <2>1, Readings DEF Reading, Becomes
  <2> QED
    BY <1>1, <2>1, <2>2, LinkFrame
<1> QED
  BY <1>2, <1>3

LEMMA GetChatLinks ==
  ASSUME TypeOK, StageInv, LinkInv, half = "channels", half' = half, NEW h \in Handlers, GetChat(h)
  PROVE  LinkInv'
<1>1. UNCHANGED <<now, linked, apart, cache>> /\ handler[h].at = "fetch"
  BY DEF GetChat, At, Clock, channels, channelHistory
<1>2. /\ Alone(h)
      /\ \/ Becomes(h, "store", handler[h].who, handler[h].asked, linked, TRUE)
         \/ Stays(h, "store")
  BY LookupMoves
<1>3. CASE Becomes(h, "store", handler[h].who, handler[h].asked, linked, TRUE)
  <2>1. \A d \in Channels \ {linked} : apart[d] # 0 /\ apart[d] >= handler[h].asked
    BY Readings
  <2>2. Reading(handler'[h])
    BY <1>3, <2>1, Readings DEF Reading, Becomes
  <2> QED
    BY <1>1, <1>2, <2>2, LinkFrame
<1>4. CASE Stays(h, "store")
  <2>1. Reading(handler'[h])
    BY <1>1, <1>4, Readings DEF Reading, Becomes, Stays
  <2> QED
    BY <1>1, <1>2, <2>1, LinkFrame
<1> QED
  BY <1>2, <1>3, <1>4

LEMMA StoreLinks ==
  ASSUME TypeOK, StageInv, LinkInv, half = "channels", half' = half, NEW h \in Handlers, StoreLink(h)
  PROVE  LinkInv'
<1>1. /\ UNCHANGED <<now, linked, apart>> /\ handler[h].at = "store"
      /\ cache'.id = handler[h].id /\ cache'.known = handler[h].known
      /\ handler[h].known => cache'.expires = handler[h].asked + LinkedTTL
  BY DEF StoreLink, At, bounds, channelHistory
<1>2. Alone(h) /\ Stays(h, "judge")
  BY GoMoves DEF StoreLink, ChannelStages, FilterStages
<1>3. ASSUME handler[h].known, NEW d \in Channels \ {handler[h].id}
      PROVE  /\ apart[d] # 0 /\ apart[d] + LinkedTTL >= handler[h].asked + LinkedTTL
             /\ apart[d] + LinkedTTL >= handler[h].asked
  <2>1. apart[d] # 0 /\ apart[d] >= handler[h].asked
    BY <1>1, <1>3, Readings DEF Reading
  <2> QED
    BY <2>1, Readings, Types
<1>4. Reading(handler'[h])
  BY <1>2, <1>3, Readings DEF Reading, RulesOut, Becomes, Stays
<1>5. ASSUME NEW g \in Handlers PROVE Reading(handler[g])'
  <2>1. Reading(handler'[g])
    BY <1>2, <1>4 DEF LinkInv, Alone
  <2> QED
    BY <2>1, <1>1 DEF Reading, RulesOut
<1>6. cache'.known => \A d \in Channels \ {cache'.id} :
        apart'[d] # 0 /\ apart'[d] + LinkedTTL >= cache'.expires
  BY <1>1, <1>3
<1> QED
  BY <1>1, <1>5, <1>6 DEF LinkInv, RulesOut

\* A reading stays good while time passes and the group's channel changes.
LEMMA LaterLinks ==
  ASSUME TypeOK, StageInv, LinkInv, half = "channels", ChannelsOnly, Relink \/ Tick
  PROVE  LinkInv'
<1>1. half' = half /\ cache' = cache /\ handler' = handler
  BY DEF ChannelsOnly, Relink, Tick, channels
<1>2. now \in Nat \ {0} /\ \A d \in Channels : apart[d] \in Nat /\ apart[d] <= now
  BY Types DEF LinkInv
<1>3. /\ now' \in Nat \ {0} /\ now <= now'
      /\ \A d \in Channels : apart'[d] = IF d # linked' THEN now' ELSE apart[d]
  <2>1. CASE Relink
    BY <2>1, <1>2, Types DEF Relink
  <2>2. CASE Tick
    BY <2>2, <1>2, Types DEF Tick, channels
  <2> QED
    BY <2>1, <2>2
<1>4. \A d \in Channels : /\ apart'[d] \in Nat /\ apart[d] <= apart'[d] /\ apart'[d] <= now'
                          /\ (d # linked' => apart'[d] = now')
  BY <1>2, <1>3
<1>5. ASSUME NEW t \in Nat, NEW id, RulesOut(id, t)
      PROVE  \A d \in Channels \ {id} : apart'[d] # 0 /\ apart'[d] + LinkedTTL >= t
  BY <1>2, <1>4, <1>5, Types DEF RulesOut
<1>6. ASSUME NEW g \in Handlers PROVE Reading(handler[g])'
  <2>1. handler[g].asked \in Nat /\ Reading(handler[g])
    BY Readings
  <2>2. handler[g].asked <= now'
    BY <1>2, <1>3, <2>1 DEF Reading
  <2>3. handler[g].at = "store" /\ handler[g].known =>
          \A d \in Channels \ {handler[g].id} : apart'[d] # 0 /\ apart'[d] >= handler[g].asked
    BY <1>2, <1>4, <2>1 DEF Reading
  <2>4. handler[g].at \in {"judge", "bar"} /\ handler[g].known =>
          \A d \in Channels \ {handler[g].id} : apart'[d] # 0 /\ apart'[d] + LinkedTTL >= handler[g].asked
    BY <1>5, <2>1 DEF Reading
  <2> QED
    BY <1>1, <2>1, <2>2, <2>3, <2>4 DEF Reading, RulesOut
<1>7. cache.known => \A d \in Channels \ {cache.id} : apart'[d] # 0 /\ apart'[d] + LinkedTTL >= cache.expires
  BY <1>5, CacheType DEF LinkInv
<1> QED
  BY <1>1, <1>3, <1>4, <1>6, <1>7 DEF LinkInv, RulesOut

LEMMA ChannelLinks ==
  ASSUME TypeOK, StageInv, LinkInv, half = "channels", ChannelsOnly, ChannelNext
  PROVE  LinkInv'
<1>0. half' = half
  BY DEF ChannelsOnly
<1>1. ASSUME NEW h \in Handlers, NEW c \in Channels,
             PostAs(h, c) \/ \E op \in {"allow", "deny", "toggle"} : OnBC(h, op, c)
      PROVE  LinkInv'
  <2>1. UNCHANGED <<now, linked, apart, cache>>
    BY <1>1 DEF PostAs, OnBC, channels, channelHistory
  <2>2. Alone(h) /\ \E s \in {"link", "commit"} : Becomes(h, s, c, 0, None, FALSE)
    BY <1>1, StartMoves
  <2>3. Reading(handler'[h])
    BY <2>2, Readings DEF Reading, Becomes
  <2> QED
    BY <1>0, <2>1, <2>2, <2>3, LinkFrame
<1>2. ASSUME NEW h \in Handlers, Done(h), UNCHANGED <<now, linked, apart, cache>> PROVE LinkInv'
  <2>1. Alone(h) /\ Stops(h)
    BY <1>2, DoneMoves
  <2>2. Reading(handler'[h])
    BY <2>1, Readings DEF Reading, Stops, Becomes
  <2> QED
    BY <1>0, <1>2, <2>1, <2>2, LinkFrame
<1>3. ASSUME NEW h \in Handlers, Judge(h), ~Done(h) PROVE LinkInv'
  <2>1. /\ UNCHANGED <<now, linked, apart, cache>> /\ handler[h].at = "judge"
        /\ handler[h].known /\ handler[h].id # handler[h].who /\ Go(h, "bar")
    BY <1>3 DEF Judge, At, channels, channelHistory, bounds
  <2>2. Alone(h) /\ Stays(h, "bar")
    BY <2>1, GoMoves DEF ChannelStages, FilterStages
  <2>3. Reading(handler'[h])
    BY <2>1, <2>2, Readings DEF Reading, Stays, Becomes
  <2> QED
    BY <1>0, <2>1, <2>2, <2>3, LinkFrame
<1>4. ASSUME NEW h \in Handlers, CommitBC(h), ~Done(h) PROVE LinkInv'
  <2>1. UNCHANGED <<now, linked, apart, cache>> /\ Go(h, "lift") /\ handler[h].at = "commit"
    BY <1>4 DEF CommitBC, At, channels, bounds
  <2>2. Alone(h) /\ Stays(h, "lift")
    BY <2>1, GoMoves DEF ChannelStages
  <2>3. Reading(handler'[h])
    BY <2>1, <2>2, Readings DEF Reading, Stays, Becomes
  <2> QED
    BY <1>0, <2>1, <2>2, <2>3, LinkFrame
<1>5. ASSUME NEW h \in Handlers,
             Judge(h) \/ BanSenderChat(h) \/ CommitRefused(h) \/ CommitBC(h) \/ UnbanSenderChat(h)
      PROVE  UNCHANGED <<now, linked, apart, cache>>
  BY <1>5 DEF Judge, BanSenderChat, CommitRefused, CommitBC, UnbanSenderChat, channels, channelHistory,
              bounds, Clock
<1>6. ASSUME NEW h \in Handlers, BanSenderChat(h) \/ CommitRefused(h) \/ UnbanSenderChat(h) PROVE Done(h)
  BY <1>6 DEF BanSenderChat, CommitRefused, UnbanSenderChat
<1> QED
  BY <1>0, <1>1, <1>2, <1>3, <1>4, <1>5, <1>6, LinkedChatLinks, GetChatLinks, StoreLinks, LaterLinks
  DEF ChannelNext

-----------------------------------------------------------------------------
(* The inductive invariant, and what it gives *)

LEMMA Initially == Init => IInv
<1> SUFFICES ASSUME Init PROVE IInv
  OBVIOUS
<1>1. NoCounters \in [Members -> Nat] /\ \A m \in Members : NoCounters[m] = 0
  BY DEF NoCounters
<1>2. Idle \in Task /\ Idle.at = "idle" /\ Idle.asked = 0 /\ Idle.known = FALSE
  BY DEF Idle, Task
<1>3. handler = [h \in Handlers |-> Idle] /\ now = 1 /\ cache = NoCache
  BY DEF Init
<1>4. TypeOK
  <2>1. apart \in [Channels -> Nat] /\ cache \in [id : Channels \cup {None}, known : BOOLEAN, expires : Nat]
    BY DEF Init, NoCache
  <2>2. whitelist \in Seq(Channels)
    BY DEF Init
  <2>3. member \in [Members -> {"in", "out", "banned"}] /\ half \in {"members", "channels"}
    BY DEF Init
  <2> QED
    BY <2>1, <2>2, <2>3, <1>1 DEF Init, TypeOK
<1>5. StageInv
  BY <1>2, <1>3 DEF StageInv
<1>6. LimitReachedIsKept
  BY DEF Init, LimitReachedIsKept
<1>7. EarnedInv
  <2>1. \A h \in Handlers : At(h, "idle")
    BY <1>2, <1>3 DEF At
  <2>2. \A h \in Handlers : ~Threatens(h)
    BY <2>1 DEF Threatens, At
  <2> QED
    BY <1>1, <2>1, <2>2 DEF EarnedInv, Init
<1>8. AllowInv
  <2>1. barred = {} /\ \A h \in Handlers : handler[h].at \notin FilterStages
    BY <1>2, <1>3 DEF Init, FilterStages
  <2> QED
    BY <2>1 DEF AllowInv, AllowedChannelsMayPost
<1>9. LinkInv
  <2>1. \A d \in Channels : apart[d] = IF d = linked THEN 0 ELSE 1
    BY DEF Init
  <2>2. ~cache.known
    BY <1>3 DEF NoCache
  <2>3. \A h \in Handlers : Reading(handler[h])
    BY <1>2, <1>3 DEF Reading
  <2> QED
    BY <1>3, <2>1, <2>2, <2>3 DEF LinkInv
<1> QED
  BY <1>4, <1>5, <1>6, <1>7, <1>8, <1>9 DEF IInv

LEMMA MemberStep ==
  ASSUME IInv, half = "members", MembersOnly, MemberNext
  PROVE  IInv'
<1>1. TypeOK' /\ StageInv' /\ LimitReachedIsKept' /\ EarnedInv'
  BY MemberTypes, MemberStageStep, MemberDue, MemberEarned DEF IInv
<1>2. half' = half /\ UNCHANGED <<whitelist, linked, cache, barred, apart, unlifted>>
  BY DEF MembersOnly, settings, channels, channelHistory
<1>3. AllowInv'
  <2>1. barred' = {}
    BY <1>2 DEF IInv, AllowInv
  <2>2. \A h \in Handlers : handler'[h].at \notin FilterStages
    BY <1>1, <1>2 DEF StageInv, Idle, MemberStages, FilterStages
  <2> QED
    BY <2>1, <2>2 DEF AllowInv, AllowedChannelsMayPost
<1>4. now' = now
  BY DEF MemberNext, OnWarn, OnClearWarn, Moderate, SaveCount, KickBan, KickUnban, ClearAfterKick,
         SaveCleared, Rejoin, Restart, Clock, bounds
<1>5. LinkInv'
  BY <1>2, <1>4 DEF IInv, LinkInv, RulesOut
<1> QED
  BY <1>1, <1>3, <1>5 DEF IInv

LEMMA ChannelStep ==
  ASSUME IInv, half = "channels", ChannelsOnly, ChannelNext
  PROVE  IInv'
<1>1. now \in Nat
  BY DEF IInv, LinkInv
<1>2. TypeOK' /\ StageInv' /\ AllowInv' /\ LinkInv'
  BY <1>1, ChannelTypes, ChannelStageStep, ChannelAllows, ChannelLinks DEF IInv
<1>3. half' = half /\ UNCHANGED <<counters, file, due, dueSaved>>
  BY DEF ChannelsOnly, warnings, memberHistory
<1>4. LimitReachedIsKept' /\ EarnedInv'
  BY <1>3 DEF IInv, LimitReachedIsKept, EarnedInv
<1> QED
  BY <1>2, <1>4 DEF IInv

LEMMA Stutter ==
  ASSUME IInv, UNCHANGED vars PROVE IInv'
<1>1. /\ UNCHANGED <<half, counters, file, writable, member, muted, enabled, whitelist, revision>>
      /\ UNCHANGED <<linked, cache, barred, handler, now, due, dueSaved, since, excused, apart, unlifted>>
  BY DEF vars, warnings, standing, settings, channels, bounds, memberHistory, channelHistory
<1>2. TypeOK' /\ StageInv' /\ LimitReachedIsKept'
  BY <1>1 DEF IInv, TypeOK, StageInv, LimitReachedIsKept
<1>3. EarnedInv'
  BY <1>1 DEF IInv, EarnedInv, Unsaved, Threatens, At
<1>4. AllowInv'
  BY <1>1 DEF IInv, AllowInv, AllowedChannelsMayPost, Allowed, At
<1>5. LinkInv'
  BY <1>1 DEF IInv, LinkInv, Reading, RulesOut
<1> QED
  BY <1>2, <1>3, <1>4, <1>5 DEF IInv

LEMMA Step == IInv /\ [Next]_vars => IInv'
<1>1. ASSUME IInv, Next PROVE IInv'
  BY <1>1, Halves, MemberStep, ChannelStep DEF IInv
<1> QED
  BY <1>1, Stutter

\* The inductive invariant: what each counter, handler and cached reading stands for
\* (internal/moderate, internal/tg).
THEOREM Inductive == Spec => []IInv
<1> QED
  BY Initially, Step, PTL DEF Spec

\* Every variable keeps its type, in both halves of internal/moderate.
THEOREM TypeCorrect == Spec => []TypeOK
<1>1. IInv => TypeOK
  BY DEF IInv
<1> QED
  BY <1>1, Inductive, PTL

\* warns.json and the table in memory keep every counter that reached the limit, through failed
\* kicks, the pruning and restarts.
THEOREM LimitsAreKept == Spec => []LimitReachedIsKept
<1>1. IInv => LimitReachedIsKept
  BY DEF IInv
<1> QED
  BY <1>1, Inductive, PTL

\* A channel that /bc allowed is not left banned, however many posts, commits and unbans overlap.
THEOREM AllowedMayPost == Spec => []AllowedChannelsMayPost
<1>1. IInv => AllowedChannelsMayPost
  BY DEF IInv, AllowInv
<1> QED
  BY <1>1, Inductive, PTL

\* /warn kicks only a member who collected WarnLimit warnings since the last kick or /clearwarn.
THEOREM KicksHaveCause == Spec => KicksAreEarned
<1>1. ASSUME IInv, NEW h \in Handlers, KickBan(h)
      PROVE  since[handler[h].who] >= WarnLimit \/ handler[h].who \in excused
  <2>1. half = "members"
    BY <1>1 DEF KickBan, At, IInv, StageInv, Idle, ChannelStages, FilterStages
  <2> QED
    BY <1>1, <2>1 DEF KickBan, Threatens, IInv, EarnedInv
<1>2. IInv /\ [Next]_vars => [\A h \in Handlers : KickBan(h) /\ member' # member =>
                                since[handler[h].who] >= WarnLimit \/ handler[h].who \in excused]_vars
  BY <1>1
<1> QED
  BY <1>2, Inductive, PTL DEF Spec, KicksAreEarned

\* FilterChannelSenders bans a channel only on a reading that ruled it out as the group's own.
THEOREM BansAreRuledOut == Spec => OnlyRuledOutChannelsBarred
<1>1. ASSUME IInv, NEW h \in Handlers, BanSenderChat(h)
      PROVE  apart[handler[h].who] # 0 /\ apart[handler[h].who] + LinkedTTL >= handler[h].asked
  <2>1. half = "channels" /\ handler[h].who \in Channels
    BY <1>1 DEF BanSenderChat, At, IInv, StageInv, Idle, MemberStages
  <2>2. Reading(handler[h]) /\ handler[h].at = "bar"
    BY <1>1, <2>1 DEF BanSenderChat, At, IInv, LinkInv
  <2> QED
    BY <2>1, <2>2 DEF Reading, RulesOut
<1>2. IInv /\ [Next]_vars =>
        [\A h \in Handlers : BanSenderChat(h) /\ barred' # barred =>
           LET c == handler[h].who IN apart[c] # 0 /\ apart[c] + LinkedTTL >= handler[h].asked]_vars
  BY <1>1
<1> QED
  BY <1>2, Inductive, PTL DEF Spec, OnlyRuledOutChannelsBarred
=============================================================================
