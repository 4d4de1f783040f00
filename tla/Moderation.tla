------------------------------ MODULE Moderation ------------------------------
(***************************************************************************)
(* internal/moderate in one guarded group: the warning counters of         *)
(* warns.json and the kick at the limit, the other member commands, and    *)
(* the filter that removes posts made in the name of a channel, with its   *)
(* whitelist and the cache of the linked channel (internal/tg).  Handlers  *)
(* run at once and wait for Telegram between their steps; the two halves   *)
(* share no state, so that a behaviour exercises one of them ("half").     *)
(***************************************************************************)
EXTENDS Naturals, FiniteSets, Sequences, SequencesExt

CONSTANTS Members,        \* user ids: counters that tie are evicted in their order
          Admins,         \* members whom warnPrecheck protects
          Channels, None,
          Handlers,       \* goroutines that run update handlers
          WarnLimit,
          WarnCounterMax,
          WhitelistMax,
          LinkedTTL, LinkedFailTTL,
          MaxNow,         \* bound: ticks of the clock
          MaxUpdates,     \* bound: updates handled
          MaxFaults,      \* bound: failed saves and calls
          MaxRestarts     \* bound: how often the process ends

ASSUME MemberAssumption == Members \subseteq Nat /\ IsFiniteSet(Members) /\ Admins \subseteq Members
ASSUME LimitAssumption == WarnLimit \in Nat \ {0} /\ WarnCounterMax \in Nat \ {0} /\ WhitelistMax \in Nat \ {0}
ASSUME NoneAssumption == None \notin Members /\ None \notin Channels
ASSUME TTLAssumption == LinkedTTL \in Nat /\ LinkedFailTTL \in Nat

VARIABLES
  half,       \* "members" or "channels"
  counters,   \* warningState.counters; 0 is an absent entry
  file,       \* the counters in warns.json
  writable,   \* FALSE once warns.json could not be read
  member,     \* each member's standing in the group, at Telegram
  muted,
  enabled, whitelist, revision,        \* the group's published settings
  linked,     \* the channel linked to the group, at Telegram
  cache,      \* linkedCache: the channel, whether it is known, and when it expires
  barred,     \* the channels banned from posting, at Telegram
  handler,    \* what each goroutine is doing
  now, updates, faults, restarts,
  (* history *)
  due, dueSaved,  \* members whose counter reached the limit and was not cleared; as last saved
  since,          \* warnings since the member was last kicked or cleared
  excused,        \* members whose handlers overlapped, or whose cleared counter was not saved
  apart,          \* the last tick at which each channel was not the linked one, or 0
  unlifted        \* channels allowed while a post was being filtered, or whose unban failed

warnings == <<counters, file, writable>>
standing == <<member, muted>>
settings == <<enabled, whitelist, revision>>
channels == <<linked, cache, barred>>
memberHistory == <<due, dueSaved, since, excused>>
channelHistory == <<apart, unlifted>>
bounds == <<now, updates, faults, restarts>>
vars == <<half, warnings, standing, settings, channels, handler, bounds, memberHistory, channelHistory>>

Idle == [at |-> "idle", who |-> None, op |-> "none", rev |-> 0, asked |-> 0,
         id |-> None, known |-> FALSE, count |-> 0]
NoCounters == [m \in Members |-> 0]
NoCache == [id |-> None, known |-> FALSE, expires |-> 0]

Init ==
  /\ half \in {"members", "channels"}
  /\ counters = NoCounters /\ file = NoCounters /\ writable = TRUE
  /\ member = [m \in Members |-> "in"] /\ muted = {}
  /\ enabled = TRUE /\ whitelist = <<>> /\ revision = 0
  /\ linked \in Channels \cup {None} /\ cache = NoCache /\ barred = {}
  /\ handler = [h \in Handlers |-> Idle]
  /\ now = 1 /\ updates = 0 /\ faults = 0 /\ restarts = 0
  /\ due = {} /\ dueSaved = {} /\ since = NoCounters /\ excused = {}
  /\ apart = [c \in Channels |-> IF c = linked THEN 0 ELSE 1] /\ unlifted = {}

-----------------------------------------------------------------------------
(* Steps of a handler *)

At(h, stage) == handler[h].at = stage
Go(h, stage) == handler' = [handler EXCEPT ![h].at = stage]
Done(h) == handler' = [handler EXCEPT ![h] = Idle]
Busy(x) == \E h \in Handlers : handler[h].who = x
Fault == faults < MaxFaults /\ faults' = faults + 1
NoFault == faults' = faults
Begin(h, part) == half = part /\ At(h, "idle") /\ updates < MaxUpdates /\ updates' = updates + 1
Clock == <<now, updates, restarts>>

MembersOnly == UNCHANGED <<half, settings, channels, channelHistory>>
ChannelsOnly == UNCHANGED <<half, warnings, standing, memberHistory>>

-----------------------------------------------------------------------------
(* Warnings *)

Counted(c) == {m \in Members : c[m] > 0}
\* pruneLocked: the lowest count goes first, and of equal ones the lowest id.
Below(c, m, n) == c[m] < c[n] \/ (c[m] = c[n] /\ m < n)
BuggyPruned(c) ==                      \* the most severe go first
  [m \in Members |->
     IF Cardinality({n \in Counted(c) : Below(c, n, m)}) >= WarnCounterMax THEN 0 ELSE c[m]]
Pruned(c) ==
  [m \in Members |->
     IF Cardinality({n \in Counted(c) : Below(c, m, n)}) >= WarnCounterMax THEN 0 ELSE c[m]]
Incremented(m) == [counters EXCEPT ![m] = @ + 1]

\* A counter at the limit may give way only to counters at the limit.
StillDue(D, c) == {m \in D : c[m] > 0 \/ \E n \in Counted(c) : c[n] < WarnLimit}

\* /warn, once warnPrecheck has let it pass: the count returned is the one before the pruning.
OnWarn(h, m) ==
  LET next == Pruned(Incremented(m))
      count == counters[m] + 1
  IN /\ Begin(h, "members") /\ m \notin Admins
     /\ counters' = next
     /\ handler' = [handler EXCEPT ![h] = [Idle EXCEPT !.at = "save", !.who = m, !.count = count]]
     /\ due' = StillDue(IF count >= WarnLimit THEN due \cup {m} ELSE due, next)
     /\ since' = [since EXCEPT ![m] = @ + 1]
     /\ excused' = IF Busy(m) THEN excused \cup {m} ELSE excused
     /\ UNCHANGED <<file, writable, standing, dueSaved, now, faults, restarts>> /\ MembersOnly

\* warningState.save; a failed one is only logged.
Save ==
  \/ /\ writable /\ NoFault /\ file' = counters /\ dueSaved' = due
  \/ ~writable /\ NoFault /\ UNCHANGED <<file, dueSaved>>
  \/ writable /\ Fault /\ UNCHANGED <<file, dueSaved>>

SaveCount(h) ==
  /\ At(h, "save") /\ Save
  /\ IF handler[h].count >= WarnLimit THEN Go(h, "kick") ELSE Done(h)
  /\ UNCHANGED <<counters, writable, standing, due, since, excused, Clock>> /\ MembersOnly

\* warnKick bans and unbans; a failed ban ends the command with the count as it is.
BuggyKickBan(h) ==                     \* the count is dropped although nobody was kicked
  LET m == handler[h].who IN
  /\ At(h, "kick")
  /\ \/ NoFault /\ member' = [member EXCEPT ![m] = "banned"] /\ Go(h, "unban") /\ UNCHANGED counters
     \/ Fault /\ UNCHANGED member /\ Done(h) /\ counters' = [counters EXCEPT ![m] = 0]
  /\ UNCHANGED <<file, writable, muted, memberHistory, Clock>> /\ MembersOnly
KickBan(h) ==
  LET m == handler[h].who IN
  /\ At(h, "kick")
  /\ \/ NoFault /\ member' = [member EXCEPT ![m] = "banned"] /\ Go(h, "unban")
     \/ Fault /\ UNCHANGED member /\ Done(h)
  /\ UNCHANGED <<warnings, muted, memberHistory, Clock>> /\ MembersOnly

KickUnban(h) ==
  LET m == handler[h].who IN
  /\ At(h, "unban")
  /\ \/ NoFault /\ member' = [member EXCEPT ![m] = IF @ = "banned" THEN "out" ELSE @]
     \/ Fault /\ UNCHANGED member
  /\ Go(h, "clear")
  /\ UNCHANGED <<warnings, muted, memberHistory, Clock>> /\ MembersOnly

BuggyClearCounter(m) ==                \* the entry is read after it was deleted
  /\ counters' = [n \in Members \ {m} |-> counters[n]]
  /\ UNCHANGED <<due, since>>
ClearCounter(m) ==
  /\ counters' = [counters EXCEPT ![m] = 0]
  /\ due' = due \ {m}
  /\ since' = [since EXCEPT ![m] = 0]

BuggyClearAfterKick(h) ==              \* the cleared counter is not written
  /\ At(h, "clear") /\ ClearCounter(handler[h].who)
  /\ Done(h)
  /\ UNCHANGED <<file, writable, standing, dueSaved, excused, bounds>> /\ MembersOnly
ClearAfterKick(h) ==
  /\ At(h, "clear") /\ ClearCounter(handler[h].who)
  /\ Go(h, "cleared")
  /\ UNCHANGED <<file, writable, standing, dueSaved, excused, bounds>> /\ MembersOnly

\* /clearwarn, for an administrator too
OnClearWarn(h, m) ==
  /\ Begin(h, "members") /\ ClearCounter(m)
  /\ handler' = [handler EXCEPT ![h] = [Idle EXCEPT !.at = "cleared", !.who = m]]
  /\ excused' = IF Busy(m) THEN excused \cup {m} ELSE excused
  /\ UNCHANGED <<file, writable, standing, dueSaved, now, faults, restarts>> /\ MembersOnly

SaveCleared(h) ==
  /\ At(h, "cleared") /\ Save /\ Done(h)
  /\ excused' = IF file' = counters THEN excused ELSE excused \cup {handler[h].who}
  /\ UNCHANGED <<counters, writable, standing, due, since, Clock>> /\ MembersOnly

\* /ban and /sb, /mute, /unmute: one Telegram call each, and nothing at all when it fails.
Moderate(h, m) ==
  /\ Begin(h, "members")
  /\ \/ m \notin Admins /\ member' = [member EXCEPT ![m] = "banned"] /\ UNCHANGED muted
     \/ m \notin Admins /\ muted' = muted \cup {m} /\ UNCHANGED member
     \/ muted' = muted \ {m} /\ UNCHANGED member
  /\ UNCHANGED <<warnings, handler, memberHistory, now, faults, restarts>> /\ MembersOnly

\* The member uses the freedom to come back, or an administrator lifts a ban by hand.
Rejoin(m) ==
  /\ half = "members" /\ member[m] # "in" /\ updates < MaxUpdates /\ updates' = updates + 1
  /\ member' = [member EXCEPT ![m] = "in"]
  /\ UNCHANGED <<warnings, muted, handler, memberHistory, now, faults, restarts>> /\ MembersOnly

\* The process ends at any point and loads warns.json: as written, as empty when it was moved
\* aside, or not at all, which leaves the file alone from then on.
Restart ==
  /\ half = "members" /\ restarts < MaxRestarts /\ restarts' = restarts + 1
  /\ \/ /\ counters' = Pruned(file) /\ writable' = TRUE /\ due' = StillDue(dueSaved, counters')
        /\ UNCHANGED <<file, dueSaved, faults>>
     \/ /\ Fault /\ counters' = NoCounters /\ file' = NoCounters /\ writable' = TRUE
        /\ due' = {} /\ dueSaved' = {}
     \/ /\ Fault /\ counters' = NoCounters /\ writable' = FALSE
        /\ due' = {} /\ UNCHANGED <<file, dueSaved>>
  /\ handler' = [h \in Handlers |-> Idle]
  /\ excused' = excused \cup {handler[h].who : h \in {g \in Handlers :
                                 handler[g].at \in {"unban", "clear", "cleared"}}}
  /\ UNCHANGED <<standing, since, now, updates>> /\ MembersOnly

-----------------------------------------------------------------------------
(* The sender-channel filter *)

Allowed(c) == \E i \in 1..Len(whitelist) : whitelist[i] = c

\* FilterChannelSenders, for a sender that is not a chat the bot knows otherwise.
PostAs(h, c) ==
  /\ Begin(h, "channels") /\ enabled /\ ~Allowed(c)
  /\ handler' = [handler EXCEPT ![h] = [Idle EXCEPT !.at = "link", !.who = c]]
  /\ UNCHANGED <<settings, channels, channelHistory, now, faults, restarts>> /\ ChannelsOnly

\* LinkedChat reads the clock once: the cached answer until it expires, or a fetch.
LinkedChat(h) ==
  /\ At(h, "link")
  /\ handler' = [handler EXCEPT ![h] =
       IF now < cache.expires
       THEN [@ EXCEPT !.at = "judge", !.asked = now, !.id = cache.id, !.known = cache.known]
       ELSE [@ EXCEPT !.at = "fetch", !.asked = now]]
  /\ UNCHANGED <<settings, channels, channelHistory, bounds>> /\ ChannelsOnly

GetChat(h) ==
  /\ At(h, "fetch")
  /\ \/ NoFault /\ handler' = [handler EXCEPT ![h].at = "store", ![h].id = linked, ![h].known = TRUE]
     \/ Fault /\ Go(h, "store")
  /\ UNCHANGED <<settings, channels, channelHistory, Clock>> /\ ChannelsOnly

BuggyStoreLink(h) ==                   \* a group that could not be read has no linked channel
  /\ At(h, "store")
  /\ cache' = [id |-> handler[h].id, known |-> TRUE, expires |-> handler[h].asked + LinkedTTL]
  /\ handler' = [handler EXCEPT ![h].at = "judge", ![h].known = TRUE]
  /\ UNCHANGED <<settings, linked, barred, channelHistory, bounds>> /\ ChannelsOnly
StoreLink(h) ==
  LET known == handler[h].known IN
  /\ At(h, "store")
  /\ cache' = [id |-> handler[h].id, known |-> known,
               expires |-> handler[h].asked + (IF known THEN LinkedTTL ELSE LinkedFailTTL)]
  /\ Go(h, "judge")
  /\ UNCHANGED <<settings, linked, barred, channelHistory, bounds>> /\ ChannelsOnly

\* The linked channel passes; of an unknown group the post is deleted and nobody is banned.
Judge(h) ==
  /\ At(h, "judge")
  /\ IF handler[h].known /\ handler[h].id # handler[h].who THEN Go(h, "bar") ELSE Done(h)
  /\ UNCHANGED <<settings, channels, channelHistory, bounds>> /\ ChannelsOnly

BanSenderChat(h) ==
  /\ At(h, "bar") /\ Done(h)
  /\ \/ NoFault /\ barred' = barred \cup {handler[h].who}
     \/ Fault /\ UNCHANGED barred
  /\ UNCHANGED <<settings, linked, cache, channelHistory, Clock>> /\ ChannelsOnly

-----------------------------------------------------------------------------
(* /bc *)

\* nextChannelWhitelist: an addition beyond the limit drops the oldest entries.
NextChannelWhitelist(c, allow) ==
  IF ~allow THEN RemoveFirst(whitelist, c)
  ELSE IF Allowed(c) THEN whitelist
  ELSE IF Len(whitelist) < WhitelistMax THEN Append(whitelist, c)
  ELSE Append(SubSeq(whitelist, Len(whitelist) - WhitelistMax + 2, Len(whitelist)), c)

\* The handler reads the group, and commits what it derived with the revision it read.
OnBC(h, op, c) ==
  /\ Begin(h, "channels")
  /\ handler' = [handler EXCEPT ![h] = [Idle EXCEPT !.at = "commit", !.op = op, !.who = c, !.rev = revision]]
  /\ UNCHANGED <<settings, channels, channelHistory, now, faults, restarts>> /\ ChannelsOnly

CommitRefused(h) ==
  /\ At(h, "commit") /\ Done(h)
  /\ \/ handler[h].rev # revision /\ NoFault
     \/ Fault
  /\ UNCHANGED <<settings, channels, channelHistory, Clock>> /\ ChannelsOnly

Filtering(c) == \E g \in Handlers : handler[g].who = c /\ handler[g].at \in {"link", "fetch", "store", "judge", "bar"}

CommitBC(h) ==
  LET c == handler[h].who  op == handler[h].op IN
  /\ At(h, "commit") /\ handler[h].rev = revision
  /\ revision' = revision + 1
  /\ IF op = "toggle" THEN enabled' = ~enabled /\ UNCHANGED whitelist
     ELSE whitelist' = NextChannelWhitelist(c, op = "allow") /\ UNCHANGED enabled
  /\ unlifted' = IF op = "allow" THEN (IF Filtering(c) THEN unlifted \cup {c} ELSE unlifted \ {c})
                 ELSE unlifted
  /\ IF op = "allow" THEN Go(h, "lift") ELSE Done(h)
  /\ UNCHANGED <<channels, apart, bounds>> /\ ChannelsOnly

BuggyUnbanSenderChat(h) ==             \* committed, and the ban left in place
  /\ At(h, "lift") /\ Done(h)
  /\ UNCHANGED <<settings, channels, channelHistory, bounds>> /\ ChannelsOnly
UnbanSenderChat(h) ==
  LET c == handler[h].who IN
  /\ At(h, "lift") /\ Done(h)
  /\ \/ NoFault /\ barred' = barred \ {c} /\ UNCHANGED unlifted
     \/ Fault /\ UNCHANGED barred /\ unlifted' = unlifted \cup {c}
  /\ UNCHANGED <<settings, linked, cache, apart, Clock>> /\ ChannelsOnly

\* The group's owner links another channel; time passes.
Relink ==
  /\ half = "channels" /\ updates < MaxUpdates /\ updates' = updates + 1
  /\ \E c \in (Channels \cup {None}) \ {linked} :
       /\ linked' = c
       /\ apart' = [d \in Channels |-> IF d # c THEN now ELSE apart[d]]
  /\ UNCHANGED <<settings, cache, barred, handler, now, faults, restarts, unlifted>> /\ ChannelsOnly

Tick ==
  /\ half = "channels" /\ now < MaxNow /\ now' = now + 1
  /\ apart' = [d \in Channels |-> IF d # linked THEN now' ELSE apart[d]]
  /\ UNCHANGED <<settings, channels, handler, updates, faults, restarts, unlifted>> /\ ChannelsOnly

Handle(h) ==
  \/ \E m \in Members : OnWarn(h, m) \/ OnClearWarn(h, m) \/ Moderate(h, m)
  \/ SaveCount(h) \/ KickBan(h) \/ KickUnban(h) \/ ClearAfterKick(h) \/ SaveCleared(h)
  \/ \E c \in Channels : PostAs(h, c) \/ \E op \in {"allow", "deny", "toggle"} : OnBC(h, op, c)
  \/ LinkedChat(h) \/ GetChat(h) \/ StoreLink(h) \/ Judge(h) \/ BanSenderChat(h)
  \/ CommitRefused(h) \/ CommitBC(h) \/ UnbanSenderChat(h)

Next ==
  \/ \E h \in Handlers : Handle(h)
  \/ \E m \in Members : Rejoin(m)
  \/ Restart \/ Relink \/ Tick

Spec == Init /\ [][Next]_vars

-----------------------------------------------------------------------------
\* Every variable holds the kind of value the Go declarations give it.
TypeOK ==
  /\ half \in {"members", "channels"}
  /\ counters \in [Members -> Nat] /\ file \in [Members -> Nat] /\ writable \in BOOLEAN
  /\ member \in [Members -> {"in", "out", "banned"}] /\ muted \subseteq Members
  /\ enabled \in BOOLEAN /\ whitelist \in Seq(Channels) /\ revision \in Nat
  /\ linked \in Channels \cup {None} /\ barred \subseteq Channels
  /\ cache \in [id : Channels \cup {None}, known : BOOLEAN, expires : Nat]
  /\ due \subseteq Members /\ dueSaved \subseteq Members /\ since \in [Members -> Nat]
  /\ excused \subseteq Members /\ apart \in [Channels -> Nat] /\ unlifted \subseteq Channels

\* A counter that reached the limit stays there until it is cleared, through a failed kick, the
\* pruning of a full table and restarts from the file, so that the next warning kicks; only a
\* table full of counters at the limit may push one out (StillDue).
LimitReachedIsKept ==
  /\ \A m \in due : counters[m] >= WarnLimit
  /\ \A m \in dueSaved : file[m] >= WarnLimit

\* A member is kicked only after WarnLimit warnings since the last kick or /clearwarn, unless
\* two handlers worked on the member at once or the cleared counter never reached the file.
KicksAreEarned ==
  [][\A h \in Handlers : KickBan(h) /\ member' # member =>
       since[handler[h].who] >= WarnLimit \/ handler[h].who \in excused]_vars

\* A channel is banned only when it was not the group's own channel at some time within the
\* life of a cached reading before the post was looked up: a failed lookup never bans.
OnlyRuledOutChannelsBarred ==
  [][\A h \in Handlers : BanSenderChat(h) /\ barred' # barred =>
       LET c == handler[h].who IN apart[c] # 0 /\ apart[c] + LinkedTTL >= handler[h].asked]_vars

\* A whitelisted channel is not left banned, unless a post of it was being filtered when it was
\* allowed, or the unban failed (which the administrator is told).
AllowedChannelsMayPost ==
  \A c \in Channels : Allowed(c) /\ c \in barred =>
    c \in unlifted \/ \E h \in Handlers : At(h, "lift") /\ handler[h].who = c
=============================================================================
