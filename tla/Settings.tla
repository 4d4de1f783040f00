------------------------------- MODULE Settings -------------------------------
(***************************************************************************)
(* The settings transaction of internal/store: sparse overrides with their *)
(* revisions, the registered groups, the one immutable snapshot readers    *)
(* load without a lock, and the commits that replace it.  A commit checks  *)
(* the revision its caller saw, writes settings.json, then publishes; the  *)
(* write can fail before or after the new file is in place, and the        *)
(* process can end at any point.  config.json may change between two       *)
(* processes.                                                              *)
(***************************************************************************)
EXTENDS Naturals

CONSTANTS Groups,
          Global,      \* the scope of the bot-wide overrides
          NoGroup,     \* control group 0
          Editors,     \* panel sessions, each with the revision it captured
          Mutators,    \* read-change-commit loops over the registrations
          None,
          MaxEdits,    \* bound: how many edits commit in all
          MaxRegRev,   \* bound: how many registration changes commit
          MaxRestarts  \* bound: how often the process ends

ASSUME ScopeAssumption == Global \notin Groups /\ NoGroup \notin Groups /\ NoGroup # Global
ASSUME CallerAssumption == Editors \cap Mutators = {}
ASSUME BoundAssumption == MaxEdits \in Nat /\ MaxRegRev \in Nat /\ MaxRestarts \in Nat

Scopes == Groups \cup {Global}
Records == [rev : Nat, edit : Nat]     \* edit: which edit wrote the overrides, 0 the baseline
States == [record : [Scopes -> Records], registered : SUBSET Groups,
           control : Groups \cup {NoGroup}, regRev : Nat]
Captures == [scope : Scopes, rev : Nat, edit : Nat]
Reads == [registered : SUBSET Groups, control : Groups \cup {NoGroup}, rev : Nat]
Commits == [by : Editors \cup Mutators, written : BOOLEAN, next : States]
ASSUME NoneAssumption == None \notin Captures \cup Reads \cup Commits

Blank == [rev |-> 0, edit |-> 0]
Baseline == [record |-> [c \in Scopes |-> Blank], registered |-> {}, control |-> NoGroup,
             regRev |-> 0]

VARIABLES
  configured,    \* the groups of config.json
  state,         \* the published snapshot
  disk,          \* settings.json
  writable,      \* Settings.writable
  commit,        \* the commit that holds Settings.writer
  session,       \* what each editor captured: a scope, its revision, and the edit it saw
  loop,          \* what each mutator read: the registrations and their revision
  edits,         \* counts the edits committed, and names them
  leftover,      \* what a commit that returned an error left in settings.json
  restarts       \* counts towards MaxRestarts

shared == <<configured, state, disk, writable, commit>>
callers == <<session, loop>>
counters == <<edits, leftover, restarts>>
vars == <<shared, callers, counters>>

Effective(s, conf) == conf \cup s.registered

\* validateRegistrations and the control-group test of buildSnapshot
Valid(s, conf) ==
  /\ s.registered \cap conf = {}
  /\ s.control \in Effective(s, conf) \cup {NoGroup}

Init ==
  /\ configured \in SUBSET Groups
  /\ state = Baseline /\ disk = Baseline
  /\ writable = TRUE /\ commit = None
  /\ session = [e \in Editors |-> None]
  /\ loop = [m \in Mutators |-> None]
  /\ edits = 0 /\ leftover = None /\ restarts = 0

\* A caller waits for its own commit: a panel session is locked while a callback runs.
Committing(a) == commit # None /\ commit.by = a

-----------------------------------------------------------------------------
(* CommitGroup and CommitGlobal *)

(* The operators named Buggy... are variants of the operator that follows, each with a      *)
(* slip a change to the code could make.  No action uses them: they show that the           *)
(* properties below can fail.                                                               *)

\* An editor opens a scope, or absorbs its newer revision when it navigates.
Capture(e, c) ==
  /\ ~Committing(e)
  /\ c \in Effective(state, configured) \cup {Global}
  /\ session' = [session EXCEPT ![e] =
       [scope |-> c, rev |-> state.record[c].rev, edit |-> state.record[c].edit]]
  /\ UNCHANGED <<shared, loop, counters>>

\* The revision the editor captured is still the one in force.
BuggyUnchangedSince(c) == TRUE         \* the last writer wins
UnchangedSince(c) == c.rev = state.record[c.scope].rev

CommitGroup(e) ==
  /\ session[e] # None
  /\ commit = None /\ writable
  /\ edits < MaxEdits
  /\ LET c == session[e] IN
       /\ c.scope \in Effective(state, configured) \cup {Global}
       /\ UnchangedSince(c)
       /\ edits' = edits + 1
       /\ commit' = [by |-> e, written |-> FALSE,
                     next |-> [state EXCEPT !.record[c.scope] =
                                 [rev |-> c.rev + 1, edit |-> edits + 1]]]
  /\ UNCHANGED <<configured, state, disk, writable, callers, leftover, restarts>>

\* A conflict, an unknown group, unavailable settings or a closed panel ends the session.
EndSession(e) ==
  /\ session[e] # None
  /\ ~Committing(e)
  /\ session' = [session EXCEPT ![e] = None]
  /\ UNCHANGED <<shared, loop, counters>>

-----------------------------------------------------------------------------
(* CommitRegistrations, inside mutateRegistrations *)

\* Registrations(): the loop reads, and reads again after a conflict.
ReadRegistrations(m) ==
  /\ ~Committing(m)
  /\ loop' = [loop EXCEPT ![m] = [registered |-> state.registered, control |-> state.control,
                                  rev |-> state.regRev]]
  /\ UNCHANGED <<shared, session, counters>>

\* addRegisteredGroup and unregisterGroup, on what the loop read
Register(r, g) ==
  [r EXCEPT !.registered = @ \cup {g},
            !.control = IF @ = NoGroup /\ Effective(state, configured) = {} THEN g ELSE @]
Unregister(r, g) ==
  [r EXCEPT !.registered = @ \ {g}, !.control = IF @ = g THEN NoGroup ELSE @]

\* A group that is neither configured nor registered loses its overrides.
BuggyDropped(record, registered) ==    \* the record is gone instead of blank
  [c \in configured \cup registered \cup {Global} |-> record[c]]
BuggyKept(record, registered) ==       \* the record of the group that stays goes too
  [c \in Scopes |-> IF c \in configured \cup {Global} THEN record[c] ELSE Blank]
Kept(record, registered) ==
  [c \in Scopes |-> IF c \in configured \cup registered \cup {Global} THEN record[c] ELSE Blank]

\* The registrations the loop read are still in force.
BuggyStillCurrent(r) == TRUE
StillCurrent(r) == r.rev = state.regRev

CommitRegistrations(m, changed) ==
  /\ commit = None
  /\ writable
  /\ state.regRev < MaxRegRev
  /\ StillCurrent(changed)
  /\ <<changed.registered, changed.control>> # <<state.registered, state.control>>
  /\ LET next == [record |-> Kept(state.record, changed.registered),
                  registered |-> changed.registered, control |-> changed.control,
                  regRev |-> state.regRev + 1] IN
       /\ Valid(next, configured)
       /\ commit' = [by |-> m, written |-> FALSE, next |-> next]
  /\ UNCHANGED <<configured, state, disk, writable, callers, counters>>

Mutate(m) ==
  /\ loop[m] # None
  /\ \E g \in Groups :
       \/ CommitRegistrations(m, Register(loop[m], g))
       \/ g \in loop[m].registered /\ CommitRegistrations(m, Unregister(loop[m], g))

-----------------------------------------------------------------------------
(* writeState and the publication *)

WriteState ==
  /\ commit # None /\ ~commit.written
  /\ disk' = commit.next
  /\ commit' = [commit EXCEPT !.written = TRUE]
  /\ leftover' = None
  /\ UNCHANGED <<configured, state, writable, callers, edits, restarts>>

BuggyPublish ==                        \* published before it is written
  /\ commit # None
  /\ state' = commit.next
  /\ commit' = None
  /\ session' = [e \in Editors |->
       IF e = commit.by
       THEN [session[e] EXCEPT !.rev = @ + 1, !.edit = commit.next.record[session[e].scope].edit]
       ELSE session[e]]
  /\ loop' = [m \in Mutators |-> IF m = commit.by THEN None ELSE loop[m]]
  /\ UNCHANGED <<configured, disk, writable, counters>>
Publish ==
  /\ commit # None /\ commit.written
  /\ state' = commit.next
  /\ commit' = None
  /\ session' = [e \in Editors |->
       IF e = commit.by
       THEN [session[e] EXCEPT !.rev = @ + 1, !.edit = commit.next.record[session[e].scope].edit]
       ELSE session[e]]
  /\ loop' = [m \in Mutators |-> IF m = commit.by THEN None ELSE loop[m]]
  /\ UNCHANGED <<configured, disk, writable, counters>>

\* The write failed, possibly after the rename: nothing is published, and the caller ends.
CommitFails ==
  /\ commit # None
  /\ commit' = None
  /\ session' = [e \in Editors |-> IF e = commit.by THEN None ELSE session[e]]
  /\ loop' = [m \in Mutators |-> IF m = commit.by THEN None ELSE loop[m]]
  /\ leftover' = IF commit.written THEN commit.next ELSE leftover
  /\ UNCHANGED <<configured, state, disk, writable, edits, restarts>>

-----------------------------------------------------------------------------
(* NewSettings *)

\* reconcileWithBaseline
Reconciled(s, conf) ==
  LET kept == s.registered \ conf IN
  [s EXCEPT !.registered = kept,
            !.control = IF @ \in conf \cup kept THEN @ ELSE NoGroup]

BuggyLoadAgrees ==                     \* the file is not checked against config.json
  /\ state' = disk /\ writable' = TRUE
  /\ UNCHANGED disk
LoadAgrees ==
  /\ Valid(disk, configured')
  /\ state' = disk /\ writable' = TRUE
  /\ UNCHANGED disk

\* The file and config.json have drifted apart: writes are held.
BuggyLoadReconciles ==                 \* the file is taken over although the drift is unconfirmed
  /\ ~Valid(disk, configured')
  /\ state' = Reconciled(disk, configured') /\ writable' = TRUE
  /\ UNCHANGED disk
LoadReconciles ==
  /\ ~Valid(disk, configured')
  /\ state' = Reconciled(disk, configured') /\ writable' = FALSE
  /\ UNCHANGED disk

\* The file is unreadable, or of a newer schema.
LoadUnavailable ==
  /\ state' = Baseline /\ writable' = FALSE
  /\ UNCHANGED disk

\* The file does not decode and was moved aside.
LoadFresh == state' = Baseline /\ writable' = TRUE /\ disk' = Baseline

Restart ==
  /\ restarts < MaxRestarts
  /\ restarts' = restarts + 1
  /\ configured' \in SUBSET Groups
  /\ LoadAgrees \/ LoadReconciles \/ LoadUnavailable \/ LoadFresh
  /\ commit' = None
  /\ session' = [e \in Editors |-> None]
  /\ loop' = [m \in Mutators |-> None]
  /\ UNCHANGED <<edits, leftover>>

Next ==
  \/ \E e \in Editors : CommitGroup(e) \/ EndSession(e) \/ \E c \in Scopes : Capture(e, c)
  \/ \E m \in Mutators : ReadRegistrations(m) \/ Mutate(m)
  \/ WriteState \/ Publish \/ CommitFails
  \/ Restart

Spec == Init /\ [][Next]_vars

-----------------------------------------------------------------------------
\* Every variable holds the kind of value the Go declarations give it.
TypeOK ==
  /\ configured \subseteq Groups
  /\ state \in States /\ disk \in States
  /\ writable \in BOOLEAN
  /\ commit \in Commits \cup {None}
  /\ session \in [Editors -> Captures \cup {None}]
  /\ loop \in [Mutators -> Reads \cup {None}]
  /\ edits \in Nat /\ leftover \in States \cup {None} /\ restarts \in Nat

\* No reader ever sees a group both configured and registered, or a control group that is
\* neither, whatever config.json became between two processes.
SnapshotValid == Valid(state, configured)

\* While this process may write, settings.json is what readers see, or the commit under way,
\* or what a failed one left: nothing is published that a restart would take back, and no
\* commit overwrites decisions in the file that this process has not loaded.
FileIsWhatReadersSee ==
  writable =>
    \/ disk = state
    \/ commit # None /\ commit.written /\ disk = commit.next
    \/ disk = leftover

\* A commit replaces exactly the overrides its editor saw, for every scope whose revision is
\* never reset: two editors of one group cannot silently undo each other.
NoLostEdit ==
  [][\A e \in Editors :
       CommitGroup(e) /\ session[e].scope \in configured \cup {Global} =>
         session[e].edit = state.record[session[e].scope].edit]_vars

\* A registration change replaces exactly the registrations its loop read: concurrent
\* enrolments of two groups are both kept.
NoLostRegistration ==
  [][\A m \in Mutators : Mutate(m) =>
       loop[m].registered = state.registered /\ loop[m].control = state.control]_vars

\* The revisions the panel compares never go back while a scope stays effective.
RevisionsGrow ==
  [][Restart \/ \A c \in Scopes :
       c \in (Effective(state, configured) \cap Effective(state', configured)) \cup {Global} =>
         state'.record[c].rev >= state.record[c].rev]_vars

-----------------------------------------------------------------------------
(* What the repository says of this code and the code does not do *)

\* admin.md: "A mismatch ends the session with a concurrent-change message rather than
\* merging."
StaleEditRefused ==
  [][\A e \in Editors : CommitGroup(e) =>
       session[e].edit = state.record[session[e].scope].edit]_vars

\* state-persistence.md: "readers never observe an override whose commit failed"
FailedCommitStaysUnseen == state # leftover

=============================================================================
