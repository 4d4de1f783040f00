------------------------------ MODULE Store_proofs ------------------------------
(***************************************************************************)
(* Safety of internal/store.  For the settings transaction, with any       *)
(* groups, editors and enrolment loops, IInv says what a commit under way  *)
(* may change and how true a captured revision is.  For a state file, with *)
(* any number of writers and states, FileIInv is why the steps of a save,  *)
(* its failures, crashes and loads implement AtomicFile.                   *)
(***************************************************************************)
EXTENDS Settings, StateFile, TLAPS

\* What is about to be published is as valid as what it replaces.
CommitIsValid == commit # None => Valid(commit.next, configured)

\* A written commit is what the file holds.
WrittenIsOnDisk == commit # None /\ commit.written => disk = commit.next

\* An editor's commit follows the revision its session holds, and changes that scope only.
EditorCommit ==
  commit # None /\ commit.by \in Editors =>
    LET c == session[commit.by] IN
    /\ c \in Captures
    /\ c.rev = state.record[c.scope].rev
    /\ commit.next.record[c.scope].rev = c.rev + 1
    /\ \A d \in Scopes \ {c.scope} : commit.next.record[d] = state.record[d]
    /\ commit.next.registered = state.registered
    /\ commit.next.control = state.control
    /\ commit.next.regRev = state.regRev

\* A registration commit takes the next revision and drops no record it should keep.
MutatorCommit ==
  commit # None /\ commit.by \in Mutators =>
    /\ commit.next.record = Kept(state.record, commit.next.registered)
    /\ commit.next.regRev = state.regRev + 1

\* A session that still has the revision in force has seen the edit in force.
CaptureInv ==
  \A e \in Editors :
    session[e] # None /\ session[e].scope \in configured \cup {Global} =>
      LET r == state.record[session[e].scope] IN
      session[e].rev <= r.rev /\ (session[e].rev = r.rev => session[e].edit = r.edit)

\* A loop that still has the revision in force has read the registrations in force.
ReadInv ==
  \A m \in Mutators :
    loop[m] # None =>
      /\ loop[m].rev <= state.regRev
      /\ loop[m].rev = state.regRev =>
           loop[m].registered = state.registered /\ loop[m].control = state.control

IInv ==
  /\ TypeOK /\ SnapshotValid /\ CommitIsValid
  /\ WrittenIsOnDisk /\ FileIsWhatReadersSee
  /\ EditorCommit /\ MutatorCommit
  /\ CaptureInv /\ ReadInv

USE DEF shared, callers, counters

-----------------------------------------------------------------------------
(* Values *)

LEMMA ScopesHaveGroups == Groups \subseteq Scopes /\ Global \in Scopes
  BY DEF Scopes

LEMMA BlankType == Blank \in Records
  BY DEF Blank, Records

LEMMA BaselineType == Baseline \in States /\ \A conf \in SUBSET Groups : Valid(Baseline, conf)
<1>1. Baseline \in States
  BY BlankType DEF Baseline, States
<1>2. \A conf \in SUBSET Groups : Valid(Baseline, conf)
  BY DEF Baseline, Valid, Effective
<1> QED
  BY <1>1, <1>2

LEMMA ReconciledType ==
  ASSUME NEW s \in States, NEW conf \in SUBSET Groups
  PROVE  Reconciled(s, conf) \in States /\ Valid(Reconciled(s, conf), conf)
<1> DEFINE kept == s.registered \ conf
           control == IF s.control \in conf \cup kept THEN s.control ELSE NoGroup
           r == [s EXCEPT !.registered = kept, !.control = control]
<1>1. Reconciled(s, conf) = r
  BY DEF Reconciled
<1>2. kept \in SUBSET Groups /\ control \in Groups \cup {NoGroup}
  BY DEF States
<1>3. kept \cap conf = {} /\ control \in conf \cup kept \cup {NoGroup}
  OBVIOUS
<1>4. r \in States /\ r.registered = kept /\ r.control = control
  <2> HIDE DEF kept, control
  <2> QED
    BY <1>2 DEF States
<1>5. Valid(r, conf)
  <2> HIDE DEF kept, control, r
  <2> QED
    BY <1>3, <1>4 DEF Valid, Effective
<1> QED
  BY <1>1, <1>4, <1>5

LEMMA KeptType ==
  ASSUME NEW record \in [Scopes -> Records], NEW registered \in SUBSET Groups
  PROVE  Kept(record, registered) \in [Scopes -> Records]
BY BlankType DEF Kept

LEMMA RegisterType ==
  ASSUME NEW r \in Reads, NEW g \in Groups
  PROVE  /\ Register(r, g) \in Reads /\ Unregister(r, g) \in Reads
         /\ Register(r, g).rev = r.rev /\ Unregister(r, g).rev = r.rev
<1>1. Register(r, g) \in Reads /\ Register(r, g).rev = r.rev
  BY DEF Register, Reads
<1>2. Unregister(r, g) \in Reads /\ Unregister(r, g).rev = r.rev
  BY DEF Unregister, Reads
<1> QED
  BY <1>1, <1>2

LEMMA NoneIsNot ==
  /\ None \notin Captures /\ None \notin Reads /\ None \notin Commits
  BY NoneAssumption

LEMMA CommitType ==
  ASSUME NEW a \in Editors \cup Mutators, NEW n \in States
  PROVE  LET new == [by |-> a, written |-> FALSE, next |-> n] IN
         new \in Commits /\ new # None
<1>1. [by |-> a, written |-> FALSE, next |-> n] \in Commits
  BY DEF Commits
<1> QED
  BY <1>1, NoneIsNot

-----------------------------------------------------------------------------
(* Steps *)

LEMMA InitHolds == Init => IInv
<1> SUFFICES ASSUME Init PROVE IInv
  OBVIOUS
<1>1. TypeOK
  BY BaselineType DEF Init, TypeOK
<1>2. SnapshotValid
  BY BaselineType DEF Init, SnapshotValid
<1> QED
  BY <1>1, <1>2 DEF Init, IInv, CommitIsValid, WrittenIsOnDisk, FileIsWhatReadersSee,
     EditorCommit, MutatorCommit, CaptureInv, ReadInv

\* What a commit and the published snapshot hold, in one place
LEMMA Typed ==
  ASSUME IInv
  PROVE  /\ configured \in SUBSET Groups /\ writable \in BOOLEAN
         /\ state \in States /\ disk \in States
         /\ state.record \in [Scopes -> Records] /\ state.registered \in SUBSET Groups
         /\ state.control \in Groups \cup {NoGroup} /\ state.regRev \in Nat
         /\ edits \in Nat /\ restarts \in Nat /\ leftover \in States \cup {None}
         /\ commit # None => commit \in Commits /\ commit.by \in Editors \cup Mutators
                             /\ commit.written \in BOOLEAN /\ commit.next \in States
                             /\ commit.next.record \in [Scopes -> Records]
                             /\ commit.next.registered \in SUBSET Groups
                             /\ commit.next.control \in Groups \cup {NoGroup}
                             /\ commit.next.regRev \in Nat
         /\ session \in [Editors -> Captures \cup {None}]
         /\ loop \in [Mutators -> Reads \cup {None}]
<1>1. TypeOK
  BY DEF IInv
<1>2. state \in States /\ disk \in States /\ configured \in SUBSET Groups
  BY <1>1 DEF TypeOK
<1>3. /\ state.record \in [Scopes -> Records] /\ state.registered \in SUBSET Groups
      /\ state.control \in Groups \cup {NoGroup} /\ state.regRev \in Nat
  BY <1>2 DEF States
<1>4. ASSUME commit # None
      PROVE  /\ commit \in Commits /\ commit.by \in Editors \cup Mutators
             /\ commit.written \in BOOLEAN /\ commit.next \in States
  BY <1>1, <1>4 DEF TypeOK, Commits
<1>5. ASSUME commit # None
      PROVE  /\ commit.next.record \in [Scopes -> Records]
             /\ commit.next.registered \in SUBSET Groups
             /\ commit.next.control \in Groups \cup {NoGroup}
             /\ commit.next.regRev \in Nat
  BY <1>4, <1>5 DEF States
<1> QED
  BY <1>1, <1>2, <1>3, <1>4, <1>5 DEF TypeOK

LEMMA CaptureStep ==
  ASSUME IInv, NEW e \in Editors, NEW c \in Scopes, Capture(e, c)
  PROVE  IInv'
<1> DEFINE new == [scope |-> c, rev |-> state.record[c].rev, edit |-> state.record[c].edit]
<1>1. /\ UNCHANGED <<configured, state, disk, writable, commit, loop, edits, leftover, restarts>>
      /\ session' = [session EXCEPT ![e] = new]
      /\ ~Committing(e)
  BY DEF Capture
<1>2. new \in Captures
  BY Typed DEF Captures, Records
<1>3. \A f \in Editors : session'[f] = IF f = e THEN new ELSE session[f]
  BY <1>1, Typed
<1>4. TypeOK'
  BY <1>1, <1>2 DEF IInv, TypeOK
<1>5. CaptureInv'
  BY <1>1, <1>2, <1>3, Typed DEF IInv, CaptureInv, Captures, Records
<1>6. EditorCommit'
  BY <1>1, <1>3, Typed DEF IInv, EditorCommit, Committing
<1> QED
  BY <1>1, <1>4, <1>5, <1>6 DEF IInv, SnapshotValid, CommitIsValid, WrittenIsOnDisk,
     FileIsWhatReadersSee, MutatorCommit, Kept, ReadInv, Valid, Effective

LEMMA EndSessionStep ==
  ASSUME IInv, NEW e \in Editors, EndSession(e)
  PROVE  IInv'
<1>1. /\ UNCHANGED <<configured, state, disk, writable, commit, loop, edits, leftover, restarts>>
      /\ session' = [session EXCEPT ![e] = None]
      /\ ~Committing(e)
  BY DEF EndSession
<1>2. \A f \in Editors : session'[f] = IF f = e THEN None ELSE session[f]
  BY <1>1, Typed
<1>3. TypeOK'
  BY <1>1 DEF IInv, TypeOK
<1>4. CaptureInv'
  BY <1>1, <1>2 DEF IInv, CaptureInv
<1>5. EditorCommit'
  BY <1>1, <1>2, Typed DEF IInv, EditorCommit, Committing
<1> QED
  BY <1>1, <1>3, <1>4, <1>5 DEF IInv, SnapshotValid, CommitIsValid, WrittenIsOnDisk,
     FileIsWhatReadersSee, MutatorCommit, Kept, ReadInv, Valid, Effective

LEMMA ReadStep ==
  ASSUME IInv, NEW m \in Mutators, ReadRegistrations(m)
  PROVE  IInv'
<1> DEFINE new == [registered |-> state.registered, control |-> state.control,
                   rev |-> state.regRev]
<1>1. /\ UNCHANGED <<configured, state, disk, writable, commit, session, edits, leftover,
                     restarts>>
      /\ loop' = [loop EXCEPT ![m] = new]
  BY DEF ReadRegistrations
<1>2. new \in Reads
  BY Typed DEF Reads
<1>3. \A n \in Mutators : loop'[n] = IF n = m THEN new ELSE loop[n]
  BY <1>1, Typed
<1>4. TypeOK'
  BY <1>1, <1>2 DEF IInv, TypeOK
<1>5. ReadInv'
  BY <1>1, <1>2, <1>3, Typed DEF IInv, ReadInv
<1> QED
  BY <1>1, <1>4, <1>5 DEF IInv, SnapshotValid, CommitIsValid, WrittenIsOnDisk,
     FileIsWhatReadersSee, EditorCommit, MutatorCommit, Kept, CaptureInv, Valid, Effective

LEMMA CommitGroupStep ==
  ASSUME IInv, NEW e \in Editors, CommitGroup(e)
  PROVE  IInv'
<1> DEFINE c == session[e]
           record == [state.record EXCEPT ![c.scope] = [rev |-> c.rev + 1, edit |-> edits + 1]]
           next == [record |-> record, registered |-> state.registered,
                    control |-> state.control, regRev |-> state.regRev]
<1>1. /\ UNCHANGED <<configured, state, disk, writable, session, loop, leftover, restarts>>
      /\ commit = None /\ c # None /\ edits' = edits + 1
      /\ c.rev = state.record[c.scope].rev
  BY DEF CommitGroup, UnchangedSince
<1>2. c \in Captures /\ c.scope \in Scopes /\ c.rev \in Nat
  BY <1>1, Typed DEF Captures
<1>3. [state EXCEPT !.record[c.scope] = [rev |-> c.rev + 1, edit |-> edits + 1]] = next
  BY <1>2, Typed DEF States
<1>4. commit' = [by |-> e, written |-> FALSE, next |-> next]
  BY <1>3 DEF CommitGroup
<1>5. record \in [Scopes -> Records]
  BY <1>2, Typed DEF Records
<1>6. next \in States
  BY <1>5, Typed DEF States
<1>7. commit' \in Commits /\ commit' # None
  <2> HIDE DEF next
  <2> QED
    BY <1>4, <1>6, CommitType
<1>8. commit'.by = e /\ commit'.written = FALSE /\ commit'.next = next
  BY <1>4
<1>9. TypeOK'
  BY <1>1, <1>7, Typed DEF IInv, TypeOK
<1>10. CommitIsValid'
  BY <1>1, <1>8 DEF IInv, SnapshotValid, CommitIsValid, Valid, Effective
<1>11. EditorCommit'
  <2>1. /\ record[c.scope].rev = c.rev + 1
        /\ \A d \in Scopes \ {c.scope} : record[d] = state.record[d]
    BY <1>2, Typed
  <2>2. c' = c /\ state' = state
    BY <1>1
  <2> QED
    BY <1>1, <1>2, <1>8, <2>1, <2>2 DEF EditorCommit
<1>12. MutatorCommit'
  BY <1>8, CallerAssumption DEF MutatorCommit
<1>13. FileIsWhatReadersSee' /\ WrittenIsOnDisk'
  BY <1>1, <1>8 DEF IInv, FileIsWhatReadersSee, WrittenIsOnDisk
<1> QED
  BY <1>1, <1>9, <1>10, <1>11, <1>12, <1>13
     DEF IInv, SnapshotValid, CaptureInv, ReadInv, Valid, Effective

LEMMA MutateStep ==
  ASSUME IInv, NEW m \in Mutators, Mutate(m)
  PROVE  IInv'
<1>1. PICK changed \in Reads : CommitRegistrations(m, changed)
  <2>1. loop[m] \in Reads
    BY Typed DEF Mutate
  <2> QED
    BY <2>1, RegisterType DEF Mutate
<1> DEFINE next == [record |-> Kept(state.record, changed.registered),
                    registered |-> changed.registered, control |-> changed.control,
                    regRev |-> state.regRev + 1]
<1>2. /\ UNCHANGED <<configured, state, disk, writable, session, loop, edits, leftover, restarts>>
      /\ commit = None
      /\ Valid(next, configured)
      /\ commit' = [by |-> m, written |-> FALSE, next |-> next]
  BY <1>1 DEF CommitRegistrations
<1>3. changed.registered \in SUBSET Groups /\ changed.control \in Groups \cup {NoGroup}
  BY DEF Reads
<1>4. next \in States
  BY <1>3, KeptType, Typed DEF States
<1>5. commit' \in Commits /\ commit' # None
  <2> HIDE DEF next
  <2> QED
    BY <1>2, <1>4, CommitType
<1>6. commit'.by = m /\ commit'.written = FALSE /\ commit'.next = next
  BY <1>2
<1>7. TypeOK'
  BY <1>2, <1>5 DEF IInv, TypeOK
<1>8. CommitIsValid'
  BY <1>2, <1>6 DEF CommitIsValid, Valid, Effective
<1>9. EditorCommit'
  BY <1>6, CallerAssumption DEF EditorCommit
<1>10. MutatorCommit'
  BY <1>2, <1>6 DEF MutatorCommit, Kept
<1>11. FileIsWhatReadersSee' /\ WrittenIsOnDisk'
  BY <1>2, <1>6 DEF IInv, FileIsWhatReadersSee, WrittenIsOnDisk
<1> QED
  BY <1>2, <1>7, <1>8, <1>9, <1>10, <1>11
     DEF IInv, SnapshotValid, CaptureInv, ReadInv, Valid, Effective

LEMMA WriteStep ==
  ASSUME IInv, WriteState
  PROVE  IInv'
<1>1. /\ UNCHANGED <<configured, state, writable, session, loop, edits, restarts>>
      /\ commit # None /\ disk' = commit.next /\ leftover' = None
      /\ commit' = [commit EXCEPT !.written = TRUE]
  BY DEF WriteState
<1>2. /\ commit'.by = commit.by /\ commit'.next = commit.next /\ commit'.written = TRUE
      /\ commit' \in Commits
  BY <1>1, Typed DEF Commits
<1>3. commit' # None
  BY <1>2, NoneIsNot
<1>4. TypeOK'
  BY <1>1, <1>2, Typed DEF IInv, TypeOK
<1>5. FileIsWhatReadersSee' /\ WrittenIsOnDisk'
  BY <1>1, <1>2, <1>3 DEF FileIsWhatReadersSee, WrittenIsOnDisk
<1>6. EditorCommit' /\ MutatorCommit' /\ CommitIsValid'
  BY <1>1, <1>2, <1>3 DEF IInv, EditorCommit, MutatorCommit, CommitIsValid, Kept, Valid, Effective
<1> QED
  BY <1>1, <1>4, <1>5, <1>6 DEF IInv, SnapshotValid, CaptureInv, ReadInv, Valid, Effective

LEMMA PublishStep ==
  ASSUME IInv, Publish
  PROVE  IInv'
<1> DEFINE by == commit.by
           next == commit.next
<1>1. /\ UNCHANGED <<configured, disk, writable, edits, leftover, restarts>>
      /\ commit # None /\ commit.written /\ commit' = None /\ state' = next
  BY DEF Publish
<1>2. \A e \in Editors :
        session'[e] = IF e = by
                      THEN [session[e] EXCEPT !.rev = @ + 1,
                                              !.edit = next.record[session[e].scope].edit]
                      ELSE session[e]
  BY DEF Publish
<1>3. \A m \in Mutators : loop'[m] = IF m = by THEN None ELSE loop[m]
  BY DEF Publish
<1>4. ASSUME NEW e \in Editors, e = by
      PROVE  /\ session[e] \in Captures /\ session[e].scope \in Scopes
             /\ session'[e] = [scope |-> session[e].scope, rev |-> session[e].rev + 1,
                               edit |-> next.record[session[e].scope].edit]
             /\ session'[e] \in Captures
  <2>1. session[e] \in Captures
    BY <1>1, <1>4 DEF IInv, EditorCommit
  <2>2. session[e].scope \in Scopes /\ session[e].rev \in Nat
    BY <2>1 DEF Captures
  <2>3. session'[e] = [scope |-> session[e].scope, rev |-> session[e].rev + 1,
                       edit |-> next.record[session[e].scope].edit]
    BY <1>2, <1>4, <2>1 DEF Captures
  <2>4. next.record[session[e].scope].edit \in Nat
    BY <1>1, <2>2, Typed DEF Records
  <2> QED
    BY <2>1, <2>2, <2>3, <2>4 DEF Captures
<1>5. session' \in [Editors -> Captures \cup {None}] /\ loop' \in [Mutators -> Reads \cup {None}]
  <2>1. \A e \in Editors : session'[e] \in Captures \cup {None}
    BY <1>2, <1>4, Typed
  <2>2. \A m \in Mutators : loop'[m] \in Reads \cup {None}
    BY <1>3, Typed
  <2> QED
    BY <2>1, <2>2 DEF Publish
<1>6. TypeOK'
  BY <1>1, <1>5, Typed DEF IInv, TypeOK
<1>7. SnapshotValid' /\ FileIsWhatReadersSee'
  BY <1>1 DEF IInv, SnapshotValid, CommitIsValid, FileIsWhatReadersSee, WrittenIsOnDisk,
     Valid, Effective
<1>8. CaptureInv'
  <2> SUFFICES ASSUME NEW e \in Editors, session'[e] # None,
                      session'[e].scope \in configured \cup {Global}
               PROVE  LET r == next.record[session'[e].scope] IN
                      /\ session'[e].rev <= r.rev
                      /\ session'[e].rev = r.rev => session'[e].edit = r.edit
    BY <1>1 DEF CaptureInv
  <2>1. by \in Editors \cup Mutators /\ \A d \in Scopes : /\ state.record[d].rev \in Nat
                                                          /\ next.record[d].rev \in Nat
    BY <1>1, Typed DEF Records
  <2>2. CASE e = by
    <3>1. next.record[session[e].scope].rev = session[e].rev + 1
      BY <1>1, <2>2 DEF IInv, EditorCommit
    <3>2. /\ session'[e].scope = session[e].scope
          /\ session'[e].rev = session[e].rev + 1
          /\ session'[e].edit = next.record[session[e].scope].edit
      <4>1. session'[e] = [scope |-> session[e].scope, rev |-> session[e].rev + 1,
                           edit |-> next.record[session[e].scope].edit]
        BY <1>4, <2>2
      <4> QED
        BY <4>1
    <3>3. next.record[session[e].scope].rev \in Nat
      BY <1>4, <2>1, <2>2
    <3> QED
      BY <3>1, <3>2, <3>3
  <2>3. CASE e # by
    <3> DEFINE d == session[e].scope
    <3>1. session'[e] = session[e] /\ session[e] \in Captures
      BY <1>2, <2>3, Typed
    <3>2. d \in Scopes /\ session[e].rev \in Nat
      BY <3>1 DEF Captures
    <3>3. session[e].rev <= state.record[d].rev
          /\ (session[e].rev = state.record[d].rev => session[e].edit = state.record[d].edit)
      BY <3>1 DEF IInv, CaptureInv
    <3>4. CASE by \in Editors
      <4>1. next.record[d] = state.record[d] \/ next.record[d].rev = state.record[d].rev + 1
        BY <1>1, <3>2, <3>4 DEF IInv, EditorCommit
      <4> QED
        BY <2>1, <3>1, <3>2, <3>3, <4>1
    <3>5. CASE by \in Mutators
      <4>1. next.record[d] = state.record[d]
        BY <1>1, <3>1, <3>2, <3>5 DEF IInv, MutatorCommit, Kept
      <4> QED
        BY <3>1, <3>3, <4>1
    <3> QED
      BY <2>1, <3>4, <3>5
  <2> QED
    BY <2>2, <2>3
<1>9. ReadInv'
  <2> SUFFICES ASSUME NEW m \in Mutators, loop'[m] # None
               PROVE  /\ loop'[m].rev <= next.regRev
                      /\ loop'[m].rev = next.regRev =>
                           /\ loop'[m].registered = next.registered
                           /\ loop'[m].control = next.control
    BY <1>1 DEF ReadInv
  <2>1. loop'[m] = loop[m] /\ loop[m] \in Reads
    BY <1>3, Typed
  <2>2. loop[m].rev \in Nat /\ state.regRev \in Nat
    BY <2>1, Typed DEF Reads
  <2>3. /\ loop[m].rev <= state.regRev
        /\ loop[m].rev = state.regRev =>
             loop[m].registered = state.registered /\ loop[m].control = state.control
    BY <2>1 DEF IInv, ReadInv
  <2>4. CASE by \in Editors
    BY <1>1, <2>1, <2>3, <2>4 DEF IInv, EditorCommit
  <2>5. CASE by \in Mutators
    <3>1. next.regRev = state.regRev + 1
      BY <1>1, <2>5 DEF IInv, MutatorCommit
    <3> QED
      BY <2>1, <2>2, <2>3, <3>1
  <2> QED
    BY <1>1, <2>4, <2>5, Typed
<1> QED
  BY <1>1, <1>6, <1>7, <1>8, <1>9
     DEF IInv, CommitIsValid, WrittenIsOnDisk, EditorCommit, MutatorCommit

LEMMA CommitFailsStep ==
  ASSUME IInv, CommitFails
  PROVE  IInv'
<1>1. /\ UNCHANGED <<configured, state, disk, writable, edits, restarts>>
      /\ commit # None /\ commit' = None
      /\ leftover' = IF commit.written THEN commit.next ELSE leftover
  BY DEF CommitFails
<1>2. /\ \A e \in Editors : session'[e] \in {session[e], None}
      /\ \A m \in Mutators : loop'[m] \in {loop[m], None}
  BY DEF CommitFails
<1>3. session' \in [Editors -> Captures \cup {None}] /\ loop' \in [Mutators -> Reads \cup {None}]
  BY Typed DEF CommitFails
<1>4. TypeOK'
  BY <1>1, <1>3, Typed DEF IInv, TypeOK
<1>5. FileIsWhatReadersSee'
  BY <1>1 DEF IInv, FileIsWhatReadersSee, WrittenIsOnDisk
<1>6. CaptureInv' /\ ReadInv'
  BY <1>1, <1>2 DEF IInv, CaptureInv, ReadInv
<1> QED
  BY <1>1, <1>4, <1>5, <1>6 DEF IInv, SnapshotValid, CommitIsValid, WrittenIsOnDisk,
     EditorCommit, MutatorCommit, Valid, Effective

LEMMA RestartStep ==
  ASSUME IInv, Restart
  PROVE  IInv'
<1>1. /\ configured' \in SUBSET Groups /\ commit' = None
      /\ session' = [e \in Editors |-> None] /\ loop' = [m \in Mutators |-> None]
      /\ restarts' = restarts + 1 /\ UNCHANGED <<edits, leftover>>
      /\ LoadAgrees \/ LoadReconciles \/ LoadUnavailable \/ LoadFresh
  BY DEF Restart
<1>2. /\ state' \in States /\ disk' \in States /\ writable' \in BOOLEAN
      /\ Valid(state', configured') /\ (writable' => disk' = state')
  <2>1. CASE LoadAgrees
    BY <2>1, Typed DEF LoadAgrees
  <2>2. CASE LoadReconciles
    BY <1>1, <2>2, Typed, ReconciledType DEF LoadReconciles
  <2>3. CASE LoadUnavailable
    BY <1>1, <2>3, Typed, BaselineType DEF LoadUnavailable
  <2>4. CASE LoadFresh
    BY <1>1, <2>4, Typed, BaselineType DEF LoadFresh
  <2> QED
    BY <1>1, <2>1, <2>2, <2>3, <2>4
<1>3. TypeOK'
  BY <1>1, <1>2, Typed DEF TypeOK
<1> QED
  BY <1>1, <1>2, <1>3 DEF IInv, SnapshotValid, CommitIsValid, WrittenIsOnDisk,
     FileIsWhatReadersSee, EditorCommit, MutatorCommit, CaptureInv, ReadInv

LEMMA StepHolds == IInv /\ [Next]_vars => IInv'
<1> SUFFICES ASSUME IInv, [Next]_vars PROVE IInv'
  OBVIOUS
<1>1. ASSUME NEW e \in Editors, CommitGroup(e) \/ EndSession(e) \/ \E c \in Scopes : Capture(e, c)
      PROVE  IInv'
  BY <1>1, CommitGroupStep, EndSessionStep, CaptureStep
<1>2. ASSUME NEW m \in Mutators, ReadRegistrations(m) \/ Mutate(m)
      PROVE  IInv'
  BY <1>2, ReadStep, MutateStep
<1>3. CASE WriteState \/ Publish \/ CommitFails \/ Restart
  BY <1>3, WriteStep, PublishStep, CommitFailsStep, RestartStep
<1>4. CASE UNCHANGED vars
  BY <1>4 DEF vars, IInv, TypeOK, SnapshotValid, CommitIsValid, WrittenIsOnDisk,
     FileIsWhatReadersSee, EditorCommit, MutatorCommit, Kept, CaptureInv, ReadInv, Valid, Effective
<1> QED
  BY <1>1, <1>2, <1>3, <1>4 DEF Next

-----------------------------------------------------------------------------
(* Theorems *)

\* The invariant holds in every state of every run.
THEOREM Inductive == Spec => []IInv
  BY InitHolds, StepHolds, PTL DEF Spec

\* Every variable holds the kind of value the Go declarations give it; the snapshot readers
\* load is valid against config.json; and while this process may write, the file holds what
\* readers see, a commit under way, or what a failed one left.
THEOREM SnapshotSafe == Spec => [](TypeOK /\ SnapshotValid /\ FileIsWhatReadersSee)
<1>1. IInv => TypeOK /\ SnapshotValid /\ FileIsWhatReadersSee
  BY DEF IInv
<1> QED
  BY <1>1, Inductive, PTL

\* While this process may write, a restart finds in settings.json what readers see, or the commit
\* under way, or what a failed one left.
THEOREM FileFollowed == Spec => []FileIsWhatReadersSee
<1>1. IInv => FileIsWhatReadersSee
  BY DEF IInv
<1> QED
  BY <1>1, Inductive, PTL

\* An edit replaces exactly the overrides its editor saw, unless its group was unregistered
\* in between and lost its revision.
THEOREM EditsAreKept == Spec => NoLostEdit
<1>1. ASSUME IInv, NEW e \in Editors, CommitGroup(e), session[e].scope \in configured \cup {Global}
      PROVE  session[e].edit = state.record[session[e].scope].edit
  BY <1>1 DEF IInv, CaptureInv, CommitGroup, UnchangedSince
<1>2. IInv => (\A e \in Editors :
        CommitGroup(e) /\ session[e].scope \in configured \cup {Global} =>
          session[e].edit = state.record[session[e].scope].edit)
  BY <1>1
<1> QED
  BY <1>2, Inductive, PTL DEF NoLostEdit

\* A registration change starts from the registrations in force: of two groups enrolled at
\* once, both stay.
THEOREM EnrolmentsAreKept == Spec => NoLostRegistration
<1>1. ASSUME IInv, NEW m \in Mutators, Mutate(m)
      PROVE  loop[m].registered = state.registered /\ loop[m].control = state.control
  <2>1. loop[m] \in Reads /\ loop[m] # None
    BY <1>1, Typed DEF Mutate
  <2>2. loop[m].rev = state.regRev
    BY <1>1, <2>1, RegisterType DEF Mutate, CommitRegistrations, StillCurrent
  <2> QED
    BY <1>1, <2>1, <2>2 DEF IInv, ReadInv
<1>2. IInv => (\A m \in Mutators : Mutate(m) =>
        loop[m].registered = state.registered /\ loop[m].control = state.control)
  BY <1>1
<1> QED
  BY <1>2, Inductive, PTL DEF NoLostRegistration

\* The revision of a scope never goes back while the scope stays effective.
THEOREM RevisionsNeverFall == Spec => RevisionsGrow
<1> DEFINE Stay == (Effective(state, configured) \cap Effective(state', configured)) \cup {Global}
           Grows == \A c \in Scopes : c \in Stay => state'.record[c].rev >= state.record[c].rev
<1>1. ASSUME IInv, Publish PROVE Grows
  <2>1. commit # None /\ state' = commit.next /\ commit.by \in Editors \cup Mutators
        /\ \A d \in Scopes : state.record[d].rev \in Nat
    BY <1>1, Typed DEF Publish, Records
  <2>2. CASE commit.by \in Editors
    <3>1. \A d \in Scopes : \/ commit.next.record[d] = state.record[d]
                            \/ commit.next.record[d].rev = state.record[d].rev + 1
      BY <1>1, <2>1, <2>2 DEF IInv, EditorCommit
    <3> QED
      BY <2>1, <3>1
  <2>3. CASE commit.by \in Mutators
    <3>1. \A d \in Scopes : d \in Stay => commit.next.record[d] = state.record[d]
      BY <1>1, <2>1, <2>3 DEF IInv, MutatorCommit, Kept, Effective
    <3> QED
      BY <2>1, <3>1
  <2> QED
    BY <2>1, <2>2, <2>3
<1>2. ASSUME IInv, state' = state PROVE Grows
  BY <1>2, Typed DEF Records
<1>3. IInv /\ [Next]_vars => Restart \/ Grows \/ UNCHANGED vars
  <2>1. [Next]_vars => Restart \/ Publish \/ state' = state
    BY DEF Next, CommitGroup, EndSession, Capture, ReadRegistrations, Mutate,
       CommitRegistrations, WriteState, CommitFails, vars
  <2> QED
    BY <1>1, <1>2, <2>1
<1> QED
  BY <1>3, Inductive, PTL DEF Spec, RevisionsGrow

-----------------------------------------------------------------------------
(* The state file under the settings and every other saved state *)

\* A save under way holds the mutex of a running process that may write.
MutexInv ==
  \A w \in Writers : stage[w] # "idle" => writeMu = w /\ up /\ mayWrite

\* Nothing on disk is newer than what the program produced, and the file of a process that
\* may write is no newer than its memory.
AgeInv ==
  /\ mem <= made
  /\ \A c \in atRisk \cup {file} : c \in Nat => c <= made
  /\ up /\ mayWrite => file \in Nat /\ file <= mem

\* A snapshot not yet renamed is no older than the file it will replace.
SnapInv ==
  \A w \in Writers :
    stage[w] \in {"snapped", "written", "flushed"} => file <= snap[w] /\ snap[w] <= mem

FileIInv == FileTypeOK /\ MutexInv /\ AgeInv /\ SnapInv /\ AckedSurvives

USE DEF memVars, writerVars, diskVars

LEMMA FileInitHolds == FileInit => FileIInv
  BY ContentAssumption, NoWriterAssumption
     DEF FileInit, FileIInv, FileTypeOK, MutexInv, AgeInv, SnapInv, AckedSurvives, Contents, Stages

\* A step of one writer that leaves the disk and the memory alone
LEMMA WriterStep ==
  ASSUME FileIInv, NEW w \in Writers,
         NEW to \in Stages,
         stage' = [stage EXCEPT ![w] = to],
         UNCHANGED <<memVars, diskVars>>,
         \/ to = "idle" /\ writeMu' = NoWriter /\ writeMu = w /\ UNCHANGED snap
         \/ to = "locked" /\ writeMu = NoWriter /\ writeMu' = w /\ up /\ mayWrite /\ UNCHANGED snap
         \/ to = "snapped" /\ writeMu = w /\ UNCHANGED writeMu /\ up /\ mayWrite
              /\ snap' = [snap EXCEPT ![w] = mem]
         \/ to \in {"written", "flushed"} /\ stage[w] \in {"snapped", "written"}
              /\ UNCHANGED <<writeMu, snap>>
  PROVE  FileIInv'
<1> USE DEF FileIInv
<1>1. FileTypeOK'
  BY NoWriterAssumption DEF FileTypeOK, Contents, Stages
<1>2. MutexInv'
  BY NoWriterAssumption DEF FileTypeOK, MutexInv, Stages
<1>3. AgeInv'
  BY DEF AgeInv
<1>4. SnapInv'
  BY DEF FileTypeOK, SnapInv, AgeInv, MutexInv, Stages
<1>5. AckedSurvives'
  BY DEF AckedSurvives
<1> QED BY <1>1, <1>2, <1>3, <1>4, <1>5

LEMMA RenameStep == ASSUME FileIInv, NEW w \in Writers, Rename(w) PROVE FileIInv'
<1> USE DEF FileIInv, Rename, Steps
<1>1. file \in Nat /\ file <= snap[w] /\ snap[w] <= mem /\ snap[w] \in Nat /\ mem \in Nat
      /\ made \in Nat /\ acked \in Nat
  BY DEF FileTypeOK, MutexInv, AgeInv, SnapInv
<1>2. FileTypeOK'
  BY <1>1 DEF FileTypeOK, Contents, Stages
<1>3. MutexInv'
  BY DEF FileTypeOK, MutexInv
<1>4. AgeInv'
  BY <1>1 DEF AgeInv
<1>5. SnapInv'
  <2> SUFFICES ASSUME NEW v \in Writers, stage'[v] \in {"snapped", "written", "flushed"}
               PROVE  file' <= snap'[v] /\ snap'[v] <= mem'
    BY DEF SnapInv
  <2>1. v # w
    BY DEF FileTypeOK
  <2>2. stage[v] # "idle" /\ stage[w] # "idle"
    BY <2>1 DEF FileTypeOK
  <2> QED BY <2>1, <2>2 DEF MutexInv
<1>6. AckedSurvives'
  BY <1>1 DEF AckedSurvives, FileTypeOK
<1> QED BY <1>2, <1>3, <1>4, <1>5, <1>6

LEMMA DiskStep ==
  ASSUME FileIInv, \/ \E w \in Writers : SyncParent(w)
               \/ Crash \/ PowerFailure \/ Damage
  PROVE  FileIInv'
<1> USE DEF FileIInv
<1>1. ASSUME NEW w \in Writers, SyncParent(w) PROVE FileIInv'
  <2> USE <1>1 DEF SyncParent, Steps
  <2>1. file \in Nat /\ writeMu = w
    BY DEF MutexInv, AgeInv
  <2>2. FileTypeOK' /\ AgeInv' /\ AckedSurvives'
    BY <2>1, NoWriterAssumption DEF FileTypeOK, AgeInv, AckedSurvives, Stages, Contents
  <2>3. MutexInv' /\ SnapInv'
    BY <2>1 DEF FileTypeOK, MutexInv, SnapInv
  <2> QED BY <2>2, <2>3
<1>2. CASE Crash
  BY <1>2, NoWriterAssumption
     DEF Crash, Ends, FileTypeOK, MutexInv, AgeInv, SnapInv, AckedSurvives, Stages
<1>3. CASE PowerFailure
  BY <1>3, NoWriterAssumption
     DEF PowerFailure, Ends, FileTypeOK, MutexInv, AgeInv, SnapInv, AckedSurvives, Stages, Contents
<1>4. CASE Damage
  BY <1>4, ContentAssumption
     DEF Damage, FileTypeOK, MutexInv, AgeInv, SnapInv, AckedSurvives, Contents
<1> QED BY <1>1, <1>2, <1>3, <1>4

LEMMA StartStep == ASSUME FileIInv, Start PROVE FileIInv'
<1> USE DEF FileIInv, Start
<1>1. \A w \in Writers : stage[w] = "idle" /\ stage'[w] = "idle"
  BY DEF MutexInv
<1>2. CASE LoadDecoded
  BY <1>1, <1>2 DEF LoadDecoded, FileTypeOK, MutexInv, AgeInv, SnapInv, AckedSurvives
<1>3. CASE LoadFailed
  <2>1. FileTypeOK'
    BY <1>3 DEF LoadFailed, FileTypeOK
  <2>2. MutexInv' /\ SnapInv'
    BY <1>1 DEF MutexInv, SnapInv
  <2>3. AgeInv'
    BY <1>3 DEF LoadFailed, FileTypeOK, AgeInv
  <2>4. AckedSurvives'
    BY <1>3 DEF LoadFailed, AckedSurvives
  <2> QED BY <2>1, <2>2, <2>3, <2>4
<1>4. CASE LoadMovedAside
  BY <1>1, <1>4
     DEF LoadMovedAside, FileTypeOK, MutexInv, AgeInv, SnapInv, AckedSurvives, Contents
<1> QED BY <1>2, <1>3, <1>4

LEMMA ChangeStep == ASSUME FileIInv, Change PROVE FileIInv'
  BY DEF Change, FileIInv, FileTypeOK, MutexInv, AgeInv, SnapInv, AckedSurvives

LEMMA FileStepHolds == FileIInv /\ [FileNext]_saveVars => FileIInv'
<1> SUFFICES ASSUME FileIInv, [FileNext]_saveVars PROVE FileIInv'
  OBVIOUS
<1>1. CASE UNCHANGED saveVars
  BY <1>1 DEF saveVars, FileIInv, FileTypeOK, MutexInv, AgeInv, SnapInv, AckedSurvives
<1>2. ASSUME NEW w \in Writers, Lock(w) PROVE FileIInv'
  BY <1>2, WriterStep DEF Lock, Steps, Stages
<1>3. ASSUME NEW w \in Writers, Snapshot(w) PROVE FileIInv'
  BY <1>3, WriterStep DEF Snapshot, Steps, Stages, FileIInv, MutexInv
<1>4. ASSUME NEW w \in Writers, WriteTemp(w) PROVE FileIInv'
  BY <1>4, WriterStep DEF WriteTemp, Steps, Stages
<1>5. ASSUME NEW w \in Writers, Flush(w) PROVE FileIInv'
  BY <1>5, WriterStep DEF Flush, Steps, Stages
<1>6. ASSUME NEW w \in Writers, Fail(w) PROVE FileIInv'
  BY <1>6, WriterStep DEF Fail, Stages, FileIInv, MutexInv
<1> QED
  BY <1>1, <1>2, <1>3, <1>4, <1>5, <1>6, RenameStep, DiskStep, StartStep, ChangeStep DEF FileNext

THEOREM FileInductive == FileSpec => []FileIInv
  BY FileInitHolds, FileStepHolds, PTL DEF FileSpec

\* What a Save reported as written survives whatever happens to the process and to the power
\* (store.writeBytesLocked), and nothing torn is ever read.
THEOREM SavesSurvive == FileSpec => [](FileTypeOK /\ AckedSurvives)
<1>1. FileIInv => FileTypeOK /\ AckedSurvives
  BY DEF FileIInv
<1> QED BY <1>1, FileInductive, PTL

-----------------------------------------------------------------------------
LEMMA StepImplements == FileIInv /\ [FileNext]_saveVars => [File!Next]_<<file, atRisk, acked>>
<1> SUFFICES ASSUME FileIInv, [FileNext]_saveVars PROVE [File!Next]_<<file, atRisk, acked>>
  OBVIOUS
<1> USE DEF File!Next
<1>1. ASSUME NEW w \in Writers, Rename(w) PROVE File!Replace
  BY <1>1 DEF Rename, Steps, File!Replace, FileIInv, FileTypeOK, MutexInv, AgeInv, SnapInv
<1>2. ASSUME NEW w \in Writers, SyncParent(w) PROVE File!Acknowledge
  BY <1>2 DEF SyncParent, Steps, File!Acknowledge, FileIInv, MutexInv, AgeInv
<1>3. PowerFailure => File!PowerFailure
  BY DEF PowerFailure, File!PowerFailure
<1>4. Damage => File!Damage
  BY DEF Damage, File!Damage
<1>5. Start => File!MoveAside \/ UNCHANGED diskVars
  BY DEF Start, LoadDecoded, LoadFailed, LoadMovedAside, File!MoveAside, FileIInv, FileTypeOK, Contents
<1>6. ASSUME NEW w \in Writers,
             Lock(w) \/ Snapshot(w) \/ WriteTemp(w) \/ Flush(w) \/ Fail(w)
      PROVE  UNCHANGED diskVars
  BY <1>6 DEF Lock, Snapshot, WriteTemp, Flush, Fail
<1>7. Change \/ Crash => UNCHANGED diskVars
  BY DEF Change, Crash
<1>8. UNCHANGED saveVars => UNCHANGED diskVars
  BY DEF saveVars
<1> QED BY <1>1, <1>2, <1>3, <1>4, <1>5, <1>6, <1>7, <1>8 DEF FileNext

\* The file of internal/store is an atomic file (Save, writeBytesLocked, Load): an older state
\* never replaces a newer one and an undecodable file is never overwritten.
THEOREM Implements == FileSpec => AtomicSaves
<1>1. FileInit => File!Init
  BY DEF FileInit, File!Init
<1> QED
  BY <1>1, StepImplements, FileInductive, PTL DEF FileSpec, AtomicSaves, File!Spec, File!fileVars

=============================================================================
