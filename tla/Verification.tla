----------------------------- MODULE Verification -----------------------------
(***************************************************************************)
(* What internal/verify promises of verifications, without maps, markers,  *)
(* timers and records.  A verification is asked of one applicant once; it  *)
(* is open until one verdict claims it; the calls that carry the verdict   *)
(* out end it or give it back to the applicant; what has ended has ended,  *)
(* whatever calls about it still run.  When the process dies, the calls    *)
(* are lost and what was filed may be open again: a verdict that was       *)
(* carried out but not filed is asked for once more, and a verification    *)
(* that has ended and is filed no longer never comes back.                 *)
(***************************************************************************)
CONSTANTS Verifications,
          Applicants,
          Nobody,      \* the applicant of a verification not asked yet
          Verdicts

VARIABLES
  applicant,           \* of each verification
  life,                \* "unasked", "open", "claimed" or "ended"
  calls,               \* verdicts being carried out in Telegram, as <<verification, verdict>>
  filed                \* verifications that the state file lists

lifeVars == <<applicant, life, calls>>
verificationVars == <<lifeVars, filed>>

Init ==
  /\ applicant = [v \in Verifications |-> Nobody]
  /\ life = [v \in Verifications |-> "unasked"]
  /\ calls = {}
  /\ filed = {}

Ending(V) == [v \in Verifications |-> IF v \in V THEN "ended" ELSE life[v]]

\* A new verification replaces the applicant's open one, and waits for one that is claimed.
Ask(a, v) ==
  LET earlier == {w \in Verifications : applicant[w] = a} IN
  /\ life[v] = "unasked"
  /\ \A w \in earlier : life[w] # "claimed"
  /\ applicant' = [applicant EXCEPT ![v] = a]
  /\ life' = [Ending(earlier) EXCEPT ![v] = "open"]
  /\ UNCHANGED calls

\* An answer, a timer or an administrator claims it: the first one does.
Settle(v, verdict) ==
  /\ life[v] = "open"
  /\ calls' = calls \cup {<<v, verdict>>}
  /\ life' = [life EXCEPT ![v] = "claimed"]
  /\ UNCHANGED applicant

\* The calls of a verdict returned.  Only a verification still claimed can be open again.
Return(v, verdict) ==
  /\ <<v, verdict>> \in calls
  /\ calls' = calls \ {<<v, verdict>>}
  /\ \/ life[v] = "claimed" /\ \E stage \in {"open", "ended"} : life' = [life EXCEPT ![v] = stage]
     \/ life[v] = "ended" /\ UNCHANGED life
  /\ UNCHANGED applicant

\* The group was disabled or removed, or the applicant is in already.
Cancel(V) ==
  /\ \A v \in V : life[v] \in {"open", "claimed"}
  /\ UNCHANGED <<applicant, calls>>
  /\ life' = Ending(V)

Step ==
  \/ \E V \in SUBSET Verifications : Cancel(V)
  \/ \E v \in Verifications, a \in Applicants : Ask(a, v)
  \/ \E v \in Verifications, verdict \in Verdicts : Settle(v, verdict) \/ Return(v, verdict)

\* The file then lists what goes on, claimed or not.
Save ==
  /\ UNCHANGED lifeVars
  /\ filed' = {v \in Verifications : life[v] \in {"open", "claimed"}}

\* The next process opens what it finds in the file, one verification for an applicant.
Restart(V) ==
  /\ UNCHANGED <<applicant, filed>>
  /\ calls' = {}
  /\ \A v, w \in V : applicant[v] = applicant[w] => v = w
  /\ life' = [v \in Verifications |->
                IF v \in V THEN "open" ELSE IF life[v] = "unasked" THEN "unasked" ELSE "ended"]

Next ==
  \/ UNCHANGED filed /\ Step
  \/ Save
  \/ \E V \in SUBSET filed : Restart(V)

Spec == Init /\ [][Next]_verificationVars
=============================================================================
