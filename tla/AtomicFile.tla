------------------------------ MODULE AtomicFile ------------------------------
(***************************************************************************)
(* What internal/store promises of one state file: a reader finds a state  *)
(* that was saved, whole, and never one older than the state whose save    *)
(* was last reported to have succeeded; a file that cannot be decoded is   *)
(* moved aside, never overwritten.  States are numbered in the order the   *)
(* program produced them; 0 is no file.                                    *)
(***************************************************************************)
EXTENDS Naturals

CONSTANT Damaged   \* what does not decode

VARIABLES
  content,         \* what a reader finds
  risk,            \* what a power failure may leave instead
  acked            \* the last state whose save was reported to have succeeded

fileVars == <<content, risk, acked>>

Init == content = 0 /\ risk = {0} /\ acked = 0

\* The file is replaced by a state at least as recent.
Replace ==
  /\ content \in Nat
  /\ content' \in Nat /\ content' >= content
  /\ risk' = risk \cup {content'}
  /\ UNCHANGED acked

\* The replacement is durable, and its save says so.
Acknowledge ==
  /\ content \in Nat
  /\ risk' = {content}
  /\ acked' = content
  /\ UNCHANGED content

PowerFailure ==
  /\ content' \in risk
  /\ risk' = {content'}
  /\ UNCHANGED acked

\* A bad disk or a bad edit, while nothing runs
Damage == content' = Damaged /\ risk' = {Damaged} /\ acked' = 0

MoveAside ==
  /\ content = Damaged
  /\ content' = 0 /\ risk' = {0} /\ acked' = 0

Next == Replace \/ Acknowledge \/ PowerFailure \/ Damage \/ MoveAside

Spec == Init /\ [][Next]_fileVars

-----------------------------------------------------------------------------
\* Whatever happens to the power, what was acknowledged is not lost.
AckedSurvives ==
  \A c \in risk \cup {content} : (c \in Nat /\ c >= acked) \/ (c = Damaged /\ acked = 0)

=============================================================================
