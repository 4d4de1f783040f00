------------------------------ MODULE Applicant ------------------------------
(***************************************************************************)
(* What one applicant's replies and failures cost, in every group they     *)
(* are verifying for: the grading of private replies (kernel.go), the quiz *)
(* buttons (OnAnswer), and the strikes, the cooldown and the automatic ban *)
(* that a settled failure carries (finishDecline, state.go).               *)
(*                                                                         *)
(* An action is one critical section of Service.mu or one Telegram call.   *)
(* A save that directly follows a critical section is part of it: a crash  *)
(* between the two leaves what a crash before both leaves.  Challenges are *)
(* delivered at once (PendingTable has the delivery) except the fallback   *)
(* question, whose sending suspends the grading.                           *)
(***************************************************************************)
EXTENDS Naturals, FiniteSets

CONSTANTS Groups,         \* guarded groups
          Questions,      \* fallback questions, each with an answer of its own
          None,           \* no verification, no question, no token
          Workers,        \* goroutines: update handlers and expiry callbacks
          Profiles,       \* who applies and what happens to them: ProfileAssumption
          KernelMaxTries, \* kernelMaxTries
          VerifyMaxFails, \* verify_max_fails of every group
          MaxNonce,       \* bound: verifications started
          MaxFaults,      \* bound: Telegram calls that fail
          MaxCrashes      \* bound: crashes of the process

Modes == {"kernel", "quiz"}
PlainKinds == {"sample", "kernel", "mixed", "undated", "declared", "wrong"}
Kinds == PlainKinds \cup {"answer", "agent", "right", "press"}

\* A verification: the pending struct, as far as grading and settling tell its states apart
Entry == [nonce : 1..MaxNonce, mode : Modes, tries : Nat,
          spent : SUBSET {"sample", "os", "minute", "fallback"}, question : Questions \cup {None},
          asking : BOOLEAN, done : BOOLEAN, passing : BOOLEAN,
          reason : {"timeout", "nofault", "wrong answer"}, unreadable : BOOLEAN]

ASSUME NoneAssumption == None \notin Questions /\ None \notin Entry
\* An applicant asks to join some groups and sends some kinds of reply, overlapping handlers,
\* deadlines, crashes and failed calls may come in between, and each group draws its fallback question from its bank.
ASSUME ProfileAssumption ==
  \A p \in Profiles : /\ p.joins \subseteq Groups
                      /\ p.sends \subseteq Kinds
                      /\ p.meets \subseteq {"overlap", "expiry", "crash", "fault"}
                      /\ \A g \in Groups : p.bank[g] \subseteq Questions /\ p.bank[g] # {}
ASSUME BoundAssumption == /\ {KernelMaxTries, VerifyMaxFails} \subseteq Nat \ {0}
                          /\ {MaxNonce, MaxFaults, MaxCrashes} \subseteq Nat

VARIABLES
  profile,    \* this applicant, and the banks in force
  pend,       \* Service.pend for this applicant
  disk,       \* pending.json
  place,      \* Telegram: where the applicant stands in each group
  fails,      \* Service.vfail and verifyfail.json: the count
  age,        \* how old the last failure is: past the cooldown, past verifyFailWindow
  work,       \* what each goroutine is doing
  issued,     \* nonces drawn
  faults,     \* Telegram calls that failed
  crashes,    \* crashes so far
  charged,    \* history: replies of this verification that were charged to it
  failed      \* history: the verifications failed since the last pass or ban, in one window

tableVars == <<pend, disk>>
telegramVars == <<place, faults>>
strikeVars == <<fails, age, failed>>
worldVars == <<profile, issued, crashes>>
vars == <<tableVars, telegramVars, strikeVars, worldVars, work, charged>>

Idle == [at |-> "idle"]

Init ==
  /\ profile \in Profiles
  /\ pend = [g \in Groups |-> None]
  /\ disk = [g \in Groups |-> None]
  /\ place = [g \in Groups |-> "out"]
  /\ fails = [g \in Groups |-> 0]
  /\ age = [g \in Groups |-> "recent"]
  /\ work = [w \in Workers |-> Idle]
  /\ issued = 0 /\ faults = 0 /\ crashes = 0
  /\ charged = [g \in Groups |-> 0]
  /\ failed = [g \in Groups |-> {}]

-----------------------------------------------------------------------------
(* Operators whose name begins with Buggy are faulty variants used only to show that the      *)
(* properties can fail.                                                                       *)

Live(g) == pend[g] # None /\ ~pend[g].done
BuggyHolds(g, nonce) == Live(g)       \* a re-application may have replaced the verification
Holds(g, nonce) == Live(g) /\ pend[g].nonce = nonce

\* hasKernelPending, kernelPendingGroups
Gradable(g) == Live(g) /\ pend[g].mode = "kernel" /\ ~pend[g].asking

Update(g, p) == pend' = [pend EXCEPT ![g] = p]
Keep == UNCHANGED pend

\* save: every live entry as pending.json has it; `done`, and the reason the timer was armed
\* for, are not written.
Written(p) == IF p = None THEN None ELSE [p EXCEPT !.done = FALSE, !.reason = "timeout"]
Save == disk' = [g \in Groups |-> Written(pend'[g])]
NoSave == UNCHANGED disk

\* The goroutine goes to its next step; one with no groups left has ended.
Go(w, r) == work' = [work EXCEPT ![w] = IF r.at = "next" /\ r.todo = {} THEN Idle ELSE r]
To(w, at) == Go(w, [work[w] EXCEPT !.at = at])
NextGroup(w) == Go(w, [work[w] EXCEPT !.at = "next", !.g = None, !.nonce = 0, !.question = None])
At(w, at) == work[w].at = at
G(w) == work[w].g                     \* the group it is working on
Busy == {w \in Workers : ~At(w, "idle")}
Free(w) == At(w, "idle") /\ ("overlap" \in profile.meets \/ Busy = {})

Fault == "fault" \in profile.meets /\ faults < MaxFaults /\ faults' = faults + 1
NoFault == UNCHANGED faults

-----------------------------------------------------------------------------
(* The applicant asks to join, and others act in Telegram *)

\* verifyCooldownRemaining is positive
Cooling(g) == fails[g] > 0 /\ age[g] = "recent"

\* newChallenge, and the progress startPending carries over from the entry it replaces
Challenge(g, mode) ==
  LET p == [nonce |-> issued + 1, mode |-> mode, tries |-> 0, spent |-> {}, question |-> None,
            asking |-> FALSE, done |-> FALSE, passing |-> FALSE, reason |-> "timeout",
            unreadable |-> FALSE]
      old == pend[g]
  IN  IF old = None THEN p
      ELSE LET kept == mode = "kernel" /\ old.mode = "kernel" /\ old.question # None
           IN  [p EXCEPT !.tries = old.tries,
                         !.spent = (old.spent \ {"fallback"}) \cup (IF kept THEN {"fallback"} ELSE {}),
                         !.question = IF kept THEN old.question ELSE None]

\* OnJoinRequest while neither a cooldown nor a settlement in flight turns it away
OnJoinRequest(g) ==
  /\ g \in profile.joins
  /\ place[g] \in {"out", "asking"}
  /\ issued < MaxNonce
  /\ ~Cooling(g)
  /\ pend[g] # None => ~pend[g].done
  /\ place' = [place EXCEPT ![g] = "asking"]
  /\ issued' = issued + 1
  /\ \E mode \in Modes :
       /\ mode = "quiz" => "press" \in profile.sends
       /\ Update(g, Challenge(g, mode))
  /\ Save
  /\ charged' = IF pend[g] = None THEN [charged EXCEPT ![g] = 0] ELSE charged
  /\ UNCHANGED <<profile, faults, strikeVars, work, crashes>>

\* pendingBlockedTerminal: the request stays with Telegram for an administrator.
RequestWaits(g) ==
  /\ place[g] = "out"
  /\ ~Cooling(g)
  /\ pend[g] # None /\ pend[g].done
  /\ place' = [place EXCEPT ![g] = "asking"]
  /\ UNCHANGED <<tableVars, strikeVars, worldVars, faults, work, charged>>

\* An administrator settles the request in Telegram, or a member leaves.
OthersAct(g) ==
  /\ \/ place[g] = "asking" /\ \E p \in {"in", "out"} : place' = [place EXCEPT ![g] = p]
     \/ place[g] = "in" /\ place' = [place EXCEPT ![g] = "out"]
  /\ UNCHANGED <<tableVars, strikeVars, worldVars, faults, work, charged>>

\* Time passes: the retry cooldown ends, then verifyFailWindow.  A settlement takes less.
TimePasses(g) ==
  /\ fails[g] > 0
  /\ \A w \in Busy : G(w) # g
  /\ \/ age[g] = "recent" /\ age' = [age EXCEPT ![g] = "cooled"]
     \/ age[g] = "cooled" /\ age' = [age EXCEPT ![g] = "lapsed"]
  /\ UNCHANGED <<tableVars, telegramVars, fails, failed, worldVars, work, charged>>

-----------------------------------------------------------------------------
(* Replies *)

\* What the applicant can write now: an agent repeats the token of a prompt it was shown.
Replies ==
  [kind : profile.sends \cap PlainKinds, token : {None}]
    \cup [kind : profile.sends \cap {"answer"}, token : Questions]
    \cup [kind : profile.sends \cap {"agent"}, token : {pend[g].nonce : g \in {g \in Groups : Live(g)}}]

\* fallbackAnswerOK
Answers(reply, question) == reply.kind = "answer" /\ reply.token = question
\* kernelAnswerOK, with and without the name of another system beside it
KernelAnswerOK(reply) == reply.kind \in {"kernel", "mixed"}
MentionsOtherOS(reply) == reply.kind \in {"mixed", "undated", "declared"}
\* aiTrapped
Trapped(reply, nonce) == reply.kind = "agent" /\ reply.token = nonce

\* KernelAnswerDM and OnKernelAnswer: a reply that trips one group's token counts against all.
OnKernelAnswer(w) ==
  /\ Free(w)
  /\ {g \in Groups : Gradable(g)} # {}
  /\ \E reply \in Replies :
       LET groups == {g \in Groups : Gradable(g)}
           how == IF \E g \in groups : Trapped(reply, pend[g].nonce) THEN "agent" ELSE "grade"
       IN  Go(w, [at |-> "next", how |-> how, reply |-> reply, todo |-> groups, g |-> None,
                  nonce |-> 0, question |-> None,
                  others |-> {pend[g].question : g \in {g \in Groups : Live(g)}}])
  /\ UNCHANGED <<tableVars, telegramVars, strikeVars, worldVars, charged>>

\* kernelPendingInfo; a map is ranged over in any order.
KernelPendingInfo(w) ==
  /\ At(w, "next")
  /\ \E g \in work[w].todo :
       LET rest == [work[w] EXCEPT !.todo = @ \ {g}]
       IN  Go(w, IF ~Live(g) \/ pend[g].asking THEN rest
                 ELSE [rest EXCEPT !.g = g, !.nonce = pend[g].nonce, !.question = pend[g].question,
                                   !.at = IF rest.how = "agent" THEN "refuse" ELSE "grade"])
  /\ UNCHANGED <<tableVars, telegramVars, strikeVars, worldVars, charged>>

\* answersAnotherFallback
AnswersAnother(g, reply) ==
  \E h \in Groups \ {g} : Live(h) /\ pend[h].question # None /\ Answers(reply, pend[h].question)

\* sharedFallbackQuestion: reuse the question drawn in a group with the same bank
Drawable(g) ==
  LET sharing == {h \in Groups \ {g} : Live(h) /\ profile.bank[h] = profile.bank[g]}
      drawn == {pend[h].question : h \in sharing} \ {None}
  IN  IF drawn # {} THEN drawn ELSE profile.bank[g]

BuggyTriesLeft(g) == pend[g].tries + 2 < KernelMaxTries   \* this reply is counted twice
TriesLeft(g) == pend[g].tries + 1 < KernelMaxTries

\* recordKernelTry, and what its caller does with the tries left
RecordKernelTry(w) ==
  LET g == G(w) IN
  IF Holds(g, work[w].nonce)
  THEN /\ Update(g, [pend[g] EXCEPT !.tries = @ + 1])
       /\ charged' = IF pend[g].nonce = work[w].nonce THEN [charged EXCEPT ![g] = @ + 1] ELSE charged
       /\ IF TriesLeft(g)
          THEN Save /\ NextGroup(w)
          ELSE NoSave /\ To(w, "refuse")
  ELSE Keep /\ NoSave /\ NextGroup(w) /\ UNCHANGED charged

\* markSampleBounced, markOSClarified, markNoLinuxReminded: the first time is free.
Unspent(w, hint) == Holds(G(w), work[w].nonce) /\ hint \notin pend[G(w)].spent
SpendHint(w, hint) ==
  /\ Update(G(w), [pend[G(w)] EXCEPT !.spent = @ \cup {hint}])
  /\ NextGroup(w)
  /\ UNCHANGED charged

\* beginKernelFallback
CanBeginFallback(w) == Unspent(w, "fallback") /\ ~pend[G(w)].asking
BeginKernelFallback(w) ==
  /\ \E q \in Drawable(G(w)) :
       Update(G(w), [pend[G(w)] EXCEPT !.spent = @ \cup {"fallback"}, !.question = q,
                                       !.asking = TRUE, !.reason = "nofault"])
  /\ Save
  /\ To(w, "ask")
  /\ UNCHANGED charged

\* gradeKernelAnswer, with the nonce and the question read in KernelPendingInfo
Pass(w) == Keep /\ NoSave /\ To(w, "gate") /\ UNCHANGED charged
Ignore(w) == Keep /\ NoSave /\ NextGroup(w) /\ UNCHANGED charged
GradeFallback(w) ==
  LET reply == work[w].reply IN
  IF \/ Answers(reply, work[w].question)
     \/ KernelAnswerOK(reply) /\ ~MentionsOtherOS(reply) THEN Pass(w)
  ELSE IF AnswersAnother(G(w), reply) THEN Ignore(w)
  ELSE RecordKernelTry(w)
GradeKernel(w) ==
  LET reply == work[w].reply IN
  IF reply.kind = "mixed" /\ Unspent(w, "os") THEN SpendHint(w, "os") /\ Save
  ELSE IF KernelAnswerOK(reply) THEN Pass(w)
  ELSE IF reply.kind = "undated" /\ Unspent(w, "minute") THEN SpendHint(w, "minute") /\ NoSave
  ELSE IF reply.kind = "declared" /\ CanBeginFallback(w) THEN BeginKernelFallback(w)
  ELSE RecordKernelTry(w)
GradeKernelAnswer(w) ==
  /\ At(w, "grade")
  /\ LET reply == work[w].reply IN
     IF Trapped(reply, work[w].nonce) THEN
       Keep /\ NoSave /\ Go(w, [work[w] EXCEPT !.at = "refuse", !.how = "agent"]) /\ UNCHANGED charged
     ELSE IF reply.kind = "sample" /\ Unspent(w, "sample") THEN SpendHint(w, "sample") /\ Save
     ELSE IF work[w].question # None THEN GradeFallback(w)
     ELSE GradeKernel(w)
  /\ UNCHANGED <<telegramVars, strikeVars, worldVars>>

\* sendDMQuestion and completeDMDelivery: sent, definitely refused, or neither is known
CompleteDMDelivery(w) ==
  /\ At(w, "ask")
  /\ LET g == G(w)
         current == Holds(g, work[w].nonce) /\ pend[g].asking
         sent == [pend[g] EXCEPT !.asking = FALSE, !.reason = "timeout"]
         refused == [sent EXCEPT !.question = None, !.spent = @ \ {"fallback"}]
     IN  \/ ~current /\ Keep /\ NoSave /\ NoFault
         \/ current /\ Update(g, sent) /\ Save /\ NoFault
         \/ current /\ Update(g, refused) /\ Save /\ Fault
         \/ current /\ Keep /\ NoSave /\ Fault
  /\ NextGroup(w)
  /\ UNCHANGED <<place, strikeVars, worldVars, charged>>

\* OnAnswer: a button of the verification in force, with the right or a wrong choice
OnAnswer(w, g) ==
  /\ Free(w)
  /\ "press" \in profile.sends
  /\ Live(g) /\ pend[g].mode = "quiz"
  /\ \E at \in {"gate", "refuse"} :
       Go(w, [at |-> at, how |-> "press", reply |-> [kind |-> "press", token |-> None], todo |-> {},
              g |-> g, nonce |-> pend[g].nonce, question |-> None, others |-> {}])
  /\ UNCHANGED <<tableVars, telegramVars, strikeVars, worldVars, charged>>

-----------------------------------------------------------------------------
(* Claims and settlements *)

\* isChannelMember, then claimPendingNonce (finishKernelPass, OnAnswer).  The reading is
\* recorded on whatever entry is there; a channel the bot cannot read may let people through.
IsChannelMember(w) ==
  /\ At(w, "gate")
  /\ \E member, known \in BOOLEAN :
       /\ IF known THEN NoFault ELSE Fault
       /\ LET g == G(w)
              claimed == member /\ Holds(g, work[w].nonce)
          IN  /\ IF pend[g] = None THEN Keep
                 ELSE Update(g, [pend[g] EXCEPT !.unreadable = ~known, !.done = @ \/ claimed])
              /\ To(w, IF claimed THEN "approve" ELSE "next")
  /\ NoSave
  /\ UNCHANGED <<place, strikeVars, worldVars, charged>>

\* decline: claimPendingNonce with reason "wrong answer"
ClaimDecline(w) ==
  /\ At(w, "refuse")
  /\ IF Holds(G(w), work[w].nonce)
     THEN Update(G(w), [pend[G(w)] EXCEPT !.done = TRUE, !.reason = "wrong answer"]) /\ To(w, "decline")
     ELSE Keep /\ NextGroup(w)
  /\ NoSave
  /\ UNCHANGED <<telegramVars, strikeVars, worldVars, charged>>

\* onExpiry with the bot online: claimPendingExpiry, and one last reading of the channel
OnExpiry(w, g) ==
  /\ "expiry" \in profile.meets
  /\ Free(w)
  /\ Live(g)
  /\ \/ /\ Update(g, [pend[g] EXCEPT !.done = TRUE]) /\ NoFault
     \/ /\ pend[g].reason = "timeout" /\ ~pend[g].unreadable
        /\ Update(g, [pend[g] EXCEPT !.done = TRUE, !.unreadable = TRUE]) /\ Fault
  /\ Go(w, [at |-> IF pend[g].passing THEN "approve" ELSE "decline", how |-> "expiry",
            reply |-> [kind |-> "press", token |-> None], todo |-> {}, g |-> g,
            nonce |-> pend[g].nonce, question |-> None, others |-> {}])
  /\ NoSave
  /\ UNCHANGED <<place, strikeVars, worldVars, charged>>

\* reopenPending after a failed settlement; a failed approval (markPassing) is not saved
Reopened(g) == [pend[g] EXCEPT !.done = FALSE, !.reason = "nofault"]

\* executeApprove: approved, failed, or the request is gone
ExecuteApprove(w) ==
  /\ At(w, "approve")
  /\ LET g == G(w) IN
     \/ /\ place[g] = "asking" /\ place' = [place EXCEPT ![g] = "in"] /\ NoFault
        /\ Keep /\ To(w, "passed")
     \/ /\ Fault /\ UNCHANGED place
        /\ Update(g, [Reopened(g) EXCEPT !.passing = TRUE]) /\ NextGroup(w)
     \/ /\ place[g] # "asking" /\ UNCHANGED <<place, faults>>
        /\ Keep /\ To(w, IF place[g] = "in" THEN "passed" ELSE "drop")
     \/ /\ place[g] # "asking" /\ UNCHANGED place /\ Fault   \* the membership cannot be read
        /\ Keep /\ To(w, "drop")
  /\ NoSave
  /\ UNCHANGED <<strikeVars, worldVars, charged>>

\* clearVerifyFails
ClearVerifyFails(g) ==
  /\ fails' = [fails EXCEPT ![g] = 0]
  /\ age' = [age EXCEPT ![g] = "recent"]

\* A confirmed pass, or an applicant an administrator let in: the entry goes, the failures are
\* forgotten; the caller then saves pending.json.
Passed(w) ==
  /\ At(w, "passed")
  /\ Update(G(w), None) /\ NoSave
  /\ ClearVerifyFails(G(w))
  /\ failed' = [failed EXCEPT ![G(w)] = {}]
  /\ To(w, "save")
  /\ UNCHANGED <<telegramVars, worldVars, charged>>

\* finishTerminal with nothing to record, and the save
Drop(w) ==
  /\ At(w, "drop")
  /\ Update(G(w), None) /\ Save
  /\ NextGroup(w)
  /\ UNCHANGED <<telegramVars, strikeVars, worldVars, charged>>

\* finishDecline: settle, and who the applicant is when the request is gone
ExecuteDecline(w) ==
  /\ At(w, "decline")
  /\ LET g == G(w) IN
     \/ /\ place[g] = "asking" /\ place' = [place EXCEPT ![g] = "out"] /\ NoFault
        /\ Keep /\ NoSave /\ To(w, "strike")
     \/ /\ Fault /\ UNCHANGED place
        /\ Update(g, Reopened(g)) /\ Save /\ NextGroup(w)
     \/ /\ place[g] # "asking" /\ UNCHANGED <<place, faults>> /\ Keep /\ NoSave
        /\ To(w, IF place[g] = "in" THEN "passed"
                 ELSE IF pend[g].reason = "wrong answer" THEN "strike" ELSE "drop")
     \/ /\ place[g] # "asking" /\ UNCHANGED place /\ Fault /\ Keep /\ NoSave
        /\ To(w, "drop")
  /\ UNCHANGED <<strikeVars, worldVars, charged>>

\* recordVerifyFailLocked: the count after one more failure
BuggyCounted(g) == fails[g] + 1       \* failures older than the window still add up
Counted(g) == IF age[g] = "lapsed" THEN 1 ELSE fails[g] + 1

\* strikesFor
Strikes(p) == p.reason \in {"timeout", "wrong answer"} /\ ~p.unreadable

\* recordPendingVerifyFail, then finishTerminal
Strike(w) ==
  /\ At(w, "strike")
  /\ LET g == G(w)
         p == pend[g]
     IN  /\ IF Strikes(p)
            THEN /\ fails' = [fails EXCEPT ![g] = Counted(g)]
                 /\ failed' = [failed EXCEPT ![g] = (IF age[g] = "lapsed" THEN {} ELSE @) \cup {p.nonce}]
                 /\ age' = [age EXCEPT ![g] = "recent"]
                 /\ To(w, IF Counted(g) >= VerifyMaxFails THEN "ban" ELSE "save")
            ELSE UNCHANGED strikeVars /\ To(w, "save")
         /\ Update(g, None)
  /\ NoSave
  /\ UNCHANGED <<telegramVars, worldVars, charged>>

\* applyVerificationBan, and clearVerifyFails only when it was applied
BuggyAutoBan(w) ==                    \* the strikes go whatever Telegram said
  /\ At(w, "ban")
  /\ \/ place' = [place EXCEPT ![G(w)] = "banned"] /\ NoFault
     \/ UNCHANGED place /\ Fault
  /\ To(w, "clear")
  /\ UNCHANGED <<tableVars, strikeVars, worldVars, charged>>
AutoBan(w) ==
  /\ At(w, "ban")
  /\ \/ place' = [place EXCEPT ![G(w)] = "banned"] /\ NoFault /\ To(w, "clear")
     \/ UNCHANGED place /\ Fault /\ To(w, "save")
  /\ UNCHANGED <<tableVars, strikeVars, worldVars, charged>>
ClearAfterBan(w) ==
  /\ At(w, "clear")
  /\ ClearVerifyFails(G(w))
  /\ failed' = IF place[G(w)] = "banned" THEN [failed EXCEPT ![G(w)] = {}] ELSE failed
  /\ To(w, "save")
  /\ UNCHANGED <<tableVars, telegramVars, worldVars, charged>>

\* the save that ends a settlement
SaveSettled(w) ==
  /\ At(w, "save")
  /\ Keep /\ Save
  /\ NextGroup(w)
  /\ UNCHANGED <<telegramVars, strikeVars, worldVars, charged>>

\* A crash, and load: a deadline that lapsed meanwhile, and an unsent question, strike nobody.
Crash ==
  /\ "crash" \in profile.meets
  /\ crashes < MaxCrashes
  /\ crashes' = crashes + 1
  /\ \E lapsed \in SUBSET {g \in Groups : disk[g] # None} :
       pend' = [g \in Groups |->
                  IF disk[g] = None THEN None
                  ELSE [disk[g] EXCEPT !.reason = IF g \in lapsed \/ disk[g].asking
                                                  THEN "nofault" ELSE "timeout"]]
  /\ work' = [w \in Workers |-> Idle]
  /\ UNCHANGED <<disk, telegramVars, strikeVars, profile, issued, charged>>

Settle(w) ==
  \/ IsChannelMember(w) \/ ClaimDecline(w) \/ ExecuteApprove(w) \/ Passed(w) \/ Drop(w)
  \/ ExecuteDecline(w) \/ Strike(w) \/ AutoBan(w) \/ ClearAfterBan(w) \/ SaveSettled(w)

Next ==
  \/ \E g \in Groups : OnJoinRequest(g) \/ RequestWaits(g) \/ OthersAct(g) \/ TimePasses(g)
  \/ \E w \in Workers : OnKernelAnswer(w) \/ KernelPendingInfo(w) \/ GradeKernelAnswer(w)
                        \/ CompleteDMDelivery(w) \/ Settle(w)
  \/ \E w \in Workers, g \in Groups : OnAnswer(w, g) \/ OnExpiry(w, g)
  \/ Crash

Spec == Init /\ [][Next]_vars

-----------------------------------------------------------------------------
(* Properties *)

\* Every variable keeps its type: entries and their saved form are well formed, and nobody
\* stands in a group in a way Telegram does not know (the pending struct, state.go).
TypeOK ==
  /\ {pend, disk} \subseteq [Groups -> Entry \cup {None}]
  /\ place \in [Groups -> {"out", "asking", "in", "banned"}]
  /\ fails \in [Groups -> Nat] /\ charged \in [Groups -> Nat]
  /\ age \in [Groups -> {"recent", "cooled", "lapsed"}]
  /\ failed \in [Groups -> SUBSET (1..MaxNonce)]
  /\ issued \in 0..MaxNonce /\ faults \in 0..MaxFaults /\ crashes \in 0..MaxCrashes

\* No verification carries a try that was not charged for a reply graded under its own nonce,
\* or carried over from the one it replaced: not for a reply in flight while the applicant
\* asked again, and not after a restart (recordKernelTry, startPending, load).
TriesAreReplies == \A g \in Groups : pend[g] # None => pend[g].tries <= charged[g]

\* The strikes that drive the automatic ban are distinct failed verifications of one window;
\* a crash between recording a strike and saving the table can count one of them twice.
StrikesAreFailures == \A g \in Groups : fails[g] <= Cardinality(failed[g]) + crashes

\* A failure is forgotten only by a pass, by a ban Telegram applied, or with its window: a ban
\* that failed, or a crash before it, leaves the count that makes the next failure try again.
NoFailureForgotten == \A g \in Groups : Cardinality(failed[g]) <= fails[g]

\* A strike for wrong answers falls only on a kernel verification whose applicant was charged
\* every one of its tries (gradeKernelAnswer, finishDecline).
StrikesAreEarned ==
  [][\A g \in Groups : fails'[g] > fails[g] =>
       \E w \in Workers : /\ At(w, "strike") /\ G(w) = g
                          /\ work[w].how = "grade" => charged[g] >= KernelMaxTries]_vars

\* A reply that answers the fallback question another group asked costs no try where a different
\* one was asked (the comment in gradeKernelAnswer), in whatever order the groups are graded.
AnswerElsewhereIsFree ==
  [][\A w \in Workers : At(w, "grade") /\ charged' # charged /\ work[w].question # None =>
       ~\E q \in work[w].others : Answers(work[w].reply, q)]_vars

\* An applicant who answered right is not declined while the admission is being retried.
PassingIsNotDeclined == \A w \in Workers : At(w, "decline") => ~pend[G(w)].passing
=============================================================================
