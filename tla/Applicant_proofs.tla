-------------------------- MODULE Applicant_proofs --------------------------
(***************************************************************************)
(* What the tries, the strikes and the automatic ban rest on, for any      *)
(* groups, goroutines, applicants and limits.                              *)
(*                                                                         *)
(* WorkInv says what a goroutine may rely on while it waits for Telegram:  *)
(* one that settles holds the claim of its verification and is alone in    *)
(* its group.  CountInv ties the tries and strikes to what was charged and *)
(* to what failed; a verification that a crash brings back after it was    *)
(* struck is a Ghost, which the crash itself pays for.                     *)
(***************************************************************************)
EXTENDS Applicant, FiniteSetTheorems, TLAPS

Tables == [Groups -> Entry \cup {None}]

\* The stages of a goroutine that works on one verification of one group
SettleStages == {"approve", "passed", "drop", "decline", "strike"}
Located == SettleStages \cup {"grade", "refuse", "ask", "gate", "ban", "clear", "save"}
Jobs == [at : Located \cup {"next"}, how : {"grade", "agent", "press", "expiry"},
         reply : [kind : Kinds, token : Questions \cup {None} \cup 1..MaxNonce],
         todo : SUBSET Groups, g : Groups \cup {None}, nonce : Nat,
         question : Questions \cup {None}, others : SUBSET (Questions \cup {None})]

Settling(w) == work[w].at \in SettleStages

\* A settlement holds the claim it took.
ClaimHeld(w) ==
  Settling(w) => /\ pend[G(w)] # None /\ pend[G(w)].done
                 /\ pend[G(w)].nonce = work[w].nonce

\* A reply is refused for its tries only when all of them were charged, or when the
\* verification it was graded for has gone.
RefusalEarned(w) ==
  work[w].at \in {"refuse", "decline", "strike"} /\ work[w].how = "grade" =>
    \/ charged[G(w)] >= KernelMaxTries
    \/ pend[G(w)] = None
    \/ pend[G(w)].nonce # work[w].nonce

Fit(w) ==
  /\ work[w] \in Jobs \cup {Idle}
  /\ work[w].at \in Located => G(w) \in Groups /\ work[w].nonce \in 1..issued
  /\ ClaimHeld(w)
  /\ RefusalEarned(w)
  /\ At(w, "clear") => place[G(w)] = "banned"

SoleSettler == \A v, w \in Workers : Settling(v) /\ Settling(w) /\ G(v) = G(w) => v = w

WorkInv == work = [w \in Workers |-> work[w]] /\ SoleSettler /\ \A w \in Workers : Fit(w)

\* No nonce is ahead of its counter.
NonceInv ==
  \A g \in Groups : /\ pend[g] # None => pend[g].nonce <= issued
                    /\ disk[g] # None => disk[g].nonce <= issued
                    /\ failed[g] \subseteq 1..issued

TriesInv == TriesAreReplies /\ \A g \in Groups : disk[g] # None => disk[g].tries <= charged[g]

\* A verification that has been struck already
Ghost(g) == pend[g] # None /\ pend[g].nonce \in failed[g]
CountInv ==
  \A g \in Groups : /\ Cardinality(failed[g]) <= fails[g]
                    /\ fails[g] <= Cardinality(failed[g]) + crashes
                    /\ Ghost(g) => fails[g] + 1 <= Cardinality(failed[g]) + crashes

IInv == TypeOK /\ profile \in Profiles /\ WorkInv /\ NonceInv /\ TriesInv /\ CountInv

Scalars ==
  /\ place \in [Groups -> {"out", "asking", "in", "banned"}]
  /\ fails \in [Groups -> Nat] /\ charged \in [Groups -> Nat]
  /\ age \in [Groups -> {"recent", "cooled", "lapsed"}]
  /\ failed \in [Groups -> SUBSET (1..MaxNonce)]
  /\ issued \in 0..MaxNonce /\ faults \in 0..MaxFaults /\ crashes \in 0..MaxCrashes

-----------------------------------------------------------------------------
(* What a step does to the table and to the goroutines *)

\* A step settles nobody else's claim ...
HandsOff(w) ==
  \A g \in Groups : pend[g] # None /\ pend[g].done /\ ~(Settling(w) /\ G(w) = g) =>
    pend'[g] # None /\ pend'[g].done /\ pend'[g].nonce = pend[g].nonce

\* ... starts no verification, and charges the tries it adds.
TableStep ==
  /\ pend' \in Tables
  /\ \A g \in Groups :
       /\ pend'[g] # None => pend[g] # None /\ pend'[g].nonce = pend[g].nonce
       /\ pend'[g] # None => pend'[g].tries <= charged'[g]
       /\ charged'[g] >= charged[g]
  /\ disk' = disk \/ Save

\* A goroutine moves on, to something it may do; a new claim is that of a live verification.
WorkStep(w) ==
  /\ \E job : work' = [work EXCEPT ![w] = job]
  /\ Fit(w)'
  /\ Settling(w)' => (Settling(w) /\ work'[w].g = G(w)) \/ Live(work'[w].g)

\* What every step of a goroutine has in common
Step(w) ==
  /\ TableStep /\ HandsOff(w) /\ WorkStep(w) /\ Scalars'
  /\ \A g \in Groups : place[g] = "banned" => place'[g] = "banned"
  /\ UNCHANGED <<profile, issued, crashes>>

LEMMA InvParts ==
  ASSUME IInv
  PROVE  /\ Scalars /\ pend \in Tables /\ disk \in Tables
         /\ \A g \in Groups : pend[g] # None => pend[g] \in Entry
BY DEF IInv, TypeOK, Scalars, Tables

\* The goroutines that did not move keep what they rely on.
LEMMA OthersKeep ==
  ASSUME IInv, NEW w \in Workers, Step(w) PROVE WorkInv'
<1> USE DEF WorkInv, IInv
<1>1. /\ work' = [v \in Workers |-> work'[v]]
      /\ \A v \in Workers \ {w} : work'[v] = work[v]
  BY DEF Step, WorkStep
<1>2. \A v \in Workers : Settling(v) => G(v) \in Groups
  BY DEF Fit, Settling, Located
<1>3. ASSUME NEW v \in Workers \ {w} PROVE Fit(v)'
  <2>1. Settling(v) => ~(Settling(w) /\ G(w) = G(v))
    BY DEF SoleSettler
  <2>2. ClaimHeld(v)'
    <3> SUFFICES ASSUME Settling(v)
                 PROVE /\ pend'[G(v)] # None /\ pend'[G(v)].done
                       /\ pend'[G(v)].nonce = work[v].nonce
      BY <1>1 DEF ClaimHeld, Settling, G
    <3> QED
      BY <1>2, <2>1 DEF Fit, ClaimHeld, Step, HandsOff
  <2>3. RefusalEarned(v)'
    <3> SUFFICES ASSUME work[v].at \in {"refuse", "decline", "strike"}, work[v].how = "grade"
                 PROVE \/ charged'[G(v)] >= KernelMaxTries
                       \/ pend'[G(v)] = None
                       \/ pend'[G(v)].nonce # work[v].nonce
      BY <1>1 DEF RefusalEarned, G
    <3>1. G(v) \in Groups /\ RefusalEarned(v)
      BY DEF Fit, Located, SettleStages
    <3>2. charged[G(v)] \in Nat /\ charged'[G(v)] \in Nat /\ KernelMaxTries \in Nat
      BY <3>1, InvParts, BoundAssumption DEF Step, Scalars
    <3> QED
      BY <3>1, <3>2 DEF RefusalEarned, Step, TableStep
  <2> QED
    BY <1>1, <2>2, <2>3 DEF Fit, Step, At, G, Located
<1>4. SoleSettler'
  <2> SUFFICES ASSUME NEW u \in Workers, NEW v \in Workers, u # v,
                      Settling(u)', Settling(v)', G(u)' = G(v)'
               PROVE FALSE
    BY DEF SoleSettler
  <2>1. ~(u # w /\ v # w)
    BY <1>1 DEF SoleSettler, Settling, G
  <2>2. ASSUME NEW x \in Workers \ {w}, Settling(x)', Settling(w)', G(x)' = G(w)' PROVE FALSE
    <3>1. Settling(x) /\ G(x) = work'[w].g
      BY <1>1, <2>2 DEF Settling, G
    <3>2. pend[G(x)] # None /\ pend[G(x)].done
      BY <3>1 DEF Fit, ClaimHeld
    <3>3. ~Live(work'[w].g)
      BY <3>1, <3>2 DEF Live
    <3>4. Settling(w) /\ work'[w].g = G(w)
      BY <2>2, <3>3 DEF Step, WorkStep
    <3> QED
      BY <3>1, <3>4 DEF SoleSettler
  <2> QED
    BY <2>1, <2>2
<1> QED
  BY <1>1, <1>3, <1>4 DEF Step, WorkStep

\* Save writes the table as it is.
LEMMA Saved ==
  ASSUME pend' \in Tables, Save
  PROVE  /\ disk' \in Tables
         /\ \A g \in Groups : disk'[g] # None =>
              pend'[g] # None /\ disk'[g].nonce = pend'[g].nonce /\ disk'[g].tries = pend'[g].tries
BY ZenonT(60), NoneAssumption DEF Save, Written, Tables, Entry

\* Types, nonces and tries follow from what a step does to the table.
LEMMA TableKeeps ==
  ASSUME IInv, NEW w \in Workers, Step(w)
  PROVE  TypeOK' /\ TriesInv' /\ (profile \in Profiles)'
         /\ \A g \in Groups : /\ pend'[g] # None => pend'[g].nonce <= issued'
                              /\ disk'[g] # None => disk'[g].nonce <= issued'
<1>1. disk' \in Tables
  BY InvParts, Saved DEF Step, TableStep
<1>2. TypeOK' /\ (profile \in Profiles)'
  BY <1>1 DEF Step, TableStep, TypeOK, Scalars, Tables, IInv
<1>3. ASSUME NEW g \in Groups PROVE pend'[g] # None => pend'[g].nonce <= issued'
  BY DEF Step, TableStep, IInv, NonceInv
<1>4. ASSUME NEW g \in Groups, disk'[g] # None
      PROVE disk'[g].nonce <= issued' /\ disk'[g].tries <= charged'[g]
  <2>1. CASE disk' = disk
    <3>1. /\ disk[g].tries <= charged[g] /\ charged[g] <= charged'[g]
          /\ disk[g].tries \in Nat /\ charged[g] \in Nat /\ charged'[g] \in Nat
      <4>1. disk[g] \in Entry /\ disk[g].tries <= charged[g]
        BY <2>1, <1>4, InvParts DEF IInv, TriesInv, Tables
      <4>2. charged[g] \in Nat /\ charged'[g] \in Nat /\ charged'[g] >= charged[g]
        BY InvParts DEF Step, TableStep, Scalars
      <4> QED
        BY <4>1, <4>2 DEF Entry
    <3> QED
      BY <2>1, <3>1, <1>4 DEF IInv, NonceInv, Step
  <2>2. CASE Save
    BY <2>2, <1>3, <1>4, Saved DEF Step, TableStep
  <2> QED
    BY <2>1, <2>2 DEF Step, TableStep
<1> QED
  BY <1>2, <1>3, <1>4 DEF TriesInv, TriesAreReplies, Step, TableStep

\* Neither a strike nor its reset: the counts stand as they are.
LEMMA CountFrame ==
  ASSUME IInv, UNCHANGED <<fails, failed, crashes>>,
         \A g \in Groups : pend'[g] # None =>
           \/ pend[g] # None /\ pend'[g].nonce = pend[g].nonce
           \/ pend'[g].nonce = issued + 1
  PROVE  CountInv'
<1> SUFFICES ASSUME NEW g \in Groups, Ghost(g)' PROVE Ghost(g)
  BY DEF IInv, CountInv, Ghost
<1>1. pend'[g].nonce # issued + 1
  BY InvParts DEF IInv, NonceInv, Ghost, Scalars
<1> QED
  BY <1>1 DEF Ghost

\* A step of a goroutine that leaves the strikes alone keeps the invariant.
LEMMA StepKeeps ==
  ASSUME IInv, NEW w \in Workers, Step(w), UNCHANGED strikeVars PROVE IInv'
<1>1. CountInv'
  BY CountFrame DEF Step, TableStep, strikeVars
<1>2. NonceInv'
  BY TableKeeps DEF IInv, NonceInv, Step, strikeVars
<1> QED
  BY <1>1, <1>2, OthersKeep, TableKeeps DEF IInv

-----------------------------------------------------------------------------
(* The pieces of a step *)

LEMMA KeptTable ==
  ASSUME IInv, NEW w \in Workers, Keep, UNCHANGED charged, NoSave \/ Save
  PROVE  TableStep /\ HandsOff(w)
BY InvParts DEF Keep, NoSave, TableStep, HandsOff, Scalars, IInv, TriesInv, TriesAreReplies

LEMMA ChangedTable ==
  ASSUME IInv, NEW w \in Workers, NEW g \in Groups, pend[g] # None,
         NEW q \in Entry, q.nonce = pend[g].nonce, q.tries = pend[g].tries,
         pend[g].done => q.done \/ (Settling(w) /\ G(w) = g),
         Update(g, q), UNCHANGED charged, NoSave \/ Save
  PROVE  TableStep /\ HandsOff(w) /\ pend'[g] = q
<1>1. pend'[g] = q /\ q # None /\ pend' \in Tables /\ \A h \in Groups \ {g} : pend'[h] = pend[h]
  BY InvParts, NoneAssumption DEF Update, Tables
<1>2. TableStep
  BY <1>1, InvParts DEF TableStep, NoSave, Scalars, IInv, TriesInv, TriesAreReplies
<1>3. HandsOff(w)
  BY <1>1 DEF HandsOff
<1> QED
  BY <1>1, <1>2, <1>3

LEMMA DroppedTable ==
  ASSUME IInv, NEW w \in Workers, Settling(w), G(w) \in Groups, Update(G(w), None),
         UNCHANGED charged, NoSave \/ Save
  PROVE  TableStep /\ HandsOff(w)
<1>1. pend' \in Tables /\ pend'[G(w)] = None /\ \A h \in Groups \ {G(w)} : pend'[h] = pend[h]
  BY InvParts DEF Update, Tables
<1>2. TableStep
  BY <1>1, InvParts DEF TableStep, NoSave, Scalars, IInv, TriesInv, TriesAreReplies
<1> QED
  BY <1>1, <1>2 DEF HandsOff

\* A goroutine that has a verification in hand is somewhere it knows.
LEMMA InHand ==
  ASSUME IInv, NEW w \in Workers, work[w].at \in Located
  PROVE  /\ work[w] \in Jobs /\ G(w) \in Groups /\ work[w].nonce \in 1..issued
         /\ ClaimHeld(w) /\ RefusalEarned(w)
BY DEF IInv, WorkInv, Fit, Idle, Located, SettleStages

LEMMA HeldEntry ==
  ASSUME IInv, NEW g \in Groups, NEW n, Holds(g, n)
  PROVE  pend[g] \in Entry /\ pend[g] # None /\ ~pend[g].done /\ pend[g].nonce = n /\ Live(g)
BY InvParts DEF Holds, Live

\* The next step for the same verification
LEMMA Onward ==
  ASSUME IInv, NEW w \in Workers, work[w].at \in Located, NEW at \in Located, To(w, at)
  PROVE  /\ \E job : work' = [work EXCEPT ![w] = job]
         /\ work'[w] \in Jobs /\ work'[w].at = at /\ work'[w].g = G(w)
         /\ work'[w].nonce = work[w].nonce /\ work'[w].how = work[w].how
<1>1. work[w] \in Jobs /\ w \in DOMAIN work
  BY InHand DEF IInv, WorkInv
<1> DEFINE job == [work[w] EXCEPT !.at = at]
<1>2. /\ job \in Jobs /\ job.at = at /\ job.g = G(w) /\ job.nonce = work[w].nonce
      /\ job.how = work[w].how
  BY <1>1 DEF Jobs, G
<1>3. work' = [work EXCEPT ![w] = job]
  BY <1>2 DEF To, Go, Located, SettleStages
<1> HIDE DEF job
<1> QED
  BY <1>1, <1>2, <1>3

\* The next group of the reply, or the end of the goroutine
LEMMA Unbound ==
  ASSUME IInv, NEW w \in Workers, NEW job, work' = [work EXCEPT ![w] = job],
         job \in Jobs \cup {Idle}, job.at \in {"idle", "next"}
  PROVE  WorkStep(w)
<1>1. work'[w] = job
  BY DEF IInv, WorkInv
<1>2. Fit(w)' /\ ~Settling(w)'
  BY <1>1 DEF Fit, ClaimHeld, RefusalEarned, Settling, Located, SettleStages, At
<1> QED
  BY <1>2 DEF WorkStep

LEMMA MovesOn ==
  ASSUME IInv, NEW w \in Workers, work[w].at \in Located, NextGroup(w) \/ To(w, "next")
  PROVE  WorkStep(w)
<1>1. work[w] \in Jobs
  BY InHand
<1> DEFINE freed == [work[w] EXCEPT !.at = "next", !.g = None, !.nonce = 0, !.question = None]
           kept == [work[w] EXCEPT !.at = "next"]
<1>2. freed \in Jobs /\ freed.at = "next"
  BY <1>1 DEF Jobs
<1>3. kept \in Jobs /\ kept.at = "next"
  BY <1>1 DEF Jobs
<1>4. PICK job : work' = [work EXCEPT ![w] = job] /\ job \in {freed, kept, Idle}
  BY DEF NextGroup, To, Go
<1>5. job \in Jobs \cup {Idle} /\ job.at \in {"idle", "next"}
  <2> HIDE DEF freed, kept
  <2> QED
    BY <1>2, <1>3, <1>4 DEF Idle
<1> QED
  BY <1>4, <1>5, Unbound

\* A claim is kept or taken, and a refusal has its reason.
LEMMA WorksOn ==
  ASSUME IInv, NEW w \in Workers, work[w].at \in Located, NEW at \in Located, To(w, at),
         UNCHANGED issued,
         at \in SettleStages => /\ pend'[G(w)] # None /\ pend'[G(w)].done
                                /\ pend'[G(w)].nonce = work[w].nonce
                                /\ Settling(w) \/ Live(G(w)),
         at \in {"refuse", "decline", "strike"} /\ work[w].how = "grade" =>
           \/ charged'[G(w)] >= KernelMaxTries
           \/ pend'[G(w)] = None
           \/ pend'[G(w)].nonce # work[w].nonce,
         at = "clear" => place'[G(w)] = "banned"
  PROVE  WorkStep(w)
<1>1. /\ work'[w] \in Jobs /\ work'[w].at = at /\ work'[w].g = G(w)
      /\ work'[w].nonce = work[w].nonce /\ work'[w].how = work[w].how
      /\ \E job : work' = [work EXCEPT ![w] = job]
  BY Onward
<1>2. G(w) \in Groups /\ work[w].nonce \in 1..issued
  BY InHand
<1>3. ClaimHeld(w)' /\ RefusalEarned(w)'
  BY <1>1 DEF ClaimHeld, RefusalEarned, Settling, G
<1>4. Fit(w)'
  BY <1>1, <1>2, <1>3 DEF Fit, At, G
<1> QED
  BY <1>1, <1>4 DEF WorkStep, Settling, G

-----------------------------------------------------------------------------
(* The steps of a goroutine *)

\* The scalars of a step that leaves most of them alone
LEMMA FaultKeeps == ASSUME IInv, Fault \/ NoFault PROVE faults' \in 0..MaxFaults
BY InvParts, BoundAssumption DEF Scalars, Fault, NoFault

LEMMA EntryKnown ==
  ASSUME IInv, NEW g \in Groups, pend[g] # None
  PROVE  pend[g] \in Entry /\ pend[g].nonce \in 1..issued /\ pend[g].nonce \in Nat
<1>1. pend[g] \in Entry /\ pend[g].nonce <= issued /\ issued \in Nat
  BY InvParts DEF IInv, NonceInv, Scalars
<1>2. pend[g].nonce \in 1..MaxNonce
  BY <1>1 DEF Entry
<1>3. pend[g].nonce \in Nat /\ pend[g].nonce >= 1
  BY <1>2, BoundAssumption
<1> QED
  BY <1>1, <1>3

LEMMA ReplyStep ==
  ASSUME IInv, NEW w \in Workers, OnKernelAnswer(w) PROVE Step(w)
<1>1. UNCHANGED <<tableVars, telegramVars, strikeVars, worldVars, charged>>
  BY DEF OnKernelAnswer
<1>2. TableStep /\ HandsOff(w)
  BY <1>1, KeptTable DEF tableVars, Keep, NoSave
<1>3. PICK reply \in Replies, how \in {"grade", "agent"}, todo \in SUBSET Groups,
           others \in SUBSET (Questions \cup {None}) :
        Go(w, [at |-> "next", how |-> how, reply |-> reply, todo |-> todo, g |-> None,
               nonce |-> 0, question |-> None, others |-> others])
  <2>1. {pend[g].question : g \in {g \in Groups : Live(g)}} \in SUBSET (Questions \cup {None})
    BY ZenonT(60), InvParts DEF Live, Entry
  <2> QED
    BY <2>1 DEF OnKernelAnswer
<1> DEFINE job == [at |-> "next", how |-> how, reply |-> reply, todo |-> todo, g |-> None,
                   nonce |-> 0, question |-> None, others |-> others]
<1>4. reply \in [kind : Kinds, token : Questions \cup {None} \cup 1..MaxNonce]
  <2>1. \A g \in {g \in Groups : Live(g)} : pend[g].nonce \in 1..MaxNonce
    BY InvParts DEF Live, Entry
  <2> QED
    BY <1>3, <2>1 DEF Replies, Kinds
<1>5. job \in Jobs /\ job.at = "next"
  BY <1>3, <1>4 DEF Jobs
<1>6. PICK j \in {job, Idle} : work' = [work EXCEPT ![w] = j]
  BY <1>3 DEF Go
<1>7. WorkStep(w)
  <2> HIDE DEF job
  <2>1. j \in Jobs \cup {Idle} /\ j.at \in {"idle", "next"}
    BY <1>5, <1>6 DEF Idle
  <2> QED
    BY <1>6, <2>1, Unbound
<1> QED
  BY <1>1, <1>2, <1>7, InvParts
  DEF Step, Scalars, tableVars, telegramVars, strikeVars, worldVars

LEMMA NextGroupStep ==
  ASSUME IInv, NEW w \in Workers, KernelPendingInfo(w) PROVE Step(w)
<1>1. UNCHANGED <<tableVars, telegramVars, strikeVars, worldVars, charged>> /\ At(w, "next")
  BY DEF KernelPendingInfo
<1>2. TableStep /\ HandsOff(w)
  BY <1>1, KeptTable DEF tableVars, Keep, NoSave
<1>3. work[w] \in Jobs /\ w \in DOMAIN work
  BY <1>1 DEF IInv, WorkInv, Fit, At, Idle
<1>4. PICK g \in work[w].todo :
        Go(w, IF ~Live(g) \/ pend[g].asking THEN [work[w] EXCEPT !.todo = @ \ {g}]
              ELSE [[work[w] EXCEPT !.todo = @ \ {g}] EXCEPT
                      !.g = g, !.nonce = pend[g].nonce, !.question = pend[g].question,
                      !.at = IF [work[w] EXCEPT !.todo = @ \ {g}].how = "agent"
                             THEN "refuse" ELSE "grade"])
  BY DEF KernelPendingInfo
<1> DEFINE rest == [work[w] EXCEPT !.todo = @ \ {g}]
<1>5. rest \in Jobs /\ rest.at = "next" /\ rest.how = work[w].how /\ g \in Groups
  BY <1>1, <1>3, <1>4 DEF Jobs, At
<1> HIDE DEF rest
<1>6. CASE ~Live(g) \/ pend[g].asking
  <2>1. PICK j \in {rest, Idle} : work' = [work EXCEPT ![w] = j]
    BY <1>4, <1>6 DEF Go, rest
  <2>2. j \in Jobs \cup {Idle} /\ j.at \in {"idle", "next"}
    BY <1>5, <2>1 DEF Idle
  <2>3. WorkStep(w)
    BY <2>1, <2>2, Unbound
  <2> QED
    BY <1>1, <1>2, <2>3, InvParts
    DEF Step, Scalars, tableVars, telegramVars, strikeVars, worldVars
<1>7. CASE Live(g) /\ ~pend[g].asking
  <2> DEFINE at == IF rest.how = "agent" THEN "refuse" ELSE "grade"
             job == [rest EXCEPT !.g = g, !.nonce = pend[g].nonce,
                                 !.question = pend[g].question, !.at = at]
  <2>1. pend[g] \in Entry /\ pend[g].nonce \in 1..issued
    BY <1>5, <1>7, EntryKnown DEF Live
  <2>2. /\ job \in Jobs /\ job.at = at /\ job.g = g /\ job.nonce = pend[g].nonce
        /\ job.how = rest.how
    <3>1. pend[g].nonce \in Nat /\ pend[g].question \in Questions \cup {None}
      BY <1>5, <1>7, EntryKnown DEF Entry, Live
    <3>2. at \in Located
      BY DEF Located
    <3> HIDE DEF at
    <3> QED
      BY <1>5, <3>1, <3>2 DEF Jobs
  <2>3. Go(w, job)
    BY <1>4, <1>7 DEF rest
  <2> HIDE DEF job
  <2>4. work' = [work EXCEPT ![w] = job] /\ work'[w] = job
    BY <1>3, <2>2, <2>3 DEF Go
  <2>5. Fit(w)' /\ ~Settling(w)'
    BY <1>1, <1>5, <2>1, <2>2, <2>4
    DEF Fit, ClaimHeld, RefusalEarned, Settling, SettleStages, Located, G, At, worldVars
  <2>6. WorkStep(w)
    BY <2>4, <2>5 DEF WorkStep
  <2> QED
    BY <1>1, <1>2, <2>6, InvParts
    DEF Step, Scalars, tableVars, telegramVars, strikeVars, worldVars
<1> QED
  BY <1>6, <1>7

LEMMA PressStep ==
  ASSUME IInv, NEW w \in Workers, NEW g \in Groups, OnAnswer(w, g) PROVE Step(w)
<1>1. UNCHANGED <<tableVars, telegramVars, strikeVars, worldVars, charged>>
  BY DEF OnAnswer
<1>2. TableStep /\ HandsOff(w)
  BY <1>1, KeptTable DEF tableVars, Keep, NoSave
<1>3. PICK at \in {"gate", "refuse"} :
       Go(w, [at |-> at, how |-> "press", reply |-> [kind |-> "press", token |-> None], todo |-> {},
              g |-> g, nonce |-> pend[g].nonce, question |-> None, others |-> {}])
  BY DEF OnAnswer
<1> DEFINE job == [at |-> at, how |-> "press", reply |-> [kind |-> "press", token |-> None],
                   todo |-> {}, g |-> g, nonce |-> pend[g].nonce, question |-> None, others |-> {}]
<1>4. pend[g] \in Entry /\ pend[g].nonce \in 1..issued
  BY EntryKnown DEF OnAnswer, Live
<1>5. job \in Jobs /\ job.at = at /\ job.g = g /\ job.nonce = pend[g].nonce /\ job.how = "press"
  BY <1>3, <1>4 DEF Jobs, Kinds, Located
<1>6. work' = [work EXCEPT ![w] = job] /\ work'[w] = job
  BY <1>3, <1>5 DEF Go, IInv, WorkInv
<1> HIDE DEF job
<1>7. Fit(w)' /\ ~Settling(w)'
  BY <1>1, <1>3, <1>4, <1>5, <1>6
  DEF Fit, ClaimHeld, RefusalEarned, Settling, SettleStages, Located, G, At, worldVars
<1>8. WorkStep(w)
  BY <1>6, <1>7 DEF WorkStep
<1> QED
  BY <1>1, <1>2, <1>8, InvParts
  DEF Step, Scalars, tableVars, telegramVars, strikeVars, worldVars

\* recordKernelTry charges the verification the reply was graded for, or nothing.
LEMMA TryStep ==
  ASSUME IInv, NEW w \in Workers, At(w, "grade"), RecordKernelTry(w),
         UNCHANGED <<telegramVars, strikeVars, worldVars>>
  PROVE  Step(w)
<1> DEFINE g == G(w)
<1>0. /\ work[w].at \in Located /\ g \in Groups /\ work[w].nonce \in 1..issued
      /\ charged[g] \in Nat /\ KernelMaxTries \in Nat
  BY InHand, InvParts, BoundAssumption DEF At, Located, Scalars
<1>1. CASE ~Holds(g, work[w].nonce)
  <2>1. Keep /\ NoSave /\ NextGroup(w) /\ UNCHANGED charged
    BY <1>1 DEF RecordKernelTry
  <2> QED
    BY <1>0, <2>1, KeptTable, MovesOn, InvParts
    DEF Step, Scalars, telegramVars, strikeVars, worldVars
<1>2. CASE Holds(g, work[w].nonce)
  <2> DEFINE q == [pend[g] EXCEPT !.tries = @ + 1]
  <2>1. /\ pend[g] \in Entry /\ pend[g] # None /\ ~pend[g].done /\ pend[g].nonce = work[w].nonce
        /\ pend[g].tries \in Nat /\ pend[g].tries <= charged[g]
    BY <1>0, <1>2, HeldEntry DEF Entry, IInv, TriesInv, TriesAreReplies
  <2>2. /\ q \in Entry /\ q.nonce = pend[g].nonce /\ q.tries = pend[g].tries + 1
        /\ q.done = pend[g].done /\ q # None
    <3>1. q \in Entry
      <4> DEFINE n == pend[g].tries + 1
      <4>1. n \in Nat
        BY <2>1
      <4> HIDE DEF n
      <4>2. [pend[g] EXCEPT !.tries = n] \in Entry
        BY <2>1, <4>1 DEF Entry
      <4> QED
        BY <4>2 DEF n
    <3>2. /\ q.nonce = pend[g].nonce /\ q.tries = pend[g].tries + 1
          /\ q.done = pend[g].done
      BY <2>1 DEF Entry
    <3> QED
      BY <3>1, <3>2, NoneAssumption
  <2>3. Update(g, q) /\ charged' = [charged EXCEPT ![g] = @ + 1]
    BY <1>2, <2>1 DEF RecordKernelTry
  <2> HIDE DEF q
  <2>4. /\ pend' \in Tables /\ pend'[g] = q /\ charged'[g] = charged[g] + 1
        /\ charged' \in [Groups -> Nat]
        /\ \A h \in Groups \ {g} : pend'[h] = pend[h] /\ charged'[h] = charged[h]
    BY <1>0, <2>2, <2>3, InvParts DEF Update, Tables, Scalars
  <2>5. disk' = disk \/ Save
    BY <1>2 DEF RecordKernelTry, NoSave
  <2>6. TableStep /\ HandsOff(w)
    <3>1. \A h \in Groups \ {g} : /\ charged[h] \in Nat
                                  /\ pend[h] # None => pend[h].tries <= charged[h]
      BY InvParts DEF Scalars, IInv, TriesInv, TriesAreReplies
    <3> QED
      BY <1>0, <2>1, <2>2, <2>4, <2>5, <3>1 DEF TableStep, HandsOff
  <2>7. WorkStep(w)
    <3>1. CASE TriesLeft(g)
      BY <1>0, <1>2, <3>1, MovesOn DEF RecordKernelTry
    <3>2. CASE ~TriesLeft(g)
      <4>1. To(w, "refuse") /\ UNCHANGED issued
        BY <1>2, <3>2 DEF RecordKernelTry, worldVars
      <4>2. charged'[g] >= KernelMaxTries
        BY <1>0, <2>1, <2>4, <3>2 DEF TriesLeft
      <4> QED
        BY <1>0, <4>1, <4>2, WorksOn DEF SettleStages, Located
    <3> QED
      BY <3>1, <3>2
  <2> QED
    BY <2>4, <2>6, <2>7, InvParts DEF Step, Scalars, telegramVars, strikeVars, worldVars
<1> QED
  BY <1>1, <1>2

\* A goroutine that grades leaves all but its verification, and that one's nonce and tries.
LEMMA HintStep ==
  ASSUME IInv, NEW w \in Workers, At(w, "grade"), NEW hint \in {"sample", "os", "minute"},
         Unspent(w, hint), SpendHint(w, hint), Save \/ NoSave,
         UNCHANGED <<telegramVars, strikeVars, worldVars>>
  PROVE  Step(w)
<1> DEFINE g == G(w)
           q == [pend[g] EXCEPT !.spent = @ \cup {hint}]
<1>1. work[w].at \in Located /\ g \in Groups
  BY InHand DEF At, Located
<1>2. pend[g] \in Entry /\ pend[g] # None /\ ~pend[g].done
  BY <1>1, HeldEntry DEF Unspent
<1>3. q \in Entry /\ q.nonce = pend[g].nonce /\ q.tries = pend[g].tries
  BY <1>2 DEF Entry
<1>4. Update(g, q) /\ NextGroup(w) /\ UNCHANGED charged
  BY DEF SpendHint
<1> HIDE DEF q
<1>5. TableStep /\ HandsOff(w)
  BY <1>1, <1>2, <1>3, <1>4, ChangedTable
<1> QED
  BY <1>1, <1>4, <1>5, MovesOn, InvParts DEF Step, Scalars, telegramVars, strikeVars, worldVars

LEMMA FallbackStep ==
  ASSUME IInv, NEW w \in Workers, At(w, "grade"), CanBeginFallback(w), BeginKernelFallback(w),
         UNCHANGED <<telegramVars, strikeVars, worldVars>>
  PROVE  Step(w)
<1> DEFINE g == G(w)
<1>1. work[w].at \in Located /\ g \in Groups
  BY InHand DEF At, Located
<1>2. pend[g] \in Entry /\ pend[g] # None /\ ~pend[g].done
  BY <1>1, HeldEntry DEF CanBeginFallback, Unspent
<1>3. PICK question \in Drawable(g) :
        Update(g, [pend[g] EXCEPT !.spent = @ \cup {"fallback"}, !.question = question,
                                  !.asking = TRUE, !.reason = "nofault"])
  BY DEF BeginKernelFallback
<1> DEFINE q == [pend[g] EXCEPT !.spent = @ \cup {"fallback"}, !.question = question,
                                !.asking = TRUE, !.reason = "nofault"]
<1>4. question \in Questions
  <2>1. \A h \in Groups : Live(h) => pend[h].question \in Questions \cup {None}
    BY InvParts DEF Live, Entry
  <2>2. profile.bank[g] \subseteq Questions
    BY <1>1, ProfileAssumption DEF IInv
  <2> QED
    BY <1>3, <2>1, <2>2 DEF Drawable
<1>5. q \in Entry /\ q.nonce = pend[g].nonce /\ q.tries = pend[g].tries
  BY <1>2, <1>4 DEF Entry
<1> HIDE DEF q
<1>6. Save /\ To(w, "ask") /\ UNCHANGED <<charged, issued>>
  BY DEF BeginKernelFallback, worldVars
<1>7. TableStep /\ HandsOff(w)
  BY <1>1, <1>2, <1>3, <1>5, <1>6, ChangedTable DEF q
<1>8. WorkStep(w)
  BY <1>1, <1>6, WorksOn DEF Located, SettleStages
<1> QED
  BY <1>6, <1>7, <1>8, InvParts DEF Step, Scalars, telegramVars, strikeVars, worldVars

LEMMA GradeStep ==
  ASSUME IInv, NEW w \in Workers, GradeKernelAnswer(w) PROVE Step(w)
<1>0. At(w, "grade") /\ UNCHANGED <<telegramVars, strikeVars, worldVars>>
  BY DEF GradeKernelAnswer
<1>1. work[w].at \in Located /\ work[w] \in Jobs /\ G(w) \in Groups /\ work[w].nonce \in 1..issued
  BY <1>0, InHand DEF At, Located
<1>2. CASE Pass(w)
  <2>1. WorkStep(w)
    BY <1>0, <1>1, <1>2, WorksOn DEF Pass, Located, SettleStages, worldVars
  <2> QED
    BY <1>0, <1>2, <2>1, KeptTable, InvParts
    DEF Pass, Step, Scalars, telegramVars, strikeVars, worldVars
<1>3. CASE Ignore(w)
  BY <1>0, <1>1, <1>3, KeptTable, MovesOn, InvParts
  DEF Ignore, Step, Scalars, telegramVars, strikeVars, worldVars
<1>4. CASE RecordKernelTry(w)
  BY <1>0, <1>4, TryStep
<1>5. CASE \E hint \in {"sample", "os", "minute"} :
             Unspent(w, hint) /\ SpendHint(w, hint) /\ (Save \/ NoSave)
  BY <1>0, <1>5, HintStep
<1>6. CASE CanBeginFallback(w) /\ BeginKernelFallback(w)
  BY <1>0, <1>6, FallbackStep
<1>7. CASE Keep /\ NoSave /\ Go(w, [work[w] EXCEPT !.at = "refuse", !.how = "agent"]) /\ UNCHANGED charged
  <2> DEFINE job == [work[w] EXCEPT !.at = "refuse", !.how = "agent"]
  <2>1. /\ job \in Jobs /\ job.at = "refuse" /\ job.how = "agent"
        /\ job.g = G(w) /\ job.nonce = work[w].nonce
    BY <1>1 DEF Jobs, Located, G
  <2>2. Go(w, job)
    BY <1>7
  <2> HIDE DEF job
  <2>3. work' = [work EXCEPT ![w] = job] /\ work'[w] = job
    BY <2>1, <2>2 DEF Go, IInv, WorkInv
  <2>4. Fit(w)' /\ ~Settling(w)'
    BY <1>0, <1>1, <2>1, <2>3
    DEF Fit, ClaimHeld, RefusalEarned, Settling, SettleStages, Located, G, At, worldVars
  <2>5. WorkStep(w)
    BY <2>3, <2>4 DEF WorkStep
  <2> QED
    BY <1>0, <1>7, <2>5, KeptTable, InvParts
    DEF Step, Scalars, telegramVars, strikeVars, worldVars
<1> QED
  BY <1>2, <1>3, <1>4, <1>5, <1>6, <1>7 DEF GradeKernelAnswer, GradeFallback, GradeKernel

LEMMA DeliveredStep ==
  ASSUME IInv, NEW w \in Workers, CompleteDMDelivery(w) PROVE Step(w)
<1> DEFINE g == G(w)
           sent == [pend[g] EXCEPT !.asking = FALSE, !.reason = "timeout"]
           refused == [sent EXCEPT !.question = None, !.spent = @ \ {"fallback"}]
<1>1. /\ At(w, "ask") /\ NextGroup(w) /\ UNCHANGED <<place, strikeVars, worldVars, charged>>
      /\ Fault \/ NoFault
  BY DEF CompleteDMDelivery
<1>2. work[w].at \in Located /\ g \in Groups
  BY <1>1, InHand DEF At, Located
<1>3. CASE Keep /\ NoSave
  BY <1>1, <1>2, <1>3, KeptTable, MovesOn, FaultKeeps, InvParts
  DEF Step, Scalars, strikeVars, worldVars
<1>4. CASE \E q \in {sent, refused} : Holds(g, work[w].nonce) /\ Update(g, q) /\ Save
  <2>1. pend[g] \in Entry /\ pend[g] # None /\ ~pend[g].done
    BY <1>2, <1>4, HeldEntry
  <2>2. sent \in Entry /\ sent.nonce = pend[g].nonce /\ sent.tries = pend[g].tries
    BY <2>1 DEF Entry
  <2>3. refused \in Entry /\ refused.nonce = pend[g].nonce /\ refused.tries = pend[g].tries
    BY <2>1 DEF Entry
  <2> HIDE DEF sent, refused
  <2>4. TableStep /\ HandsOff(w)
    BY <1>1, <1>2, <1>4, <2>1, <2>2, <2>3, ChangedTable
  <2> QED
    BY <1>1, <1>2, <2>4, MovesOn, FaultKeeps, InvParts
    DEF Step, Scalars, strikeVars, worldVars
<1> QED
  BY <1>3, <1>4 DEF CompleteDMDelivery

-----------------------------------------------------------------------------
(* Settlements *)

\* What a goroutine that settles has in hand
HasClaim(w) ==
  /\ work[w].at \in Located /\ G(w) \in Groups /\ work[w].nonce \in 1..issued
  /\ pend[G(w)] \in Entry /\ pend[G(w)] # None /\ pend[G(w)].done
  /\ pend[G(w)].nonce = work[w].nonce

LEMMA Claimed ==
  ASSUME IInv, NEW w \in Workers, Settling(w) PROVE HasClaim(w)
<1>1. work[w].at \in Located
  BY DEF Settling, Located
<1> QED
  BY <1>1, InHand, InvParts DEF ClaimHeld, HasClaim

\* The channel is read before the claim of a pass; the reading is recorded in any case.
LEMMA GateStep ==
  ASSUME IInv, NEW w \in Workers, IsChannelMember(w) PROVE Step(w)
<1> DEFINE g == G(w)
<1>1. /\ At(w, "gate") /\ NoSave /\ UNCHANGED <<place, strikeVars, worldVars, charged>>
      /\ Fault \/ NoFault
  BY DEF IsChannelMember
<1>2. work[w].at \in Located /\ g \in Groups
  BY <1>1, InHand DEF At, Located
<1>3. PICK member \in BOOLEAN, known \in BOOLEAN :
        LET claimed == member /\ Holds(g, work[w].nonce)
        IN  /\ IF pend[g] = None THEN Keep
               ELSE Update(g, [pend[g] EXCEPT !.unreadable = ~known, !.done = @ \/ claimed])
            /\ To(w, IF claimed THEN "approve" ELSE "next")
  BY DEF IsChannelMember
<1> DEFINE claimed == member /\ Holds(g, work[w].nonce)
           q == [pend[g] EXCEPT !.unreadable = ~known, !.done = @ \/ claimed]
<1>4. CASE pend[g] = None
  <2>1. Keep /\ To(w, "next")
    BY <1>3, <1>4 DEF Holds, Live
  <2> QED
    BY <1>1, <1>2, <2>1, KeptTable, MovesOn, FaultKeeps, InvParts
    DEF Step, Scalars, strikeVars, worldVars
<1>5. CASE pend[g] # None
  <2>1. pend[g] \in Entry /\ pend[g].done \in BOOLEAN
    BY <1>2, <1>5, InvParts DEF Entry
  <2>2. q \in Entry /\ q.nonce = pend[g].nonce /\ q.tries = pend[g].tries
        /\ (q.done <=> pend[g].done \/ claimed)
    <3>1. (pend[g].done \/ claimed) \in BOOLEAN /\ (~known) \in BOOLEAN
      OBVIOUS
    <3> QED
      BY <2>1, <3>1 DEF Entry
  <2>3. Update(g, q) /\ To(w, IF claimed THEN "approve" ELSE "next")
    BY <1>3, <1>5
  <2> HIDE DEF q
  <2>4. TableStep /\ HandsOff(w) /\ pend'[g] = q
    BY <1>1, <1>2, <1>5, <2>2, <2>3, ChangedTable
  <2>5. WorkStep(w)
    <3>1. CASE claimed
      <4>1. pend[g].nonce = work[w].nonce /\ Live(g) /\ q.done /\ q # None
        BY <1>2, <2>2, <3>1, HeldEntry, NoneAssumption
      <4> QED
        BY <1>1, <1>2, <2>2, <2>3, <2>4, <3>1, <4>1, WorksOn DEF Located, SettleStages, worldVars
    <3>2. CASE ~claimed
      BY <1>2, <2>3, <3>2, MovesOn
    <3> QED
      BY <3>1, <3>2
  <2> QED
    BY <1>1, <2>4, <2>5, FaultKeeps, InvParts DEF Step, Scalars, strikeVars, worldVars
<1> QED
  BY <1>4, <1>5

LEMMA RefuseStep ==
  ASSUME IInv, NEW w \in Workers, ClaimDecline(w) PROVE Step(w)
<1> DEFINE g == G(w)
           q == [pend[g] EXCEPT !.done = TRUE, !.reason = "wrong answer"]
<1>1. At(w, "refuse") /\ NoSave /\ UNCHANGED <<telegramVars, strikeVars, worldVars, charged>>
  BY DEF ClaimDecline
<1>2. work[w].at \in Located /\ g \in Groups /\ RefusalEarned(w)
  BY <1>1, InHand DEF At, Located
<1>3. CASE ~Holds(g, work[w].nonce)
  <2>1. Keep /\ NextGroup(w)
    BY <1>3 DEF ClaimDecline
  <2> QED
    BY <1>1, <1>2, <2>1, KeptTable, MovesOn, InvParts
    DEF Step, Scalars, telegramVars, strikeVars, worldVars
<1>4. CASE Holds(g, work[w].nonce)
  <2>1. pend[g] \in Entry /\ pend[g] # None /\ ~pend[g].done /\ pend[g].nonce = work[w].nonce
        /\ Live(g)
    BY <1>2, <1>4, HeldEntry
  <2>2. q \in Entry /\ q.nonce = pend[g].nonce /\ q.tries = pend[g].tries /\ q.done
    BY <2>1 DEF Entry
  <2>3. Update(g, q) /\ To(w, "decline")
    BY <1>4 DEF ClaimDecline
  <2> HIDE DEF q
  <2>4. TableStep /\ HandsOff(w) /\ pend'[g] = q
    BY <1>1, <1>2, <2>1, <2>2, <2>3, ChangedTable
  <2>5. work[w].how = "grade" => charged'[g] >= KernelMaxTries
    BY <1>1, <1>2, <2>1 DEF RefusalEarned, At
  <2>6. WorkStep(w)
    BY <1>1, <1>2, <2>1, <2>2, <2>3, <2>4, <2>5, WorksOn, NoneAssumption
    DEF Located, SettleStages, worldVars
  <2> QED
    BY <1>1, <2>4, <2>6, InvParts DEF Step, Scalars, telegramVars, strikeVars, worldVars
<1> QED
  BY <1>3, <1>4

LEMMA ExpiryStep ==
  ASSUME IInv, NEW w \in Workers, NEW g \in Groups, OnExpiry(w, g) PROVE Step(w)
<1> DEFINE late == [pend[g] EXCEPT !.done = TRUE]
           blind == [pend[g] EXCEPT !.done = TRUE, !.unreadable = TRUE]
           at == IF pend[g].passing THEN "approve" ELSE "decline"
           job == [at |-> at, how |-> "expiry", reply |-> [kind |-> "press", token |-> None],
                   todo |-> {}, g |-> g, nonce |-> pend[g].nonce, question |-> None, others |-> {}]
<1>1. /\ At(w, "idle") /\ Live(g) /\ NoSave /\ UNCHANGED <<place, strikeVars, worldVars, charged>>
      /\ Fault \/ NoFault
  BY DEF OnExpiry, Free
<1>2. /\ pend[g] \in Entry /\ pend[g] # None /\ ~pend[g].done
      /\ pend[g].nonce \in 1..issued /\ pend[g].nonce \in Nat
  BY <1>1, EntryKnown DEF Live
<1>3. PICK q \in {late, blind} : Update(g, q)
  BY DEF OnExpiry
<1>4. late \in Entry /\ late.nonce = pend[g].nonce /\ late.tries = pend[g].tries /\ late.done
  BY <1>2 DEF Entry
<1>5. blind \in Entry /\ blind.nonce = pend[g].nonce /\ blind.tries = pend[g].tries /\ blind.done
  BY <1>2 DEF Entry
<1> HIDE DEF late, blind
<1>6. q \in Entry /\ q.nonce = pend[g].nonce /\ q.tries = pend[g].tries /\ q.done /\ q # None
  BY <1>3, <1>4, <1>5, NoneAssumption
<1>7. TableStep /\ HandsOff(w) /\ pend'[g] = q
  BY <1>1, <1>2, <1>3, <1>6, ChangedTable
<1>8. /\ job \in Jobs /\ job.at \in {"approve", "decline"} /\ job.g = g
      /\ job.nonce = pend[g].nonce /\ job.how = "expiry"
  BY <1>2 DEF Jobs, Kinds, Located, SettleStages
<1>9. Go(w, job)
  BY DEF OnExpiry
<1> HIDE DEF job
<1>10. work' = [work EXCEPT ![w] = job] /\ work'[w] = job
  BY <1>8, <1>9 DEF Go, IInv, WorkInv
<1>11. Fit(w)'
  BY <1>1, <1>2, <1>6, <1>7, <1>8, <1>10
  DEF Fit, ClaimHeld, RefusalEarned, SettleStages, Located, G, At, worldVars
<1>12. WorkStep(w)
  BY <1>1, <1>8, <1>10, <1>11 DEF WorkStep
<1> QED
  BY <1>1, <1>7, <1>12, FaultKeeps, InvParts DEF Step, Scalars, strikeVars, worldVars

\* reopenPending: the claim is released, by the goroutine that holds it.
LEMMA ReopenedEntry ==
  ASSUME IInv, NEW w \in Workers, Settling(w), NEW passing \in BOOLEAN
  PROVE  LET q == [Reopened(G(w)) EXCEPT !.passing = passing]
             r == Reopened(G(w)) IN
         /\ q \in Entry /\ q.nonce = pend[G(w)].nonce /\ q.tries = pend[G(w)].tries
         /\ r \in Entry /\ r.nonce = pend[G(w)].nonce /\ r.tries = pend[G(w)].tries
<1>1. pend[G(w)] \in Entry
  BY Claimed DEF HasClaim
<1>2. Reopened(G(w)) \in Entry /\ Reopened(G(w)).nonce = pend[G(w)].nonce
      /\ Reopened(G(w)).tries = pend[G(w)].tries
  BY <1>1 DEF Reopened, Entry
<1> QED
  BY <1>2 DEF Entry

LEMMA ApproveStep ==
  ASSUME IInv, NEW w \in Workers, ExecuteApprove(w) PROVE Step(w)
<1> DEFINE g == G(w)
           reopened == [Reopened(g) EXCEPT !.passing = TRUE]
<1>1. /\ At(w, "approve") /\ NoSave /\ UNCHANGED <<strikeVars, worldVars, charged>>
      /\ Fault \/ NoFault
      /\ place' = place \/ (place[g] = "asking" /\ place' = [place EXCEPT ![g] = "in"])
  BY DEF ExecuteApprove, NoFault
<1>2. Settling(w)
  BY <1>1 DEF At, Settling, SettleStages
<1>3. HasClaim(w)
  BY <1>2, Claimed
<1>4. place' \in [Groups -> {"out", "asking", "in", "banned"}]
      /\ \A h \in Groups : place[h] = "banned" => place'[h] = "banned"
  BY <1>1, <1>3, InvParts DEF Scalars, HasClaim
<1>5. CASE Keep /\ \E at \in {"passed", "drop"} : To(w, at)
  <2>1. WorkStep(w)
    BY <1>1, <1>2, <1>3, <1>5, WorksOn DEF Located, SettleStages, Keep, worldVars, HasClaim
  <2> QED
    BY <1>1, <1>4, <1>5, <2>1, KeptTable, FaultKeeps, InvParts DEF Step, Scalars, strikeVars, worldVars
<1>6. CASE Update(g, reopened) /\ NextGroup(w)
  <2>1. reopened \in Entry /\ reopened.nonce = pend[g].nonce /\ reopened.tries = pend[g].tries
    BY <1>2, ReopenedEntry
  <2> HIDE DEF reopened
  <2>2. TableStep /\ HandsOff(w)
    BY <1>1, <1>2, <1>3, <1>6, <2>1, ChangedTable DEF HasClaim
  <2> QED
    BY <1>1, <1>3, <1>4, <1>6, <2>2, MovesOn, FaultKeeps, InvParts
    DEF HasClaim, Step, Scalars, strikeVars, worldVars
<1> QED
  BY <1>5, <1>6 DEF ExecuteApprove

LEMMA DeclineStep ==
  ASSUME IInv, NEW w \in Workers, ExecuteDecline(w) PROVE Step(w)
<1> DEFINE g == G(w)
           reopened == Reopened(g)
<1>1. /\ At(w, "decline") /\ UNCHANGED <<strikeVars, worldVars, charged>>
      /\ Fault \/ NoFault
      /\ place' = place \/ (place[g] = "asking" /\ place' = [place EXCEPT ![g] = "out"])
  BY DEF ExecuteDecline, NoFault
<1>2. Settling(w)
  BY <1>1 DEF At, Settling, SettleStages
<1>3. HasClaim(w)
  BY <1>2, Claimed
<1>4. place' \in [Groups -> {"out", "asking", "in", "banned"}]
      /\ \A h \in Groups : place[h] = "banned" => place'[h] = "banned"
  BY <1>1, <1>3, InvParts DEF Scalars, HasClaim
<1>5. CASE Keep /\ NoSave /\ \E at \in {"strike", "passed", "drop"} : To(w, at)
  <2>1. work[w].how = "grade" => charged[g] >= KernelMaxTries
    BY <1>1, <1>3, InHand DEF RefusalEarned, At, HasClaim
  <2>2. WorkStep(w)
    BY <1>1, <1>2, <1>3, <1>5, <2>1, WorksOn DEF Located, SettleStages, Keep, worldVars, HasClaim
  <2> QED
    BY <1>1, <1>4, <1>5, <2>2, KeptTable, FaultKeeps, InvParts DEF Step, Scalars, strikeVars, worldVars
<1>6. CASE Update(g, reopened) /\ Save /\ NextGroup(w)
  <2>1. reopened \in Entry /\ reopened.nonce = pend[g].nonce /\ reopened.tries = pend[g].tries
    BY <1>2, ReopenedEntry
  <2> HIDE DEF reopened
  <2>2. TableStep /\ HandsOff(w)
    BY <1>1, <1>2, <1>3, <1>6, <2>1, ChangedTable DEF HasClaim
  <2> QED
    BY <1>1, <1>3, <1>4, <1>6, <2>2, MovesOn, FaultKeeps, InvParts
    DEF HasClaim, Step, Scalars, strikeVars, worldVars
<1> QED
  BY <1>5, <1>6 DEF ExecuteDecline

LEMMA DropStep ==
  ASSUME IInv, NEW w \in Workers, Drop(w) PROVE Step(w)
<1>1. At(w, "drop") /\ Update(G(w), None) /\ Save /\ NextGroup(w)
      /\ UNCHANGED <<telegramVars, strikeVars, worldVars, charged>>
  BY DEF Drop
<1>2. Settling(w)
  BY <1>1 DEF At, Settling, SettleStages
<1> QED
  BY <1>1, <1>2, Claimed, DroppedTable, MovesOn, InvParts
  DEF HasClaim, Step, Scalars, telegramVars, strikeVars, worldVars

LEMMA SaveStep ==
  ASSUME IInv, NEW w \in Workers, SaveSettled(w) PROVE Step(w)
<1>1. At(w, "save") /\ Keep /\ Save /\ NextGroup(w)
      /\ UNCHANGED <<telegramVars, strikeVars, worldVars, charged>>
  BY DEF SaveSettled
<1>2. work[w].at \in Located
  BY <1>1 DEF At, Located
<1> QED
  BY <1>1, <1>2, KeptTable, MovesOn, InvParts
  DEF Step, Scalars, telegramVars, strikeVars, worldVars

LEMMA BanStep ==
  ASSUME IInv, NEW w \in Workers, AutoBan(w) PROVE Step(w)
<1>1. /\ At(w, "ban") /\ Keep /\ NoSave /\ UNCHANGED <<strikeVars, worldVars, charged>>
      /\ Fault \/ NoFault
      /\ \/ place' = [place EXCEPT ![G(w)] = "banned"] /\ To(w, "clear")
         \/ place' = place /\ To(w, "save")
  BY DEF AutoBan, tableVars, Keep, NoSave
<1>2. work[w].at \in Located /\ G(w) \in Groups
  BY <1>1, InHand DEF At, Located
<1>3. place' \in [Groups -> {"out", "asking", "in", "banned"}]
      /\ \A h \in Groups : place[h] = "banned" => place'[h] = "banned"
  BY <1>1, <1>2, InvParts DEF Scalars
<1>4. WorkStep(w)
  <2>1. CASE place' = [place EXCEPT ![G(w)] = "banned"] /\ To(w, "clear")
    <3>1. place'[G(w)] = "banned"
      BY <1>2, <2>1, InvParts DEF Scalars
    <3> QED
      BY <1>1, <1>2, <2>1, <3>1, WorksOn DEF Located, SettleStages, worldVars
  <2>2. CASE To(w, "save")
    BY <1>1, <1>2, <2>2, WorksOn DEF Located, SettleStages, worldVars
  <2> QED
    BY <1>1, <2>1, <2>2
<1> QED
  BY <1>1, <1>3, <1>4, KeptTable, FaultKeeps, InvParts DEF Step, Scalars, strikeVars, worldVars

-----------------------------------------------------------------------------
(* Strikes *)

LEMMA FailedIsFinite ==
  ASSUME IInv, NEW g \in Groups
  PROVE  IsFiniteSet(failed[g]) /\ Cardinality(failed[g]) \in Nat
<1>1. failed[g] \subseteq 1..MaxNonce /\ IsFiniteSet(1..MaxNonce)
  BY InvParts, BoundAssumption, FS_Interval DEF Scalars
<1> QED
  BY <1>1, FS_Subset, FS_CardinalityType

\* What CountInv and NonceInv say of the failures of one group
InCount(g) ==
  /\ Cardinality(failed[g]) <= fails[g]
  /\ fails[g] <= Cardinality(failed[g]) + crashes
  /\ Ghost(g) => fails[g] + 1 <= Cardinality(failed[g]) + crashes
  /\ failed[g] \subseteq 1..issued

\* The counts of the groups that a step does not touch
LEMMA CountElsewhere ==
  ASSUME IInv, NEW w \in Workers, Step(w), NEW h \in Groups,
         fails'[h] = fails[h], failed'[h] = failed[h]
  PROVE  InCount(h)'
<1>1. Ghost(h)' => Ghost(h)
  BY DEF Ghost, Step, TableStep
<1> QED
  BY <1>1 DEF InCount, IInv, CountInv, NonceInv, Step

\* A pass, or a ban that was applied, leaves neither strikes nor failures.
LEMMA ResetKeeps ==
  ASSUME IInv, NEW w \in Workers, Step(w), NEW g \in Groups,
         ClearVerifyFails(g), failed' = [failed EXCEPT ![g] = {}]
  PROVE  IInv'
<1>1. /\ fails'[g] = 0 /\ failed'[g] = {}
      /\ \A h \in Groups \ {g} : fails'[h] = fails[h] /\ failed'[h] = failed[h]
  BY InvParts DEF ClearVerifyFails, Scalars
<1>2. Cardinality({}) = 0 /\ crashes' \in Nat
  BY FS_EmptySet, InvParts, BoundAssumption DEF Step, Scalars
<1>3. ~Ghost(g)'
  BY <1>1 DEF Ghost
<1>4. ASSUME NEW h \in Groups PROVE InCount(h)'
  <2>1. CASE h = g
    BY <1>1, <1>2, <1>3, <2>1 DEF InCount
  <2>2. CASE h # g
    BY <1>1, <2>2, CountElsewhere DEF InCount
  <2> QED
    BY <2>1, <2>2
<1> QED
  BY <1>4, OthersKeep, TableKeeps DEF IInv, NonceInv, CountInv, InCount

LEMMA PassedKeeps ==
  ASSUME IInv, NEW w \in Workers, Passed(w) PROVE IInv'
<1>1. /\ At(w, "passed") /\ Update(G(w), None) /\ NoSave /\ To(w, "save")
      /\ ClearVerifyFails(G(w)) /\ failed' = [failed EXCEPT ![G(w)] = {}]
      /\ UNCHANGED <<telegramVars, worldVars, charged>>
  BY DEF Passed
<1>2. Settling(w)
  BY <1>1 DEF At, Settling, SettleStages
<1>3. HasClaim(w)
  BY <1>2, Claimed
<1>4. WorkStep(w)
  BY <1>1, <1>3, WorksOn DEF HasClaim, Located, SettleStages, worldVars
<1>5. Scalars'
  BY <1>1, <1>3, InvParts DEF ClearVerifyFails, Scalars, HasClaim, telegramVars, worldVars
<1>6. Step(w)
  BY <1>1, <1>2, <1>3, <1>4, <1>5, DroppedTable DEF Step, HasClaim, telegramVars, worldVars
<1> QED
  BY <1>1, <1>3, <1>6, ResetKeeps DEF HasClaim

LEMMA BannedKeeps ==
  ASSUME IInv, NEW w \in Workers, ClearAfterBan(w) PROVE IInv'
<1>1. /\ At(w, "clear") /\ Keep /\ NoSave /\ To(w, "save") /\ ClearVerifyFails(G(w))
      /\ UNCHANGED <<telegramVars, worldVars, charged>>
  BY DEF ClearAfterBan, tableVars, Keep, NoSave
<1>2. work[w].at \in Located /\ G(w) \in Groups /\ place[G(w)] = "banned"
  <2>1. work[w].at \in Located
    BY <1>1 DEF At, Located
  <2> QED
    BY <1>1, <2>1, InHand DEF IInv, WorkInv, Fit
<1>3. failed' = [failed EXCEPT ![G(w)] = {}]
  BY <1>2 DEF ClearAfterBan
<1>4. WorkStep(w)
  BY <1>1, <1>2, WorksOn DEF Located, SettleStages, worldVars
<1>5. Scalars'
  BY <1>1, <1>2, <1>3, InvParts DEF ClearVerifyFails, Scalars, telegramVars, worldVars
<1>6. Step(w)
  BY <1>1, <1>4, <1>5, KeptTable DEF Step, telegramVars, worldVars
<1> QED
  BY <1>1, <1>2, <1>3, <1>6, ResetKeeps

LEMMA StrikeStep ==
  ASSUME IInv, NEW w \in Workers, Strike(w) PROVE Step(w)
<1> DEFINE g == G(w)
<1>1. /\ At(w, "strike") /\ Update(g, None) /\ NoSave /\ UNCHANGED <<telegramVars, worldVars, charged>>
      /\ \E at \in {"ban", "save"} : To(w, at)
      /\ \/ UNCHANGED strikeVars
         \/ /\ fails' = [fails EXCEPT ![g] = Counted(g)]
            /\ failed' = [failed EXCEPT ![g] = (IF age[g] = "lapsed" THEN {} ELSE @) \cup {pend[g].nonce}]
            /\ age' = [age EXCEPT ![g] = "recent"]
  BY DEF Strike
<1>2. Settling(w)
  BY <1>1 DEF At, Settling, SettleStages
<1>3. HasClaim(w)
  BY <1>2, Claimed
<1>4. WorkStep(w)
  BY <1>1, <1>3, WorksOn DEF HasClaim, Located, SettleStages, worldVars
<1>5. Scalars'
  <2>1. pend[g] \in Entry /\ g \in Groups /\ fails[g] \in Nat
    BY <1>3, InvParts DEF Scalars, HasClaim
  <2>2. Counted(g) \in Nat
    BY <2>1 DEF Counted
  <2>3. pend[g].nonce \in 1..MaxNonce
    BY <2>1 DEF Entry
  <2>4. (IF age[g] = "lapsed" THEN {} ELSE failed[g]) \cup {pend[g].nonce} \in SUBSET (1..MaxNonce)
    BY <2>1, <2>3, InvParts DEF Scalars
  <2>5. /\ fails' \in [Groups -> Nat]
        /\ failed' \in [Groups -> SUBSET (1..MaxNonce)]
        /\ age' \in [Groups -> {"recent", "cooled", "lapsed"}]
    BY <1>1, <2>1, <2>2, <2>4, InvParts DEF Scalars, strikeVars
  <2> QED
    BY <1>1, <2>5, InvParts DEF Scalars, telegramVars, worldVars
<1> QED
  BY <1>1, <1>2, <1>3, <1>4, <1>5, DroppedTable DEF Step, HasClaim, telegramVars, worldVars

\* A strike counts one failure more, which is a new one unless a crash brought it back.
LEMMA StrikeKeeps ==
  ASSUME IInv, NEW w \in Workers, Strike(w) PROVE IInv'
<1>0. Step(w) /\ HasClaim(w)
  BY StrikeStep, Claimed DEF Strike, At, Settling, SettleStages
<1>g. PICK g \in Groups : g = G(w)
  BY <1>0 DEF HasClaim
<1> DEFINE n == pend[g].nonce
<1>1. CASE UNCHANGED strikeVars
  BY <1>0, <1>1, StepKeeps
<1>2. CASE /\ fails' = [fails EXCEPT ![g] = Counted(g)]
           /\ failed' = [failed EXCEPT ![g] = (IF age[g] = "lapsed" THEN {} ELSE @) \cup {n}]
  <2>1. /\ fails'[g] = Counted(g)
        /\ failed'[g] = (IF age[g] = "lapsed" THEN {} ELSE failed[g]) \cup {n}
        /\ \A h \in Groups \ {g} : fails'[h] = fails[h] /\ failed'[h] = failed[h]
    BY <1>2, InvParts DEF Scalars
  <2>2. ~Ghost(g)'
    <3>1. pend' = [pend EXCEPT ![g] = None]
      BY <1>g DEF Strike, Update
    <3>2. g \in DOMAIN pend
      BY InvParts DEF Tables
    <3> QED
      BY <3>1, <3>2 DEF Ghost
  <2>3. n \in 1..issued /\ failed[g] \subseteq 1..issued /\ issued' = issued /\ crashes' = crashes
    BY <1>0, <1>g DEF HasClaim, IInv, NonceInv, Step
  <2>4. /\ fails[g] \in Nat /\ crashes \in Nat
        /\ IsFiniteSet(failed[g]) /\ Cardinality(failed[g]) \in Nat
        /\ Cardinality(failed[g]) <= fails[g] /\ fails[g] <= Cardinality(failed[g]) + crashes
        /\ n \in failed[g] => fails[g] + 1 <= Cardinality(failed[g]) + crashes
    BY <1>0, <1>g, FailedIsFinite, InvParts, BoundAssumption
    DEF Scalars, HasClaim, IInv, CountInv, Ghost
  <2>5. /\ Cardinality(failed'[g]) <= fails'[g]
        /\ fails'[g] <= Cardinality(failed'[g]) + crashes
    <3>1. CASE age[g] = "lapsed"
      <4>1. Cardinality({n}) = 1
        BY FS_Singleton
      <4> QED
        BY <2>1, <2>4, <3>1, <4>1 DEF Counted
    <3>2. CASE age[g] # "lapsed"
      <4>1. /\ n \in failed[g] => Cardinality(failed[g] \cup {n}) = Cardinality(failed[g])
            /\ n \notin failed[g] => Cardinality(failed[g] \cup {n}) = Cardinality(failed[g]) + 1
        BY <2>4, FS_AddElement
      <4>2. fails'[g] = fails[g] + 1 /\ failed'[g] = failed[g] \cup {n}
        BY <2>1, <3>2 DEF Counted
      <4> QED
        BY <2>4, <4>1, <4>2
    <3> QED
      BY <3>1, <3>2
  <2>6. ASSUME NEW h \in Groups PROVE InCount(h)'
    <3>1. CASE h = g
      <4>1. failed'[g] \subseteq 1..issued'
        BY <2>1, <2>3
      <4>2. Ghost(g)' <=> Ghost(h)'
        BY <3>1 DEF Ghost
      <4> QED
        BY <2>2, <2>3, <2>5, <3>1, <4>1, <4>2 DEF InCount
    <3>2. CASE h # g
      BY <1>0, <2>1, <3>2, CountElsewhere
    <3> QED
      BY <3>1, <3>2
  <2> QED
    BY <1>0, <2>6, OthersKeep, TableKeeps DEF IInv, NonceInv, CountInv, InCount
<1> QED
  BY <1>1, <1>2, <1>g DEF Strike

-----------------------------------------------------------------------------
(* Steps of the applicant, of others and of time, and crashes *)

\* Nobody's verification changes, and a ban is not lifted.
LEMMA OutsideKeeps ==
  ASSUME IInv, UNCHANGED <<tableVars, worldVars, faults, fails, failed, work, charged>>,
         place' \in [Groups -> {"out", "asking", "in", "banned"}],
         age' \in [Groups -> {"recent", "cooled", "lapsed"}],
         \A g \in Groups : place[g] = "banned" => place'[g] = "banned"
  PROVE  IInv'
<1>1. TypeOK' /\ (profile \in Profiles)'
  BY DEF IInv, TypeOK, tableVars, worldVars
<1>2. WorkInv'
  <2>1. ASSUME NEW w \in Workers PROVE Fit(w)'
    <3>1. At(w, "clear")' => place'[G(w)] = "banned"
      BY DEF IInv, WorkInv, Fit, At, G, Located
    <3> QED
      BY <3>1 DEF IInv, WorkInv, Fit, At, G, ClaimHeld, RefusalEarned, Settling, tableVars, worldVars
  <2>2. SoleSettler' /\ work' = [w \in Workers |-> work'[w]]
    BY DEF IInv, WorkInv, SoleSettler, Settling, G
  <2> QED
    BY <2>1, <2>2 DEF WorkInv
<1> QED
  BY <1>1, <1>2
  DEF IInv, NonceInv, TriesInv, TriesAreReplies, CountInv, Ghost, tableVars, worldVars

LEMMA OthersKeepTable ==
  ASSUME IInv, NEW g \in Groups, RequestWaits(g) \/ OthersAct(g) \/ TimePasses(g) PROVE IInv'
<1>1. CASE RequestWaits(g) \/ OthersAct(g)
  <2>1. /\ UNCHANGED <<tableVars, worldVars, faults, fails, failed, age, work, charged>>
        /\ \E p \in {"in", "out", "asking"} : place' = [place EXCEPT ![g] = p]
        /\ place[g] # "banned"
    BY <1>1 DEF RequestWaits, OthersAct, strikeVars
  <2> QED
    BY <2>1, InvParts, OutsideKeeps DEF Scalars
<1>2. CASE TimePasses(g)
  BY <1>2, InvParts, OutsideKeeps DEF TimePasses, telegramVars, Scalars
<1> QED
  BY <1>1, <1>2

\* The verification a join request starts: a nonce of its own, tries it brings along.
LEMMA NewChallenge ==
  ASSUME IInv, NEW g \in Groups, NEW mode \in Modes, issued < MaxNonce
  PROVE  LET q == Challenge(g, mode) IN
         /\ q \in Entry /\ q.nonce = issued + 1
         /\ q.tries = IF pend[g] = None THEN 0 ELSE pend[g].tries
<1> DEFINE n == issued + 1
           fresh == [nonce |-> n, mode |-> mode, tries |-> 0, spent |-> {}, question |-> None,
                     asking |-> FALSE, done |-> FALSE, passing |-> FALSE, reason |-> "timeout",
                     unreadable |-> FALSE]
<1>1. n \in 1..MaxNonce
  BY InvParts, BoundAssumption DEF Scalars
<1> HIDE DEF n
<1>2. fresh \in Entry /\ fresh.nonce = n /\ fresh.tries = 0
  BY <1>1 DEF Entry
<1>3. CASE pend[g] = None
  <2>1. Challenge(g, mode) = fresh
    BY <1>3 DEF Challenge, n
  <2> QED
    BY <1>2, <1>3, <2>1 DEF n
<1>4. CASE pend[g] # None
  <2> DEFINE old == pend[g]
             kept == mode = "kernel" /\ old.mode = "kernel" /\ old.question # None
             spent == (old.spent \ {"fallback"}) \cup (IF kept THEN {"fallback"} ELSE {})
             question == IF kept THEN old.question ELSE None
             q == [fresh EXCEPT !.tries = old.tries, !.spent = spent, !.question = question]
  <2>1. old \in Entry
    BY <1>4, InvParts
  <2>2. /\ old.tries \in Nat /\ spent \in SUBSET {"sample", "os", "minute", "fallback"}
        /\ question \in Questions \cup {None}
    BY <2>1 DEF Entry
  <2>3. Challenge(g, mode) = q
    BY <1>4 DEF Challenge, n
  <2> HIDE DEF spent, question
  <2>4. q \in Entry /\ q.nonce = n /\ q.tries = old.tries
    BY <1>2, <2>2 DEF Entry
  <2> QED
    BY <1>4, <2>3, <2>4 DEF n
<1> QED
  BY <1>3, <1>4

LEMMA JoinKeeps ==
  ASSUME IInv, NEW g \in Groups, OnJoinRequest(g) PROVE IInv'
<1>1. /\ place[g] \in {"out", "asking"} /\ issued < MaxNonce /\ issued' = issued + 1
      /\ pend[g] # None => ~pend[g].done
      /\ place' = [place EXCEPT ![g] = "asking"] /\ Save
      /\ charged' = IF pend[g] = None THEN [charged EXCEPT ![g] = 0] ELSE charged
      /\ UNCHANGED <<profile, faults, strikeVars, work, crashes>>
  BY DEF OnJoinRequest
<1>2. PICK mode \in Modes : Update(g, Challenge(g, mode))
  BY DEF OnJoinRequest
<1> DEFINE q == Challenge(g, mode)
<1>3. /\ q \in Entry /\ q.nonce = issued + 1
      /\ q.tries = IF pend[g] = None THEN 0 ELSE pend[g].tries
  BY <1>1, NewChallenge
<1>4. pend' = [pend EXCEPT ![g] = q]
  BY <1>2 DEF Update
<1> HIDE DEF q
<1>5. /\ pend' \in Tables /\ pend'[g] = q /\ q # None
      /\ \A h \in Groups \ {g} : pend'[h] = pend[h] /\ charged'[h] = charged[h] /\ place'[h] = place[h]
  BY <1>1, <1>3, <1>4, InvParts, NoneAssumption DEF Tables, Scalars
<1>6. disk' \in Tables /\ \A h \in Groups : disk'[h] # None =>
        pend'[h] # None /\ disk'[h].nonce = pend'[h].nonce /\ disk'[h].tries = pend'[h].tries
  BY <1>1, <1>5, Saved
<1>7. Scalars'
  BY <1>1, InvParts, BoundAssumption DEF Scalars, strikeVars
<1>8. TypeOK' /\ (profile \in Profiles)'
  BY <1>1, <1>5, <1>6, <1>7 DEF TypeOK, Scalars, Tables, IInv
<1>9. ASSUME NEW h \in Groups, pend'[h] # None
      PROVE pend'[h].nonce <= issued' /\ pend'[h].tries <= charged'[h]
  <2>1. CASE h = g
    <3>1. charged'[g] = IF pend[g] = None THEN 0 ELSE charged[g]
      BY <1>1, InvParts DEF Scalars
    <3>2. issued \in Nat
      BY InvParts, BoundAssumption DEF Scalars
    <3> QED
      BY <1>1, <1>3, <1>5, <2>1, <3>1, <3>2 DEF IInv, TriesInv, TriesAreReplies
  <2>2. CASE h # g
    <3>1. pend[h].nonce <= issued /\ pend[h].nonce \in Nat /\ issued \in Nat
      <4>1. pend[h] # None /\ pend[h] \in Entry
        BY <1>5, <1>9, <2>2, InvParts
      <4>2. pend[h].nonce \in 1..MaxNonce
        BY <4>1 DEF Entry
      <4> QED
        BY <4>1, <4>2, InvParts, BoundAssumption DEF IInv, NonceInv, Scalars
    <3> QED
      BY <1>1, <1>5, <1>9, <2>2, <3>1 DEF IInv, TriesInv, TriesAreReplies
  <2> QED
    BY <2>1, <2>2
<1>10. NonceInv' /\ TriesInv'
  <2>1. \A h \in Groups : failed'[h] \subseteq 1..issued'
    <3>1. issued \in Nat /\ 1..issued \subseteq 1..issued'
      BY <1>1, InvParts, BoundAssumption DEF Scalars
    <3> QED
      BY <1>1, <3>1 DEF IInv, NonceInv, strikeVars
  <2> QED
    BY <1>6, <1>9, <2>1 DEF NonceInv, TriesInv, TriesAreReplies
<1>11. CountInv'
  <2>1. \A h \in Groups : pend'[h] # None =>
          \/ pend[h] # None /\ pend'[h].nonce = pend[h].nonce
          \/ pend'[h].nonce = issued + 1
    BY <1>3, <1>5
  <2> QED
    BY <1>1, <2>1, CountFrame DEF strikeVars
<1>12. WorkInv'
  <2>1. ASSUME NEW w \in Workers PROVE Fit(w)'
    <3>1. Fit(w) /\ work' = work
      BY <1>1 DEF IInv, WorkInv
    <3>2. ClaimHeld(w)'
      <4> SUFFICES ASSUME Settling(w)
                   PROVE /\ pend'[G(w)] # None /\ pend'[G(w)].done
                         /\ pend'[G(w)].nonce = work[w].nonce
        BY <3>1 DEF ClaimHeld, Settling, G
      <4> QED
        BY <1>1, <1>5, Claimed DEF HasClaim
    <3>3. RefusalEarned(w)'
      <4> SUFFICES ASSUME work[w].at \in {"refuse", "decline", "strike"}, work[w].how = "grade"
                   PROVE \/ charged'[G(w)] >= KernelMaxTries
                         \/ pend'[G(w)] = None
                         \/ pend'[G(w)].nonce # work[w].nonce
        BY <3>1 DEF RefusalEarned, G
      <4>1. work[w].at \in Located
        BY DEF Located, SettleStages
      <4>2. G(w) \in Groups /\ work[w].nonce \in 1..issued /\ RefusalEarned(w)
        BY <4>1, InHand
      <4>3. CASE G(w) = g
        BY <1>3, <1>5, <4>2, <4>3, InvParts DEF Scalars
      <4>4. CASE G(w) # g
        BY <1>5, <4>2, <4>4 DEF RefusalEarned
      <4> QED
        BY <4>3, <4>4
    <3>4. work'[w].at \in Located => work'[w].g \in Groups /\ work'[w].nonce \in 1..issued'
      BY <1>1, <3>1, InvParts, BoundAssumption DEF Fit, G, Scalars
    <3>5. At(w, "clear")' => place'[work'[w].g] = "banned"
      BY <1>1, <1>5, <3>1 DEF Fit, At, G, Located
    <3> QED
      BY <3>1, <3>2, <3>3, <3>4, <3>5 DEF Fit, G
  <2>2. SoleSettler' /\ work' = [w \in Workers |-> work'[w]]
    BY <1>1 DEF IInv, WorkInv, SoleSettler, Settling, G
  <2> QED
    BY <2>1, <2>2 DEF WorkInv
<1> QED
  BY <1>8, <1>10, <1>11, <1>12 DEF IInv

\* A crash brings back what was saved, struck or not, and pays for a second strike.
LEMMA CrashKeeps ==
  ASSUME IInv, Crash PROVE IInv'
<1>1. /\ crashes < MaxCrashes /\ crashes' = crashes + 1 /\ work' = [w \in Workers |-> Idle]
      /\ UNCHANGED <<disk, telegramVars, strikeVars, profile, issued, charged>>
  BY DEF Crash
<1>2. PICK lapsed \in SUBSET {g \in Groups : disk[g] # None} :
        pend' = [g \in Groups |->
                   IF disk[g] = None THEN None
                   ELSE [disk[g] EXCEPT !.reason = IF g \in lapsed \/ disk[g].asking
                                                   THEN "nofault" ELSE "timeout"]]
  BY DEF Crash
<1>3. ASSUME NEW g \in Groups
      PROVE \/ disk[g] = None /\ pend'[g] = None
            \/ /\ disk[g] # None /\ pend'[g] \in Entry
               /\ pend'[g].nonce = disk[g].nonce /\ pend'[g].tries = disk[g].tries
  <2>1. disk[g] \in Entry \cup {None}
    BY InvParts DEF Tables
  <2>2. CASE disk[g] = None
    BY <1>2, <2>2
  <2>3. CASE disk[g] # None
    <3> DEFINE reason == IF g \in lapsed \/ disk[g].asking THEN "nofault" ELSE "timeout"
    <3>1. reason \in {"timeout", "nofault", "wrong answer"}
      OBVIOUS
    <3>2. pend'[g] = [disk[g] EXCEPT !.reason = reason]
      BY <1>2, <2>3
    <3> HIDE DEF reason
    <3> QED
      BY <2>1, <2>3, <3>1, <3>2 DEF Entry
  <2> QED
    BY <2>2, <2>3
<1>4. pend' \in Tables
  <2>1. pend' = [g \in Groups |-> pend'[g]]
    BY <1>2
  <2> QED
    BY <1>3, <2>1 DEF Tables
<1>5. crashes \in Nat /\ crashes' \in 0..MaxCrashes
  BY <1>1, InvParts, BoundAssumption DEF Scalars
<1>6. TypeOK' /\ (profile \in Profiles)'
  BY <1>1, <1>4, <1>5, InvParts DEF TypeOK, Scalars, Tables, IInv, telegramVars, strikeVars
<1>7. NonceInv' /\ TriesInv'
  BY <1>1, <1>3, NoneAssumption DEF IInv, NonceInv, TriesInv, TriesAreReplies, strikeVars
<1>8. CountInv'
  <2>1. ASSUME NEW g \in Groups
        PROVE /\ Cardinality(failed[g]) <= fails[g]
              /\ fails[g] + 1 <= Cardinality(failed[g]) + crashes'
              /\ fails[g] <= Cardinality(failed[g]) + crashes'
    <3>1. fails[g] \in Nat /\ Cardinality(failed[g]) \in Nat
      BY InvParts, FailedIsFinite DEF Scalars
    <3> QED
      BY <1>1, <1>5, <3>1 DEF IInv, CountInv
  <2> QED
    BY <1>1, <2>1 DEF CountInv, strikeVars
<1>9. WorkInv'
  <2>1. ASSUME NEW w \in Workers PROVE Fit(w)' /\ ~Settling(w)'
    BY <1>1 DEF Fit, ClaimHeld, RefusalEarned, Settling, Located, SettleStages, At, Idle
  <2> QED
    BY <1>1, <2>1 DEF WorkInv, SoleSettler
<1> QED
  BY <1>6, <1>7, <1>8, <1>9 DEF IInv

-----------------------------------------------------------------------------
(* Who raises a count *)

\* Only a goroutine that records a failure adds to a count, and only to its own group's.
LEMMA WhoStrikes ==
  ASSUME IInv, [Next]_vars, NEW g \in Groups, fails'[g] > fails[g]
  PROVE  \E w \in Workers : Strike(w) /\ G(w) = g
<1>1. fails' # fails /\ fails[g] \in Nat /\ fails \in [Groups -> Nat]
  BY InvParts DEF Scalars
<1>2. ASSUME NEW w \in Workers, Passed(w) \/ ClearAfterBan(w) PROVE FALSE
  <2>1. fails' = [fails EXCEPT ![G(w)] = 0]
    BY <1>2 DEF Passed, ClearAfterBan, ClearVerifyFails
  <2>2. fails'[g] \in {0, fails[g]}
    BY <1>1, <2>1
  <2> QED
    BY <1>1, <2>2
<1>3. ASSUME NEW w \in Workers, Strike(w) PROVE G(w) = g
  <2>1. fails' = fails \/ fails' = [fails EXCEPT ![G(w)] = Counted(G(w))]
    BY <1>3 DEF Strike, strikeVars
  <2> QED
    BY <1>1, <2>1
<1>4. \A h \in Groups : ~OnJoinRequest(h) /\ ~RequestWaits(h) /\ ~OthersAct(h) /\ ~TimePasses(h)
  BY <1>1 DEF OnJoinRequest, RequestWaits, OthersAct, TimePasses, strikeVars
<1>5. \A w \in Workers : /\ ~OnKernelAnswer(w) /\ ~KernelPendingInfo(w) /\ ~GradeKernelAnswer(w)
                         /\ ~CompleteDMDelivery(w)
  BY <1>1 DEF OnKernelAnswer, KernelPendingInfo, GradeKernelAnswer, CompleteDMDelivery, strikeVars
<1>6. \A w \in Workers : /\ ~IsChannelMember(w) /\ ~ClaimDecline(w) /\ ~ExecuteApprove(w) /\ ~Drop(w)
                         /\ ~ExecuteDecline(w) /\ ~AutoBan(w) /\ ~SaveSettled(w)
  BY <1>1 DEF IsChannelMember, ClaimDecline, ExecuteApprove, Drop, ExecuteDecline, AutoBan,
              SaveSettled, strikeVars
<1>7. \A w \in Workers, h \in Groups : ~OnAnswer(w, h) /\ ~OnExpiry(w, h)
  BY <1>1 DEF OnAnswer, OnExpiry, strikeVars
<1>8. ~Crash /\ ~UNCHANGED vars
  BY <1>1 DEF Crash, vars, strikeVars
<1>9. \E w \in Workers : Strike(w)
  BY <1>2, <1>4, <1>5, <1>6, <1>7, <1>8 DEF Next, Settle
<1> QED
  BY <1>3, <1>9

LEMMA Earned ==
  ASSUME IInv, NEW w \in Workers, Strike(w), work[w].how = "grade"
  PROVE  charged[G(w)] >= KernelMaxTries
<1>1. At(w, "strike") /\ Settling(w)
  BY DEF Strike, At, Settling, SettleStages
<1>2. HasClaim(w) /\ RefusalEarned(w)
  BY <1>1, Claimed, InHand DEF HasClaim
<1> QED
  BY <1>1, <1>2 DEF RefusalEarned, HasClaim, At

-----------------------------------------------------------------------------
(* The theorems *)

LEMMA Initially == Init => IInv
<1> SUFFICES ASSUME Init PROVE IInv
  OBVIOUS
<1>1. /\ pend = [g \in Groups |-> None] /\ disk = [g \in Groups |-> None]
      /\ failed = [g \in Groups |-> {}] /\ fails = [g \in Groups |-> 0]
      /\ work = [w \in Workers |-> Idle] /\ crashes = 0 /\ issued = 0
  BY DEF Init
<1>2. TypeOK /\ profile \in Profiles
  BY BoundAssumption DEF Init, TypeOK
<1>3. WorkInv
  BY <1>1 DEF WorkInv, SoleSettler, Fit, ClaimHeld, RefusalEarned, Settling, Located, SettleStages, At, Idle
<1>4. NonceInv /\ TriesInv
  BY <1>1 DEF NonceInv, TriesInv, TriesAreReplies
<1>5. CountInv
  BY <1>1, FS_EmptySet DEF CountInv, Ghost
<1> QED
  BY <1>2, <1>3, <1>4, <1>5 DEF IInv

LEMMA SettleKeeps ==
  ASSUME IInv, NEW w \in Workers, Settle(w) PROVE IInv'
<1>1. CASE IsChannelMember(w)
  BY <1>1, GateStep, StepKeeps DEF IsChannelMember
<1>2. CASE ClaimDecline(w)
  BY <1>2, RefuseStep, StepKeeps DEF ClaimDecline
<1>3. CASE ExecuteApprove(w)
  BY <1>3, ApproveStep, StepKeeps DEF ExecuteApprove
<1>4. CASE Drop(w)
  BY <1>4, DropStep, StepKeeps DEF Drop
<1>5. CASE ExecuteDecline(w)
  BY <1>5, DeclineStep, StepKeeps DEF ExecuteDecline
<1>6. CASE AutoBan(w)
  BY <1>6, BanStep, StepKeeps DEF AutoBan
<1>7. CASE SaveSettled(w)
  BY <1>7, SaveStep, StepKeeps DEF SaveSettled
<1> QED
  BY <1>1, <1>2, <1>3, <1>4, <1>5, <1>6, <1>7, PassedKeeps, BannedKeeps, StrikeKeeps DEF Settle

LEMMA NextKeeps == IInv /\ [Next]_vars => IInv'
<1> SUFFICES ASSUME IInv, [Next]_vars PROVE IInv'
  OBVIOUS
<1>1. ASSUME NEW g \in Groups, OnJoinRequest(g) \/ RequestWaits(g) \/ OthersAct(g) \/ TimePasses(g)
      PROVE IInv'
  BY <1>1, JoinKeeps, OthersKeepTable
<1>2. ASSUME NEW w \in Workers, OnKernelAnswer(w) PROVE IInv'
  BY <1>2, ReplyStep, StepKeeps DEF OnKernelAnswer
<1>3. ASSUME NEW w \in Workers, KernelPendingInfo(w) PROVE IInv'
  BY <1>3, NextGroupStep, StepKeeps DEF KernelPendingInfo
<1>4. ASSUME NEW w \in Workers, GradeKernelAnswer(w) PROVE IInv'
  BY <1>4, GradeStep, StepKeeps DEF GradeKernelAnswer
<1>5. ASSUME NEW w \in Workers, CompleteDMDelivery(w) PROVE IInv'
  BY <1>5, DeliveredStep, StepKeeps DEF CompleteDMDelivery
<1>6. ASSUME NEW w \in Workers, Settle(w) PROVE IInv'
  BY <1>6, SettleKeeps
<1>7. ASSUME NEW w \in Workers, NEW g \in Groups, OnAnswer(w, g) PROVE IInv'
  BY <1>7, PressStep, StepKeeps DEF OnAnswer
<1>8. ASSUME NEW w \in Workers, NEW g \in Groups, OnExpiry(w, g) PROVE IInv'
  BY <1>8, ExpiryStep, StepKeeps DEF OnExpiry
<1>9. CASE Crash
  BY <1>9, CrashKeeps
<1>10. CASE UNCHANGED vars
  BY <1>10, InvParts, OutsideKeeps DEF vars, telegramVars, strikeVars, Scalars
<1> QED
  BY <1>1, <1>2, <1>3, <1>4, <1>5, <1>6, <1>7, <1>8, <1>9, <1>10 DEF Next

\* Every reachable state satisfies the inductive invariant: a goroutine that settles holds the
\* claim of its verification and is alone in its group, and tries and strikes are accounted for.
THEOREM Inductive == Spec => []IInv
BY Initially, NextKeeps, PTL DEF Spec

\* Entries in the table and in pending.json, counts and what Telegram shows keep their types.
THEOREM TypeCorrect == Spec => []TypeOK
<1>1. IInv => TypeOK
  BY DEF IInv
<1> QED
  BY <1>1, Inductive, PTL

\* No verification carries a try that was not charged to a reply of this applicant in this group,
\* whatever was in flight when they asked again or when the process went down
\* (recordKernelTry, startPending, load).
THEOREM EveryTryIsAReply == Spec => []TriesAreReplies
<1>1. IInv => TriesAreReplies
  BY DEF IInv, TriesInv
<1> QED
  BY <1>1, Inductive, PTL

\* The count that leads to the automatic ban exceeds the distinct failed verifications of its
\* window by no more than the crashes there were (recordVerifyFailLocked, load).
THEOREM NoStrikeFromNowhere == Spec => []StrikesAreFailures
<1>1. IInv => StrikesAreFailures
  BY DEF IInv, CountInv, StrikesAreFailures
<1> QED
  BY <1>1, Inductive, PTL

\* The count never falls behind the failures since the last pass or applied ban: a ban that
\* Telegram refused forgets nothing (applyVerificationBan, clearVerifyFails).
THEOREM EveryFailureCounts == Spec => []NoFailureForgotten
<1>1. IInv => NoFailureForgotten
  BY DEF IInv, CountInv, NoFailureForgotten
<1> QED
  BY <1>1, Inductive, PTL

\* A strike for wrong answers falls only on a verification that was charged all its tries,
\* although the reply was graded, the verification claimed and the applicant declined in steps
\* between which it may be replaced, taken by its deadline or lost to a crash
\* (gradeKernelAnswer, claimPendingNonce, finishDecline).
THEOREM StrikesHaveCause == Spec => StrikesAreEarned
<1>1. ASSUME IInv, [Next]_vars
      PROVE  [\A g \in Groups : fails'[g] > fails[g] =>
                \E w \in Workers : /\ At(w, "strike") /\ G(w) = g
                                   /\ work[w].how = "grade" => charged[g] >= KernelMaxTries]_vars
  <2>1. ASSUME NEW g \in Groups, fails'[g] > fails[g]
        PROVE \E w \in Workers : /\ At(w, "strike") /\ G(w) = g
                                 /\ work[w].how = "grade" => charged[g] >= KernelMaxTries
    <3>1. PICK w \in Workers : Strike(w) /\ G(w) = g
      BY <1>1, <2>1, WhoStrikes
    <3>2. At(w, "strike") /\ (work[w].how = "grade" => charged[g] >= KernelMaxTries)
      BY <1>1, <3>1, Earned DEF Strike
    <3> QED
      BY <3>1, <3>2
  <2> QED
    BY <2>1
<1> QED
  BY <1>1, Inductive, PTL DEF Spec, StrikesAreEarned
=============================================================================
