-------------------------- MODULE PanelSession_proofs --------------------------
(***************************************************************************)
(* Safety of the settings panel, for any administrators, groups, handlers, *)
(* tours and bounds.  The lock of a session has one holder, a session      *)
(* remembers revisions no older than the one it would submit, and a press  *)
(* that is still live was made on the screen the session shows.            *)
(***************************************************************************)
EXTENDS PanelSession, TLAPS

Open == 1 .. opened                \* the sessions created so far

\* Steps that are taken with the lock of the session held
Held == {"render", "prompt", "commit", "authorize", "apply"}

\* The content `built` is no older than the revisions the session would submit.
Shows(x, built, r) ==
  /\ x.group \in Groups
  /\ x.rev <= built[x.group] /\ built[x.group] <= r[x.group]
  /\ x.grev <= built[Global] /\ built[Global] <= r[Global]

\* What a session keeps between two presses
Remembers(x, r) ==
  /\ x.shown = None =>
       x.draft = None /\ x.pending = None /\ x.screen = "gl" /\ x.rev = 0 /\ x.grev = 0
  /\ x.screen = "gl" => x.draft = None
  /\ x.pending # None => x.screen = "in" /\ Shows(x, x.pending.seen, r)
  /\ x.draft # None =>
       x.group \in Groups /\ x.draft.rev <= x.draft.seen /\ x.draft.seen <= r[x.group]
  /\ x.screen = "cf" /\ x.confirm # None =>
       x.group \in Groups /\ x.confirm.rev <= x.confirm.seen /\ x.confirm.seen <= r[x.group]

\* The screens on which a button stands, and where it leads
Suits(b, screen) ==
  /\ screen = "in" => b = B("cancel", "in")
  /\ screen = "cf" => b.do \in {"confirm", "cancel"}
  /\ b.do = "confirm" => screen = "cf"
  /\ b.do = "select" => screen = "gl"
  /\ b.do = "save" => screen \in {"qd", "fd"}
  /\ b.do \in {"text", "pick", "ask", "open"} => screen # "gl"
  /\ b.do \in {"text", "pick"} => b.to \in Kinds
  /\ b.do = "list" => b.to \in {"list", "whitelist"} /\ screen # "gl"
  /\ b.do = "open" => b.to \in {"qd", "fd"}
  /\ b.do = "go" => b.to \in Screens \ {"in", "cf"}

\* No holder is about to change the screen.
Settled(s) == sess[s].lock = None \/ work[sess[s].lock].pc \notin {"render", "commit"}

\* A session in a lock is in the hands of a handler at work on it.
LockInv ==
  \A s \in Open :
    sess[s].lock # None => work[sess[s].lock].pc \in Held /\ work[sess[s].lock].s = s

SessionInv ==
  \A s \in Open :
    /\ sess[s].owner \in Users
    /\ Remembers(sess[s], rev)
    /\ \/ sess[s].shown = None
       \/ sess[s].lock # None /\ work[sess[s].lock].pc = "render"
       \/ Shows(sess[s], sess[s].shown, rev)

\* What a job that holds the lock of its session x relies on
HeldFits(j, x, r) ==
  /\ j.pc = "render" => Shows(x, j.built, r) /\ (j.then = "prompt" => x.pending # None)
  /\ j.pc \in {"prompt", "authorize", "apply"} => x.pending # None
  /\ j.pc \in Held \ {"render"} => x.shown # None
  /\ j.pc = "commit" =>
       x.pending = None /\ j.scope \in {x.group, Global} /\ Expected(x, j.scope) <= j.seen /\ j.seen <= r[j.scope]

HolderInv ==
  \A w \in Workers :
    work[w].pc \in Held => sess[work[w].s].lock = w /\ HeldFits(work[w], sess[work[w].s], rev)

\* A press or a start that may still act finds the session as it was made on.
PressInv ==
  \A w \in Workers :
    /\ work[w].pc = "start" /\ work[w].live /\ Registered(work[w].s) =>
         sess[work[w].s].shown = None
    /\ work[w].pc = "callback" /\ Registered(work[w].s) => sess[work[w].s].shown # None
    /\ work[w].pc = "callback" /\ work[w].live /\ Registered(work[w].s) /\ Settled(work[w].s) =>
         Suits(work[w].b, sess[work[w].s].screen)

\* Jobs name sessions that exist.
JobInv ==
  \A w \in Workers :
    /\ work[w].pc \in Held \cup {"link", "revoked", "start", "callback", "match", "answer"} =>
         work[w].s \in Open
    /\ work[w].pc \in {"input", "match"} => work[w].p[1] \in Open
    /\ work[w].pc = "register" /\ work[w].prev # 0 =>
         work[w].prev \in Open /\ sess[work[w].prev].owner = work[w].u

\* The maps hold sessions of their users, and a replaced panel is in neither.
MapInv ==
  /\ \A u \in Users : byUser[u] # 0 =>
       byUser[u] \in Open /\ sess[byUser[u]].owner = u /\ sess[byUser[u]].group \in Groups
  /\ \A s \in Sessions \ Open : sess[s] = NoSession
  /\ \A s \in Open : sess[s].replaced => sess[s].lock = None /\ ~Registered(s)

IInv ==
  /\ TypeOK /\ LockInv /\ SessionInv /\ HolderInv /\ PressInv /\ JobInv /\ MapInv
-----------------------------------------------------------------------------
(* Values *)

LEMMA ScopesHaveGroups == Groups \subseteq Scopes /\ Global \in Scopes /\ Global \notin Groups
BY PanelAssumption DEF Scopes

\* The fields of a job, by its step
LEMMA JobFields ==
  ASSUME NEW j \in Jobs
  PROVE  /\ j.pc \in Held \cup {"link", "revoked", "start", "callback", "match", "answer"} =>
              j.s \in Sessions
         /\ j.pc \in {"start", "callback"} => j.live \in BOOLEAN
         /\ j.pc = "callback" => j.b \in Presses
         /\ j.pc = "render" => j.then \in {"done", "prompt"} /\ j.built \in Revisions
         /\ j.pc = "commit" => j.scope \in Scopes /\ j.seen \in Nat /\ j.merge \in BOOLEAN
         /\ j.pc \in {"input", "match", "answer", "authorize", "apply"} => j.p \in PromptIds
         /\ j.pc \in {"answer", "authorize", "apply"} => j.via \in {"text", "chat"}
         /\ j.pc \in {"launch", "register"} => j.u \in Users /\ j.g \in Groups
         /\ j.pc = "register" => j.prev \in {0} \cup Sessions
BY DEF Jobs, Held

\* A job stays of its kind when its token is no longer current.
LEMMA StaleJob ==
  ASSUME NEW j \in Jobs, j.pc \in {"start", "callback"}
  PROVE  /\ [j EXCEPT !.live = FALSE] \in Jobs
         /\ [j EXCEPT !.live = FALSE].pc = j.pc
         /\ [j EXCEPT !.live = FALSE].s = j.s
         /\ ~[j EXCEPT !.live = FALSE].live
BY DEF Jobs

LEMMA SessionFields ==
  ASSUME NEW x \in PanelSessions
  PROVE  /\ x.owner \in Users \cup {None} /\ x.lock \in Workers \cup {None}
         /\ x.group \in Groups \cup {None} /\ x.screen \in Screens
         /\ x.list \in {"list", "whitelist"} /\ x.rev \in Nat /\ x.grev \in Nat
         /\ x.shown \in Revisions \cup {None} /\ x.pending \in PendingInputs \cup {None}
         /\ x.draft \in Drafts \cup {None} /\ x.confirm \in Confirmations \cup {None}
         /\ x.channel \in Groups \cup {None} /\ x.prompts \in Nat /\ x.replaced \in BOOLEAN
BY DEF PanelSessions

LEMMA NoSessionType ==
  /\ NoSession \in PanelSessions
  /\ \A u \in Users \cup {None} : [NoSession EXCEPT !.owner = u] \in PanelSessions
BY DEF NoSession, PanelSessions, Screens, Parents

\* A button stands on its screen and leads where the codec accepts it.
LEMMA ButtonsFit ==
  ASSUME NEW x, x.screen \in Screens, x.list \in {"list", "whitelist"}, NEW b \in Buttons(x)
  PROVE  b \in Presses /\ Suits(b, x.screen)
<1> USE DEF Presses, Suits, B, Screens, Parents, Kinds, PickKinds
<1>1. CASE x.screen \in {"qd", "fd"}
  BY <1>1 DEF Buttons, DraftButtons
<1>2. CASE x.screen \in {"qb", "fb"}
  BY <1>2 DEF Buttons, BankButtons
<1>3. CASE x.screen \in {"ls", "li", "ch"}
  BY <1>3 DEF Buttons, ListButtons
<1>4. CASE x.screen = "rt"
  BY <1>4 DEF Buttons, RuntimeButtons
<1>5. CASE x.screen \in {"vp", "md"}
  BY <1>5 DEF Buttons, ValueButtons
<1>6. CASE x.screen \in {"gl", "gh", "ct", "cf", "in"}
  BY <1>6 DEF Buttons, HomeButtons
<1> QED
  BY <1>1, <1>2, <1>3, <1>4, <1>5, <1>6
-----------------------------------------------------------------------------
(* One handler changes one session *)

\* Revisions only rise, so what was no newer than them stays so.
LEMMA RevisionsRise ==
  ASSUME NEW x \in PanelSessions, NEW r \in Revisions, NEW r2 \in Revisions,
         \A c \in Scopes : r[c] <= r2[c]
  PROVE  /\ \A built \in Revisions : Shows(x, built, r) => Shows(x, built, r2)
         /\ Remembers(x, r) => Remembers(x, r2)
         /\ \A j \in Jobs : HeldFits(j, x, r) => HeldFits(j, x, r2)
<1>1. \A c \in Scopes : r[c] \in Nat /\ r2[c] \in Nat /\ r[c] <= r2[c]
  BY DEF Revisions
<1>2. ASSUME NEW built \in Revisions, Shows(x, built, r) PROVE Shows(x, built, r2)
  BY <1>1, <1>2, ScopesHaveGroups DEF Shows, Revisions
<1>3. ASSUME Remembers(x, r) PROVE Remembers(x, r2)
  <2>1. x.pending # None => x.pending.seen \in Revisions
    BY SessionFields DEF PendingInputs
  <2>2. x.draft # None => x.draft.seen \in Nat
    BY SessionFields DEF Drafts
  <2>3. x.confirm # None => x.confirm.seen \in Nat
    BY SessionFields DEF Confirmations
  <2> QED
    BY <1>1, <1>2, <1>3, <2>1, <2>2, <2>3, ScopesHaveGroups DEF Remembers
<1>4. ASSUME NEW j \in Jobs, HeldFits(j, x, r) PROVE HeldFits(j, x, r2)
  <2>1. j.pc = "render" => Shows(x, j.built, r2) /\ (j.then = "prompt" => x.pending # None)
    BY <1>2, <1>4, JobFields DEF HeldFits
  <2>2. j.pc = "commit" => j.seen <= r2[j.scope]
    BY <1>1, <1>4, JobFields DEF HeldFits
  <2> QED
    BY <1>4, <2>1, <2>2 DEF HeldFits
<1> QED
  BY <1>2, <1>3, <1>4

\* What a step of handler w leaves of the other handlers: at most, a press or a start on the
\* session is no longer live.
LEMMA OtherJobs ==
  ASSUME TypeOK, NEW w \in Workers, NEW s \in Sessions, NEW j \in Jobs,
         \/ work' = [work EXCEPT ![w] = j]
         \/ work' = [Rotated(s) EXCEPT ![w] = j]
  PROVE  /\ work' \in [Workers -> Jobs] /\ work'[w] = j
         /\ \A v \in Workers \ {w} :
              \/ work'[v] = work[v]
              \/ /\ work[v].pc \in {"start", "callback"} /\ work[v].s = s
                 /\ work'[v].pc = work[v].pc /\ work'[v].s = s /\ ~work'[v].live
         /\ work' = [Rotated(s) EXCEPT ![w] = j] =>
              \A v \in Workers \ {w} :
                work'[v].pc \in {"start", "callback"} /\ work'[v].s = s => ~work'[v].live
<1>1. work \in [Workers -> Jobs]
  BY DEF TypeOK
<1>2. /\ Rotated(s) \in [Workers -> Jobs]
      /\ \A v \in Workers :
           IF work[v].pc \in {"start", "callback"} /\ work[v].s = s
             THEN /\ Rotated(s)[v].pc = work[v].pc /\ Rotated(s)[v].s = s /\ ~Rotated(s)[v].live
             ELSE Rotated(s)[v] = work[v]
  BY <1>1, StaleJob DEF Rotated
<1>3. CASE work' = [work EXCEPT ![w] = j]
  <2>1. ASSUME work' = [Rotated(s) EXCEPT ![w] = j], NEW v \in Workers \ {w},
               work'[v].pc \in {"start", "callback"}, work'[v].s = s
        PROVE  ~work'[v].live
    BY <1>2, <2>1
  <2> QED
    BY <1>1, <1>3, <2>1
<1>4. CASE work' = [Rotated(s) EXCEPT ![w] = j]
  BY <1>2, <1>4
<1> QED
  BY <1>3, <1>4

LEMMA SessionStep ==
  ASSUME IInv, NEW w \in Workers, NEW s \in Open, NEW x \in PanelSessions, NEW j \in Jobs,
         sess' = [sess EXCEPT ![s] = x],
         \/ work' = [work EXCEPT ![w] = j]
         \/ work' = [Rotated(s) EXCEPT ![w] = j],
         sess[s].lock \in {None, w},
         work[w].pc \in Held => work[w].s = s,
         rev' \in Revisions, \A c \in Scopes : rev[c] <= rev'[c],
         byUser' \in {byUser, [u \in Users |-> IF byUser[u] = s THEN 0 ELSE byUser[u]]},
         UNCHANGED <<opened, tour>>,
         x.owner = sess[s].owner, byUser'[x.owner] # s \/ x.group \in Groups,
         x.lock = IF j.pc \in Held THEN w ELSE None,
         j.pc \in Held \cup {"idle", "input"},
         j.pc \in Held => j.s = s,
         j.pc = "input" => j.p[1] \in Open,
         x.replaced => sess[s].replaced /\ j.pc \notin Held,
         Remembers(x, rev'),
         x.shown = None \/ j.pc = "render" \/ Shows(x, x.shown, rev'),
         HeldFits(j, x, rev'),
         \/ byUser'[x.owner] # s
         \/ /\ x.shown = None <=> sess[s].shown = None
            /\ j.pc \in {"render", "commit"} \/ (Settled(s) /\ x.screen = sess[s].screen)
         \/ x.shown # None /\ work' = [Rotated(s) EXCEPT ![w] = j]
  PROVE  IInv'
<1>0. /\ s \in Sessions /\ opened \in {0} \cup Sessions /\ opened' = opened /\ Open \subseteq Sessions
      /\ sess \in [Sessions -> PanelSessions] /\ rev \in Revisions
      /\ work \in [Workers -> Jobs] /\ byUser \in [Users -> {0} \cup Sessions]
      /\ s # 0 /\ sess[s].owner \in Users /\ None \notin Workers
  BY PanelAssumption DEF IInv, TypeOK, Open, Sessions, SessionInv
<1>1. /\ work' \in [Workers -> Jobs] /\ work'[w] = j
      /\ \A v \in Workers \ {w} :
           \/ work'[v] = work[v]
           \/ /\ work[v].pc \in {"start", "callback"} /\ work[v].s = s
              /\ work'[v].pc = work[v].pc /\ work'[v].s = s /\ ~work'[v].live
  BY <1>0, OtherJobs DEF IInv
<1>2. /\ sess' \in [Sessions -> PanelSessions] /\ sess'[s] = x
      /\ \A t \in Sessions \ {s} : sess'[t] = sess[t]
  BY <1>0
<1>3. /\ byUser' \in [Users -> {0} \cup Sessions]
      /\ \A u \in Users : byUser'[u] = byUser[u] \/ (byUser[u] = s /\ byUser'[u] = 0)
  BY <1>0
<1>4. TypeOK'
  BY <1>0, <1>1, <1>2, <1>3 DEF IInv, TypeOK
<1>5. \A t \in Open : sess'[t].owner = sess[t].owner /\ sess[t].owner \in Users
  BY <1>0, <1>2 DEF IInv, SessionInv
\* No other handler holds this session.
<1>6. \A v \in Workers \ {w} : work[v].pc \in Held => work'[v] = work[v] /\ work[v].s # s
  BY <1>0, <1>1 DEF IInv, HolderInv, Held
<1>7. \A t \in Open \ {s} : sess[t].lock # w
  BY <1>0 DEF IInv, LockInv
<1>8. \A t \in Open \ {s} : sess[t].lock # None =>
        /\ sess[t].lock \in Workers \ {w} /\ work[sess[t].lock].pc \in Held
        /\ work[sess[t].lock].s = t /\ work'[sess[t].lock] = work[sess[t].lock]
  BY <1>0, <1>6, <1>7, SessionFields DEF IInv, LockInv
<1>9. LockInv'
  BY <1>0, <1>1, <1>2, <1>8 DEF LockInv, Open
<1>10. SessionInv'
  <2>1. ASSUME NEW t \in Open \ {s}
        PROVE  /\ Remembers(sess[t], rev')
               /\ \/ sess[t].shown = None
                  \/ sess[t].lock # None /\ work[sess[t].lock].pc = "render"
                  \/ Shows(sess[t], sess[t].shown, rev')
    <3>1. sess[t] \in PanelSessions /\ (sess[t].shown # None => sess[t].shown \in Revisions)
      BY <1>0, SessionFields
    <3> QED
      BY <1>0, <3>1, RevisionsRise DEF IInv, SessionInv
  <2>2. \A t \in Open \ {s} :
          sess[t].lock # None => work'[sess[t].lock].pc = work[sess[t].lock].pc
    BY <1>8
  <2>3. x.lock # None => x.lock = w
    BY <1>0
  <2>4. \/ x.shown = None \/ (x.lock # None /\ work'[x.lock].pc = "render")
        \/ Shows(x, x.shown, rev')
    BY <1>0, <1>1 DEF Held
  <2>5. x.owner \in Users
    BY <1>0
  <2> QED
    BY <1>0, <1>2, <1>5, <2>1, <2>2, <2>4, <2>5 DEF SessionInv, Open
<1>11. HolderInv'
  <2> SUFFICES ASSUME NEW v \in Workers, work'[v].pc \in Held
               PROVE  /\ sess'[work'[v].s].lock = v
                      /\ HeldFits(work'[v], sess'[work'[v].s], rev')
    BY DEF HolderInv
  <2>1. CASE v = w
    BY <1>1, <1>2, <2>1
  <2>2. CASE v # w
    <3>1. work'[v] = work[v] /\ work[v].pc \in Held /\ work[v].s \in Open \ {s} /\ work[v] \in Jobs
      BY <1>0, <1>1, <1>6, <2>2 DEF IInv, JobInv, Held
    <3>2. sess'[work[v].s] = sess[work[v].s] /\ sess[work[v].s] \in PanelSessions
      BY <1>0, <1>2, <3>1
    <3>3. sess[work[v].s].lock = v /\ HeldFits(work[v], sess[work[v].s], rev)
      BY <3>1 DEF IInv, HolderInv
    <3> QED
      BY <1>0, <3>1, <3>2, <3>3, RevisionsRise
  <2> QED
    BY <2>1, <2>2
<1>12. JobInv'
  <2> SUFFICES ASSUME NEW v \in Workers
        PROVE  /\ work'[v].pc \in Held \cup {"link", "revoked", "start", "callback", "match", "answer"}
                    => work'[v].s \in Open
               /\ work'[v].pc \in {"input", "match"} => work'[v].p[1] \in Open
               /\ work'[v].pc = "register" /\ work'[v].prev # 0 =>
                    work'[v].prev \in Open /\ sess'[work'[v].prev].owner = work'[v].u
    BY <1>0 DEF JobInv, Open
  <2>1. CASE v = w
    BY <1>1, <2>1 DEF Held
  <2>2. CASE v # w
    BY <1>0, <1>1, <1>5, <2>2 DEF IInv, JobInv, Held
  <2> QED
    BY <2>1, <2>2
<1>13. MapInv'
  <2>1. ASSUME NEW u \in Users, byUser'[u] # 0
        PROVE  /\ byUser'[u] \in Open /\ sess'[byUser'[u]].owner = u
               /\ sess'[byUser'[u]].group \in Groups
    <3>1. byUser'[u] = byUser[u] /\ byUser[u] \in Open /\ sess[byUser[u]].owner = u
          /\ sess[byUser[u]].group \in Groups
      BY <1>3, <2>1 DEF IInv, MapInv
    <3> QED
      BY <1>0, <1>2, <1>5, <3>1
  <2>2. \A t \in Sessions \ Open : sess'[t] = NoSession
    BY <1>2 DEF IInv, MapInv
  <2>3. ASSUME NEW t \in Open, sess'[t].replaced
        PROVE  sess'[t].lock = None /\ byUser'[sess'[t].owner] # t
    <3>1. sess[t].replaced /\ byUser[sess[t].owner] # t /\ sess[t].lock = None
      BY <1>0, <1>2, <2>3 DEF IInv, MapInv, Registered
    <3>2. sess'[t].lock = None
      BY <1>0, <1>2, <2>3, <3>1
    <3> QED
      BY <1>0, <1>3, <1>5, <3>1, <3>2 DEF Sessions
  <2> QED
    BY <1>0, <2>1, <2>2, <2>3 DEF MapInv, Open, Registered
<1>14. PressInv'
  <2> SUFFICES ASSUME NEW v \in Workers, work'[v].pc \in {"start", "callback"},
                      byUser'[sess'[work'[v].s].owner] = work'[v].s
        PROVE  /\ work'[v].pc = "start" /\ work'[v].live => sess'[work'[v].s].shown = None
               /\ work'[v].pc = "callback" => sess'[work'[v].s].shown # None
               /\ work'[v].pc = "callback" /\ work'[v].live /\ Settled(work[v].s)' =>
                    Suits(work'[v].b, sess'[work'[v].s].screen)
    BY DEF PressInv, Registered
  <2>1. v # w
    BY <1>1 DEF Held
  <2>2. work[v].pc = work'[v].pc /\ work[v].s = work'[v].s /\ work[v].s \in Open
        /\ (work'[v].live => work'[v] = work[v])
    BY <1>1, <2>1 DEF IInv, JobInv
  <2>3. byUser[sess[work[v].s].owner] = work[v].s
    <3>1. sess'[work[v].s].owner = sess[work[v].s].owner /\ sess[work[v].s].owner \in Users
      BY <1>5, <2>2
    <3>2. work[v].s # 0
      BY <1>0, <2>2 DEF Sessions
    <3> QED
      BY <1>3, <2>2, <3>1, <3>2
  <2>4. /\ work[v].pc = "start" /\ work[v].live => sess[work[v].s].shown = None
        /\ work[v].pc = "callback" => sess[work[v].s].shown # None
        /\ work[v].pc = "callback" /\ work[v].live /\ Settled(work[v].s) =>
             Suits(work[v].b, sess[work[v].s].screen)
    BY <2>3 DEF IInv, PressInv, Registered
  <2>5. CASE work[v].s # s
    <3>1. Settled(work[v].s)' => Settled(work[v].s)
      BY <1>0, <1>2, <1>8, <2>2, <2>5 DEF Settled
    <3> QED
      BY <1>0, <1>2, <2>2, <2>4, <2>5, <3>1
  <2>6. CASE work[v].s = s /\ work' = [Rotated(s) EXCEPT ![w] = j] /\ x.shown # None
    <3>1. \A u \in Workers \ {w} :
            work'[u].pc \in {"start", "callback"} /\ work'[u].s = s => ~work'[u].live
      BY <1>0, <2>6, OtherJobs DEF IInv
    <3>2. ~work'[v].live
      BY <2>1, <2>2, <2>6, <3>1
    <3> QED
      BY <1>2, <2>2, <2>6, <3>2
  <2>7. CASE work[v].s = s /\ (x.shown = None <=> sess[s].shown = None)
             /\ (j.pc \in {"render", "commit"} \/ (Settled(s) /\ x.screen = sess[s].screen))
    <3>1. Settled(s)' => j.pc \notin {"render", "commit"}
      BY <1>0, <1>1, <1>2 DEF Settled, Held
    <3> QED
      BY <1>2, <2>2, <2>4, <2>7, <3>1
  <2>8. byUser'[x.owner] # s => work[v].s # s
    BY <1>2, <2>2
  <2> QED
    BY <2>5, <2>6, <2>7, <2>8
<1> QED
  BY <1>4, <1>9, <1>10, <1>11, <1>12, <1>13, <1>14 DEF IInv
\* What a job must find in its session when it is taken up without the lock
Arrives(j) ==
  /\ j.pc \in {"link", "revoked", "start", "callback", "match", "answer"} => j.s \in Open
  /\ j.pc \in {"input", "match"} => j.p[1] \in Open
  /\ j.pc = "register" /\ j.prev # 0 => j.prev \in Open /\ sess[j.prev].owner = j.u
  /\ j.pc = "start" => sess[j.s].shown = None
  /\ j.pc = "callback" => sess[j.s].shown # None /\ Suits(j.b, sess[j.s].screen)

\* Steps that change no session
LEMMA QuietStep ==
  ASSUME IInv, UNCHANGED <<sess, opened, tour>>,
         byUser' \in [Users -> {0} \cup Sessions], \A u \in Users : byUser'[u] \in {0, byUser[u]},
         rev' \in Revisions, \A c \in Scopes : rev[c] <= rev'[c],
         work' \in [Workers -> Jobs],
         \A v \in Workers :
           \/ work'[v] = work[v]
           \/ work[v].pc \notin Held /\ work'[v].pc \notin Held /\ Arrives(work'[v])
  PROVE  IInv'
<1>0. /\ opened \in {0} \cup Sessions /\ Open \subseteq Sessions
      /\ sess \in [Sessions -> PanelSessions] /\ rev \in Revisions
      /\ work \in [Workers -> Jobs] /\ byUser \in [Users -> {0} \cup Sessions]
      /\ 0 \notin Sessions
  BY PanelAssumption DEF IInv, TypeOK, Open, Sessions
<1>1. TypeOK'
  BY <1>0 DEF IInv, TypeOK
<1>2. \A s \in Open : sess[s].lock # None =>
        /\ sess[s].lock \in Workers /\ work[sess[s].lock].pc \in Held
        /\ work[sess[s].lock].s = s /\ work'[sess[s].lock] = work[sess[s].lock]
  BY <1>0, SessionFields DEF IInv, LockInv
<1>3. LockInv'
  BY <1>0, <1>2 DEF LockInv, Open
<1>4. SessionInv'
  <2>1. ASSUME NEW t \in Open
        PROVE  /\ sess[t].owner \in Users
               /\ Remembers(sess[t], rev')
               /\ \/ sess[t].shown = None
                  \/ sess[t].lock # None /\ work'[sess[t].lock].pc = "render"
                  \/ Shows(sess[t], sess[t].shown, rev')
    <3>1. sess[t] \in PanelSessions /\ (sess[t].shown # None => sess[t].shown \in Revisions)
      BY <1>0, SessionFields
    <3> QED
      BY <1>0, <1>2, <3>1, RevisionsRise DEF IInv, SessionInv
  <2> QED
    BY <2>1 DEF SessionInv, Open
<1>5. HolderInv'
  <2> SUFFICES ASSUME NEW v \in Workers, work'[v].pc \in Held
               PROVE  /\ sess[work'[v].s].lock = v
                      /\ HeldFits(work'[v], sess[work'[v].s], rev')
    BY DEF HolderInv
  <2>1. work'[v] = work[v] /\ work[v] \in Jobs /\ work[v].s \in Open
    BY <1>0 DEF IInv, JobInv
  <2>2. sess[work[v].s] \in PanelSessions
    BY <1>0, <2>1
  <2>3. sess[work[v].s].lock = v /\ HeldFits(work[v], sess[work[v].s], rev)
    BY <2>1 DEF IInv, HolderInv
  <2> QED
    BY <1>0, <2>1, <2>2, <2>3, RevisionsRise
<1>6. JobInv'
  <2> SUFFICES ASSUME NEW v \in Workers
        PROVE  /\ work'[v].pc \in Held \cup {"link", "revoked", "start", "callback", "match", "answer"}
                    => work'[v].s \in Open
               /\ work'[v].pc \in {"input", "match"} => work'[v].p[1] \in Open
               /\ work'[v].pc = "register" /\ work'[v].prev # 0 =>
                    work'[v].prev \in Open /\ sess[work'[v].prev].owner = work'[v].u
    BY DEF JobInv, Open
  <2>1. CASE work'[v] = work[v]
    BY <2>1 DEF IInv, JobInv
  <2>2. CASE work'[v].pc \notin Held /\ Arrives(work'[v])
    BY <2>2 DEF Arrives
  <2> QED
    BY <2>1, <2>2
<1>7. MapInv'
  <2>1. \A u \in Users : byUser'[u] # 0 =>
          byUser'[u] \in Open /\ sess[byUser'[u]].owner = u /\ sess[byUser'[u]].group \in Groups
    BY DEF IInv, MapInv
  <2>2. \A t \in Open : sess[t].replaced => sess[t].lock = None /\ byUser'[sess[t].owner] # t
    BY <1>0 DEF IInv, MapInv, SessionInv, Registered
  <2> QED
    BY <2>1, <2>2 DEF IInv, MapInv, Open, Registered
<1>8. PressInv'
  <2> SUFFICES ASSUME NEW v \in Workers, work'[v].pc \in {"start", "callback"},
                      byUser'[sess[work'[v].s].owner] = work'[v].s
        PROVE  /\ work'[v].pc = "start" /\ work'[v].live => sess[work'[v].s].shown = None
               /\ work'[v].pc = "callback" => sess[work'[v].s].shown # None
               /\ work'[v].pc = "callback" /\ work'[v].live /\ Settled(work[v].s)' =>
                    Suits(work'[v].b, sess[work'[v].s].screen)
    BY DEF PressInv, Registered
  <2>1. CASE work'[v].pc \notin Held /\ Arrives(work'[v])
    BY <2>1 DEF Arrives
  <2>2. CASE work'[v] = work[v]
    <3>1. work[v].s \in Open /\ sess[work[v].s].owner \in Users /\ work[v].s # 0
      BY <1>0, <2>2 DEF IInv, JobInv, SessionInv
    <3>2. byUser[sess[work[v].s].owner] = work[v].s
      BY <2>2, <3>1
    <3>3. Settled(work[v].s)' => Settled(work[v].s)
      BY <1>2, <2>2, <3>1 DEF Settled
    <3> QED
      BY <2>2, <3>2, <3>3 DEF IInv, PressInv, Registered
  <2> QED
    BY <2>1, <2>2
<1> QED
  BY <1>1, <1>3, <1>4, <1>5, <1>6, <1>7, <1>8 DEF IInv

-----------------------------------------------------------------------------
(* The ways a handler leaves a session *)

\* What every step that ends with the session finished, rendered, unlocked or submitted knows:
\* the lock is free or its own.
MayChange(w, s) ==
  /\ s \in Open
  /\ sess[s].lock \in {None, w}
  /\ work[w].pc \in Held => work[w].s = s

LEMMA HolderMayChange ==
  ASSUME IInv, NEW w \in Workers, work[w].pc \in Held
  PROVE  /\ MayChange(w, work[w].s) /\ sess[work[w].s].lock = w /\ ~sess[work[w].s].replaced
         /\ HeldFits(work[w], sess[work[w].s], rev)
<1>1. sess[work[w].s].lock = w /\ work[w].s \in Open /\ w # None
      /\ HeldFits(work[w], sess[work[w].s], rev)
  BY PanelAssumption DEF IInv, HolderInv, JobInv
<1> QED
  BY <1>1 DEF MayChange, IInv, MapInv

LEMMA OpenSession ==
  ASSUME IInv, NEW s \in Open
  PROVE  /\ s \in Sessions /\ s # 0 /\ sess[s] \in PanelSessions /\ sess[s].owner \in Users
         /\ Remembers(sess[s], rev) /\ rev \in Revisions /\ sess \in [Sessions -> PanelSessions]
         /\ work \in [Workers -> Jobs]
BY PanelAssumption DEF IInv, TypeOK, SessionInv, Open, Sessions

LEMMA FinishStep ==
  ASSUME IInv, NEW w \in Workers, NEW s, MayChange(w, s), FinishSession(w, s),
         UNCHANGED <<rev, opened, tour>>
  PROVE  IInv'
<1> DEFINE x == [NoSession EXCEPT !.owner = sess[s].owner]
<1>1. s \in Open /\ sess[s].owner \in Users /\ rev \in Revisions /\ s # 0
  BY OpenSession DEF MayChange
<1>2. x \in PanelSessions /\ x.owner = sess[s].owner /\ x.lock = None /\ ~x.replaced
      /\ x.shown = None /\ x.draft = None /\ x.pending = None /\ x.screen = "gl"
      /\ x.rev = 0 /\ x.grev = 0
  BY <1>1, NoSessionType DEF NoSession
<1>3. Idle \in Jobs /\ Idle.pc = "idle"
  BY DEF Idle, Jobs
<1>4. sess' = [sess EXCEPT ![s] = x] /\ work' = [work EXCEPT ![w] = Idle]
      /\ byUser' = [u \in Users |-> IF byUser[u] = s THEN 0 ELSE byUser[u]]
  BY DEF FinishSession, Unregister, Go
<1>5. byUser'[x.owner] # s
  BY <1>1, <1>2, <1>4
<1>6. Remembers(x, rev')
  BY <1>2 DEF Remembers
<1>7. HeldFits(Idle, x, rev')
  BY <1>3 DEF HeldFits, Held
<1>8. \A c \in Scopes : rev[c] <= rev'[c]
  BY <1>1 DEF Revisions
<1> HIDE DEF x
<1> QED
  BY <1>1, <1>2, <1>3, <1>4, <1>5, <1>6, <1>7, <1>8, SessionStep DEF MayChange, Held

\* A screen that captures the bot-wide revision anew keeps everything else.
LEMMA RecapturedSession ==
  ASSUME NEW x \in PanelSessions, NEW r \in Revisions
  PROVE  LET z == Recaptured(x, r) IN
         /\ z \in PanelSessions /\ z.owner = x.owner /\ z.lock = x.lock /\ z.replaced = x.replaced
         /\ z.shown = x.shown /\ z.pending = x.pending
         /\ Remembers(x, r) => Remembers(z, r)
         /\ Shows(x, r, r) => Shows(z, r, r)
<1> DEFINE z == Recaptured(x, r)
           y == [x EXCEPT !.grev = r[Global]]
<1>1. r[Global] \in Nat
  BY ScopesHaveGroups DEF Revisions
<1>2. /\ y \in PanelSessions /\ y.owner = x.owner /\ y.lock = x.lock /\ y.replaced = x.replaced
      /\ y.shown = x.shown /\ y.draft = x.draft /\ y.pending = x.pending /\ y.screen = x.screen
      /\ y.group = x.group /\ y.rev = x.rev /\ y.grev = r[Global] /\ y.confirm = x.confirm
  BY <1>1 DEF PanelSessions
<1>3. z = x \/ (z = y /\ x.screen \notin {"gl", "in"})
  BY DEF Recaptured
<1> HIDE DEF z, y
<1>4. Remembers(x, r) => Remembers(z, r)
  BY <1>2, <1>3 DEF Remembers
<1>5. Shows(x, r, r) => Shows(z, r, r)
  BY <1>1, <1>2, <1>3 DEF Shows
<1> QED
  BY <1>2, <1>3, <1>4, <1>5 DEF z

\* What a changed session x must keep to be rendered, unlocked or submitted
LEMMA RenderStep ==
  ASSUME IInv, NEW w \in Workers, NEW s, MayChange(w, s), NEW x \in PanelSessions,
         NEW then \in {"done", "prompt"}, RenderSession(w, s, x, then),
         x.owner = sess[s].owner, ~x.replaced, Remembers(x, rev), Shows(x, rev, rev),
         then = "prompt" => x.pending # None,
         x.shown = None <=> sess[s].shown = None,
         UNCHANGED <<rev, opened, byUser, tour>>
  PROVE  IInv'
<1> DEFINE z == Recaptured(x, rev)
           y == [z EXCEPT !.lock = w]
           j == [pc |-> "render", s |-> s, then |-> then, built |-> [c \in Scopes |-> rev[c]]]
<1>1. s \in Open /\ s \in Sessions /\ rev \in Revisions /\ [c \in Scopes |-> rev[c]] = rev
  BY OpenSession DEF MayChange, Revisions
<1>2. /\ y \in PanelSessions /\ y.owner = x.owner /\ y.lock = w /\ y.replaced = x.replaced
      /\ y.shown = x.shown /\ y.pending = x.pending /\ Remembers(y, rev) /\ Shows(y, rev, rev)
  <2>1. /\ z \in PanelSessions /\ z.owner = x.owner /\ z.replaced = x.replaced /\ z.shown = x.shown
        /\ z.pending = x.pending /\ Remembers(z, rev) /\ Shows(z, rev, rev)
    BY <1>1, RecapturedSession
  <2> HIDE DEF z
  <2>2. /\ y \in PanelSessions /\ y.owner = z.owner /\ y.lock = w /\ y.replaced = z.replaced
        /\ y.shown = z.shown /\ y.draft = z.draft /\ y.pending = z.pending /\ y.screen = z.screen
        /\ y.group = z.group /\ y.rev = z.rev /\ y.grev = z.grev /\ y.confirm = z.confirm
    BY <2>1 DEF PanelSessions
  <2> HIDE DEF y
  <2>3. Remembers(y, rev) /\ Shows(y, rev, rev)
    BY <2>1, <2>2 DEF Remembers, Shows
  <2> QED
    BY <2>1, <2>2, <2>3
<1>3. j \in Jobs /\ j.pc = "render" /\ j.s = s /\ j.then = then /\ j.built = rev
  BY <1>1 DEF Jobs
<1>4. sess' = [sess EXCEPT ![s] = y] /\ work' = [work EXCEPT ![w] = j]
  BY DEF RenderSession, Go
<1> HIDE DEF z, y, j
<1>5. Remembers(y, rev') /\ y.group \in Groups
  BY <1>2 DEF Remembers, Shows
<1>6. HeldFits(j, y, rev')
  BY <1>2, <1>3 DEF HeldFits, Shows
<1>7. \A c \in Scopes : rev[c] <= rev'[c]
  BY <1>1 DEF Revisions
<1> QED
  BY <1>1, <1>2, <1>3, <1>4, <1>5, <1>6, <1>7, SessionStep DEF MayChange, Held

LEMMA UnlockStep ==
  ASSUME IInv, NEW w \in Workers, NEW s, MayChange(w, s), NEW x \in PanelSessions,
         Unlock(w, s, x), x.owner = sess[s].owner, x.replaced => sess[s].replaced,
         Remembers(x, rev), Shows(x, x.shown, rev),
         x.shown = sess[s].shown, x.screen = sess[s].screen, Settled(s),
         UNCHANGED <<rev, opened, tour>>
  PROVE  IInv'
<1> DEFINE y == [x EXCEPT !.lock = None]
<1>1. s \in Open /\ s \in Sessions /\ rev \in Revisions
  BY OpenSession DEF MayChange
<1>2. /\ y \in PanelSessions /\ y.owner = x.owner /\ y.lock = None /\ y.replaced = x.replaced
      /\ y.shown = x.shown /\ y.draft = x.draft /\ y.pending = x.pending /\ y.screen = x.screen
      /\ y.group = x.group /\ y.rev = x.rev /\ y.grev = x.grev /\ y.confirm = x.confirm
  BY DEF PanelSessions
<1>3. Idle \in Jobs /\ Idle.pc = "idle"
  BY DEF Idle, Jobs
<1>4. sess' = [sess EXCEPT ![s] = y] /\ work' = [work EXCEPT ![w] = Idle] /\ byUser' = byUser
  BY DEF Unlock, Go
<1> HIDE DEF y
<1>5. Remembers(y, rev') /\ Shows(y, y.shown, rev') /\ y.group \in Groups
  BY <1>2 DEF Remembers, Shows
<1>6. HeldFits(Idle, y, rev')
  BY <1>3 DEF HeldFits, Held
<1>7. \A c \in Scopes : rev[c] <= rev'[c]
  BY <1>1 DEF Revisions
<1>8. /\ y.lock = IF Idle.pc \in Held THEN w ELSE None
      /\ Idle.pc \in Held \cup {"idle", "input"} /\ Idle.pc \notin Held
      /\ y.replaced => sess[s].replaced
      /\ y.shown = None <=> sess[s].shown = None
      /\ Settled(s) /\ y.screen = sess[s].screen
  BY <1>2, <1>3 DEF Held
<1>9. sess[s].lock \in {None, w} /\ (work[w].pc \in Held => work[w].s = s)
  BY DEF MayChange
<1> QED
  BY ZenonT(60), <1>1, <1>2, <1>3, <1>4, <1>5, <1>6, <1>7, <1>8, <1>9, SessionStep

LEMMA SubmitStep ==
  ASSUME IInv, NEW w \in Workers, NEW s, MayChange(w, s), NEW x \in PanelSessions,
         NEW scope \in Scopes, NEW seen \in Nat, NEW merge \in BOOLEAN,
         Submit(w, s, x, scope, seen, merge),
         x.owner = sess[s].owner, ~x.replaced, Remembers(x, rev),
         x.shown # None, Shows(x, x.shown, rev), sess[s].shown # None, x.pending = None,
         scope \in {x.group, Global}, Expected(x, scope) <= seen, seen <= rev[scope],
         UNCHANGED <<rev, opened, byUser, tour>>
  PROVE  IInv'
<1> DEFINE y == [x EXCEPT !.lock = w]
           j == [pc |-> "commit", s |-> s, scope |-> scope, seen |-> seen, merge |-> merge]
<1>1. s \in Open /\ s \in Sessions /\ rev \in Revisions
  BY OpenSession DEF MayChange
<1>2. /\ y \in PanelSessions /\ y.owner = x.owner /\ y.lock = w /\ y.replaced = x.replaced
      /\ y.shown = x.shown /\ y.draft = x.draft /\ y.pending = x.pending /\ y.screen = x.screen
      /\ y.group = x.group /\ y.rev = x.rev /\ y.grev = x.grev /\ y.confirm = x.confirm
  BY DEF PanelSessions
<1>3. j \in Jobs /\ j.pc = "commit" /\ j.s = s /\ j.scope = scope /\ j.seen = seen
  BY <1>1 DEF Jobs
<1>4. sess' = [sess EXCEPT ![s] = y] /\ work' = [work EXCEPT ![w] = j]
  BY DEF Submit, Go
<1> HIDE DEF y, j
<1>5. Remembers(y, rev') /\ Shows(y, y.shown, rev') /\ y.group \in Groups
  BY <1>2 DEF Remembers, Shows
<1>6. HeldFits(j, y, rev')
  BY <1>2, <1>3 DEF HeldFits, Expected, Held
<1>7. \A c \in Scopes : rev[c] <= rev'[c]
  BY <1>1 DEF Revisions
<1> QED
  BY <1>1, <1>2, <1>3, <1>4, <1>5, <1>6, <1>7, SessionStep DEF MayChange, Held
-----------------------------------------------------------------------------
(* Opening a panel *)

LEMMA ReplacedSession ==
  ASSUME NEW x \in PanelSessions, NEW y, y = [x EXCEPT !.pending = None, !.replaced = TRUE]
  PROVE  /\ y \in PanelSessions /\ y.owner = x.owner /\ y.lock = x.lock /\ y.shown = x.shown
         /\ y.draft = x.draft /\ y.pending = None /\ y.screen = x.screen /\ y.group = x.group
         /\ y.rev = x.rev /\ y.grev = x.grev /\ y.confirm = x.confirm
BY DEF PanelSessions

LEMMA RegisterStep ==
  ASSUME IInv, NEW w \in Workers, RegisterSession(w)
  PROVE  IInv'
<1> DEFINE u == work[w].u
           prev == work[w].prev
           s == opened + 1
           x == [NoSession EXCEPT !.owner = u, !.group = work[w].g]
           y == [sess[prev] EXCEPT !.pending = None, !.replaced = TRUE]
           link == [pc |-> "link", s |-> s]
<1>0. /\ opened' = s
      /\ sess' = [i \in Sessions |-> IF i = s THEN x ELSE IF i = prev THEN y ELSE sess[i]]
      /\ byUser' = [byUser EXCEPT ![u] = s]
      /\ work' = [work EXCEPT ![w] = link]
      /\ UNCHANGED <<rev, tour>>
      /\ work[w].pc = "register" /\ Quiet(prev) /\ opened < tour.sessions
  BY DEF RegisterSession, Go, At
<1>1. /\ opened \in {0} \cup Sessions /\ sess \in [Sessions -> PanelSessions] /\ rev \in Revisions
      /\ work \in [Workers -> Jobs] /\ byUser \in [Users -> {0} \cup Sessions] /\ tour \in Tours
      /\ MaxSessions \in Nat
  BY PanelAssumption DEF IInv, TypeOK
<1>2. /\ s \in Sessions /\ s \notin Open /\ Open' = Open \cup {s} /\ Open \subseteq Sessions
      /\ s # 0 /\ 0 \notin Open
  <2>1. tour.sessions \in 0 .. MaxSessions
    BY <1>1, ToursAssumption
  <2> QED
    BY <1>0, <1>1, <2>1 DEF Open, Sessions
<1>3. u \in Users /\ work[w].g \in Groups /\ (prev # 0 => prev \in Open /\ sess[prev].owner = u)
      /\ prev \in {0} \cup Sessions /\ prev # s
  <2>1. work[w] \in Jobs
    BY <1>1
  <2> QED
    BY <1>0, <1>2, <2>1, JobFields DEF IInv, JobInv
<1>4. /\ x \in PanelSessions /\ x.owner = u /\ x.lock = None /\ ~x.replaced
      /\ x.shown = None /\ x.draft = None /\ x.pending = None /\ x.screen = "gl"
      /\ x.rev = 0 /\ x.grev = 0 /\ x.group \in Groups
  BY <1>3 DEF NoSession, PanelSessions, Screens, Parents
<1>5. prev # 0 =>
        /\ y \in PanelSessions /\ y.owner = u /\ y.lock = None /\ sess[prev].lock = None
        /\ y.shown = sess[prev].shown /\ y.draft = sess[prev].draft /\ y.pending = None
        /\ y.screen = sess[prev].screen /\ y.group = sess[prev].group /\ y.rev = sess[prev].rev
        /\ y.grev = sess[prev].grev /\ y.confirm = sess[prev].confirm
  <2> SUFFICES ASSUME prev # 0
               PROVE  /\ y \in PanelSessions /\ y.owner = u /\ y.lock = None /\ sess[prev].lock = None
                      /\ y.shown = sess[prev].shown /\ y.draft = sess[prev].draft /\ y.pending = None
                      /\ y.screen = sess[prev].screen /\ y.group = sess[prev].group
                      /\ y.rev = sess[prev].rev /\ y.grev = sess[prev].grev
                      /\ y.confirm = sess[prev].confirm
    OBVIOUS
  <2>1. sess[prev] \in PanelSessions /\ sess[prev].owner = u /\ sess[prev].lock = None
    BY <1>0, <1>1, <1>2, <1>3 DEF Quiet
  <2> QED
    BY <2>1, ReplacedSession
<1>6. link \in Jobs /\ link.pc = "link" /\ link.s = s
  BY <1>2 DEF Jobs
<1> HIDE DEF u, prev, s, x, y, link
<1>7. /\ sess'[s] = x /\ (prev # 0 => sess'[prev] = y)
      /\ \A t \in Open \ {prev} : sess'[t] = sess[t]
      /\ \A t \in Open : /\ sess'[t].owner = sess[t].owner /\ sess'[t].lock = sess[t].lock
                         /\ sess'[t].shown = sess[t].shown /\ sess'[t].screen = sess[t].screen
                         /\ sess'[t].group = sess[t].group
  BY <1>0, <1>2, <1>3, <1>5
<1>8. /\ work' \in [Workers -> Jobs] /\ work'[w] = link
      /\ \A v \in Workers \ {w} : work'[v] = work[v]
  BY <1>0, <1>1, <1>6
<1>9. TypeOK'
  <2>1. sess' \in [Sessions -> PanelSessions]
    <3>1. 0 \notin Sessions
      BY DEF Sessions
    <3> QED
      BY <1>0, <1>1, <1>4, <1>5, <3>1
  <2>2. byUser' \in [Users -> {0} \cup Sessions]
    BY <1>0, <1>1, <1>2
  <2> QED
    BY <1>0, <1>1, <1>2, <1>8, <2>1, <2>2 DEF TypeOK
<1>10. \A t \in Open : sess[t].lock # None =>
         /\ sess[t].lock \in Workers \ {w} /\ work[sess[t].lock].pc \in Held
         /\ work[sess[t].lock].s = t /\ t # prev
  <2>1. ASSUME NEW t \in Open, sess[t].lock # None
        PROVE  /\ sess[t].lock \in Workers \ {w} /\ work[sess[t].lock].pc \in Held
               /\ work[sess[t].lock].s = t /\ t # prev
    <3>1. sess[t] \in PanelSessions
      BY <1>1, <1>2
    <3> QED
      BY <1>0, <1>2, <1>5, <2>1, <3>1, SessionFields DEF IInv, LockInv, Held
  <2> QED
    BY <2>1
<1>11. LockInv'
  BY <1>2, <1>4, <1>7, <1>8, <1>10 DEF LockInv
<1>12. SessionInv'
  <2>1. ASSUME NEW t \in Open \ {prev}
        PROVE  /\ sess'[t].owner \in Users /\ Remembers(sess'[t], rev')
               /\ \/ sess'[t].shown = None
                  \/ sess'[t].lock # None /\ work'[sess'[t].lock].pc = "render"
                  \/ Shows(sess'[t], sess'[t].shown, rev')
    BY <1>0, <1>7, <1>8, <1>10 DEF IInv, SessionInv
  <2>2. prev # 0 => y.owner \in Users /\ Remembers(y, rev) /\ (y.shown = None \/ Shows(y, y.shown, rev))
    BY <1>3, <1>5 DEF IInv, SessionInv, Remembers, Shows
  <2>3. Remembers(x, rev)
    BY <1>4 DEF Remembers
  <2>4. ASSUME NEW t \in Open'
        PROVE  /\ sess'[t].owner \in Users /\ Remembers(sess'[t], rev')
               /\ \/ sess'[t].shown = None
                  \/ sess'[t].lock # None /\ work'[sess'[t].lock].pc = "render"
                  \/ Shows(sess'[t], sess'[t].shown, rev')
    <3>1. CASE t = s
      BY <1>0, <1>3, <1>4, <1>7, <2>3, <3>1
    <3>2. CASE t = prev /\ prev # 0
      BY <1>0, <1>7, <2>2, <3>2
    <3> QED
      BY <1>2, <2>1, <3>1, <3>2
  <2> QED
    BY <2>4 DEF SessionInv
<1>13. HolderInv'
  <2> SUFFICES ASSUME NEW v \in Workers, work'[v].pc \in Held
               PROVE  /\ sess'[work'[v].s].lock = v
                      /\ HeldFits(work'[v], sess'[work'[v].s], rev')
    BY DEF HolderInv
  <2>1. v # w /\ work'[v] = work[v]
    BY <1>6, <1>8 DEF Held
  <2>2. work[v].s \in Open /\ sess[work[v].s].lock = v /\ v # None
        /\ HeldFits(work[v], sess[work[v].s], rev)
    BY <2>1, PanelAssumption DEF IInv, JobInv, HolderInv
  <2>3. sess'[work[v].s] = sess[work[v].s]
    BY <1>7, <1>10, <2>2
  <2> QED
    BY <1>0, <2>1, <2>2, <2>3
<1>14. JobInv'
  <2> SUFFICES ASSUME NEW v \in Workers
        PROVE  /\ work'[v].pc \in Held \cup {"link", "revoked", "start", "callback", "match", "answer"}
                    => work'[v].s \in Open'
               /\ work'[v].pc \in {"input", "match"} => work'[v].p[1] \in Open'
               /\ work'[v].pc = "register" /\ work'[v].prev # 0 =>
                    work'[v].prev \in Open' /\ sess'[work'[v].prev].owner = work'[v].u
    BY DEF JobInv
  <2>1. CASE v = w
    BY <1>2, <1>6, <1>8, <2>1
  <2>2. CASE v # w
    BY <1>2, <1>7, <1>8, <2>2 DEF IInv, JobInv
  <2> QED
    BY <2>1, <2>2
<1>15. MapInv'
  <2>1. ASSUME NEW v \in Users, byUser'[v] # 0
        PROVE  /\ byUser'[v] \in Open' /\ sess'[byUser'[v]].owner = v
               /\ sess'[byUser'[v]].group \in Groups
    <3>1. CASE v = u
      BY <1>0, <1>1, <1>2, <1>3, <1>4, <1>7, <3>1
    <3>2. CASE v # u
      <4>1. byUser'[v] = byUser[v]
        BY <1>0, <1>1, <3>2
      <4>2. byUser[v] \in Open /\ sess[byUser[v]].owner = v /\ sess[byUser[v]].group \in Groups
        BY <2>1, <4>1 DEF IInv, MapInv
      <4> QED
        BY <1>2, <1>7, <4>1, <4>2
    <3> QED
      BY <3>1, <3>2
  <2>2. \A t \in Sessions \ Open' : sess'[t] = NoSession
    <3>1. \A t \in Sessions \ Open' : t # s /\ (t = prev => prev = 0) /\ t \notin Open
      BY <1>2, <1>3
    <3>2. 0 \notin Sessions
      BY DEF Sessions
    <3> QED
      BY <1>0, <3>1, <3>2 DEF IInv, MapInv
  <2>3. ASSUME NEW t \in Open', sess'[t].replaced
        PROVE  sess'[t].lock = None /\ byUser'[sess'[t].owner] # t
    <3>1. t # s /\ t \in Open
      BY <1>2, <1>4, <1>7, <2>3
    <3>2. CASE t = prev
      BY <1>0, <1>1, <1>2, <1>3, <1>5, <1>7, <3>1, <3>2
    <3>3. CASE t # prev
      <4>1. sess[t].replaced /\ sess[t].lock = None /\ byUser[sess[t].owner] # t
            /\ sess[t].owner \in Users
        BY <1>7, <2>3, <3>1, <3>3 DEF IInv, MapInv, Registered, SessionInv
      <4> QED
        BY <1>0, <1>1, <1>7, <3>1, <4>1
    <3> QED
      BY <3>2, <3>3
  <2> QED
    BY <2>1, <2>2, <2>3 DEF MapInv, Registered
<1>16. PressInv'
  <2> SUFFICES ASSUME NEW v \in Workers, work'[v].pc \in {"start", "callback"},
                      byUser'[sess'[work'[v].s].owner] = work'[v].s
        PROVE  /\ work'[v].pc = "start" /\ work'[v].live => sess'[work'[v].s].shown = None
               /\ work'[v].pc = "callback" => sess'[work'[v].s].shown # None
               /\ work'[v].pc = "callback" /\ work'[v].live /\ Settled(work[v].s)' =>
                    Suits(work'[v].b, sess'[work'[v].s].screen)
    BY DEF PressInv, Registered
  <2>1. work'[v] = work[v]
    BY <1>6, <1>8
  <2>2. work[v].s \in Open /\ sess[work[v].s].owner \in Users
    BY <2>1 DEF IInv, JobInv, SessionInv
  <2>3. byUser[sess[work[v].s].owner] = work[v].s
    BY <1>0, <1>1, <1>2, <1>7, <2>1, <2>2
  <2>4. Settled(work[v].s)' => Settled(work[v].s)
    <3>1. sess'[work[v].s].lock = sess[work[v].s].lock
      BY <1>7, <2>2
    <3>2. sess[work[v].s].lock # None =>
            work'[sess[work[v].s].lock].pc = work[sess[work[v].s].lock].pc
      BY <1>8, <1>10, <2>2
    <3> QED
      BY <2>1, <3>1, <3>2 DEF Settled
  <2> QED
    BY <1>7, <2>1, <2>2, <2>3, <2>4 DEF IInv, PressInv, Registered
<1> QED
  BY <1>9, <1>11, <1>12, <1>13, <1>14, <1>15, <1>16 DEF IInv
-----------------------------------------------------------------------------
(* Buttons *)

LEMMA AdoptedSession ==
  ASSUME NEW x \in PanelSessions, NEW b, rev \in Revisions, x.group \in Groups, NEW y, y = Adopted(x, b)
  PROVE  /\ y \in PanelSessions /\ y.owner = x.owner /\ y.lock = x.lock /\ y.shown = x.shown
         /\ y.draft = x.draft /\ y.pending = x.pending /\ y.screen = x.screen
         /\ y.group = x.group /\ y.grev = x.grev /\ y.confirm = x.confirm
         /\ y.replaced = x.replaced /\ y.list = x.list /\ y.channel = x.channel
         /\ y.rev \in {x.rev, rev[x.group]}
         /\ RevisionSensitive(b) \/ x.screen = "gl" => y = x
<1>1. rev[x.group] \in Nat
  BY ScopesHaveGroups DEF Revisions
<1>2. CASE y = x
  BY <1>2
<1>3. CASE y = [x EXCEPT !.rev = rev[x.group]] /\ ~(RevisionSensitive(b) \/ x.screen = "gl")
  BY <1>1, <1>3 DEF PanelSessions
<1> QED
  BY <1>2, <1>3 DEF Adopted

\* What a press finds that its token, the lock and the revision allow
LEMMA PressFacts ==
  ASSUME IInv, NEW w \in Workers, NEW b, Pressed(w, b),
         NEW s, s = work[w].s, NEW x, x = sess[s], NEW y, y = Session(w)
  PROVE  /\ MayChange(w, s) /\ work[w].b = b /\ b \in Presses
         /\ x \in PanelSessions /\ ~x.replaced /\ Settled(s) /\ x.shown \in Revisions
         /\ x.shown # None /\ Shows(x, x.shown, rev) /\ Remembers(x, rev) /\ Suits(b, x.screen)
         /\ y \in PanelSessions /\ y.owner = x.owner /\ y.lock = x.lock /\ y.shown = x.shown
         /\ y.draft = x.draft /\ y.pending = x.pending /\ y.screen = x.screen
         /\ y.group = x.group /\ y.grev = x.grev /\ y.confirm = x.confirm
         /\ y.replaced = x.replaced /\ y.list = x.list /\ y.channel = x.channel
         /\ y.rev \in {x.rev, rev[x.group]}
         /\ RevisionSensitive(b) => y = x /\ x.rev = rev[x.group]
         /\ x.screen = "gl" => y = x
         /\ x.screen \in {"qd", "fd"} => y.draft # None /\ y.draft.rev = y.rev
         /\ x.screen = "cf" => y.confirm # None /\ y.confirm.rev = y.rev
<1>1. /\ work[w].pc = "callback" /\ work[w].b = b /\ x.lock = None /\ Registered(s) /\ work[w].live
      /\ ~Conflicts(x, b) /\ y = Adopted(x, b)
  BY DEF Pressed, At, Holds, Session
<1>2. work[w] \in Jobs /\ s \in Open
  BY <1>1 DEF IInv, TypeOK, JobInv
<1>3. MayChange(w, s) /\ Settled(s) /\ b \in Presses
  BY <1>1, <1>2, JobFields DEF MayChange, Settled, Held
<1>4. x \in PanelSessions /\ ~x.replaced /\ Remembers(x, rev) /\ rev \in Revisions
  BY <1>1, <1>2, OpenSession DEF IInv, MapInv
<1>5. x.shown # None /\ Suits(b, x.screen)
  BY <1>1, <1>3 DEF IInv, PressInv
<1>6. x.shown \in Revisions /\ Shows(x, x.shown, rev)
  BY <1>1, <1>2, <1>4, <1>5, SessionFields DEF IInv, SessionInv
<1>7. x.group \in Groups
  BY <1>6 DEF Shows
<1>8. RevisionSensitive(b) => x.rev = rev[x.group]
  BY <1>1 DEF Conflicts, Stale
<1>9. /\ x.screen \in {"qd", "fd"} => y.draft # None /\ y.draft.rev = y.rev
      /\ x.screen = "cf" => y.confirm # None /\ y.confirm.rev = y.rev
  BY <1>1 DEF Conflicts, DraftHolds, ConfirmHolds
<1> QED
  BY SMTT(30), <1>1, <1>3, <1>4, <1>5, <1>6, <1>7, <1>8, <1>9, AdoptedSession

\* A pressed session as it is rendered: its revisions are in force, and it keeps what it holds
\* while the screen is no longer one of a prompt or a confirmation.
LEMMA PressedShows ==
  ASSUME IInv, NEW w \in Workers, NEW b, Pressed(w, b),
         NEW s, s = work[w].s, NEW y, y = Session(w)
  PROVE  Shows(y, rev, rev)
<1>1. /\ Shows(sess[s], sess[s].shown, rev) /\ sess[s].shown \in Revisions /\ sess[s] \in PanelSessions
      /\ y.group = sess[s].group /\ y.grev = sess[s].grev /\ y.rev \in {sess[s].rev, rev[sess[s].group]}
  BY PressFacts
<1>2. rev \in Revisions
  BY DEF IInv, TypeOK
<1> QED
  BY <1>1, <1>2, SessionFields, ScopesHaveGroups DEF Shows, Revisions

LEMMA PressedRemembers ==
  ASSUME IInv, NEW w \in Workers, NEW b, Pressed(w, b), b # B("cancel", "in"),
         NEW s, s = work[w].s, NEW y, y = Session(w)
  PROVE  /\ y.pending = None /\ y.screen # "in"
         /\ Remembers(y, rev)
         /\ y.draft # None => y.draft \in Drafts /\ y.draft.rev <= y.draft.seen
                              /\ y.draft.seen <= rev[y.group] /\ y.screen # "gl"
<1>1. /\ Remembers(sess[s], rev) /\ sess[s] \in PanelSessions /\ Suits(b, sess[s].screen)
      /\ y \in PanelSessions /\ y.shown = sess[s].shown /\ y.draft = sess[s].draft
      /\ sess[s].shown # None /\ y.pending = sess[s].pending /\ y.screen = sess[s].screen /\ y.group = sess[s].group
      /\ y.confirm = sess[s].confirm
  BY PressFacts
<1>2. y.screen # "in"
  BY <1>1 DEF Suits
<1>3. y.pending = None
  BY <1>1, <1>2 DEF Remembers
<1>4. Remembers(y, rev)
  BY <1>1, <1>2, <1>3 DEF Remembers
<1> QED
  BY <1>1, <1>2, <1>3, <1>4, SessionFields DEF Remembers
-----------------------------------------------------------------------------
(* Steps that change no session *)

LEMMA IdleJob == Idle \in Jobs /\ Idle.pc = "idle" /\ Idle.pc \notin Held /\ Arrives(Idle)
BY DEF Idle, Jobs, Held, Arrives

\* Handler w takes up job j, or puts its job down, without the lock of a session.
LEMMA QuietGo ==
  ASSUME IInv, NEW w \in Workers, NEW j \in Jobs, Go(w, j),
         work[w].pc \notin Held, j.pc \notin Held, Arrives(j),
         byUser' \in [Users -> {0} \cup Sessions], \A u \in Users : byUser'[u] \in {0, byUser[u]},
         UNCHANGED <<rev, sess, opened, tour>>
  PROVE  IInv'
<1>1. work \in [Workers -> Jobs] /\ rev \in Revisions
  BY DEF IInv, TypeOK
<1>2. /\ work' \in [Workers -> Jobs] /\ work'[w] = j
      /\ \A v \in Workers \ {w} : work'[v] = work[v]
  BY <1>1 DEF Go
<1>3. rev' \in Revisions /\ \A c \in Scopes : rev[c] <= rev'[c]
  BY <1>1 DEF Revisions
<1> QED
  BY <1>2, <1>3, QuietStep

LEMMA UsersStay ==
  ASSUME IInv
  PROVE  /\ byUser \in [Users -> {0} \cup Sessions]
         /\ byUser' = byUser =>
              /\ byUser' \in [Users -> {0} \cup Sessions]
              /\ \A u \in Users : byUser'[u] \in {0, byUser[u]}
         /\ \A s : Unregister(s) =>
              /\ byUser' \in [Users -> {0} \cup Sessions]
              /\ \A u \in Users : byUser'[u] \in {0, byUser[u]}
         /\ \A v : byUser' = [byUser EXCEPT ![v] = 0] =>
              /\ byUser' \in [Users -> {0} \cup Sessions]
              /\ \A u \in Users : byUser'[u] \in {0, byUser[u]}
<1>1. byUser \in [Users -> {0} \cup Sessions]
  BY DEF IInv, TypeOK
<1>2. ASSUME NEW s, Unregister(s)
      PROVE  /\ byUser' \in [Users -> {0} \cup Sessions]
             /\ \A u \in Users : byUser'[u] \in {0, byUser[u]}
  BY <1>1, <1>2 DEF Unregister
<1>3. ASSUME NEW v, byUser' = [byUser EXCEPT ![v] = 0]
      PROVE  /\ byUser' \in [Users -> {0} \cup Sessions]
             /\ \A u \in Users : byUser'[u] \in {0, byUser[u]}
  BY <1>1, <1>3
<1> QED
  BY <1>1, <1>2, <1>3

LEMMA OnSettingsKeeps ==
  ASSUME IInv, NEW w \in Workers, NEW u \in Users, NEW g \in Groups, OnSettings(w, u, g)
  PROVE  IInv'
<1> DEFINE j == [pc |-> "launch", u |-> u, g |-> g]
<1>1. j \in Jobs /\ j.pc = "launch"
  BY DEF Jobs
<1>2. work[w].pc = "idle" /\ Go(w, j) /\ UNCHANGED <<rev, sess, opened, byUser, tour>>
  BY DEF OnSettings, At
<1> HIDE DEF j
<1> QED
  BY <1>1, <1>2, UsersStay, QuietGo DEF Held, Arrives

LEMMA NewSettingsSessionKeeps ==
  ASSUME IInv, NEW w \in Workers, NewSettingsSession(w)
  PROVE  IInv'
<1> DEFINE u == work[w].u
           j == [pc |-> "register", u |-> u, g |-> work[w].g, prev |-> byUser[u]]
<1>1. /\ work[w].pc = "launch" /\ (Go(w, Idle) \/ Go(w, j))
      /\ byUser' = [byUser EXCEPT ![u] = 0] /\ UNCHANGED <<rev, sess, opened, tour>>
  BY DEF NewSettingsSession, At
<1>2. work[w] \in Jobs /\ byUser \in [Users -> {0} \cup Sessions]
  BY DEF IInv, TypeOK
<1>3. u \in Users /\ work[w].g \in Groups
  BY <1>1, <1>2, JobFields
<1>4. j \in Jobs /\ j.pc = "register" /\ j.u = u /\ j.prev = byUser[u]
  BY <1>2, <1>3 DEF Jobs
<1>5. byUser[u] # 0 => byUser[u] \in Open /\ sess[byUser[u]].owner = u
  BY <1>3 DEF IInv, MapInv
<1> HIDE DEF j, u
<1>6. Arrives(j)
  BY <1>4, <1>5 DEF Arrives
<1> QED
  BY <1>1, <1>4, <1>6, IdleJob, UsersStay, QuietGo DEF Held

LEMMA SendLinkKeeps ==
  ASSUME IInv, NEW w \in Workers, SendLink(w)
  PROVE  IInv'
<1>1. /\ work[w].pc = "link" /\ Go(w, Idle) /\ UNCHANGED <<rev, sess, opened, tour>>
      /\ byUser' = byUser \/ Unregister(work[w].s)
  BY DEF SendLink, At
<1> QED
  BY <1>1, IdleJob, UsersStay, QuietGo DEF Held

LEMMA OpenSettingsStartKeeps ==
  ASSUME IInv, NEW w \in Workers, NEW s \in Sessions, OpenSettingsStart(w, s)
  PROVE  IInv'
<1> DEFINE j == [pc |-> "start", s |-> s, live |-> TRUE]
<1>1. /\ work[w].pc = "idle" /\ s <= opened /\ sess[s].shown = None
      /\ UNCHANGED <<rev, sess, opened, tour>>
      /\ \/ Go(w, j) /\ byUser' = byUser
         \/ work' = work /\ Unregister(s)
  BY DEF OpenSettingsStart, At
<1>2. s \in Open
  BY <1>1 DEF IInv, TypeOK, Open, Sessions
<1>3. j \in Jobs /\ j.pc = "start" /\ j.s = s
  BY DEF Jobs
<1> HIDE DEF j
<1>4. Arrives(j) /\ j.pc \notin Held
  BY <1>1, <1>2, <1>3 DEF Arrives, Held
<1>5. CASE Go(w, j) /\ byUser' = byUser
  BY <1>1, <1>3, <1>4, <1>5, UsersStay, QuietGo DEF Held
<1>6. CASE work' = work /\ Unregister(s)
  <2>1. work' \in [Workers -> Jobs] /\ rev' \in Revisions /\ \A c \in Scopes : rev[c] <= rev'[c]
    BY <1>1, <1>6 DEF IInv, TypeOK, Revisions
  <2> QED
    BY <1>1, <1>6, <2>1, UsersStay, QuietStep
<1> QED
  BY <1>1, <1>5, <1>6

LEMMA RefusedKeeps ==
  ASSUME IInv, NEW w \in Workers, Refused(w)
  PROVE  IInv'
<1>1. /\ work[w].pc \in {"start", "callback"} /\ Go(w, Idle)
      /\ UNCHANGED <<rev, sess, opened, byUser, tour>>
  BY DEF Refused
<1> QED
  BY <1>1, IdleJob, UsersStay, QuietGo DEF Held

LEMMA OnSettingsCallbackKeeps ==
  ASSUME IInv, NEW w \in Workers, NEW s \in Open, NEW b, OnSettingsCallback(w, s, b)
  PROVE  IInv'
<1> DEFINE press == [pc |-> "callback", s |-> s, b |-> b, live |-> TRUE]
           revoked == [pc |-> "revoked", s |-> s]
<1>1. /\ work[w].pc = "idle" /\ sess[s].shown # None /\ b \in Buttons(sess[s])
      /\ UNCHANGED <<rev, sess, opened, byUser, tour>>
      /\ Go(w, press) \/ Go(w, revoked)
  BY DEF OnSettingsCallback, At
<1>2. s \in Sessions /\ sess[s] \in PanelSessions
  BY OpenSession
<1>3. b \in Presses /\ Suits(b, sess[s].screen)
  BY <1>1, <1>2, SessionFields, ButtonsFit
<1>4. /\ press \in Jobs /\ press.pc = "callback" /\ press.s = s /\ press.b = b
      /\ revoked \in Jobs /\ revoked.pc = "revoked" /\ revoked.s = s
  BY <1>2, <1>3 DEF Jobs
<1> HIDE DEF press, revoked
<1>5. Arrives(press) /\ Arrives(revoked)
  BY <1>1, <1>3, <1>4 DEF Arrives
<1> QED
  BY <1>1, <1>4, <1>5, UsersStay, QuietGo DEF Held

LEMMA SentPrompt ==
  ASSUME IInv, NEW p \in Prompts
  PROVE  p \in PromptIds /\ p[1] \in Open
<1>1. PICK s \in 1 .. opened, n \in 1 .. MaxPrompts : p = <<s, n>>
  BY DEF Prompts
<1>2. s \in Open /\ s \in Sessions
  BY OpenSession DEF Open
<1> QED
  BY <1>1, <1>2 DEF PromptIds

LEMMA ReplyKeeps ==
  ASSUME IInv, NEW w \in Workers, NEW u \in Users, NEW p \in Prompts, Reply(w, u, p)
  PROVE  IInv'
<1> DEFINE input == [pc |-> "input", p |-> p]
           match == [pc |-> "match", s |-> byUser[u], p |-> p]
<1>1. /\ work[w].pc = "idle" /\ UNCHANGED <<rev, sess, opened, byUser, tour>>
      /\ sess[p[1]].owner = u
      /\ Go(w, input) \/ (Go(w, match) /\ Registered(p[1]))
  BY DEF Reply, At, LivePrompt
<1>2. p \in PromptIds /\ p[1] \in Open
  BY SentPrompt
<1>3. input \in Jobs /\ input.pc = "input" /\ input.p = p
  BY <1>2 DEF Jobs
<1>4. Registered(p[1]) => /\ byUser[u] \in Open /\ match \in Jobs
                          /\ match.pc = "match" /\ match.s = byUser[u] /\ match.p = p
  <2>1. Registered(p[1]) => byUser[u] = p[1] /\ byUser[u] \in Sessions
    BY <1>1, <1>2 DEF Registered, PromptIds
  <2> QED
    BY <1>2, <2>1 DEF Jobs
<1> HIDE DEF input, match
<1>5. Arrives(input) /\ (Registered(p[1]) => Arrives(match))
  BY <1>2, <1>3, <1>4 DEF Arrives
<1> QED
  BY <1>1, <1>3, <1>4, <1>5, UsersStay, QuietGo DEF Held

LEMMA ConsumeTombstoneKeeps ==
  ASSUME IInv, NEW w \in Workers, ConsumeTombstone(w)
  PROVE  IInv'
<1> DEFINE p == work[w].p
           u == sess[p[1]].owner
           j == [pc |-> "answer", s |-> byUser[u], p |-> p, via |-> "text"]
<1>1. /\ work[w].pc = "input" /\ UNCHANGED <<rev, sess, opened, byUser, tour>>
      /\ Go(w, Idle) \/ (Go(w, j) /\ byUser[u] # 0)
  BY DEF ConsumeTombstone, At
<1>2. work[w] \in Jobs /\ p[1] \in Open
  BY <1>1 DEF IInv, TypeOK, JobInv
<1>3. p \in PromptIds /\ u \in Users
  BY <1>1, <1>2, JobFields DEF IInv, SessionInv
<1>4. byUser[u] # 0 => byUser[u] \in Open /\ byUser[u] \in Sessions
  BY <1>3 DEF IInv, MapInv, TypeOK
<1>5. byUser[u] # 0 => j \in Jobs /\ j.pc = "answer" /\ j.s = byUser[u]
  BY <1>3, <1>4 DEF Jobs
<1> HIDE DEF p, u, j
<1>6. byUser[u] # 0 => Arrives(j)
  BY <1>4, <1>5 DEF Arrives
<1> QED
  BY <1>1, <1>5, <1>6, IdleJob, UsersStay, QuietGo DEF Held

LEMMA ChatSharedKeeps ==
  ASSUME IInv, NEW w \in Workers, NEW s \in Sessions, ChatShared(w, s)
  PROVE  IInv'
<1>1. PICK p \in Prompts : Go(w, [pc |-> "answer", s |-> s, p |-> p, via |-> "chat"])
  BY DEF ChatShared
<1> DEFINE j == [pc |-> "answer", s |-> s, p |-> p, via |-> "chat"]
<1>2. /\ work[w].pc = "idle" /\ s <= opened /\ Go(w, j)
      /\ UNCHANGED <<rev, sess, opened, byUser, tour>>
  BY <1>1 DEF ChatShared, At
<1>3. s \in Open /\ p \in PromptIds
  BY <1>2, SentPrompt DEF IInv, TypeOK, Open, Sessions
<1>4. j \in Jobs /\ j.pc = "answer" /\ j.s = s
  BY <1>3 DEF Jobs
<1> HIDE DEF j
<1>5. Arrives(j)
  BY <1>3, <1>4 DEF Arrives
<1> QED
  BY <1>2, <1>4, <1>5, UsersStay, QuietGo DEF Held

LEMMA SurroundingsKeep ==
  ASSUME IInv, Surroundings
  PROVE  IInv'
<1>1. /\ work \in [Workers -> Jobs] /\ rev \in Revisions
      /\ \A c \in Scopes : rev[c] \in Nat /\ rev[c] <= rev[c]
  BY DEF IInv, TypeOK, Revisions
<1>2. ASSUME NEW c \in Scopes, OtherCommit(c)
      PROVE  IInv'
  <2>1. rev' = [rev EXCEPT ![c] = @ + 1] /\ UNCHANGED <<sess, opened, byUser, work, tour>>
    BY <1>2 DEF OtherCommit
  <2>2. rev' \in Revisions /\ \A d \in Scopes : rev[d] <= rev'[d]
    BY <1>1, <2>1 DEF Revisions
  <2> QED
    BY <1>1, <2>1, <2>2, UsersStay, QuietStep
<1>3. ASSUME NEW u \in Users, VerificationStarts(u) \/ VerificationEnds(u)
      PROVE  IInv'
  <2>1. UNCHANGED <<rev, sess, opened, byUser, work, tour>>
    BY <1>3 DEF VerificationStarts, VerificationEnds
  <2> QED
    BY <1>1, <2>1, UsersStay, QuietStep
<1>4. ASSUME NEW u \in Users, Expire(u)
      PROVE  IInv'
  <2>1. byUser' = [byUser EXCEPT ![u] = 0] /\ UNCHANGED <<rev, sess, opened, work, tour>>
    BY <1>4 DEF Expire
  <2> QED
    BY <1>1, <2>1, UsersStay, QuietStep
<1> QED
  BY <1>2, <1>3, <1>4 DEF Surroundings
-----------------------------------------------------------------------------
(* Steps that finish the session, or leave it as it is *)

LEMMA FreeMayChange ==
  ASSUME IInv, NEW w \in Workers, work[w].pc \in {"start", "callback", "revoked", "match", "answer"},
         sess[work[w].s].lock = None
  PROVE  MayChange(w, work[w].s) /\ Settled(work[w].s)
BY DEF IInv, JobInv, MayChange, Settled, Held

LEMMA FinishingKeeps ==
  ASSUME IInv, NEW w \in Workers,
         \/ Revoke(w) \/ EndSession(w) \/ GlobalConflict(w)
         \/ RenderFails(w) \/ CommitFails(w) \/ AnswerEndsSession(w)
  PROVE  IInv'
<1>1. CASE Revoke(w)
  BY <1>1, FreeMayChange, FinishStep DEF Revoke, At
<1>2. CASE EndSession(w)
  BY <1>2, FreeMayChange, FinishStep DEF EndSession, At
<1>3. CASE GlobalConflict(w)
  BY <1>3, FreeMayChange, FinishStep DEF GlobalConflict, Pressed, At
<1>4. CASE RenderFails(w)
  BY <1>4, HolderMayChange, FinishStep DEF RenderFails, At, Held
<1>5. CASE CommitFails(w)
  BY <1>5, HolderMayChange, FinishStep DEF CommitFails, At, Held
<1>6. CASE AnswerEndsSession(w)
  BY <1>6, HolderMayChange, FinishStep DEF AnswerEndsSession, At, Held
<1> QED
  BY <1>1, <1>2, <1>3, <1>4, <1>5, <1>6

\* A session whose holder waits for Telegram outside a rendering or a commit
LEMMA HeldShows ==
  ASSUME IInv, NEW w \in Workers, work[w].pc \in {"prompt", "authorize", "apply"},
         NEW s, s = work[w].s
  PROVE  /\ MayChange(w, s) /\ Settled(s) /\ sess[s].lock = w /\ ~sess[s].replaced
         /\ s \in Open /\ sess[s] \in PanelSessions /\ Remembers(sess[s], rev)
         /\ sess[s].shown \in Revisions /\ Shows(sess[s], sess[s].shown, rev)
         /\ sess[s].shown # None /\ sess[s].pending # None /\ sess[s].pending \in PendingInputs
         /\ sess[s].screen = "in" /\ Shows(sess[s], sess[s].pending.seen, rev)
<1>1. MayChange(w, s) /\ sess[s].lock = w /\ ~sess[s].replaced /\ HeldFits(work[w], sess[s], rev)
  BY HolderMayChange DEF Held
<1>2. s \in Open /\ sess[s] \in PanelSessions /\ Remembers(sess[s], rev)
  BY <1>1, OpenSession DEF MayChange
<1>3. Settled(s)
  BY <1>1 DEF Settled
<1>4. sess[s].shown # None /\ sess[s].pending # None
  BY <1>1 DEF HeldFits, Held
<1>5. sess[s].shown \in Revisions /\ sess[s].pending \in PendingInputs
  BY <1>2, <1>4, SessionFields
<1>6. Shows(sess[s], sess[s].shown, rev)
  BY <1>1, <1>2, <1>4 DEF IInv, SessionInv
<1> QED
  BY <1>1, <1>2, <1>3, <1>4, <1>5, <1>6 DEF Remembers

LEMMA UnlockAsIs ==
  ASSUME IInv, NEW w \in Workers, work[w].pc \in {"prompt", "authorize", "apply"},
         Unlock(w, work[w].s, sess[work[w].s]), UNCHANGED <<rev, opened, tour>>
  PROVE  IInv'
BY HeldShows, UnlockStep

LEMMA SendPromptKeeps ==
  ASSUME IInv, NEW w \in Workers, SendPrompt(w)
  PROVE  IInv'
<1> DEFINE s == work[w].s
           n == sess[s].prompts + 1
           y == [sess[s] EXCEPT !.prompts = n, !.pending.prompt = <<s, n>>]
<1>1. /\ work[w].pc = "prompt" /\ UNCHANGED <<rev, opened, tour>>
      /\ \/ n <= tour.prompts /\ Unlock(w, s, y)
         \/ FinishSession(w, s)
  BY DEF SendPrompt, At
<1>2. /\ MayChange(w, s) /\ Settled(s) /\ sess[s] \in PanelSessions /\ Remembers(sess[s], rev)
      /\ s \in Open /\ sess[s].pending # None /\ sess[s].pending \in PendingInputs
      /\ sess[s].shown # None /\ Shows(sess[s], sess[s].shown, rev)
  BY <1>1, HeldShows
<1>3. CASE FinishSession(w, s)
  BY <1>1, <1>2, <1>3, FinishStep
<1>4. CASE n <= tour.prompts /\ Unlock(w, s, y)
  <2>1. <<s, n>> \in PromptIds /\ n \in Nat
    <3>1. tour.prompts \in 0 .. MaxPrompts /\ MaxPrompts \in Nat
      BY PanelAssumption, ToursAssumption DEF IInv, TypeOK
    <3>2. sess[s].prompts \in Nat /\ s \in Sessions
      BY <1>2, SessionFields, OpenSession
    <3> QED
      BY <1>4, <3>1, <3>2 DEF PromptIds
  <2>2. /\ y \in PanelSessions /\ y.owner = sess[s].owner /\ y.shown = sess[s].shown
        /\ y.replaced = sess[s].replaced /\ y.draft = sess[s].draft /\ y.screen = sess[s].screen
        /\ y.group = sess[s].group /\ y.rev = sess[s].rev /\ y.grev = sess[s].grev
        /\ y.confirm = sess[s].confirm /\ y.pending # None
        /\ y.pending.seen = sess[s].pending.seen
    <3> DEFINE x == sess[s]
               q == [x.pending EXCEPT !.prompt = <<s, n>>]
    <3>1. x \in PanelSessions /\ q \in PendingInputs /\ q.seen = x.pending.seen
      BY <1>2, <2>1 DEF PendingInputs
    <3>2. y = [x EXCEPT !.prompts = n, !.pending = q]
      BY <1>2 DEF PanelSessions
    <3> HIDE DEF y, x, q, n, s
    <3>3. y \in PanelSessions /\ y.pending = q
      BY <2>1, <3>1, <3>2 DEF PanelSessions
    <3>4. /\ y.owner = x.owner /\ y.shown = x.shown /\ y.replaced = x.replaced /\ y.draft = x.draft
          /\ y.screen = x.screen /\ y.group = x.group /\ y.rev = x.rev /\ y.grev = x.grev
          /\ y.confirm = x.confirm
      BY <2>1, <3>1, <3>2 DEF PanelSessions
    <3> QED
      BY <3>1, <3>3, <3>4, NoneAssumption DEF x
  <2> HIDE DEF y
  <2>3. Remembers(y, rev) /\ Shows(y, y.shown, rev)
    BY <1>2, <2>2 DEF Remembers, Shows
  <2> QED
    BY <1>1, <1>2, <1>4, <2>2, <2>3, UnlockStep
<1> QED
  BY <1>1, <1>3, <1>4

LEMMA NoticeKeeps ==
  ASSUME IInv, NEW w \in Workers, Notice(w)
  PROVE  IInv'
<1> DEFINE s == work[w].s
           b == work[w].b
           y == Session(w)
<1>1. Pressed(w, b) /\ Unlock(w, s, y) /\ UNCHANGED <<rev, opened, tour>> /\ b # B("cancel", "in")
  BY DEF Notice, B
<1>2. /\ MayChange(w, s) /\ Settled(s) /\ y \in PanelSessions /\ y.owner = sess[s].owner
      /\ ~y.replaced /\ y.shown = sess[s].shown /\ y.screen = sess[s].screen
      /\ y.group = sess[s].group /\ Suits(b, sess[s].screen)
      /\ RevisionSensitive(b) => y = sess[s]
      /\ sess[s].screen = "gl" => y = sess[s]
      /\ Shows(sess[s], sess[s].shown, rev)
  BY <1>1, PressFacts
<1>3. Remembers(y, rev)
  BY <1>1, PressedRemembers
<1>4. y = sess[s]
  BY <1>1, <1>2 DEF Notice, RevisionSensitive, Suits
<1> QED
  BY <1>1, <1>2, <1>3, <1>4, UnlockStep
-----------------------------------------------------------------------------
(* Steps that render the session with the lock held *)

\* What a session remembers when no prompt is left and no confirmation is asked for
LEMMA Unprompted ==
  ASSUME NEW x \in PanelSessions, x.shown # None, x.pending = None, x.screen # "cf",
         x.screen = "gl" => x.draft = None,
         x.draft # None => /\ x.group \in Groups /\ x.draft.rev <= x.draft.seen
                           /\ x.draft.seen <= rev[x.group]
  PROVE  Remembers(x, rev)
BY DEF Remembers

\* A pressed session is rendered with another screen, draft, prompt or confirmation.
LEMMA PressRender ==
  ASSUME IInv, NEW w \in Workers, NEW b, Pressed(w, b), NEW s, s = work[w].s,
         NEW y, y = Session(w), NEW x \in PanelSessions, NEW then \in {"done", "prompt"},
         RenderSession(w, s, x, then), x.owner = y.owner, x.replaced = y.replaced,
         x.shown = y.shown, x.group = y.group, x.rev = y.rev, x.grev = y.grev,
         Remembers(x, rev), then = "prompt" => x.pending # None,
         UNCHANGED <<rev, opened, byUser, tour>>
  PROVE  IInv'
<1>1. /\ MayChange(w, s) /\ y.owner = sess[s].owner /\ ~y.replaced /\ y.shown = sess[s].shown
      /\ y.shown # None
  BY PressFacts
<1>2. Shows(x, rev, rev)
  BY PressedShows DEF Shows
<1> QED
  BY <1>1, <1>2, RenderStep

LEMMA ShowGroupListKeeps ==
  ASSUME IInv, NEW w \in Workers, ShowGroupList(w)
  PROVE  IInv'
<1> DEFINE s == work[w].s
           x == [sess[s] EXCEPT !.screen = "gl"]
<1>1. /\ work[w].pc = "start" /\ sess[s].lock = None /\ Registered(s) /\ work[w].live
      /\ RenderSession(w, s, x, "done") /\ UNCHANGED <<rev, opened, byUser, tour>>
  BY DEF ShowGroupList, At, Holds, Elsewhere
<1>2. MayChange(w, s) /\ s \in Open
  BY <1>1, FreeMayChange DEF MayChange
<1>3. sess[s].shown = None
  BY <1>1 DEF IInv, PressInv
<1>4. /\ sess[s] \in PanelSessions /\ Remembers(sess[s], rev) /\ sess[s].owner \in Users
      /\ rev \in Revisions /\ s # 0
  BY <1>2, OpenSession
<1>5. sess[s].group \in Groups /\ ~sess[s].replaced
  BY <1>1, <1>2, <1>4 DEF IInv, MapInv, Registered
<1>6. sess[s].draft = None /\ sess[s].pending = None /\ sess[s].screen = "gl"
      /\ sess[s].rev = 0 /\ sess[s].grev = 0
  BY <1>3, <1>4 DEF Remembers
<1>7. x = sess[s]
  BY <1>4, <1>6 DEF PanelSessions
<1>8. Shows(sess[s], rev, rev)
  BY <1>4, <1>5, <1>6, ScopesHaveGroups DEF Shows, Revisions
<1> HIDE DEF x
<1> QED
  BY <1>1, <1>2, <1>4, <1>5, <1>7, <1>8, RenderStep

LEMMA SelectGroupKeeps ==
  ASSUME IInv, NEW w \in Workers, NEW g \in Groups, SelectGroup(w, g)
  PROVE  IInv'
<1> DEFINE s == work[w].s
           b == B("select", "gh")
           y == Session(w)
           x == [y EXCEPT !.group = g, !.rev = rev[g], !.grev = rev[Global], !.screen = "gh"]
<1>1. Pressed(w, b) /\ RenderSession(w, s, x, "done") /\ UNCHANGED <<rev, opened, byUser, tour>>
  BY DEF SelectGroup, Elsewhere
<1>2. /\ MayChange(w, s) /\ y \in PanelSessions /\ y.owner = sess[s].owner /\ ~y.replaced
      /\ y.shown = sess[s].shown /\ y.shown # None /\ y.screen = sess[s].screen
      /\ Suits(b, y.screen)
  BY <1>1, PressFacts
<1>3. y.pending = None /\ y.draft = None
  <2>1. y.screen = "gl" /\ b # B("cancel", "in")
    BY <1>2 DEF Suits, B
  <2> QED
    BY <1>1, <2>1, PressedRemembers DEF Remembers
<1>4. rev \in Revisions /\ rev[g] \in Nat /\ rev[Global] \in Nat
  BY ScopesHaveGroups DEF IInv, TypeOK, Revisions
<1> HIDE DEF y, b
<1>5. /\ x \in PanelSessions /\ x.group = g /\ x.rev = rev[g] /\ x.grev = rev[Global]
      /\ x.screen = "gh"
  BY ZenonT(60), <1>2, <1>4 DEF PanelSessions, Screens, Parents
<1>6. /\ x.owner = y.owner /\ x.replaced = y.replaced /\ x.shown = y.shown /\ x.pending = y.pending
      /\ x.draft = y.draft
  BY <1>2 DEF PanelSessions
<1> HIDE DEF x
<1>7. Shows(x, rev, rev)
  BY <1>4, <1>5 DEF Shows
<1>8. Remembers(x, rev)
  BY <1>2, <1>3, <1>5, <1>6, Unprompted
<1> QED
  BY <1>1, <1>2, <1>5, <1>6, <1>7, <1>8, RenderStep

LEMMA NavigateKeeps ==
  ASSUME IInv, NEW w \in Workers, Navigate(w)
  PROVE  IInv'
<1> DEFINE s == work[w].s
           b == work[w].b
           y == Session(w)
           x == CASE b.do = "go" -> [y EXCEPT !.screen = b.to, !.draft = None]
                  [] b.do = "list" -> [y EXCEPT !.screen = "li", !.list = b.to]
                  [] OTHER -> y
<1>1. /\ Pressed(w, b) /\ RenderSession(w, s, x, "done") /\ UNCHANGED <<rev, opened, byUser, tour>>
      /\ b.do \in {"go", "list", "stay"}
  BY DEF Navigate, Elsewhere
<1>2. /\ y \in PanelSessions /\ y.shown # None /\ y.screen = sess[s].screen /\ Suits(b, y.screen)
      /\ y.shown = sess[s].shown /\ sess[s].group \in Groups /\ y.group = sess[s].group
  BY <1>1, PressFacts DEF Shows
<1>3. /\ y.pending = None /\ Remembers(y, rev)
      /\ y.draft # None => y.draft.rev <= y.draft.seen /\ y.draft.seen <= rev[y.group]
  <2>1. b # B("cancel", "in")
    BY <1>1 DEF B
  <2> QED
    BY <1>1, <2>1, PressedRemembers
<1> HIDE DEF y, b
<1>4. CASE b.do = "go"
  <2>1. x = [y EXCEPT !.screen = b.to, !.draft = None]
    BY <1>4
  <2>2. b.to \in Screens \ {"in", "cf"}
    BY <1>2, <1>4 DEF Suits
  <2>3. x \in PanelSessions /\ x.screen = b.to /\ x.draft = None
    BY ZenonT(60), <1>2, <2>1, <2>2 DEF PanelSessions
  <2>4. /\ x.owner = y.owner /\ x.replaced = y.replaced /\ x.shown = y.shown /\ x.group = y.group
        /\ x.rev = y.rev /\ x.grev = y.grev /\ x.pending = y.pending
    BY <1>2, <2>1 DEF PanelSessions
  <2> HIDE DEF x
  <2>5. Remembers(x, rev)
    BY <1>2, <1>3, <2>2, <2>3, <2>4, Unprompted
  <2> QED
    BY <1>1, <2>3, <2>4, <2>5, PressRender DEF y
<1>5. CASE b.do = "list"
  <2>1. x = [y EXCEPT !.screen = "li", !.list = b.to]
    BY <1>5
  <2>2. b.to \in {"list", "whitelist"}
    BY <1>2, <1>5 DEF Suits
  <2>3. x \in PanelSessions /\ x.screen = "li"
    BY <1>2, <2>1, <2>2 DEF PanelSessions, Screens, Parents
  <2>4. /\ x.owner = y.owner /\ x.replaced = y.replaced /\ x.shown = y.shown /\ x.group = y.group
        /\ x.rev = y.rev /\ x.grev = y.grev /\ x.pending = y.pending /\ x.draft = y.draft
    BY <1>2, <2>1 DEF PanelSessions
  <2> HIDE DEF x
  <2>5. Remembers(x, rev)
    BY <1>2, <1>3, <2>3, <2>4, Unprompted
  <2> QED
    BY <1>1, <2>3, <2>4, <2>5, PressRender DEF y
<1>6. CASE b.do = "stay"
  <2>1. x = y
    BY <1>6
  <2> HIDE DEF x
  <2> QED
    BY <1>1, <1>2, <1>3, <2>1, PressRender DEF y
<1> QED
  BY <1>1, <1>4, <1>5, <1>6

\* A prompt is armed on a session that shows a setting.
LEMMA ArmStep ==
  ASSUME IInv, NEW w \in Workers, NEW s, MayChange(w, s), NEW x \in PanelSessions,
         NEW kind \in Kinds, NEW parent \in Parents, Arm(w, s, x, kind, parent),
         x.owner = sess[s].owner, ~x.replaced, x.shown = sess[s].shown, x.shown \in Revisions,
         Shows(x, x.shown, rev),
         x.draft # None => x.draft.rev <= x.draft.seen /\ x.draft.seen <= rev[x.group],
         UNCHANGED <<rev, opened, byUser, tour>>
  PROVE  IInv'
<1> DEFINE q == [kind |-> kind, parent |-> parent, prompt |-> None, rev |-> x.rev,
                 seen |-> x.shown]
           y == [x EXCEPT !.pending = q, !.screen = "in"]
<1>1. RenderSession(w, s, y, "prompt")
  BY DEF Arm
<1>2. q \in PendingInputs /\ q.seen = x.shown /\ q # None
  BY SessionFields, NoneAssumption DEF PendingInputs
<1> HIDE DEF q
<1>3. y \in PanelSessions /\ y.pending = q /\ y.screen = "in"
  BY ZenonT(60), <1>2 DEF PanelSessions, Screens, Parents
<1>4. /\ y.owner = x.owner /\ y.replaced = x.replaced /\ y.shown = x.shown /\ y.group = x.group
      /\ y.rev = x.rev /\ y.grev = x.grev /\ y.draft = x.draft
  BY DEF PanelSessions
<1> HIDE DEF y
<1>5. x.shown # None /\ x.group \in Groups /\ rev \in Revisions
  BY NoneAssumption DEF Shows, IInv, TypeOK
<1>6. Remembers(y, rev)
  BY <1>2, <1>3, <1>4, <1>5 DEF Remembers, Shows
<1>7. Shows(y, rev, rev)
  BY <1>4, <1>5, ScopesHaveGroups, SessionFields DEF Shows, Revisions
<1> QED
  BY <1>1, <1>2, <1>3, <1>4, <1>5, <1>6, <1>7, RenderStep

LEMMA ArmInputKeeps ==
  ASSUME IInv, NEW w \in Workers, ArmInput(w)
  PROVE  IInv'
<1> DEFINE s == work[w].s
           b == work[w].b
           y == Session(w)
<1>1. /\ Pressed(w, b) /\ b.do \in {"text", "pick"} /\ Arm(w, s, y, b.to, y.screen)
      /\ UNCHANGED <<rev, opened, byUser, tour>> /\ b # B("cancel", "in") /\ RevisionSensitive(b)
  BY DEF ArmInput, Elsewhere, RevisionSensitive, B
<1>2. /\ MayChange(w, s) /\ y \in PanelSessions /\ y.owner = sess[s].owner /\ ~y.replaced
      /\ y.shown = sess[s].shown /\ y.shown \in Revisions /\ y = sess[s] /\ Suits(b, y.screen)
      /\ Shows(y, y.shown, rev)
  BY <1>1, PressFacts
<1>3. y.screen \in Parents /\ b.to \in Kinds
  BY <1>1, <1>2, SessionFields DEF Suits, Screens, B
<1>4. y.draft # None => y.draft.rev <= y.draft.seen /\ y.draft.seen <= rev[y.group]
  BY <1>1, PressedRemembers
<1> HIDE DEF s, b, y
<1> QED
  BY <1>1, <1>2, <1>3, <1>4, ArmStep

LEMMA PickPrivateChannelKeeps ==
  ASSUME IInv, NEW w \in Workers, PickPrivateChannel(w)
  PROVE  IInv'
<1> DEFINE s == work[w].s
           y == [sess[s] EXCEPT !.channel = sess[s].group]
<1>1. /\ work[w].pc = "apply" /\ Arm(w, s, y, "invite", "ch") /\ UNCHANGED <<rev, opened, byUser, tour>>
  BY DEF PickPrivateChannel, Answered, Applies, At, Elsewhere
<1>2. /\ MayChange(w, s) /\ ~sess[s].replaced
      /\ sess[s] \in PanelSessions /\ Remembers(sess[s], rev)
      /\ sess[s].shown \in Revisions /\ Shows(sess[s], sess[s].shown, rev)
  BY <1>1, HeldShows
<1>3. sess[s].group \in Groups
  BY <1>2 DEF Shows
<1>4. y \in PanelSessions
  BY <1>2, <1>3 DEF PanelSessions
<1>5. /\ y.owner = sess[s].owner /\ y.replaced = sess[s].replaced /\ y.shown = sess[s].shown
      /\ y.group = sess[s].group /\ y.rev = sess[s].rev /\ y.grev = sess[s].grev
      /\ y.draft = sess[s].draft
  BY <1>2 DEF PanelSessions
<1> HIDE DEF y, s
<1>6. Shows(y, y.shown, rev)
  BY <1>2, <1>5 DEF Shows
<1>7. y.draft # None => y.draft.rev <= y.draft.seen /\ y.draft.seen <= rev[y.group]
  BY <1>2, <1>5 DEF Remembers
<1>8. "invite" \in Kinds /\ "ch" \in Parents
  BY DEF Kinds, Parents
<1> QED
  BY <1>1, <1>2, <1>4, <1>5, <1>6, <1>7, <1>8, ArmStep

LEMMA OpenDraftKeeps ==
  ASSUME IInv, NEW w \in Workers, OpenDraft(w)
  PROVE  IInv'
<1> DEFINE s == work[w].s
           b == work[w].b
           y == Session(w)
           d == [existing |-> TRUE, rev |-> y.rev, seen |-> rev[y.group]]
           x == [y EXCEPT !.draft = d, !.screen = b.to]
<1>1. /\ Pressed(w, b) /\ b.do = "open" /\ RenderSession(w, s, x, "done")
      /\ UNCHANGED <<rev, opened, byUser, tour>> /\ b # B("cancel", "in")
  BY DEF OpenDraft, Elsewhere, B
<1>2. /\ y \in PanelSessions /\ y.shown # None /\ Suits(b, y.screen)
  BY <1>1, PressFacts
<1>3. Shows(y, rev, rev) /\ rev \in Revisions
  BY <1>1, PressedShows DEF IInv, TypeOK
<1>4. y.pending = None
  BY <1>1, PressedRemembers
<1>5. b.to \in {"qd", "fd"} /\ b.to \in Screens
  BY <1>1, <1>2 DEF Suits, Screens, Parents
<1> HIDE DEF s, b, y
<1>6. d \in Drafts /\ d.rev = y.rev /\ d.seen = rev[y.group]
  BY <1>2, <1>3, SessionFields, ScopesHaveGroups DEF Drafts, Shows, Revisions
<1> HIDE DEF d
<1>7. x \in PanelSessions /\ x.screen = b.to /\ x.draft = d
  BY <1>2, <1>5, <1>6 DEF PanelSessions
<1>8. /\ x.owner = y.owner /\ x.replaced = y.replaced /\ x.shown = y.shown /\ x.group = y.group
      /\ x.rev = y.rev /\ x.grev = y.grev /\ x.pending = y.pending
  BY <1>2 DEF PanelSessions
<1> HIDE DEF x
<1>9. Remembers(x, rev)
  BY <1>2, <1>3, <1>4, <1>5, <1>6, <1>7, <1>8, ScopesHaveGroups, Unprompted DEF Shows, Revisions
<1> QED
  BY <1>1, <1>7, <1>8, <1>9, PressRender DEF s, y

LEMMA ChangeDraftKeeps ==
  ASSUME IInv, NEW w \in Workers, ChangeDraft(w)
  PROVE  IInv'
<1> DEFINE s == work[w].s
           b == B("change", "draft")
           y == Session(w)
<1>1. /\ Pressed(w, b) /\ RenderSession(w, s, y, "done")
      /\ UNCHANGED <<rev, opened, byUser, tour>> /\ b # B("cancel", "in")
  BY DEF ChangeDraft, Elsewhere, B
<1> HIDE DEF b
<1>2. y \in PanelSessions
  BY <1>1, PressFacts
<1>3. Remembers(y, rev)
  BY <1>1, PressedRemembers
<1> QED
  BY <1>1, <1>2, <1>3, PressRender

LEMMA AskConfirmationKeeps ==
  ASSUME IInv, NEW w \in Workers, AskConfirmation(w)
  PROVE  IInv'
<1> DEFINE s == work[w].s
           b == work[w].b
           y == Session(w)
           drafted == y.screen \in {"qd", "fd"}
           c == [parent |-> IF drafted THEN Bank(y.screen) ELSE y.screen,
                 rev |-> IF drafted THEN y.draft.rev ELSE y.rev,
                 seen |-> IF drafted THEN y.draft.seen ELSE y.shown[y.group]]
           x == [y EXCEPT !.screen = "cf", !.confirm = c]
<1>1. /\ Pressed(w, b) /\ b.do = "ask" /\ RenderSession(w, s, x, "done")
      /\ UNCHANGED <<rev, opened, byUser, tour>> /\ b # B("cancel", "in") /\ RevisionSensitive(b)
  BY DEF AskConfirmation, Elsewhere, B, RevisionSensitive
<1>2. /\ y \in PanelSessions /\ y.shown # None /\ Suits(b, y.screen) /\ y.shown \in Revisions
      /\ Shows(y, y.shown, rev)
      /\ y.screen \in {"qd", "fd"} => y.draft # None
  BY <1>1, PressFacts
<1>3. /\ y.pending = None
      /\ y.draft # None => y.draft \in Drafts /\ y.draft.rev <= y.draft.seen
                           /\ y.draft.seen <= rev[y.group]
  BY <1>1, PressedRemembers
<1>4. y.screen \in Parents
  BY <1>1, <1>2, SessionFields DEF Suits, Screens, B
<1> HIDE DEF s, b, y
<1>5. /\ c \in Confirmations /\ c.rev <= c.seen /\ c.seen <= rev[y.group]
  <2>1. CASE drafted
    BY <1>2, <1>3, <2>1 DEF Bank, Confirmations, Parents, Drafts
  <2>2. CASE ~drafted
    BY <1>2, <1>4, <2>2, SessionFields, ScopesHaveGroups DEF Confirmations, Shows, Revisions
  <2> QED
    BY <2>1, <2>2
<1> HIDE DEF c
<1>6. x \in PanelSessions /\ x.screen = "cf" /\ x.confirm = c
  BY <1>2, <1>5 DEF PanelSessions, Screens
<1>7. /\ x.owner = y.owner /\ x.replaced = y.replaced /\ x.shown = y.shown /\ x.group = y.group
      /\ x.rev = y.rev /\ x.grev = y.grev /\ x.pending = y.pending /\ x.draft = y.draft
  BY <1>2 DEF PanelSessions
<1> HIDE DEF x
<1>8. Remembers(x, rev)
  BY <1>2, <1>3, <1>5, <1>6, <1>7 DEF Remembers, Shows
<1> QED
  BY <1>1, <1>6, <1>7, <1>8, PressRender DEF s, y

LEMMA CancelKeeps ==
  ASSUME IInv, NEW w \in Workers, Cancel(w)
  PROVE  IInv'
<1> DEFINE s == work[w].s
           b == work[w].b
           y == Session(w)
           x == IF y.screen = "cf" THEN [y EXCEPT !.screen = y.confirm.parent, !.confirm = None]
                ELSE [y EXCEPT !.screen = Bank(y.screen), !.draft = None]
<1>1. /\ Pressed(w, b) /\ RenderSession(w, s, x, "done") /\ UNCHANGED <<rev, opened, byUser, tour>>
      /\ sess[s].screen # "in"
  BY DEF Cancel, Elsewhere
<1>2. /\ y \in PanelSessions /\ y.shown # None /\ y.screen = sess[s].screen
      /\ y.pending = sess[s].pending /\ y.draft = sess[s].draft /\ y.group = sess[s].group
      /\ y.screen = "cf" => y.confirm # None
      /\ Remembers(sess[s], rev)
  BY <1>1, PressFacts
<1>3. y.pending = None
  BY <1>1, <1>2 DEF Remembers
<1> HIDE DEF s, b, y
<1>4. CASE y.screen = "cf"
  <2>1. x = [y EXCEPT !.screen = y.confirm.parent, !.confirm = None]
    BY <1>4
  <2>2. y.confirm.parent \in Parents /\ y.confirm.parent \in Screens
        /\ y.confirm.parent \notin {"gl", "cf", "in"}
    BY <1>2, <1>4, SessionFields DEF Confirmations, Screens, Parents
  <2>3. x \in PanelSessions /\ x.screen = y.confirm.parent
    BY <1>2, <2>1, <2>2 DEF PanelSessions
  <2>4. /\ x.owner = y.owner /\ x.replaced = y.replaced /\ x.shown = y.shown /\ x.group = y.group
        /\ x.rev = y.rev /\ x.grev = y.grev /\ x.pending = y.pending /\ x.draft = y.draft
    BY <1>2, <2>1 DEF PanelSessions
  <2> HIDE DEF x
  <2>5. y.draft # None => /\ y.group \in Groups /\ y.draft.rev <= y.draft.seen
                          /\ y.draft.seen <= rev[y.group]
    BY <1>2 DEF Remembers
  <2>6. Remembers(x, rev)
    BY <1>2, <1>3, <2>2, <2>3, <2>4, <2>5, Unprompted
  <2> QED
    BY <1>1, <2>3, <2>4, <2>6, PressRender DEF s, y
<1>5. CASE y.screen # "cf"
  <2>1. x = [y EXCEPT !.screen = Bank(y.screen), !.draft = None]
    BY <1>5
  <2>2. Bank(y.screen) \in {"qb", "fb"} /\ Bank(y.screen) \in Screens
    BY DEF Bank, Screens, Parents
  <2>3. x \in PanelSessions /\ x.screen = Bank(y.screen) /\ x.draft = None
    BY <1>2, <2>1, <2>2 DEF PanelSessions
  <2>4. /\ x.owner = y.owner /\ x.replaced = y.replaced /\ x.shown = y.shown /\ x.group = y.group
        /\ x.rev = y.rev /\ x.grev = y.grev /\ x.pending = y.pending
    BY <1>2, <2>1 DEF PanelSessions
  <2> HIDE DEF x
  <2>5. Remembers(x, rev)
    BY <1>2, <1>3, <2>2, <2>3, <2>4, Unprompted
  <2> QED
    BY <1>1, <2>3, <2>4, <2>5, PressRender DEF s, y
<1> QED
  BY <1>4, <1>5

LEMMA CancelInputKeeps ==
  ASSUME IInv, NEW w \in Workers, CancelInput(w)
  PROVE  IInv'
<1> DEFINE s == work[w].s
           b == B("cancel", "in")
           y == Session(w)
           x == [y EXCEPT !.pending = None, !.screen = y.pending.parent]
<1>1. /\ Pressed(w, b) /\ UNCHANGED <<rev, opened, tour>>
      /\ \/ y.pending = None /\ FinishSession(w, s)
         \/ y.pending # None /\ RenderSession(w, s, x, "done") /\ byUser' = byUser
  BY DEF CancelInput
<1> HIDE DEF b
<1>2. /\ y \in PanelSessions /\ y.shown # None /\ y.draft = sess[s].draft /\ y.group = sess[s].group
      /\ Remembers(sess[s], rev) /\ MayChange(w, s)
  BY <1>1, PressFacts
<1> HIDE DEF s, y
<1>3. CASE y.pending = None /\ FinishSession(w, s)
  BY <1>1, <1>2, <1>3, FinishStep
<1>4. CASE y.pending # None /\ RenderSession(w, s, x, "done") /\ byUser' = byUser
  <2>1. y.pending.parent \in Screens /\ y.pending.parent \notin {"gl", "cf", "in"}
    BY <1>2, <1>4, SessionFields DEF PendingInputs, Screens, Parents
  <2>2. x \in PanelSessions /\ x.screen = y.pending.parent /\ x.pending = None
    BY <1>2, <2>1 DEF PanelSessions
  <2>3. /\ x.owner = y.owner /\ x.replaced = y.replaced /\ x.shown = y.shown /\ x.group = y.group
        /\ x.rev = y.rev /\ x.grev = y.grev /\ x.draft = y.draft
    BY <1>2 DEF PanelSessions
  <2> HIDE DEF x
  <2>4. y.draft # None => /\ y.group \in Groups /\ y.draft.rev <= y.draft.seen
                          /\ y.draft.seen <= rev[y.group]
    BY <1>2 DEF Remembers
  <2>5. Remembers(x, rev)
    BY <1>2, <2>1, <2>2, <2>3, <2>4, Unprompted
  <2> QED
    BY <1>1, <1>4, <2>2, <2>3, <2>5, PressRender DEF s, y
<1> QED
  BY <1>1, <1>3, <1>4

\* An answer is applied, and the session rendered without its prompt.
LEMMA AnswerRender ==
  ASSUME IInv, NEW w \in Workers, work[w].pc = "apply", NEW s, s = work[w].s,
         NEW x \in PanelSessions, RenderSession(w, s, x, "done"),
         x.owner = sess[s].owner, x.replaced = sess[s].replaced, x.shown = sess[s].shown,
         x.group = sess[s].group, x.rev = sess[s].rev, x.grev = sess[s].grev,
         x.pending = None, x.screen \in Parents,
         x.draft # None => x.draft.rev <= x.draft.seen /\ x.draft.seen <= rev[x.group],
         UNCHANGED <<rev, opened, byUser, tour>>
  PROVE  IInv'
<1>1. /\ MayChange(w, s) /\ ~sess[s].replaced /\ sess[s] \in PanelSessions
      /\ sess[s].shown # None /\ sess[s].shown \in Revisions /\ Shows(sess[s], sess[s].shown, rev)
  BY HeldShows
<1>2. x.group \in Groups /\ rev \in Revisions
  BY <1>1 DEF Shows, IInv, TypeOK
<1>3. x.screen \notin {"gl", "cf"}
  BY DEF Parents
<1>4. Remembers(x, rev)
  BY <1>1, <1>2, <1>3, Unprompted
<1>5. Shows(x, rev, rev)
  BY <1>1, <1>2, ScopesHaveGroups, SessionFields DEF Shows, Revisions
<1> QED
  BY <1>1, <1>4, <1>5, RenderStep

LEMMA AlreadyListedKeeps ==
  ASSUME IInv, NEW w \in Workers, AlreadyListed(w)
  PROVE  IInv'
<1> DEFINE s == work[w].s
           y == sess[s]
           x == [y EXCEPT !.pending = None, !.screen = y.pending.parent]
<1>1. /\ work[w].pc = "apply" /\ RenderSession(w, s, x, "done")
      /\ UNCHANGED <<rev, opened, byUser, tour>>
  BY DEF AlreadyListed, Answered, Applies, At, Elsewhere
<1>2. y \in PanelSessions /\ y.pending \in PendingInputs /\ Remembers(y, rev)
  BY <1>1, HeldShows
<1> HIDE DEF y
<1>3. y.pending.parent \in Parents /\ y.pending.parent \in Screens
  BY <1>2 DEF PendingInputs, Screens
<1>4. x \in PanelSessions /\ x.screen = y.pending.parent /\ x.pending = None
  BY <1>2, <1>3 DEF PanelSessions
<1>5. /\ x.owner = y.owner /\ x.replaced = y.replaced /\ x.shown = y.shown /\ x.group = y.group
      /\ x.rev = y.rev /\ x.grev = y.grev /\ x.draft = y.draft
  BY <1>2 DEF PanelSessions
<1> HIDE DEF x
<1>6. y.draft # None => y.draft.rev <= y.draft.seen /\ y.draft.seen <= rev[y.group]
  BY <1>2 DEF Remembers
<1> QED
  BY <1>1, <1>3, <1>4, <1>5, <1>6, AnswerRender DEF y

LEMMA AnswerIntoDraftKeeps ==
  ASSUME IInv, NEW w \in Workers, AnswerIntoDraft(w)
  PROVE  IInv'
<1> DEFINE s == work[w].s
           y == sess[s]
           new == [existing |-> FALSE, rev |-> y.rev, seen |-> rev[y.group]]
           d == IF y.draft # None THEN y.draft ELSE new
           x == [y EXCEPT !.pending = None, !.screen = Detail(y.pending.parent), !.draft = d]
<1>1. /\ work[w].pc = "apply" /\ RenderSession(w, s, x, "done")
      /\ UNCHANGED <<rev, opened, byUser, tour>>
  BY DEF AnswerIntoDraft, Answered, Applies, At, Elsewhere
<1>2. /\ y \in PanelSessions /\ y.pending \in PendingInputs /\ Remembers(y, rev)
      /\ Shows(y, y.shown, rev) /\ y.shown \in Revisions /\ rev \in Revisions
  BY <1>1, HeldShows DEF IInv, TypeOK
<1> HIDE DEF y
<1>3. Detail(y.pending.parent) \in Parents /\ Detail(y.pending.parent) \in Screens
  BY DEF Detail, Screens, Parents
<1>4. new \in Drafts /\ new.rev <= new.seen /\ new.seen <= rev[y.group]
  BY <1>2, SessionFields, ScopesHaveGroups DEF Drafts, Shows, Revisions
<1> HIDE DEF new
<1>5. d \in Drafts /\ d.rev <= d.seen /\ d.seen <= rev[y.group]
  BY <1>2, <1>4, SessionFields DEF Remembers
<1> HIDE DEF d
<1>6. x \in PanelSessions /\ x.screen = Detail(y.pending.parent) /\ x.pending = None /\ x.draft = d
  BY <1>2, <1>3, <1>5 DEF PanelSessions
<1>7. /\ x.owner = y.owner /\ x.replaced = y.replaced /\ x.shown = y.shown /\ x.group = y.group
      /\ x.rev = y.rev /\ x.grev = y.grev
  BY <1>2 DEF PanelSessions
<1> HIDE DEF x
<1> QED
  BY <1>1, <1>3, <1>5, <1>6, <1>7, AnswerRender DEF y
-----------------------------------------------------------------------------
(* Steps that submit a change *)

\* A session submits a change composed from a revision between the one it expects and the
\* current one.
LEMMA SettledSubmit ==
  ASSUME IInv, NEW w \in Workers, NEW s, MayChange(w, s), NEW y, y = sess[s], ~y.replaced,
         y.shown # None, Shows(y, y.shown, rev), NEW x \in PanelSessions,
         NEW scope \in {y.group, Global}, NEW seen \in Nat, NEW merge \in BOOLEAN,
         Submit(w, s, x, scope, seen, merge),
         x.owner = y.owner, x.replaced = y.replaced, x.shown = y.shown, x.group = y.group,
         x.rev = y.rev, x.grev = y.grev, Remembers(x, rev), x.pending = None,
         Expected(y, scope) <= seen, seen <= rev[scope],
         UNCHANGED <<rev, opened, byUser, tour>>
  PROVE  IInv'
<1>1. scope \in Scopes
  BY ScopesHaveGroups DEF Shows
<1>2. Shows(x, x.shown, rev) /\ Expected(x, scope) <= seen
  BY DEF Shows, Expected
<1> QED
  BY <1>1, <1>2, SubmitStep

LEMMA ToggleKeeps ==
  ASSUME IInv, NEW w \in Workers, Toggle(w)
  PROVE  IInv'
<1> DEFINE s == work[w].s
           b == work[w].b
           y == Session(w)
           scope == IF b.to = "global" THEN Global ELSE y.group
           seen == y.shown[scope]
           merge == b.to = "whitelist"
<1>1. /\ Pressed(w, b) /\ b.do \in {"toggle", "remove"} /\ Submit(w, s, y, scope, seen, merge)
      /\ UNCHANGED <<rev, opened, byUser, tour>> /\ b # B("cancel", "in") /\ RevisionSensitive(b)
  BY DEF Toggle, Elsewhere, B, RevisionSensitive
<1>2. /\ MayChange(w, s) /\ y = sess[s] /\ ~y.replaced /\ y \in PanelSessions
      /\ y.shown # None /\ y.shown \in Revisions /\ Shows(y, y.shown, rev)
  BY <1>1, PressFacts
<1>3. Remembers(y, rev) /\ y.pending = None
  BY <1>1, PressedRemembers
<1> HIDE DEF s, b, y
<1>4. scope \in {y.group, Global}
  OBVIOUS
<1>5. seen \in Nat /\ merge \in BOOLEAN /\ Expected(y, scope) <= seen /\ seen <= rev[scope]
  BY <1>2, ScopesHaveGroups DEF Shows, Revisions, Expected
<1> HIDE DEF scope, seen, merge
<1> QED
  BY <1>1, <1>2, <1>3, <1>4, <1>5, SettledSubmit

LEMMA SaveDraftKeeps ==
  ASSUME IInv, NEW w \in Workers, SaveDraft(w)
  PROVE  IInv'
<1> DEFINE s == work[w].s
           b == B("save", "draft")
           y == Session(w)
           x == [y EXCEPT !.draft = None, !.screen = Bank(y.screen)]
<1>1. /\ Pressed(w, b) /\ Submit(w, s, x, y.group, y.draft.seen, FALSE)
      /\ UNCHANGED <<rev, opened, byUser, tour>> /\ b # B("cancel", "in") /\ RevisionSensitive(b)
      /\ b.do = "save"
  BY DEF SaveDraft, Elsewhere, B, RevisionSensitive
<1> HIDE DEF b
<1>2. /\ MayChange(w, s) /\ y = sess[s] /\ ~y.replaced /\ y \in PanelSessions
      /\ y.shown # None /\ Shows(y, y.shown, rev) /\ Suits(b, y.screen)
      /\ y.screen \in {"qd", "fd"} => y.draft # None /\ y.draft.rev = y.rev
  BY <1>1, PressFacts
<1>3. /\ y.pending = None
      /\ y.draft # None => y.draft \in Drafts /\ y.draft.rev <= y.draft.seen
                           /\ y.draft.seen <= rev[y.group]
  BY <1>1, PressedRemembers
<1> HIDE DEF s, y
<1>4. /\ y.draft.seen \in Nat /\ y.draft.rev = y.rev /\ y.draft.rev <= y.draft.seen
      /\ y.draft.seen <= rev[y.group] /\ y.group \in Groups
  BY <1>1, <1>2, <1>3 DEF Suits, Drafts, Shows
<1>5. Expected(y, y.group) <= y.draft.seen
  BY <1>4, ScopesHaveGroups DEF Expected
<1>6. Bank(y.screen) \in {"qb", "fb"} /\ Bank(y.screen) \in Screens
  BY DEF Bank, Screens, Parents
<1>7. x \in PanelSessions /\ x.screen = Bank(y.screen) /\ x.draft = None
  BY <1>2, <1>6 DEF PanelSessions
<1>8. /\ x.owner = y.owner /\ x.replaced = y.replaced /\ x.shown = y.shown /\ x.group = y.group
      /\ x.rev = y.rev /\ x.grev = y.grev /\ x.pending = y.pending
  BY <1>2 DEF PanelSessions
<1> HIDE DEF x
<1>9. Remembers(x, rev)
  BY <1>2, <1>3, <1>6, <1>7, <1>8, Unprompted
<1> QED
  BY <1>1, <1>2, <1>3, <1>4, <1>5, <1>7, <1>8, <1>9, SettledSubmit

LEMMA ConfirmKeeps ==
  ASSUME IInv, NEW w \in Workers, Confirm(w)
  PROVE  IInv'
<1> DEFINE s == work[w].s
           b == B("confirm", "cf")
           y == Session(w)
           x == [y EXCEPT !.confirm = None, !.draft = None, !.screen = y.confirm.parent]
<1>1. /\ Pressed(w, b) /\ Submit(w, s, x, y.group, y.confirm.seen, FALSE)
      /\ UNCHANGED <<rev, opened, byUser, tour>> /\ b # B("cancel", "in") /\ RevisionSensitive(b)
      /\ b.do = "confirm"
  BY DEF Confirm, Elsewhere, B, RevisionSensitive
<1> HIDE DEF b
<1>2. /\ MayChange(w, s) /\ y = sess[s] /\ ~y.replaced /\ y \in PanelSessions
      /\ y.shown # None /\ Shows(y, y.shown, rev) /\ Suits(b, y.screen)
      /\ y.screen = "cf" => y.confirm # None /\ y.confirm.rev = y.rev
  BY <1>1, PressFacts
<1>3. y.pending = None /\ Remembers(y, rev)
  BY <1>1, PressedRemembers
<1> HIDE DEF s, y
<1>4. y.screen = "cf" /\ y.confirm # None /\ y.confirm.rev = y.rev /\ y.confirm \in Confirmations
  BY <1>1, <1>2, SessionFields DEF Suits
<1>5. /\ y.confirm.seen \in Nat /\ y.confirm.rev <= y.confirm.seen
      /\ y.confirm.seen <= rev[y.group] /\ y.group \in Groups
  BY <1>3, <1>4 DEF Remembers, Confirmations
<1>6. Expected(y, y.group) <= y.confirm.seen
  BY <1>4, <1>5, ScopesHaveGroups DEF Expected
<1>7. y.confirm.parent \in Screens /\ y.confirm.parent \notin {"gl", "cf", "in"}
  BY <1>4 DEF Confirmations, Screens, Parents
<1>8. x \in PanelSessions /\ x.screen = y.confirm.parent /\ x.draft = None
  BY <1>2, <1>7 DEF PanelSessions
<1>9. /\ x.owner = y.owner /\ x.replaced = y.replaced /\ x.shown = y.shown /\ x.group = y.group
      /\ x.rev = y.rev /\ x.grev = y.grev /\ x.pending = y.pending
  BY <1>2 DEF PanelSessions
<1> HIDE DEF x
<1>10. Remembers(x, rev)
  BY <1>2, <1>3, <1>7, <1>8, <1>9, Unprompted
<1> QED
  BY <1>1, <1>2, <1>3, <1>5, <1>6, <1>8, <1>9, <1>10, SettledSubmit

LEMMA CommitAnswerKeeps ==
  ASSUME IInv, NEW w \in Workers, CommitAnswer(w)
  PROVE  IInv'
<1> DEFINE s == work[w].s
           y == sess[s]
           kind == y.pending.kind
           scope == IF kind \in {"rate", "alert"} THEN Global ELSE y.group
           seen == y.pending.seen[scope]
           merge == kind = "whitelist"
           chan == IF kind = "invite" THEN None ELSE y.channel
           x == [y EXCEPT !.pending = None, !.screen = y.pending.parent, !.channel = chan]
<1>1. work[w].pc = "apply" /\ UNCHANGED <<rev, opened, byUser, tour>>
  BY DEF CommitAnswer, Answered, Applies, At, Elsewhere
<1>2. /\ MayChange(w, s) /\ ~y.replaced /\ y \in PanelSessions /\ Remembers(y, rev)
      /\ y.shown # None /\ Shows(y, y.shown, rev)
      /\ y.pending # None /\ y.pending \in PendingInputs /\ Shows(y, y.pending.seen, rev)
  BY <1>1, HeldShows
<1>3. Submit(w, s, x, scope, seen, merge)
  <2>1. [y EXCEPT !.pending = None, !.screen = y.pending.parent,
                  !.channel = IF kind = "invite" THEN None ELSE @] = x
    BY <1>2 DEF PanelSessions
  <2> HIDE DEF x, scope, seen, merge, kind, chan
  <2> QED
    BY <2>1 DEF CommitAnswer, x, scope, seen, merge, kind
<1> HIDE DEF s, y
<1>4. scope \in {y.group, Global} /\ merge \in BOOLEAN
  OBVIOUS
<1>5. seen \in Nat /\ Expected(y, scope) <= seen /\ seen <= rev[scope]
  BY <1>2, ScopesHaveGroups DEF Shows, Revisions, Expected, PendingInputs
<1> HIDE DEF scope, seen, merge
<1>6. y.pending.parent \in Screens /\ y.pending.parent \notin {"gl", "cf", "in"}
  BY <1>2 DEF PendingInputs, Screens, Parents
<1>7. chan \in Groups \cup {None}
  BY <1>2, SessionFields
<1> HIDE DEF chan
<1>8. x \in PanelSessions /\ x.screen = y.pending.parent /\ x.pending = None
  BY <1>2, <1>6, <1>7 DEF PanelSessions
<1>9. /\ x.owner = y.owner /\ x.replaced = y.replaced /\ x.shown = y.shown /\ x.group = y.group
      /\ x.rev = y.rev /\ x.grev = y.grev /\ x.draft = y.draft
  BY <1>2 DEF PanelSessions
<1> HIDE DEF x
<1>10. Remembers(x, rev)
  <2>1. y.draft # None => /\ y.group \in Groups /\ y.draft.rev <= y.draft.seen
                          /\ y.draft.seen <= rev[y.group]
    BY <1>2 DEF Remembers
  <2> QED
    BY <1>2, <1>6, <1>8, <1>9, <2>1, Unprompted
<1>11. y = sess[s]
  BY DEF y
<1> QED
  BY <1>1, <1>2, <1>3, <1>4, <1>5, <1>8, <1>9, <1>10, <1>11, SettledSubmit
-----------------------------------------------------------------------------
(* Steps within a locked session, and the matching of an answer *)

LEMMA RegisteredSession ==
  ASSUME IInv, NEW s \in Open, byUser[sess[s].owner] = s
  PROVE  sess[s].group \in Groups /\ ~sess[s].replaced
BY OpenSession DEF IInv, MapInv, Registered

LEMMA RenderedKeeps ==
  ASSUME IInv, NEW w \in Workers, Rendered(w)
  PROVE  IInv'
<1> DEFINE s == work[w].s
           y == sess[s]
           built == work[w].built
           prompted == work[w].then = "prompt"
           x == [y EXCEPT !.shown = built, !.lock = IF prompted THEN w ELSE None]
           j == IF prompted THEN [pc |-> "prompt", s |-> s] ELSE Idle
<1>1. /\ work[w].pc = "render" /\ UNCHANGED <<rev, opened, byUser, tour>>
      /\ work' = [Rotated(s) EXCEPT ![w] = j]
  BY DEF Rendered, At
<1>2. /\ MayChange(w, s) /\ y.lock = w /\ ~y.replaced /\ Shows(y, built, rev)
      /\ prompted => y.pending # None
  BY <1>1, HolderMayChange DEF Held, HeldFits
<1>3. /\ s \in Open /\ s \in Sessions /\ y \in PanelSessions /\ Remembers(y, rev)
      /\ rev \in Revisions /\ sess \in [Sessions -> PanelSessions] /\ work[w] \in Jobs
  BY <1>2, OpenSession DEF MayChange
<1>4. built \in Revisions /\ built # None
  BY <1>1, <1>3, JobFields, NoneAssumption
<1>5. sess' = [sess EXCEPT ![s] = x]
  BY <1>1, <1>3 DEF Rendered, PanelSessions
<1>6. j \in Jobs /\ j.pc \in {"prompt", "idle"} /\ (j.pc = "prompt" <=> prompted)
      /\ (prompted => j.s = s)
  BY <1>3 DEF Jobs, Idle
<1>7. sess[s] = y
  OBVIOUS
<1> HIDE DEF s, y, built, prompted, j
<1>8. /\ x \in PanelSessions /\ x.shown = built /\ x.lock = IF prompted THEN w ELSE None
  BY ZenonT(60), <1>3, <1>4 DEF PanelSessions
<1>9. /\ x.owner = y.owner /\ x.replaced = y.replaced /\ x.group = y.group /\ x.rev = y.rev
      /\ x.grev = y.grev /\ x.draft = y.draft /\ x.pending = y.pending /\ x.screen = y.screen
      /\ x.confirm = y.confirm
  BY <1>3 DEF PanelSessions
<1> HIDE DEF x
<1>10. Remembers(x, rev') /\ Shows(x, x.shown, rev') /\ x.group \in Groups
  BY <1>1, <1>2, <1>3, <1>4, <1>8, <1>9 DEF Remembers, Shows
<1>11. HeldFits(j, x, rev')
  BY <1>2, <1>4, <1>6, <1>8, <1>9 DEF HeldFits, Held
<1>12. rev' \in Revisions /\ \A c \in Scopes : rev[c] <= rev'[c]
  BY <1>1, <1>3 DEF Revisions
<1>13. /\ x.lock = IF j.pc \in Held THEN w ELSE None
       /\ j.pc \in Held \cup {"idle", "input"} /\ (j.pc \in Held => j.s = s) /\ j.pc # "input"
  BY <1>6, <1>8 DEF Held
<1>14. sess[s].lock \in {None, w} /\ (work[w].pc \in Held => work[w].s = s)
  BY <1>2 DEF MayChange
<1> QED
  BY <1>1, <1>2, <1>3, <1>4, <1>5, <1>6, <1>7, <1>8, <1>9, <1>10, <1>11, <1>12, <1>13, <1>14,
     SessionStep

LEMMA CommitKeeps ==
  ASSUME IInv, NEW w \in Workers, Commit(w)
  PROVE  IInv'
<1> DEFINE s == work[w].s
           y == sess[s]
           scope == work[w].scope
           next == rev[scope] + 1
           x == IF scope = Global THEN [y EXCEPT !.grev = next] ELSE [y EXCEPT !.rev = next]
           r == [rev EXCEPT ![scope] = next]
           z == Recaptured(x, r)
           j == [pc |-> "render", s |-> s, then |-> "done", built |-> r]
<1>1. /\ work[w].pc = "commit" /\ UNCHANGED <<opened, byUser, tour>>
      /\ rev' = r /\ sess' = [sess EXCEPT ![s] = z]
      /\ work' = [work EXCEPT ![w] = j]
  BY DEF Commit, At, Go
<1>2. /\ MayChange(w, s) /\ y.lock = w /\ ~y.replaced /\ y.shown # None /\ y.pending = None
      /\ scope \in {y.group, Global}
  BY <1>1, HolderMayChange DEF Held, HeldFits
<1>3. /\ s \in Open /\ s \in Sessions /\ y \in PanelSessions /\ Remembers(y, rev)
      /\ rev \in Revisions
  BY <1>2, OpenSession DEF MayChange
<1>4. y.shown \in Revisions /\ Shows(y, y.shown, rev) /\ y.group \in Groups
  <2>1. Shows(y, y.shown, rev)
    BY <1>1, <1>2, <1>3 DEF IInv, SessionInv
  <2> QED
    BY <1>2, <1>3, <2>1, SessionFields DEF Shows
<1>5. sess[s] = y
  OBVIOUS
<1>6. j.pc = "render" /\ j.s = s /\ j.then = "done" /\ j.built = r
      /\ (r \in Revisions => j \in Jobs)
  BY <1>3 DEF Jobs
<1> HIDE DEF s, y, z, j
<1>7. scope \in Scopes /\ next \in Nat
  BY <1>2, <1>3, <1>4, ScopesHaveGroups DEF Revisions
<1>8. r \in Revisions /\ r[scope] = next /\ \A c \in Scopes : rev[c] <= r[c]
  BY <1>3, <1>7 DEF Revisions
<1> HIDE DEF next
<1>9. /\ x \in PanelSessions /\ x.owner = y.owner /\ x.replaced = y.replaced /\ x.group = y.group
      /\ x.draft = y.draft /\ x.pending = y.pending /\ x.screen = y.screen
      /\ x.confirm = y.confirm /\ x.lock = y.lock /\ x.shown = y.shown
      /\ IF scope = Global THEN x.grev = next /\ x.rev = y.rev ELSE x.rev = next /\ x.grev = y.grev
  BY <1>3, <1>7 DEF PanelSessions
<1> HIDE DEF x, r, scope
<1>10. Remembers(y, r)
  BY <1>3, <1>8, RevisionsRise
<1>11. Remembers(x, r)
  BY <1>2, <1>9, <1>10 DEF Remembers
<1>12. Shows(x, r, r)
  <2>1. /\ y.rev \in Nat /\ y.grev \in Nat /\ y.rev <= rev[y.group] /\ y.grev <= rev[Global]
        /\ rev[y.group] <= r[y.group] /\ rev[Global] <= r[Global]
    BY <1>3, <1>4, <1>8, ScopesHaveGroups, SessionFields DEF Shows, Revisions
  <2>2. r[y.group] \in Nat /\ r[Global] \in Nat /\ rev[y.group] \in Nat /\ rev[Global] \in Nat
    BY <1>3, <1>4, <1>8, ScopesHaveGroups DEF Revisions
  <2> QED
    BY <1>2, <1>4, <1>8, <1>9, <2>1, <2>2 DEF Shows
<1>13. /\ z \in PanelSessions /\ z.owner = x.owner /\ z.lock = x.lock /\ z.replaced = x.replaced
       /\ z.shown = x.shown /\ Remembers(z, r) /\ Shows(z, r, r)
  BY <1>8, <1>9, <1>11, <1>12, RecapturedSession DEF z
<1>14. z.group \in Groups
  BY <1>13 DEF Shows
<1>15. HeldFits(j, z, r)
  BY <1>6, <1>13 DEF HeldFits, Held
<1>16. /\ z.lock = IF j.pc \in Held THEN w ELSE None
       /\ j.pc \in Held
  BY <1>2, <1>6, <1>9, <1>13 DEF Held
<1>17. sess[s].lock \in {None, w} /\ (work[w].pc \in Held => work[w].s = s)
  BY <1>2 DEF MayChange
<1>18. /\ j \in Jobs /\ rev' \in Revisions /\ \A c \in Scopes : rev[c] <= rev'[c]
  BY <1>1, <1>6, <1>8
<1>19. /\ Remembers(z, rev') /\ HeldFits(j, z, rev')
  BY <1>1, <1>15, <1>13
<1>20. /\ z.owner = sess[s].owner /\ z.group \in Groups /\ ~z.replaced
       /\ (z.shown = None <=> sess[s].shown = None)
  BY <1>2, <1>4, <1>5, <1>9, <1>13, <1>14
<1> QED
  BY <1>1, <1>3, <1>6, <1>16, <1>13, <1>17, <1>18, <1>19, <1>20, SessionStep

\* A session is left unlocked, without a prompt, and its handler goes on with job j.
LEMMA CancelStep ==
  ASSUME IInv, NEW w \in Workers, NEW s, MayChange(w, s), Settled(s), NEW x, x = sess[s],
         x.shown = None \/ Shows(x, x.shown, rev),
         sess' = [sess EXCEPT ![s] = [x EXCEPT !.lock = None, !.pending = None]],
         NEW j \in Jobs, Go(w, j), j.pc \in {"idle", "input"}, j.pc = "input" => j.p[1] \in Open,
         UNCHANGED <<rev, opened, byUser, tour>>
  PROVE  IInv'
<1> DEFINE y == [x EXCEPT !.lock = None, !.pending = None]
<1>1. /\ s \in Open /\ x \in PanelSessions /\ Remembers(x, rev) /\ rev \in Revisions
      /\ x.owner \in Users
  BY OpenSession DEF MayChange
<1>2. /\ y \in PanelSessions /\ y.pending = None /\ y.lock = None /\ y.owner = x.owner
      /\ y.replaced = x.replaced /\ y.shown = x.shown /\ y.group = x.group /\ y.rev = x.rev
      /\ y.grev = x.grev /\ y.draft = x.draft /\ y.screen = x.screen /\ y.confirm = x.confirm
  BY <1>1 DEF PanelSessions
<1>3. sess' = [sess EXCEPT ![s] = y] /\ work' = [work EXCEPT ![w] = j]
  BY DEF Go
<1> HIDE DEF y
<1>4. Remembers(y, rev') /\ (y.shown = None \/ Shows(y, y.shown, rev'))
  BY <1>1, <1>2 DEF Remembers, Shows
<1>5. HeldFits(j, y, rev')
  BY DEF HeldFits, Held
<1>6. rev' \in Revisions /\ \A c \in Scopes : rev[c] <= rev'[c]
  BY <1>1 DEF Revisions
<1>7. byUser'[y.owner] # s \/ y.group \in Groups
  BY <1>1, <1>2, RegisteredSession
<1>8. /\ y.lock = IF j.pc \in Held THEN w ELSE None
      /\ j.pc \in Held \cup {"idle", "input"} /\ j.pc \notin Held
  BY <1>2 DEF Held
<1>9. sess[s].lock \in {None, w} /\ (work[w].pc \in Held => work[w].s = s)
  BY DEF MayChange
<1>10. byUser' \in {byUser, [u \in Users |-> IF byUser[u] = s THEN 0 ELSE byUser[u]]}
  OBVIOUS
<1>11. /\ y.replaced => sess[s].replaced
       /\ (y.shown = None <=> sess[s].shown = None) /\ y.screen = sess[s].screen
       /\ y.owner = sess[s].owner
  BY <1>2
<1> QED
  BY <1>1, <1>2, <1>3, <1>4, <1>5, <1>6, <1>7, <1>8, <1>9, <1>10, <1>11, SessionStep

LEMMA MatchPromptKeeps ==
  ASSUME IInv, NEW w \in Workers, MatchPrompt(w)
  PROVE  IInv'
<1> DEFINE s == work[w].s
           x == sess[s]
           input == [pc |-> "input", p |-> work[w].p]
<1>1. /\ work[w].pc = "match" /\ x.lock = None /\ UNCHANGED <<rev, opened, byUser, tour>>
      /\ Go(w, input) \/ Go(w, Idle)
      /\ sess' = sess \/ sess' = [sess EXCEPT ![s].pending = None]
  BY DEF MatchPrompt, At
<1>2. /\ MayChange(w, s) /\ Settled(s)
  BY <1>1, FreeMayChange
<1>3. s \in Open /\ x \in PanelSessions /\ work[w].p[1] \in Open /\ work[w] \in Jobs
      /\ s \in Sessions /\ sess \in [Sessions -> PanelSessions]
  BY <1>1, <1>2, OpenSession DEF MayChange, IInv, JobInv
<1>4. input \in Jobs /\ input.pc = "input" /\ input.p = work[w].p
  BY <1>1, <1>3, JobFields DEF Jobs
<1>5. PICK j \in {input, Idle} : Go(w, j)
  BY <1>1
<1> HIDE DEF input
<1>6. j \in Jobs /\ j.pc \in {"idle", "input"} /\ (j.pc = "input" => j.p[1] \in Open)
  BY <1>3, <1>4, <1>5, IdleJob
<1>7. CASE sess' = sess
  BY <1>1, <1>5, <1>6, <1>7, UsersStay, QuietGo DEF Held, Arrives
<1>8. CASE sess' = [sess EXCEPT ![s].pending = None]
  <2>1. sess' = [sess EXCEPT ![s] = [x EXCEPT !.lock = None, !.pending = None]]
    <3>1. [x EXCEPT !.pending = None] = [x EXCEPT !.lock = None, !.pending = None]
      BY <1>1, <1>3 DEF PanelSessions
    <3>2. sess' = [sess EXCEPT ![s] = [x EXCEPT !.pending = None]]
      BY <1>3, <1>8
    <3> QED
      BY <3>1, <3>2
  <2>2. x.shown = None \/ Shows(x, x.shown, rev)
    BY <1>1, <1>3 DEF IInv, SessionInv
  <2> HIDE DEF s, x
  <2>3. x = sess[s]
    BY DEF x
  <2> QED
    BY <1>1, <1>2, <1>5, <1>6, <2>1, <2>2, <2>3, CancelStep
<1> QED
  BY <1>1, <1>7, <1>8

LEMMA CancelForVerificationKeeps ==
  ASSUME IInv, NEW w \in Workers, CancelForVerification(w)
  PROVE  IInv'
<1> DEFINE s == work[w].s
<1>1. /\ work[w].pc = "apply" /\ UNCHANGED <<rev, opened, byUser, tour>> /\ Go(w, Idle)
      /\ sess' = [sess EXCEPT ![s] = [sess[s] EXCEPT !.lock = None, !.pending = None]]
  BY DEF CancelForVerification, At
<1>2. MayChange(w, s) /\ Settled(s) /\ Shows(sess[s], sess[s].shown, rev)
  BY <1>1, HeldShows
<1> HIDE DEF s
<1> QED
  BY <1>1, <1>2, IdleJob, CancelStep

LEMMA LockForAnswerKeeps ==
  ASSUME IInv, NEW w \in Workers, LockForAnswer(w)
  PROVE  IInv'
<1> DEFINE s == work[w].s
           y == sess[s]
           x == [y EXCEPT !.lock = w]
           j == [work[w] EXCEPT !.pc = "authorize"]
<1>1. /\ work[w].pc = "answer" /\ y.lock = None /\ UNCHANGED <<rev, opened, byUser, tour>>
      /\ \/ LivePrompt(s, work[w].p) /\ sess' = [sess EXCEPT ![s].lock = w] /\ Go(w, j)
         \/ Go(w, Idle) /\ sess' = sess
  BY DEF LockForAnswer, At
<1>2. CASE Go(w, Idle) /\ sess' = sess
  BY <1>1, <1>2, IdleJob, UsersStay, QuietGo DEF Held
<1>3. CASE LivePrompt(s, work[w].p) /\ sess' = [sess EXCEPT ![s].lock = w] /\ Go(w, j)
  <2>1. MayChange(w, s) /\ Settled(s)
    BY <1>1, FreeMayChange
  <2>2. /\ s \in Open /\ s \in Sessions /\ y \in PanelSessions /\ Remembers(y, rev)
        /\ rev \in Revisions /\ work[w] \in Jobs /\ sess \in [Sessions -> PanelSessions]
    BY <2>1, OpenSession DEF MayChange
  <2>3. y.group \in Groups /\ ~y.replaced /\ y.pending # None /\ y.shown # None
    <3>1. byUser[y.owner] = s /\ y.pending # None
      BY <1>3 DEF LivePrompt, Registered
    <3> QED
      BY <2>2, <3>1, RegisteredSession DEF Remembers
  <2>4. Shows(y, y.shown, rev)
    BY <1>1, <2>2, <2>3 DEF IInv, SessionInv
  <2>5. j \in Jobs /\ j.pc = "authorize" /\ j.s = s
    BY <1>1, <2>2, PanelAssumption DEF Jobs
  <2>6. sess' = [sess EXCEPT ![s] = x] /\ sess[s] = y
    BY <1>3, <2>2
  <2> HIDE DEF s, y, j
  <2>7. /\ x \in PanelSessions /\ x.lock = w
        /\ x.owner = y.owner /\ x.replaced = y.replaced /\ x.group = y.group /\ x.rev = y.rev
        /\ x.grev = y.grev /\ x.draft = y.draft /\ x.pending = y.pending /\ x.screen = y.screen
        /\ x.confirm = y.confirm /\ x.shown = y.shown
    BY <2>2 DEF PanelSessions
  <2> HIDE DEF x
  <2>8. Remembers(x, rev') /\ Shows(x, x.shown, rev') /\ HeldFits(j, x, rev')
    BY <1>1, <2>2, <2>3, <2>4, <2>5, <2>7 DEF Remembers, Shows, HeldFits, Held
  <2>9. rev' \in Revisions /\ \A c \in Scopes : rev[c] <= rev'[c]
    BY <1>1, <2>2 DEF Revisions
  <2>10. x.lock = (IF j.pc \in Held THEN w ELSE None) /\ j.pc \in Held
    BY <2>5, <2>7 DEF Held
  <2>11. sess[s].lock \in {None, w} /\ (work[w].pc \in Held => work[w].s = s)
    BY <2>1 DEF MayChange
  <2>12. work' = [work EXCEPT ![w] = j] /\ byUser' = byUser /\ UNCHANGED <<opened, tour>>
    BY <1>1, <1>3 DEF Go
  <2>13. /\ x.owner = sess[s].owner /\ x.group \in Groups /\ ~x.replaced
         /\ (x.shown = None <=> sess[s].shown = None) /\ x.screen = sess[s].screen
    BY <2>3, <2>6, <2>7
  <2> QED
    BY <2>1, <2>2, <2>5, <2>6, <2>7, <2>8, <2>9, <2>10, <2>11, <2>12, <2>13, SessionStep
<1> QED
  BY <1>1, <1>2, <1>3

LEMMA AuthorizeInputKeeps ==
  ASSUME IInv, NEW w \in Workers, AuthorizeInput(w)
  PROVE  IInv'
<1> DEFINE s == work[w].s
           y == sess[s]
           j == [work[w] EXCEPT !.pc = "apply"]
<1>1. /\ work[w].pc = "authorize" /\ UNCHANGED <<rev, opened, tour>>
      /\ \/ Registered(s) /\ Go(w, j) /\ UNCHANGED <<sess, byUser>>
         \/ Unlock(w, s, y)
         \/ FinishSession(w, s)
  BY DEF AuthorizeInput, At
<1>2. /\ MayChange(w, s) /\ Settled(s) /\ y.lock = w /\ ~y.replaced /\ s \in Open
      /\ y \in PanelSessions /\ Remembers(y, rev) /\ Shows(y, y.shown, rev) /\ y.shown # None
      /\ y.pending # None
  BY <1>1, HeldShows
<1>3. CASE Unlock(w, s, y)
  BY <1>1, <1>3, UnlockAsIs
<1>4. CASE FinishSession(w, s)
  BY <1>1, <1>2, <1>4, FinishStep
<1>5. CASE Registered(s) /\ Go(w, j) /\ UNCHANGED <<sess, byUser>>
  <2>1. /\ work[w] \in Jobs /\ rev \in Revisions /\ sess \in [Sessions -> PanelSessions]
        /\ s \in Sessions
    BY <1>2, OpenSession
  <2>2. j \in Jobs /\ j.pc = "apply" /\ j.s = s
    BY <1>1, <2>1 DEF Jobs
  <2>3. sess' = [sess EXCEPT ![s] = y] /\ sess[s] = y
    BY <1>5, <2>1
  <2> HIDE DEF s, y, j
  <2>4. Remembers(y, rev') /\ Shows(y, y.shown, rev') /\ HeldFits(j, y, rev') /\ y.group \in Groups
    BY <1>1, <1>2, <2>1, <2>2 DEF Remembers, Shows, HeldFits, Held
  <2>5. rev' \in Revisions /\ \A c \in Scopes : rev[c] <= rev'[c]
    BY <1>1, <2>1 DEF Revisions
  <2>6. y.lock = (IF j.pc \in Held THEN w ELSE None) /\ j.pc \in Held
    BY <1>2, <2>2 DEF Held
  <2>7. sess[s].lock \in {None, w} /\ (work[w].pc \in Held => work[w].s = s)
    BY <1>2 DEF MayChange
  <2>8. work' = [work EXCEPT ![w] = j] /\ byUser' = byUser /\ UNCHANGED <<opened, tour>>
    BY <1>1, <1>5 DEF Go
  <2> QED
    BY <1>2, <2>2, <2>3, <2>4, <2>5, <2>6, <2>7, <2>8, SessionStep
<1> QED
  BY <1>1, <1>3, <1>4, <1>5

LEMMA AnswerRejectedKeeps ==
  ASSUME IInv, NEW w \in Workers, AnswerRejected(w)
  PROVE  IInv'
BY UnlockAsIs DEF AnswerRejected, Applies, At
-----------------------------------------------------------------------------
(* The invariant *)

LEMMA InitHolds == Init => IInv
<1> SUFFICES ASSUME Init PROVE IInv
  OBVIOUS
<1>1. opened = 0 /\ Open = {} /\ \A w \in Workers : work[w].pc = "idle" /\ work[w] = Idle
  BY DEF Init, Open, Idle
<1>2. TypeOK
  <2>1. rev \in Revisions /\ opened \in {0} \cup Sessions /\ tour \in Tours
    BY DEF Init, Revisions
  <2>2. sess \in [Sessions -> PanelSessions]
    BY NoSessionType DEF Init
  <2>3. byUser \in [Users -> {0} \cup Sessions] /\ work \in [Workers -> Jobs]
    BY IdleJob DEF Init
  <2> QED
    BY <2>1, <2>2, <2>3 DEF TypeOK
<1>3. LockInv /\ SessionInv
  BY <1>1 DEF LockInv, SessionInv
<1>4. HolderInv /\ PressInv /\ JobInv
  BY <1>1 DEF HolderInv, PressInv, JobInv, Held
<1>5. MapInv
  BY <1>1 DEF MapInv, Init
<1> QED
  BY <1>2, <1>3, <1>4, <1>5 DEF IInv

LEMMA StepKeeps ==
  ASSUME IInv, [Next]_vars
  PROVE  IInv'
<1>1. CASE UNCHANGED vars
  <2>1. /\ rev' \in Revisions /\ \A c \in Scopes : rev[c] <= rev'[c]
    BY <1>1 DEF vars, IInv, TypeOK, Revisions
  <2>2. work' \in [Workers -> Jobs] /\ work' = work /\ byUser' = byUser
        /\ UNCHANGED <<sess, opened, tour>>
    BY <1>1 DEF vars, IInv, TypeOK
  <2> QED
    BY <2>1, <2>2, UsersStay, QuietStep
<1>2. ASSUME NEW w \in Workers, Dispatch(w) PROVE IInv'
  <2>1. CASE EndSession(w) \/ GlobalConflict(w)
    BY <2>1, FinishingKeeps
  <2>2. CASE Navigate(w) \/ Toggle(w) \/ ArmInput(w) \/ Notice(w) \/ OpenDraft(w)
    BY <2>2, NavigateKeeps, ToggleKeeps, ArmInputKeeps, NoticeKeeps, OpenDraftKeeps
  <2>3. CASE ChangeDraft(w) \/ SaveDraft(w) \/ AskConfirmation(w) \/ Confirm(w)
    BY <2>3, ChangeDraftKeeps, SaveDraftKeeps, AskConfirmationKeeps, ConfirmKeeps
  <2>4. CASE Cancel(w) \/ CancelInput(w) \/ \E g \in Groups : SelectGroup(w, g)
    BY <2>4, CancelKeeps, CancelInputKeeps, SelectGroupKeeps
  <2> QED
    BY <1>2, <2>1, <2>2, <2>3, <2>4 DEF Dispatch
<1>3. ASSUME NEW w \in Workers, Answer(w) PROVE IInv'
  <2>1. CASE MatchPrompt(w) \/ ConsumeTombstone(w) \/ LockForAnswer(w) \/ AuthorizeInput(w)
    BY <2>1, MatchPromptKeeps, ConsumeTombstoneKeeps, LockForAnswerKeeps, AuthorizeInputKeeps
  <2>2. CASE CancelForVerification(w) \/ AnswerEndsSession(w) \/ AnswerRejected(w)
    BY <2>2, CancelForVerificationKeeps, FinishingKeeps, AnswerRejectedKeeps
  <2>3. CASE CommitAnswer(w) \/ AlreadyListed(w) \/ PickPrivateChannel(w) \/ AnswerIntoDraft(w)
    BY <2>3, CommitAnswerKeeps, AlreadyListedKeeps, PickPrivateChannelKeeps, AnswerIntoDraftKeeps
  <2> QED
    BY <1>3, <2>1, <2>2, <2>3 DEF Answer
<1>4. ASSUME NEW w \in Workers, Handle(w) PROVE IInv'
  <2>1. CASE NewSettingsSession(w) \/ RegisterSession(w) \/ SendLink(w) \/ Refused(w)
    BY <2>1, NewSettingsSessionKeeps, RegisterStep, SendLinkKeeps, RefusedKeeps
  <2>2. CASE ShowGroupList(w) \/ Rendered(w) \/ RenderFails(w) \/ SendPrompt(w)
    BY <2>2, ShowGroupListKeeps, RenderedKeeps, FinishingKeeps, SendPromptKeeps
  <2>3. CASE Commit(w) \/ CommitFails(w) \/ Revoke(w)
    BY <2>3, CommitKeeps, FinishingKeeps
  <2> QED
    BY <1>2, <1>3, <1>4, <2>1, <2>2, <2>3 DEF Handle
<1>5. ASSUME NEW w \in Workers, Update(w) PROVE IInv'
  <2>1. ASSUME NEW u \in Users, NEW g \in Groups, OnSettings(w, u, g) PROVE IInv'
    BY <2>1, OnSettingsKeeps
  <2>2. ASSUME NEW s \in Sessions, OpenSettingsStart(w, s) \/ ChatShared(w, s) PROVE IInv'
    BY <2>2, OpenSettingsStartKeeps, ChatSharedKeeps
  <2>3. ASSUME NEW s \in 1 .. opened, NEW b, OnSettingsCallback(w, s, b) PROVE IInv'
    BY <2>3, OnSettingsCallbackKeeps DEF Open
  <2>4. ASSUME NEW u \in Users, NEW p \in Prompts, Reply(w, u, p) PROVE IInv'
    BY <2>4, ReplyKeeps
  <2> QED
    BY <1>5, <2>1, <2>2, <2>3, <2>4 DEF Update
<1> QED
  BY <1>1, <1>4, <1>5, SurroundingsKeep DEF Next

\* The invariant holds in every behaviour of the panel, for any administrators, groups,
\* handlers, tours and bounds.
THEOREM Inductive == Spec => []IInv
<1>1. IInv /\ [Next]_vars => IInv'
  BY StepKeeps
<1> QED
  BY InitHolds, <1>1, PTL DEF Spec

\* Sessions, jobs and revisions keep the types of the Go declarations; every screen and
\* button is one the code names.
THEOREM TypeCorrect == Spec => []TypeOK
<1>1. IInv => TypeOK
  BY DEF IInv
<1> QED
  BY Inductive, <1>1, PTL
-----------------------------------------------------------------------------
(* What the commits of the panel keep *)

\* Only a commit of the panel, or of somebody else, moves a revision.
LEMMA RevisionMoves ==
  ASSUME [Next]_vars, rev' # rev
  PROVE  (\E v \in Workers : Commit(v)) \/ \E c \in Scopes : OtherCommit(c)
<1>1. ASSUME NEW w \in Workers, Dispatch(w) PROVE rev' = rev
  <2>1. CASE EndSession(w) \/ GlobalConflict(w) \/ Notice(w) \/ CancelInput(w)
    BY <2>1 DEF EndSession, GlobalConflict, Notice, CancelInput
  <2>2. CASE Navigate(w) \/ Toggle(w) \/ ArmInput(w) \/ OpenDraft(w) \/ ChangeDraft(w)
    BY <2>2 DEF Navigate, Toggle, ArmInput, OpenDraft, ChangeDraft, Elsewhere
  <2>3. CASE SaveDraft(w) \/ AskConfirmation(w) \/ Confirm(w) \/ Cancel(w)
             \/ \E g \in Groups : SelectGroup(w, g)
    BY <2>3 DEF SaveDraft, AskConfirmation, Confirm, Cancel, SelectGroup, Elsewhere
  <2> QED
    BY <1>1, <2>1, <2>2, <2>3 DEF Dispatch
<1>2. ASSUME NEW w \in Workers, Answer(w) PROVE rev' = rev
  <2>1. CASE MatchPrompt(w) \/ ConsumeTombstone(w) \/ LockForAnswer(w) \/ AuthorizeInput(w)
    BY <2>1 DEF MatchPrompt, ConsumeTombstone, LockForAnswer, AuthorizeInput
  <2>2. CASE CancelForVerification(w) \/ AnswerEndsSession(w) \/ AnswerRejected(w)
    BY <2>2 DEF CancelForVerification, AnswerEndsSession, AnswerRejected
  <2>3. CASE CommitAnswer(w) \/ AlreadyListed(w) \/ PickPrivateChannel(w) \/ AnswerIntoDraft(w)
    BY <2>3 DEF CommitAnswer, AlreadyListed, PickPrivateChannel, AnswerIntoDraft, Elsewhere
  <2> QED
    BY <1>2, <2>1, <2>2, <2>3 DEF Answer
<1>3. ASSUME NEW w \in Workers, Handle(w), ~Commit(w) PROVE rev' = rev
  <2>1. CASE NewSettingsSession(w) \/ RegisterSession(w) \/ SendLink(w) \/ Refused(w)
    BY <2>1 DEF NewSettingsSession, RegisterSession, SendLink, Refused
  <2>2. CASE ShowGroupList(w) \/ Rendered(w) \/ RenderFails(w) \/ SendPrompt(w)
             \/ CommitFails(w) \/ Revoke(w)
    BY <2>2 DEF ShowGroupList, Rendered, RenderFails, SendPrompt, CommitFails, Revoke
  <2> QED
    BY <1>1, <1>2, <1>3, <2>1, <2>2 DEF Handle
<1>4. ASSUME NEW w \in Workers, Update(w) PROVE rev' = rev
  BY <1>4 DEF Update, OnSettings, OpenSettingsStart, ChatShared, OnSettingsCallback, Reply
<1>5. ASSUME NEW u \in Users, VerificationStarts(u) \/ VerificationEnds(u) \/ Expire(u)
      PROVE  rev' = rev
  BY <1>5 DEF VerificationStarts, VerificationEnds, Expire
<1> QED
  BY <1>3, <1>4, <1>5 DEF Next, Surroundings, vars

\* A step that submits the change of a handler is the commit of that handler.
LEMMA SubmitIsCommit ==
  ASSUME IInv, [Next]_vars, NEW w \in Workers, Submits(w)
  PROVE  Commit(w)
<1>1. work[w].pc = "commit" /\ work'[w].pc # "commit" /\ rev' # rev
  BY DEF Submits, At
<1>2. ASSUME NEW c \in Scopes, OtherCommit(c) PROVE FALSE
  BY <1>1, <1>2 DEF OtherCommit
<1>3. ASSUME NEW v \in Workers \ {w}, Commit(v) PROVE FALSE
  BY <1>1, <1>3 DEF Commit, Go, IInv, TypeOK
<1> QED
  BY <1>1, <1>2, <1>3, RevisionMoves

\* No change of the panel overwrites what its administrator was not shown: it was composed
\* from the revision it replaces.  The session expects a revision no newer than the one it
\* composed the change from, which is no newer than the current one, and the store compares
\* the first with the last.
THEOREM ShownBeforeChanged == Spec => NothingUnseenIsOverwritten
<1>1. ASSUME IInv, [Next]_vars, NEW w \in Workers, Submits(w), ~work[w].merge
      PROVE  work[w].seen = rev[work[w].scope]
  <2> DEFINE job == work[w]
             x == sess[job.s]
  <2>1. job.pc = "commit" /\ rev[job.scope] = Expected(x, job.scope)
    BY <1>1, SubmitIsCommit DEF Commit, At, Accepts
  <2>2. Expected(x, job.scope) <= job.seen /\ job.seen <= rev[job.scope]
    BY <1>1, <2>1, HolderMayChange DEF Held, HeldFits
  <2>3. job.seen \in Nat /\ rev[job.scope] \in Nat
    BY <1>1, <2>1, JobFields DEF IInv, TypeOK, Revisions
  <2> QED
    BY <2>1, <2>2, <2>3
<1>2. IInv /\ [Next]_vars =>
        [\A w \in Workers :
           Submits(w) /\ ~work[w].merge => work[w].seen = rev[work[w].scope]]_vars
  BY <1>1
<1> QED
  BY Inductive, <1>2, PTL DEF Spec, NothingUnseenIsOverwritten

\* Once a new panel has replaced the one an administrator had, no handler of the old one
\* commits a change: the launch waited for its lock, and the session it left is in no map
\* from which it could be locked again.
THEOREM ReplacedCommitsNothing == Spec => ReplacedPanelIsDone
<1>1. ASSUME IInv, [Next]_vars, NEW w \in Workers, Submits(w)
      PROVE  ~ sess[work[w].s].replaced
  BY <1>1, SubmitIsCommit, HolderMayChange DEF Commit, At, Held
<1>2. IInv /\ [Next]_vars => [\A w \in Workers : Submits(w) => ~ sess[work[w].s].replaced]_vars
  BY <1>1
<1> QED
  BY Inductive, <1>2, PTL DEF Spec, ReplacedPanelIsDone
=============================================================================
