---------------------------- MODULE PanelSession ----------------------------
(***************************************************************************)
(* The private settings panel of internal/panel.  An administrator opens a *)
(* session with /settings, presses buttons on one panel message that is    *)
(* edited in place, and answers prompts with replies or the chat picker.   *)
(* A session captures the revision of what it shows and submits it with    *)
(* each change.  Handlers of one administrator run concurrently: they are  *)
(* kept apart by the mutex of the session, which they hold while they wait *)
(* for Telegram, and by the token that every rendering renews.             *)
(*                                                                         *)
(* A setting is abstracted to the revision of its scope, a group or the    *)
(* bot-wide overrides; which value a button sets is left out, and buttons  *)
(* of a screen that act alike are one button.                              *)
(***************************************************************************)
EXTENDS Naturals, FiniteSets

CONSTANTS
  Users,          \* administrators
  Groups,         \* guarded groups
  ControlGroup,   \* Settings.ControlGroupID
  Global,         \* the scope of the bot-wide overrides
  Workers,        \* handler goroutines
  None,
  SessionCap,     \* panelSessionCap
  MaxSessions,    \* bound: sessions ever opened
  MaxPrompts,     \* bound: prompts of one session
  Tours           \* bounds of a behaviour, which takes one of these tours

ASSUME PanelAssumption ==
  /\ Global \notin Groups
  /\ ControlGroup \in Groups
  /\ None \notin Workers
  /\ {SessionCap, MaxSessions, MaxPrompts} \subseteq Nat

VARIABLES
  rev,         \* [Scopes -> Nat]: the committed revisions
  sess,        \* the panelSession objects, by number; 0 is no session
  opened,      \* how many were created
  byUser,      \* settingsPanelState.byUser; byToken holds the same sessions
  tombstones,  \* settingsPanelState.tombstones: canceled prompts
  launchMu,    \* settingsPanelState.launchMu: the worker that holds it
  kernel,      \* the administrators with a kernel verification to answer
  graded,      \* the prompts of which a reply was handed to kernel grading
  work,        \* what every worker is doing
  faults,
  tour         \* the bounds of this behaviour: the screens and groups it visits,
               \* how many sessions, prompts, commits and faults, and who else commits or verifies

vars == <<rev, sess, opened, byUser, tombstones, launchMu, kernel, graded,
          work, faults, tour>>

-----------------------------------------------------------------------------
Scopes == Groups \cup {Global}
Sessions == 1 .. MaxSessions
ASSUME ToursAssumption == \A t \in Tours :
  /\ DOMAIN t = {"screens", "groups", "sessions", "prompts",
               "commits", "faults", "others", "verifies"}
  /\ t.sessions \in 0 .. MaxSessions /\ t.prompts \in 0 .. MaxPrompts
Hub == {"gl", "gh", "in", "cf"}

B(do, to) == [do |-> do, to |-> to]

(* The buttons of a screen: what the builders offer and the codec accepts. *)
HomeButtons ==
  [gl |-> {B("select", "gh"), B("stay", "gl"), B("close", "gl")},
   gh |-> {B("stay", "gh"), B("close", "gh")}
            \cup {B("go", s) : s \in {"gl", "rt", "ls", "md", "vp", "ct"}},
   ct |-> {B("go", s) : s \in {"gh", "qb", "fb", "ch"}},
   cf |-> {B("confirm", "cf"), B("cancel", "cf")},
   in |-> {B("cancel", "in")}]

RuntimeButtons == {B("toggle", "group"), B("text", "value"), B("go", "gh")}

ValueButtons ==
  [vp |-> {B("toggle", "group"), B("text", "value"), B("text", "rate"),
           B("go", "gh")},
   md |-> {B("toggle", "group"), B("text", "value"), B("toggle", "global"),
           B("pick", "alert"), B("go", "gh")}]

ListButtons(list) ==
  [ls |-> {B("list", "list"), B("list", "whitelist"), B("go", "gh")},
   li |-> {B("pick", list), B("remove", list), B("stay", "li"), B("go", "ls")},
   ch |-> {B("pick", "channel"), B("text", "invite"), B("toggle", "group"),
           B("ask", "ch"), B("go", "ct")}]

BankButtons ==
  [qb |-> {B("open", "qd"), B("text", "question"), B("stay", "qb"), B("go", "ct")},
   fb |-> {B("open", "fd"), B("text", "question"), B("stay", "fb"), B("go", "ct"),
           B("ask", "fb")}]

DraftButtons(existing) ==
  {B("text", "question"), B("text", "answer"), B("change", "draft"),
   B("save", "draft"), B("cancel", "draft")}
    \cup IF existing THEN {B("ask", "draft")} ELSE {}

Buttons(x) ==
  CASE x.screen \in {"qd", "fd"} -> DraftButtons(x.draft.existing)
    [] x.screen \in {"qb", "fb"} -> BankButtons[x.screen]
    [] x.screen \in {"ls", "li", "ch"} -> ListButtons(x.list)[x.screen]
    [] x.screen = "rt" -> RuntimeButtons
    [] x.screen \in {"vp", "md"} -> ValueButtons[x.screen]
    [] OTHER -> HomeButtons[x.screen]

(* revisionSensitive: navigation, paging, refreshing and canceling are not. *)
RevisionSensitive(b) == b.do \notin {"go", "stay", "cancel", "select", "close"}

Bank(detail) == IF detail = "qd" THEN "qb" ELSE "fb"
Detail(bank) == IF bank \in {"qb", "qd"} THEN "qd" ELSE "fd"
PickKinds == {"alert", "list", "whitelist", "channel"}

-----------------------------------------------------------------------------
NoSession ==
  [owner |-> None, lock |-> None, group |-> None, screen |-> "gl", list |-> "list",
   rev |-> 0, grev |-> 0, shown |-> None, pending |-> None, draft |-> None,
   confirm |-> None, channel |-> None, prompts |-> 0, replaced |-> FALSE]

\* replaced is kept for the properties: the code has no such field.
Idle == [pc |-> "idle"]

Init ==
  /\ rev = [c \in Scopes |-> 0]
  /\ sess = [s \in Sessions |-> NoSession]
  /\ opened = 0
  /\ byUser = [u \in Users |-> 0]
  /\ tombstones = {}
  /\ launchMu = None
  /\ kernel = {}
  /\ graded = {}
  /\ work = [w \in Workers |-> Idle]
  /\ faults = 0
  /\ tour \in Tours

Registered(s) == byUser[sess[s].owner] = s
Go(w, job) == work' = [work EXCEPT ![w] = job]
At(w, pc) == work[w].pc = pc
Fault == faults < tour.faults /\ faults' = faults + 1

(* Telegram answers the administrator question: yes, no, or an error.      *)
FreshAdmin(answer) == IF answer = "yes" THEN UNCHANGED faults ELSE Fault

(* rememberCanceledPrompt: only a prompt that was sent has a message.      *)
Tombstone(x) ==
  IF x.pending = None THEN {}
  ELSE {p \in {x.pending.prompt} : p # None}

(* finishSession: the session leaves both maps, its prompt is remembered.  *)
Unregister(s) == byUser' = [u \in Users |-> IF byUser[u] = s THEN 0 ELSE byUser[u]]
FinishSession(w, s) ==
  /\ tombstones' = tombstones \cup Tombstone(sess[s])
  /\ sess' = [sess EXCEPT ![s] = [NoSession EXCEPT !.owner = sess[s].owner]]
  /\ Unregister(s)
  /\ Go(w, Idle)

Unlock(w, s, x) ==
  /\ sess' = [sess EXCEPT ![s] = [x EXCEPT !.lock = None]]
  /\ Go(w, Idle)
  /\ UNCHANGED <<byUser, tombstones>>

\* A panel that captures the bot-wide revision while it asks for an input, too.
BuggyRecaptured(x, revs) ==
  IF x.screen \in {"vp", "md", "in"} THEN [x EXCEPT !.grev = revs[Global]] ELSE x

(* The two screens that show bot-wide settings capture their revision anew *)
(* whenever they are built (buildVerificationParameters, buildModeration). *)
Recaptured(x, revs) ==
  IF x.screen \in {"vp", "md"} THEN [x EXCEPT !.grev = revs[Global]] ELSE x

(* buildScreen, then the edit of the panel message is sent.                *)
RenderSession(w, s, x, then) ==
  /\ sess' = [sess EXCEPT ![s] = [Recaptured(x, rev) EXCEPT !.lock = w]]
  /\ Go(w, [pc |-> "render", s |-> s, then |-> then,
            built |-> [c \in Scopes |-> rev[c]]])

(* A change submitted to the store: scope, and what it was composed from.  *)
Submit(w, s, x, scope, seen, merge) ==
  /\ sess' = [sess EXCEPT ![s] = [x EXCEPT !.lock = w]]
  /\ Go(w, [pc |-> "commit", s |-> s, scope |-> scope, seen |-> seen,
            merge |-> merge])

-----------------------------------------------------------------------------
(* Opening a panel.                                                        *)

(* OnSettings: an administrator sends /settings in a group.                *)
OnSettings(w, u, g) ==
  /\ At(w, "idle")
  /\ opened < tour.sessions
  /\ g \in tour.groups
  /\ Go(w, [pc |-> "launch", u |-> u, g |-> g])
  /\ UNCHANGED <<rev, sess, opened, byUser, tombstones, launchMu, kernel, graded, faults, tour>>

(* newSettingsSession takes launchMu and drops the user's previous session *)
(* from both maps; at the cap it gives up.                                 *)
NewSettingsSession(w) ==
  /\ At(w, "launch") /\ launchMu = None
  /\ LET u == work[w].u
         without == [byUser EXCEPT ![u] = 0]
     IN /\ byUser' = without
        /\ IF Cardinality({v \in Users : without[v] # 0}) >= SessionCap
             THEN Go(w, Idle) /\ UNCHANGED launchMu
             ELSE /\ launchMu' = w
                  /\ Go(w, [pc |-> "register", u |-> u, g |-> work[w].g, prev |-> byUser[u]])
  /\ UNCHANGED <<rev, sess, opened, tombstones, kernel, graded, faults, tour>>

\* A launch that does not wait for a handler of the previous session.
BuggyQuiet(prev) == TRUE

(* The launch waits until no handler holds the previous session.           *)
Quiet(prev) == prev \in {0} \cup {s \in Sessions : sess[s].lock = None}

(* It cancels the prompt of the previous session and registers the new one.*)
RegisterSession(w) ==
  /\ At(w, "register") /\ Quiet(work[w].prev)
  /\ opened < tour.sessions
  /\ LET u == work[w].u  prev == work[w].prev  s == opened + 1
     IN /\ opened' = s
        /\ tombstones' = IF prev = 0 THEN tombstones
                         ELSE tombstones \cup Tombstone(sess[prev])
        /\ sess' = [i \in Sessions |->
                      IF i = s THEN [NoSession EXCEPT !.owner = u, !.group = work[w].g]
                      ELSE IF i = prev THEN [sess[i] EXCEPT !.pending = None, !.replaced = TRUE]
                      ELSE sess[i]]
        /\ byUser' = [byUser EXCEPT ![u] = s]
        /\ launchMu' = None
        /\ Go(w, [pc |-> "link", s |-> s])
  /\ UNCHANGED <<rev, kernel, graded, faults, tour>>

(* The group answers with the deep link, or the session is removed.        *)
SendLink(w) ==
  /\ At(w, "link")
  /\ \/ UNCHANGED <<byUser, faults>>
     \/ Fault /\ Unregister(work[w].s)
  /\ Go(w, Idle)
  /\ UNCHANGED <<rev, sess, opened, tombstones, launchMu, kernel, graded, tour>>

(* openSettingsStart: the owner follows the link; the token is found and   *)
(* the right is checked before the session is locked.                      *)
OpenSettingsStart(w, s) ==
  /\ At(w, "idle") /\ s <= opened
  /\ Registered(s) /\ sess[s].shown = None
  /\ \/ UNCHANGED <<faults, byUser>> /\ Go(w, [pc |-> "start", s |-> s, live |-> TRUE])
     \/ Fault /\ Unregister(s) /\ UNCHANGED work
  /\ UNCHANGED <<rev, sess, opened, tombstones, launchMu, kernel, graded, tour>>

(* sessionByToken under the lock: still registered, under this token.      *)
Holds(w) == Registered(work[w].s) /\ work[w].live

Refused(w) ==
  /\ work[w].pc \in {"start", "callback"} /\ sess[work[w].s].lock = None
  /\ ~ Holds(w)
  /\ Go(w, Idle)
  /\ UNCHANGED <<rev, sess, opened, byUser, tombstones, launchMu, kernel, graded, faults, tour>>

ShowGroupList(w) ==
  /\ At(w, "start") /\ sess[work[w].s].lock = None /\ Holds(w)
  /\ RenderSession(w, work[w].s, [sess[work[w].s] EXCEPT !.screen = "gl"], "done")
  /\ UNCHANGED <<rev, opened, byUser, tombstones, launchMu, kernel, graded, faults, tour>>

-----------------------------------------------------------------------------
(* Rendering and committing, with the session locked.                      *)

(* rotateSessionToken: every press of the old keyboard is now refused.     *)
Rotated(s) ==
  [v \in Workers |-> IF work[v].pc \in {"start", "callback"} /\ work[v].s = s
                       THEN [work[v] EXCEPT !.live = FALSE] ELSE work[v]]

(* The edit succeeds and the token rotates, or the session is finished.    *)
Rendered(w) ==
  LET s == work[w].s IN
  /\ At(w, "render")
  /\ Registered(s)
  /\ sess' = [sess EXCEPT ![s].shown = work[w].built,
                          ![s].lock = IF work[w].then = "prompt" THEN w ELSE None]
  /\ work' = [Rotated(s) EXCEPT ![w] = IF work[w].then = "prompt"
                                         THEN [pc |-> "prompt", s |-> s] ELSE Idle]
  /\ UNCHANGED <<rev, opened, byUser, tombstones, launchMu, kernel, graded, faults, tour>>

(* The edit fails, or the session was removed while it was under way.  A   *)
(* prompt being armed is forgotten; a committed change stays committed.    *)
RenderFails(w) ==
  /\ At(w, "render")
  /\ IF Registered(work[w].s) THEN Fault ELSE UNCHANGED faults
  /\ FinishSession(w, work[w].s)
  /\ UNCHANGED <<rev, opened, launchMu, kernel, graded, tour>>

(* The end of armTextInput and armChatInput: the prompt itself is sent.    *)
SendPrompt(w) ==
  LET s == work[w].s  n == sess[s].prompts + 1 IN
  /\ At(w, "prompt")
  /\ \/ /\ n <= tour.prompts
        /\ Unlock(w, s, [sess[s] EXCEPT !.prompts = n, !.pending.prompt = <<s, n>>])
        /\ UNCHANGED faults
     \/ Fault /\ FinishSession(w, s)
  /\ UNCHANGED <<rev, opened, launchMu, kernel, graded, tour>>

(* The revision a commit expects: the one its session captured.            *)
Expected(x, scope) == IF scope = Global THEN x.grev ELSE x.rev
Accepts(x, job) == job.merge \/ rev[job.scope] = Expected(x, job.scope)

(* CommitGroup or CommitGlobal accepts the change: the session takes over  *)
(* the new revision and is rendered, as RenderSession does.                *)
Commit(w) ==
  LET job == work[w]  s == job.s  next == rev[job.scope] + 1
      x == IF job.scope = Global THEN [sess[s] EXCEPT !.grev = next]
                                 ELSE [sess[s] EXCEPT !.rev = next]
  IN /\ At(w, "commit") /\ Accepts(sess[s], job)
     /\ next <= tour.commits
     /\ rev' = [rev EXCEPT ![job.scope] = next]
     /\ sess' = [sess EXCEPT ![s] = Recaptured(x, rev')]
     /\ Go(w, [pc |-> "render", s |-> s, then |-> "done", built |-> rev'])
     /\ UNCHANGED <<opened, byUser, tombstones, launchMu, kernel, graded, faults, tour>>

(* It is refused over the revision, or not written: the session ends.      *)
CommitFails(w) ==
  /\ At(w, "commit")
  /\ IF Accepts(sess[work[w].s], work[w]) THEN Fault ELSE UNCHANGED faults
  /\ FinishSession(w, work[w].s)
  /\ UNCHANGED <<rev, opened, launchMu, kernel, graded, tour>>

-----------------------------------------------------------------------------
(* Buttons.                                                                *)

Reachable(b) == b.do \in {"go", "open"} => b.to \in Hub \cup tour.screens

(* OnSettingsCallback: a press, and the answer to who pressed.  Somebody   *)
(* who lost the right loses the session, when its lock is free.            *)
OnSettingsCallback(w, s, b) ==
  /\ At(w, "idle") /\ s <= opened
  /\ Registered(s) /\ sess[s].shown # None /\ sess[s].lock = None
  /\ b \in Buttons(sess[s]) /\ Reachable(b)
  /\ \E answer \in {"yes", "no"} :
       /\ FreshAdmin(answer)
       /\ Go(w, IF answer = "yes" THEN [pc |-> "callback", s |-> s, b |-> b, live |-> TRUE]
                                  ELSE [pc |-> "revoked", s |-> s])
  /\ UNCHANGED <<rev, sess, opened, byUser, tombstones, launchMu, kernel, graded, tour>>

(* finishUserSession.                                                      *)
Revoke(w) ==
  /\ At(w, "revoked") /\ sess[work[w].s].lock = None
  /\ FinishSession(w, work[w].s)
  /\ UNCHANGED <<rev, opened, launchMu, kernel, graded, faults, tour>>

Stale(x) == rev[x.group] # x.rev

\* A draft saved over whatever the bank has become.
BuggyDraftHolds(x) == x.draft # None

(* A draft and a confirmation belong to the revision they were opened at.  *)
DraftHolds(x) == x.draft # None /\ x.draft.rev = x.rev
ConfirmHolds(x) == x.confirm # None /\ x.confirm.rev = x.rev

(* dispatchCallback: the session as a press finds it.  A press that is not *)
(* sensitive to the revision takes over the current one.                   *)
Adopted(x, b) ==
  IF x.screen # "gl" /\ ~RevisionSensitive(b) THEN [x EXCEPT !.rev = rev[x.group]] ELSE x

Conflicts(x, b) ==
  \/ RevisionSensitive(b) /\ Stale(x)
  \/ x.screen \in {"qd", "fd"} /\ ~DraftHolds(Adopted(x, b))
  \/ x.screen = "cf" /\ ~ConfirmHolds(Adopted(x, b))

(* The part shared by the presses below: the lock is free, the token is    *)
(* current, the revision allows it.                                        *)
Pressed(w, b) ==
  /\ At(w, "callback") /\ work[w].b = b
  /\ sess[work[w].s].lock = None /\ Holds(w)
  /\ ~ Conflicts(sess[work[w].s], b)

Session(w) == Adopted(sess[work[w].s], work[w].b)
Elsewhere == UNCHANGED <<rev, opened, byUser, tombstones, launchMu, kernel, graded, faults, tour>>

(* A press at a revision that is no longer current, and "close".           *)
EndSession(w) ==
  /\ At(w, "callback") /\ sess[work[w].s].lock = None /\ Holds(w)
  /\ work[w].b.do = "close" \/ Conflicts(sess[work[w].s], work[w].b)
  /\ FinishSession(w, work[w].s)
  /\ UNCHANGED <<rev, opened, launchMu, kernel, graded, faults, tour>>

(* A group is chosen: both revisions are captured.                         *)
SelectGroup(w, g) ==
  /\ g \in tour.groups
  /\ Pressed(w, B("select", "gh"))
  /\ RenderSession(w, work[w].s,
       [Session(w) EXCEPT !.group = g, !.rev = rev[g], !.grev = rev[Global],
                          !.screen = "gh"], "done")
  /\ Elsewhere

(* navigate drops the drafts; a list, a page or a refresh keeps them.      *)
Navigate(w) ==
  /\ work[w].pc = "callback" /\ work[w].b.do \in {"go", "list", "stay"}
  /\ Pressed(w, work[w].b)
  /\ LET b == work[w].b  x == Session(w)
     IN RenderSession(w, work[w].s,
          CASE b.do = "go" -> [x EXCEPT !.screen = b.to, !.draft = None]
            [] b.do = "list" -> [x EXCEPT !.screen = "li", !.list = b.to]
            [] OTHER -> x, "done")
  /\ Elsewhere

(* A switch, or the removal of a list item, is committed at once; what is  *)
(* bot-wide only from the control group, and a white-list entry on top of  *)
(* whatever is current (updateChannelWhitelist).                           *)
Toggle(w) ==
  /\ work[w].pc = "callback" /\ work[w].b.do \in {"toggle", "remove"}
  /\ Pressed(w, work[w].b)
  /\ LET b == work[w].b  x == Session(w)
         scope == IF b.to = "global" THEN Global ELSE x.group
     IN /\ scope = Global => x.group = ControlGroup
        /\ scope = Global => x.grev = rev[Global]
        /\ Submit(w, work[w].s, x, scope, x.shown[scope], b.to = "whitelist")
  /\ Elsewhere

(* commitGlobalFromModeration finds other bot-wide settings than captured. *)
GlobalConflict(w) ==
  /\ Pressed(w, B("toggle", "global"))
  /\ Session(w).group = ControlGroup /\ Session(w).grev # rev[Global]
  /\ FinishSession(w, work[w].s)
  /\ UNCHANGED <<rev, opened, launchMu, kernel, graded, faults, tour>>

(* A prompt is armed: for a text, or with the chat picker.                 *)
Arm(w, s, x, kind, parent) ==
  RenderSession(w, s,
    [x EXCEPT !.pending = [kind |-> kind, parent |-> parent, prompt |-> None,
                           rev |-> x.rev, seen |-> x.shown],
              !.screen = "in"], "prompt")

ArmInput(w) ==
  /\ work[w].pc = "callback" /\ work[w].b.do \in {"text", "pick"}
  /\ Pressed(w, work[w].b)
  /\ LET x == Session(w)
     IN /\ x.owner \notin kernel
        /\ work[w].b.to \in {"rate", "alert"} => x.group = ControlGroup
        /\ Arm(w, work[w].s, x, work[w].b.to, x.screen)
  /\ Elsewhere

(* A notice (panelNoticeError) leaves the session as it was: input is      *)
(* blocked by a verification, the setting is the control group's, the      *)
(* draft is not complete, or the bot is no longer in the group chosen.     *)
Notice(w) ==
  /\ work[w].pc = "callback" /\ work[w].b.do \in {"text", "pick", "toggle", "save", "select"}
  /\ Pressed(w, work[w].b)
  /\ LET b == work[w].b  x == Session(w)
     IN \/ b.do \in {"text", "pick"} /\ x.owner \in kernel
        \/ b.to \in {"rate", "alert", "global"} /\ x.group # ControlGroup
        \/ b.do \in {"save", "select"}
  /\ Unlock(w, work[w].s, Session(w))
  /\ UNCHANGED <<rev, opened, launchMu, kernel, graded, faults, tour>>

(* A question of a bank is copied into a draft.                            *)
OpenDraft(w) ==
  /\ work[w].pc = "callback" /\ work[w].b.do = "open"
  /\ Pressed(w, work[w].b)
  /\ LET x == Session(w)
     IN RenderSession(w, work[w].s,
          [x EXCEPT !.draft = [existing |-> TRUE, rev |-> x.rev, seen |-> rev[x.group]],
                    !.screen = work[w].b.to], "done")
  /\ Elsewhere

(* A draft is changed in memory only.                                      *)
ChangeDraft(w) ==
  /\ Pressed(w, B("change", "draft"))
  /\ RenderSession(w, work[w].s, Session(w), "done")
  /\ Elsewhere

(* Saving replaces the question the draft was copied from, or adds one.    *)
SaveDraft(w) ==
  /\ Pressed(w, B("save", "draft"))
  /\ LET x == Session(w)
     IN Submit(w, work[w].s, [x EXCEPT !.draft = None, !.screen = Bank(x.screen)],
               x.group, x.draft.seen, FALSE)
  /\ Elsewhere

(* A deletion, a reset or a removal asks first.                            *)
AskConfirmation(w) ==
  /\ work[w].pc = "callback" /\ work[w].b.do = "ask"
  /\ Pressed(w, work[w].b)
  /\ LET x == Session(w)
         drafted == x.screen \in {"qd", "fd"}
     IN RenderSession(w, work[w].s,
          [x EXCEPT !.screen = "cf",
                    !.confirm = [parent |-> IF drafted THEN Bank(x.screen) ELSE x.screen,
                                 rev |-> IF drafted THEN x.draft.rev ELSE x.rev,
                                 seen |-> IF drafted THEN x.draft.seen ELSE x.shown[x.group]]],
          "done")
  /\ Elsewhere

Confirm(w) ==
  /\ Pressed(w, B("confirm", "cf"))
  /\ LET x == Session(w)
     IN Submit(w, work[w].s,
               [x EXCEPT !.confirm = None, !.draft = None, !.screen = x.confirm.parent],
               x.group, x.confirm.seen, FALSE)
  /\ Elsewhere

(* Canceling a draft drops it; canceling a confirmation does not.          *)
Cancel(w) ==
  /\ work[w].pc = "callback" /\ work[w].b.do = "cancel"
  /\ sess[work[w].s].screen # "in"
  /\ Pressed(w, work[w].b)
  /\ LET x == Session(w)
     IN RenderSession(w, work[w].s,
          IF x.screen = "cf" THEN [x EXCEPT !.screen = x.confirm.parent, !.confirm = None]
          ELSE [x EXCEPT !.screen = Bank(x.screen), !.draft = None], "done")
  /\ Elsewhere

(* cancelInput goes back to where the prompt was armed; a panel whose      *)
(* prompt a verification canceled is finished.                             *)
CancelInput(w) ==
  /\ Pressed(w, B("cancel", "in"))
  /\ LET s == work[w].s  x == Session(w)
     IN IF x.pending = None
          THEN FinishSession(w, s)
          ELSE /\ tombstones' = tombstones \cup Tombstone(x)
               /\ RenderSession(w, s, [x EXCEPT !.pending = None,
                                                !.screen = x.pending.parent], "done")
               /\ UNCHANGED byUser
  /\ UNCHANGED <<rev, opened, launchMu, kernel, graded, faults, tour>>

-----------------------------------------------------------------------------
(* Answers to prompts.                                                     *)

LivePrompt(s, p) == Registered(s) /\ sess[s].pending # None /\ sess[s].pending.prompt = p
Prompts == {<<s, n>> : s \in 1 .. opened, n \in 1 .. MaxPrompts}

(* PanelInputDM, before any lock: a reply to a canceled prompt is the      *)
(* panel's; any other one waits for the session, or is not the panel's.    *)
Reply(w, u, p) ==
  /\ At(w, "idle") /\ sess[p[1]].owner = u
  /\ LivePrompt(p[1], p) \/ p \in tombstones
  /\ Go(w, IF p \in tombstones THEN [pc |-> "input", p |-> p]
                               ELSE [pc |-> "match", s |-> byUser[u], p |-> p])
  /\ UNCHANGED <<rev, sess, opened, byUser, tombstones, launchMu, kernel, graded, faults, tour>>

(* PanelInputDM, with the lock: the live prompt, unless a verification     *)
(* started, which cancels it.  What does not match goes on to the grading. *)
MatchPrompt(w) ==
  LET s == work[w].s  p == work[w].p  x == sess[s]
      live == Registered(s) /\ x.pending # None /\ Tombstone(x) # {}
      matches == live /\ x.pending.prompt = p
  IN /\ At(w, "match") /\ x.lock = None
     /\ IF live /\ x.owner \in kernel
          THEN /\ tombstones' = tombstones \cup Tombstone(x)
               /\ sess' = [sess EXCEPT ![s].pending = None]
          ELSE UNCHANGED <<tombstones, sess>>
     /\ Go(w, IF matches THEN [pc |-> "input", p |-> p] ELSE Idle)
     /\ graded' = IF ~matches /\ x.owner \in kernel THEN graded \cup {p} ELSE graded
     /\ UNCHANGED <<rev, opened, byUser, launchMu, kernel, faults, tour>>

(* OnPanelInput: the tombstone of a canceled prompt is used up.            *)
ConsumeTombstone(w) ==
  LET p == work[w].p  u == sess[p[1]].owner IN
  /\ At(w, "input")
  /\ tombstones' = tombstones \ {p}
  /\ Go(w, IF p \in tombstones \/ byUser[u] = 0 THEN Idle
           ELSE [pc |-> "answer", s |-> byUser[u], p |-> p, via |-> "text"])
  /\ UNCHANGED <<rev, sess, opened, byUser, launchMu, kernel, graded, faults, tour>>

(* The chat picker answers with the request identifier of its prompt.      *)
ChatShared(w, s) ==
  /\ At(w, "idle") /\ s <= opened
  /\ \E p \in Prompts : LivePrompt(s, p) /\ Go(w, [pc |-> "answer", s |-> s, p |-> p, via |-> "chat"])
  /\ sess[s].pending.kind \in PickKinds
  /\ UNCHANGED <<rev, sess, opened, byUser, tombstones, launchMu, kernel, graded, faults, tour>>

(* The session is locked when the answer still fits, and the right is      *)
(* asked for with the lock held.                                           *)
LockForAnswer(w) ==
  LET s == work[w].s IN
  /\ At(w, "answer") /\ sess[s].lock = None
  /\ IF LivePrompt(s, work[w].p)
       THEN sess' = [sess EXCEPT ![s].lock = w] /\ Go(w, [work[w] EXCEPT !.pc = "authorize"])
       ELSE Go(w, Idle) /\ UNCHANGED sess
  /\ UNCHANGED <<rev, opened, byUser, tombstones, launchMu, kernel, graded, faults, tour>>

(* authorizeInput: an error leaves the prompt, a lost right ends the panel.*)
AuthorizeInput(w) ==
  LET s == work[w].s IN
  /\ At(w, "authorize")
  /\ \/ /\ Registered(s)
        /\ Go(w, [work[w] EXCEPT !.pc = "apply"])
        /\ UNCHANGED <<sess, byUser, tombstones, faults>>
     \/ ~Registered(s) /\ Unlock(w, s, sess[s]) /\ UNCHANGED faults
     \/ Fault /\ Unlock(w, s, sess[s])
     \/ Fault /\ FinishSession(w, s)
  /\ UNCHANGED <<rev, opened, launchMu, kernel, graded, tour>>

Applies(w) ==
  /\ At(w, "apply")
  /\ sess[work[w].s].owner \notin kernel
  /\ ~Stale([sess[work[w].s] EXCEPT !.rev = sess[work[w].s].pending.rev])

(* A verification that started meanwhile cancels the prompt; only a text   *)
(* prompt is remembered as canceled.                                       *)
CancelForVerification(w) ==
  LET s == work[w].s  x == sess[s] IN
  /\ At(w, "apply") /\ x.owner \in kernel
  /\ tombstones' = IF work[w].via = "text" THEN tombstones \cup Tombstone(x) ELSE tombstones
  /\ sess' = [sess EXCEPT ![s] = [x EXCEPT !.lock = None, !.pending = None]]
  /\ Go(w, Idle)
  /\ UNCHANGED <<rev, opened, byUser, launchMu, kernel, graded, faults, tour>>

(* The answer comes too late for its revision, is a text where a chat was  *)
(* to be picked, finds other bot-wide settings, or misses its draft.       *)
AnswerEndsSession(w) ==
  LET s == work[w].s  x == sess[s] IN
  /\ At(w, "apply") /\ x.owner \notin kernel
  /\ \/ ~Applies(w)
     \/ work[w].via = "text" /\ x.pending.kind \in PickKinds
     \/ x.pending.kind \in {"rate", "alert"} /\ x.grev # rev[Global]
     \/ x.pending.kind = "answer" /\ x.draft = None
  /\ FinishSession(w, s)
  /\ UNCHANGED <<rev, opened, launchMu, kernel, graded, faults, tour>>

(* An answer that does not parse, or a chat that does not serve, leaves    *)
(* the prompt.                                                             *)
AnswerRejected(w) ==
  /\ Applies(w)
  /\ Unlock(w, work[w].s, sess[work[w].s])
  /\ UNCHANGED <<rev, opened, launchMu, kernel, graded, faults, tour>>

Answered(w, kinds) ==
  /\ Applies(w)
  /\ sess[work[w].s].pending.kind \in kinds
  /\ (work[w].via = "chat") = (sess[work[w].s].pending.kind \in PickKinds)

(* applyTextInput and applySharedChat submit a value.                      *)
CommitAnswer(w) ==
  /\ Answered(w, {"value", "rate", "invite", "list", "whitelist", "alert", "channel"})
  /\ LET s == work[w].s  x == sess[s]  kind == x.pending.kind
         scope == IF kind \in {"rate", "alert"} THEN Global ELSE x.group
     IN /\ scope = Global => x.grev = rev[Global]
        /\ Submit(w, s, [x EXCEPT !.pending = None, !.screen = x.pending.parent,
                                  !.channel = IF kind = "invite" THEN None ELSE @],
                  scope, x.pending.seen[scope], kind = "whitelist")
  /\ Elsewhere

(* A chat the list already has changes nothing.                            *)
AlreadyListed(w) ==
  /\ Answered(w, {"list"})
  /\ LET x == sess[work[w].s]
     IN RenderSession(w, work[w].s, [x EXCEPT !.pending = None, !.screen = x.pending.parent], "done")
  /\ Elsewhere

(* A private channel is kept until its invitation link is typed.           *)
PickPrivateChannel(w) ==
  /\ Answered(w, {"channel"})
  /\ LET x == sess[work[w].s]
     IN Arm(w, work[w].s, [x EXCEPT !.channel = x.group], "invite", "ch")
  /\ Elsewhere

(* A question or an answer goes into the draft, or starts one.             *)
AnswerIntoDraft(w) ==
  /\ Answered(w, {"question", "answer"})
  /\ LET s == work[w].s  x == sess[s]
     IN /\ x.pending.kind = "answer" => x.draft # None
        /\ RenderSession(w, s,
             [x EXCEPT !.pending = None, !.screen = Detail(x.pending.parent),
                       !.draft = IF @ # None THEN @
                                 ELSE [existing |-> FALSE, rev |-> x.rev,
                                       seen |-> rev[x.group]]], "done")
  /\ Elsewhere

-----------------------------------------------------------------------------
(* The surroundings: commands, other panels, other administrators.         *)
OtherCommit(c) ==
  /\ c \in tour.others /\ rev[c] < tour.commits
  /\ rev' = [rev EXCEPT ![c] = @ + 1]
  /\ UNCHANGED <<sess, opened, byUser, tombstones, launchMu, kernel, graded, work, faults, tour>>

VerificationStarts(u) ==
  /\ tour.verifies /\ u \notin kernel /\ kernel' = kernel \cup {u}
  /\ UNCHANGED <<rev, sess, opened, byUser, tombstones, launchMu, graded, work, faults, tour>>

VerificationEnds(u) ==
  /\ u \in kernel /\ kernel' = kernel \ {u}
  /\ UNCHANGED <<rev, sess, opened, byUser, tombstones, launchMu, graded, work, faults, tour>>

(* pruneLocked, once panelSessionTTL is over: the session and what it      *)
(* canceled are forgotten.                                                 *)
Expire(u) ==
  /\ byUser[u] # 0
  /\ byUser' = [byUser EXCEPT ![u] = 0]
  /\ tombstones' = {p \in tombstones : sess[p[1]].owner # u}
  /\ UNCHANGED <<rev, sess, opened, launchMu, kernel, graded, work, faults, tour>>

Dispatch(w) ==
  \/ EndSession(w) \/ Navigate(w) \/ Toggle(w) \/ GlobalConflict(w) \/ ArmInput(w)
  \/ Notice(w) \/ OpenDraft(w) \/ ChangeDraft(w) \/ SaveDraft(w) \/ AskConfirmation(w)
  \/ Confirm(w) \/ Cancel(w) \/ CancelInput(w) \/ \E g \in Groups : SelectGroup(w, g)

Answer(w) ==
  \/ MatchPrompt(w) \/ ConsumeTombstone(w) \/ LockForAnswer(w) \/ AuthorizeInput(w)
  \/ CancelForVerification(w) \/ AnswerEndsSession(w) \/ AnswerRejected(w)
  \/ CommitAnswer(w) \/ AlreadyListed(w) \/ PickPrivateChannel(w) \/ AnswerIntoDraft(w)

Handle(w) ==
  \/ NewSettingsSession(w) \/ RegisterSession(w) \/ SendLink(w) \/ Refused(w)
  \/ ShowGroupList(w) \/ Rendered(w) \/ RenderFails(w) \/ SendPrompt(w)
  \/ Commit(w) \/ CommitFails(w) \/ Revoke(w) \/ Dispatch(w) \/ Answer(w)

Update(w) ==
  \/ \E u \in Users, g \in Groups : OnSettings(w, u, g)
  \/ \E s \in Sessions : OpenSettingsStart(w, s) \/ ChatShared(w, s)
  \/ \E s \in 1 .. opened, b \in UNION {Buttons(sess[s]) : s \in 1 .. opened} : OnSettingsCallback(w, s, b)
  \/ \E u \in Users, p \in Prompts : Reply(w, u, p)

Surroundings ==
  \/ \E c \in Scopes : OtherCommit(c)
  \/ \E u \in Users : VerificationStarts(u) \/ VerificationEnds(u) \/ Expire(u)

Next == (\E w \in Workers : Handle(w) \/ Update(w)) \/ Surroundings

Spec == Init /\ [][Next]_vars

-----------------------------------------------------------------------------
Revisions == [Scopes -> Nat]
PromptIds == Sessions \X (1 .. MaxPrompts)
Parents == {"gh", "rt", "vp", "md", "ls", "li", "ct", "ch", "qb", "fb", "qd", "fd"}
Screens == Parents \cup {"gl", "in", "cf"}
Kinds == PickKinds \cup {"value", "rate", "invite", "question", "answer"}
Presses ==
  [do : {"select", "stay", "close", "go", "confirm", "cancel", "toggle", "text", "pick",
         "list", "remove", "ask", "open", "change", "save"},
   to : Screens \cup Kinds \cup {"group", "global", "draft"}]

PendingInputs ==
  [kind : Kinds, parent : Parents, prompt : PromptIds \cup {None}, rev : Nat, seen : Revisions]
Drafts == [existing : BOOLEAN, rev : Nat, seen : Nat]
Confirmations == [parent : Parents, rev : Nat, seen : Nat]
PanelSessions ==
  [owner : Users \cup {None}, lock : Workers \cup {None}, group : Groups \cup {None},
   screen : Screens, list : {"list", "whitelist"}, rev : Nat, grev : Nat,
   shown : Revisions \cup {None}, pending : PendingInputs \cup {None},
   draft : Drafts \cup {None}, confirm : Confirmations \cup {None},
   channel : Groups \cup {None}, prompts : Nat, replaced : BOOLEAN]

\* None is a nil pointer, and nothing that a pointer points to.
ASSUME NoneAssumption == None \notin PendingInputs \cup Drafts \cup Confirmations \cup Revisions

Jobs ==
  [pc : {"idle"}]
    \cup [pc : {"launch"}, u : Users, g : Groups]
    \cup [pc : {"register"}, u : Users, g : Groups, prev : {0} \cup Sessions]
    \cup [pc : {"link", "revoked", "prompt"}, s : Sessions]
    \cup [pc : {"start"}, s : Sessions, live : BOOLEAN]
    \cup [pc : {"callback"}, s : Sessions, b : Presses, live : BOOLEAN]
    \cup [pc : {"render"}, s : Sessions, then : {"done", "prompt"}, built : Revisions]
    \cup [pc : {"commit"}, s : Sessions, scope : Scopes, seen : Nat, merge : BOOLEAN]
    \cup [pc : {"input"}, p : PromptIds]
    \cup [pc : {"match"}, s : Sessions, p : PromptIds]
    \cup [pc : {"answer", "authorize", "apply"}, s : Sessions, p : PromptIds,
          via : {"text", "chat"}]

\* Every variable that a commit depends on holds the kind of value the Go declarations give
\* it; in particular every screen, button and step is one of those named above.
TypeOK ==
  /\ rev \in Revisions
  /\ sess \in [Sessions -> PanelSessions]
  /\ opened \in {0} \cup Sessions
  /\ byUser \in [Users -> {0} \cup Sessions]
  /\ work \in [Workers -> Jobs]
  /\ tour \in Tours

-----------------------------------------------------------------------------
Submits(w) == At(w, "commit") /\ rev'[work[w].scope] # rev[work[w].scope] /\ ~(At(w, "commit"))'

(* Every change that a panel commits was composed from the revision it     *)
(* replaces: the switch an administrator saw, the question a draft was     *)
(* copied from, the entry a confirmation named, the value a prompt was     *)
(* armed over.  Navigating, paging and canceling take over newer           *)
(* revisions, under drafts and confirmations opened at older ones.  Only   *)
(* a white-list entry is merged.                                           *)
NothingUnseenIsOverwritten ==
  [][\A w \in Workers :
       Submits(w) /\ ~work[w].merge => work[w].seen = rev[work[w].scope]]_vars

(* Once a new panel has replaced the one an administrator had, the old one *)
(* changes nothing more, whatever its handlers were doing (launchMu and    *)
(* the lock of the previous session in newSettingsSession).                *)
ReplacedPanelIsDone ==
  [][\A w \in Workers :
       Submits(w) => ~ sess[work[w].s].replaced]_vars

(* docs/admin.md:78: a reply to a prompt of the panel is not handed to the *)
(* grading of a verification.                                              *)
SettingsRepliesAreNotGraded == graded = {}

(* docs/admin.md:88: close, cancel or a conflict discards an unsaved draft.*)
CancelDiscardsDraft ==
  \A s \in 1 .. opened :
    Registered(s) /\ sess[s].lock = None /\ sess[s].screen \notin {"qd", "fd", "cf", "in"} =>
      sess[s].draft = None /\ sess[s].channel = None
=============================================================================
