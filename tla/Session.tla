------------------------------- MODULE Session -------------------------------
(* Who is logged in and with what settings: the pages (App.tsx, LoginPage,   *)
(* SetupPage, SettingsDialog with useChangePassword and useConfigForm), the  *)
(* SessionStore and the configuration of the server.                         *)
(*                                                                           *)
(* A call is one HTTP request of a page.  Its handler runs in the steps that *)
(* other handlers can come between; its answer is then taken by the page.    *)
EXTENDS Naturals, FiniteSets

CONSTANTS Pages, Passwords,
          None,               \* no password, no cookie, no form, no page
          MaxFails,           \* maxFailedAttempts
          MaxCalls, MaxSids,  \* bounds: calls and expiries, sessions given out
          Editable,           \* bound: the settings the users edit
          Slips               \* what may happen although a property does not survive it

ASSUME SessionAssumption ==
  /\ None \notin Pages \cup Passwords
  /\ Editable \subseteq {"port", "path"}
  /\ MaxFails \in Nat \ {0} /\ MaxCalls \in Nat /\ MaxSids \in Nat

VARIABLES
  password, sessions, issued,   \* the hash, the sessions, the identities given out
  fails, lock,                  \* rateLimitState of the address all pages share
  config, disk, running,        \* Store in memory and in the file; the port served
  calls, count,                 \* the calls under way; calls and expiries so far
  view, cookie, lockout,        \* AppState, the browser's cookie, lockoutSeconds > 0
  open, form, initial, restart, \* SettingsDialog, useConfigForm
  edited, tries, told           \* history: fields edited since the form was
                                \* loaded, failures since the lockout was last
                                \* lifted, the need to restart was shown

auth == <<password, sessions, issued>>
limit == <<fails, lock, tries>>
store == <<config, disk, running>>
traffic == <<calls, count>>
app == <<view, cookie, lockout>>
dialog == <<open, form, initial, restart, edited>>
vars == <<auth, limit, store, traffic, app, dialog, told>>

\* A port, and a path: stored as it was written, reported as it resolves.
Config == [port : 1..2, path : {"relative", "absolute"}]
Fields == DOMAIN CHOOSE c \in Config : TRUE
Resolved(c) == [c EXCEPT !.path = "absolute"]

\* A slip is followed only if Slips names it:
\*   "eager"   the settings are saved before they are loaded,
\*   "unsaved" the configuration cannot be written,
\*   "leave"   a page is left while a call that changes something runs,
\*   "unsure"  the answer is lost that asks for a restart: the page says that the
\*             settings could not be saved.
Slip(cond, what) == cond => what \in Slips

Request(n, p, op, a, k) == [id |-> n, page |-> p, op |-> op, st |-> "sent", arg |-> a,
                            cookie |-> k, old |-> None, got |-> None]
Status(p, k) == Request(0, p, "status", None, k)

Init ==
  /\ password \in Passwords \cup {None}
  /\ issued = (IF password = None THEN 0 ELSE 1) /\ sessions = 1..issued
  /\ fails = 0 /\ lock = "none" /\ tries = 0
  /\ config = [port |-> 1, path |-> "relative"] /\ running = 1
  /\ disk = [config |-> config, password |-> password]
  /\ cookie \in [Pages -> {None} \cup sessions]
  /\ \A p, q \in Pages : p # q => cookie[p] = None \/ cookie[p] # cookie[q]
  /\ calls = {Status(p, cookie[p]) : p \in Pages} /\ count = 0
  /\ view = [p \in Pages |-> "loading"] /\ lockout = [p \in Pages |-> FALSE]
  /\ open = [p \in Pages |-> FALSE] /\ form = [p \in Pages |-> None]
  /\ initial = form /\ restart = open
  /\ edited = [p \in Pages |-> {}] /\ told = FALSE

Live(p, op) == \E c \in calls : c.page = p /\ c.op = op

----------------------------------------------------------------------------
\* The page: what the user does

\* request, login, setup: a form is disabled while its call is under way.
Send(p, op, arg) ==
  /\ count < MaxCalls /\ count' = count + 1
  /\ calls' = calls \cup {Request(count', p, op, arg, cookie[p])}

Submit(p, op, arg) ==
  /\ ~Live(p, op) /\ Send(p, op, arg)
  /\ UNCHANGED <<auth, limit, store, app, dialog, told>>

SubmitLogin(p) ==
  view[p] = "login" /\ ~lockout[p] /\ \E w \in Passwords : Submit(p, "login", w)

\* The language, then the password twice.
SubmitSetup(p) == view[p] = "setup" /\ \E w \in Passwords : Submit(p, "setup", w)

Logout(p) == view[p] = "app" /\ ~open[p] /\ Submit(p, "logout", None)

InSettings(p) == view[p] = "app" /\ open[p] /\ ~restart[p]

\* A part of the form.
SecuritySection(p) == InSettings(p) /\ form[p] # None

ChangePassword(p) ==
  /\ SecuritySection(p)
  /\ \E w, v \in Passwords : Submit(p, "change", [old |-> w, new |-> v])

CountdownEnds(p) ==
  /\ lockout[p] /\ lockout' = [lockout EXCEPT ![p] = FALSE]
  /\ UNCHANGED <<auth, limit, store, traffic, view, cookie, dialog, told>>

\* The dialog shows the last form until the new one is loaded.
OpenSettings(p) ==
  /\ view[p] = "app" /\ ~open[p] /\ ~restart[p] /\ open' = [open EXCEPT ![p] = TRUE]
  /\ Send(p, "get", None)
  /\ UNCHANGED <<auth, limit, store, app, form, initial, restart, edited, told>>

CloseSettings(p) ==
  /\ InSettings(p) /\ open' = [open EXCEPT ![p] = FALSE]
  /\ UNCHANGED <<auth, limit, store, traffic, app, form, initial, restart, edited, told>>

\* updateField
UpdateField(p) ==
  /\ InSettings(p) /\ form[p] # None
  /\ \E c \in Config, f \in Editable :
       /\ c[f] # form[p][f]
       /\ form' = [form EXCEPT ![p] = [@ EXCEPT ![f] = c[f]]]
       /\ edited' = [edited EXCEPT ![p] = @ \cup {f}]
  /\ UNCHANGED <<auth, limit, store, traffic, app, open, initial, restart, told>>

\* The fields that are not as they were loaded.
Patch(p) == {f \in Fields : form[p][f] # initial[p][f]}

\* handleSave, onSave
Save(p) ==
  /\ InSettings(p) /\ form[p] # None /\ ~Live(p, "patch")
  /\ Slip(Live(p, "get"), "eager")
  /\ IF Patch(p) = {} THEN open' = [open EXCEPT ![p] = FALSE] /\ UNCHANGED traffic
     ELSE Send(p, "patch", [f \in Patch(p) |-> form[p][f]]) /\ UNCHANGED open
  /\ UNCHANGED <<auth, limit, store, app, form, initial, restart, edited, told>>

RestartNow(p) == restart[p] /\ Submit(p, "restart", None)

\* onDismissRestart
Later(p) ==
  /\ restart[p] /\ restart' = [restart EXCEPT ![p] = FALSE]
  /\ open' = [open EXCEPT ![p] = FALSE]
  /\ UNCHANGED <<auth, limit, store, traffic, app, form, initial, edited, told>>

UserStep(p) ==
  \/ SubmitLogin(p) \/ SubmitSetup(p) \/ Logout(p) \/ ChangePassword(p) \/ CountdownEnds(p)
  \/ OpenSettings(p) \/ CloseSettings(p) \/ UpdateField(p) \/ Save(p)
  \/ RestartNow(p) \/ Later(p)

----------------------------------------------------------------------------
\* The server: handlers

Become(c, d) == calls' = (calls \ {c}) \cup {d}
To(c, st) == [c EXCEPT !.st = st]
Answer(c, st, got) == To([c EXCEPT !.got = got], st)
Protected == {"logout", "change", "get", "patch", "restart"}
Admitted(c) == c.st = "sent" /\ (c.op \in Protected => c.cookie \in sessions)

\* Middleware, and a call that does not get through.
Turned(c) ==
  /\ c.st = "sent"
  /\ IF Admitted(c) THEN Become(c, To(c, "failed")) ELSE Become(c, To(c, "unauthorized"))
  /\ UNCHANGED <<auth, limit, store>>

\* Update: the configuration in memory changes whether or not it is written.
Written(c, ok, error) ==
  \/ Become(c, ok) /\ disk' = [config |-> config', password |-> password']
  \/ Slip(TRUE, "unsaved") /\ Become(c, To(c, error)) /\ UNCHANGED disk

\* CreateSession
Issue(c) ==
  /\ issued < MaxSids /\ issued' = issued + 1
  /\ sessions' = sessions \cup {issued'} /\ Become(c, Answer(c, "ok", issued'))

HandleStatus(c) ==
  /\ c.op = "status" /\ Admitted(c)
  /\ Become(c, Answer(c, "ok", IF password = None THEN "setup"
                               ELSE IF c.cookie \in sessions THEN "app" ELSE "login"))
  /\ UNCHANGED <<auth, limit, store>>

\* Mutant: a lockout that is over still counts.
RecordFailedAttempt_NoReset ==
  /\ lock # "until"
  /\ fails' = IF fails < MaxFails THEN fails + 1 ELSE MaxFails
  /\ lock' = IF fails' >= MaxFails THEN "until" ELSE "none"
  /\ tries' = tries + 1

\* RecordFailedAttempt: a lockout that is over counts for nothing, one that is
\* not is left alone.
RecordFailedAttempt ==
  /\ lock # "until"
  /\ fails' = (IF lock = "over" THEN 0 ELSE fails) + 1
  /\ lock' = IF fails' >= MaxFails THEN "until" ELSE "none"
  /\ tries' = tries + 1

\* The limit is looked at and the hash read, then the password compared.
HandleLogin(c) ==
  /\ c.op = "login"
  /\ \/ /\ Admitted(c)
        /\ Become(c, To(c, IF lock = "until" THEN "limited"
                           ELSE IF password = None THEN "failed"
                           ELSE IF c.arg = password THEN "verified" ELSE "wrong"))
        /\ UNCHANGED <<auth, limit>>
     \/ /\ c.st = "wrong"
        /\ RecordFailedAttempt \/ (lock = "until" /\ UNCHANGED limit)
        /\ Become(c, To(c, IF lock' = "until" THEN "limited" ELSE "failed"))
        /\ UNCHANGED auth
     \/ /\ c.st = "verified"         \* ClearRateLimit
        /\ fails' = 0 /\ lock' = "none" /\ tries' = 0
        /\ Issue(c) /\ UNCHANGED password
  /\ UNCHANGED store

\* SetupPassword finds no password, hashes, and stores.
HandleSetup(c) ==
  /\ c.op = "setup" /\ UNCHANGED <<limit, config, running>>
  /\ \/ /\ Admitted(c) /\ UNCHANGED <<auth, disk>>
        /\ Become(c, To(c, IF password = None THEN "checked" ELSE "failed"))
     \/ /\ c.st = "checked" /\ password' = c.arg
        /\ Written(c, To(c, "stored"), "failed")
        /\ UNCHANGED <<sessions, issued>>
     \/ c.st = "stored" /\ Issue(c) /\ UNCHANGED <<password, disk>>

\* Mutant: the caller keeps the session it called with.
DeleteAllSessions_ButOwn(c) == sessions' = sessions \cap {c.cookie}

\* All of them, the caller's too.
DeleteAllSessions(c) == sessions' = {}

\* ChangePassword verifies, hashes, stores, ends all sessions; then the caller
\* gets a new one.  old: the sessions there were when it stored.
HandleChangePassword(c) ==
  /\ c.op = "change" /\ UNCHANGED <<limit, config, running>>
  /\ \/ /\ Admitted(c) /\ UNCHANGED <<auth, disk>>
        /\ Become(c, To(c, IF c.arg.old = password THEN "verified" ELSE "failed"))
     \/ /\ c.st = "verified" /\ password' = c.arg.new
        /\ Written(c, To([c EXCEPT !.old = sessions], "stored"), "failed")
        /\ UNCHANGED <<sessions, issued>>
     \/ /\ c.st = "stored" /\ DeleteAllSessions(c) /\ Become(c, To(c, "cleared"))
        /\ UNCHANGED <<password, issued, disk>>
     \/ c.st = "cleared" /\ Issue(c) /\ UNCHANGED <<password, disk>>

HandleLogout(c) ==
  /\ c.op = "logout" /\ Admitted(c)
  /\ sessions' = sessions \ {c.cookie} /\ Become(c, To(c, "ok"))
  /\ UNCHANGED <<password, issued, limit, store>>

GetConfig(c) ==
  /\ c.op = "get" /\ Admitted(c) /\ Become(c, Answer(c, "ok", Resolved(config)))
  /\ UNCHANGED <<auth, limit, store>>

\* The old port is read before the update takes the lock.
PatchConfig(c) ==
  /\ c.op = "patch"
  /\ \/ /\ Admitted(c) /\ Become(c, To([c EXCEPT !.old = config.port], "read"))
        /\ UNCHANGED <<config, disk>>
     \/ /\ c.st = "read"
        /\ config' = [f \in Fields |-> IF f \in DOMAIN c.arg THEN c.arg[f] ELSE config[f]]
        /\ UNCHANGED password
        /\ Written(c, Answer(c, "ok", [config |-> config', restart |-> config'.port # c.old]),
                   "failed")
  /\ UNCHANGED <<auth, limit, running>>

\* The answer is sent, and the process goes on to replace itself whether or not
\* the page takes it.
Replacing(c) == To([c EXCEPT !.page = None], "restarting")

HandleRestart(c) ==
  /\ c.op = "restart" /\ Admitted(c)
  /\ calls' = (calls \ {c}) \cup {To(c, "ok"), Replacing(c)}
  /\ UNCHANGED <<auth, limit, store>>

Answered == {"ok", "failed", "limited", "unauthorized"}
Announces(c) == c.op = "patch" /\ c.st = "ok" /\ c.got.restart

\* The answer does not reach the page, to which the call has failed whatever it
\* has changed.
AnswerLost(c) ==
  /\ c.page # None /\ c.st \in Answered \ {"failed"} /\ Become(c, To(c, "failed"))
  /\ Slip(Announces(c), "unsure")
  /\ UNCHANGED <<auth, limit, store>>

Handle(c) ==
  /\ \/ Turned(c) \/ HandleStatus(c) \/ HandleLogin(c) \/ HandleSetup(c)
     \/ HandleChangePassword(c) \/ HandleLogout(c) \/ GetConfig(c) \/ PatchConfig(c)
     \/ HandleRestart(c) \/ AnswerLost(c)
  /\ UNCHANGED <<count, app, dialog, told>>

----------------------------------------------------------------------------
\* The server: time, and the restart

\* Sessions expire.
Expire(s) ==
  /\ s \in sessions /\ sessions' = sessions \ {s}
  /\ count < MaxCalls /\ count' = count + 1
  /\ UNCHANGED <<password, issued, limit, store, calls, app, dialog, told>>

LockoutEnds ==
  /\ lock = "until" /\ lock' = "over" /\ tries' = 0
  /\ UNCHANGED <<auth, fails, store, traffic, app, dialog, told>>

\* CleanupExpired: a counter below the limit is dropped, one that reached it
\* stays although its lockout is over.
CleanupExpired ==
  /\ lock # "until" /\ fails \in 1..(MaxFails - 1)
  /\ fails' = 0 /\ lock' = "none" /\ tries' = 0
  /\ UNCHANGED <<auth, store, traffic, app, dialog, told>>

\* The process is replaced after its answer: what was in memory is gone, what
\* was being handled fails.
RestartServer(c) ==
  /\ c.op = "restart" /\ c.st = "restarting"
  /\ sessions' = {} /\ fails' = 0 /\ lock' = "none" /\ tries' = 0
  /\ config' = disk.config /\ password' = disk.password
  /\ running' = config'.port /\ told' = FALSE
  /\ calls' = {IF d.st \in Answered THEN d ELSE To(d, "failed") : d \in calls \ {c}}
  /\ UNCHANGED <<issued, disk, count, app, dialog>>

----------------------------------------------------------------------------
\* The page: answers

\* window.location.href: the application starts anew.  Its calls go on without
\* it.
Leave(p, c, k) ==
  /\ Slip(\E d \in calls \ {c} : d.page = p /\ d.op = "patch", "leave")
  /\ calls' = {IF d.page = p THEN [d EXCEPT !.page = None] ELSE d :
                 d \in {d \in calls \ {c} : d.page = p => d.op \notin {"status", "get"}}}
              \cup {Status(p, k)}
  /\ cookie' = [cookie EXCEPT ![p] = k]
  /\ view' = [view EXCEPT ![p] = "loading"]
  /\ lockout' = [lockout EXCEPT ![p] = FALSE]
  /\ open' = [open EXCEPT ![p] = FALSE] /\ form' = [form EXCEPT ![p] = None]
  /\ initial' = [initial EXCEPT ![p] = None] /\ restart' = [restart EXCEPT ![p] = FALSE]
  /\ edited' = [edited EXCEPT ![p] = {}]
  /\ UNCHANGED told

\* The user loads the page again.
Refresh(p) ==
  /\ view[p] # "loading" /\ count < MaxCalls /\ count' = count + 1
  /\ Leave(p, Status(p, None), cookie[p])
  /\ UNCHANGED <<auth, limit, store>>

Done(c) == calls' = calls \ {c}

\* Mutant: what the form is compared with is set by the first load only.
Loaded_Once(p, c) ==
  /\ form' = [form EXCEPT ![p] = c.got]
  /\ initial' = [initial EXCEPT ![p] = IF @ = None THEN c.got ELSE @]
  /\ edited' = [edited EXCEPT ![p] = {}]
  /\ Done(c) /\ UNCHANGED <<app, open, restart, told>>

\* loadConfig
Loaded(p, c) ==
  /\ form' = [form EXCEPT ![p] = c.got] /\ initial' = [initial EXCEPT ![p] = c.got]
  /\ edited' = [edited EXCEPT ![p] = {}]
  /\ Done(c) /\ UNCHANGED <<app, open, restart, told>>

\* Mutant: the dialog that asks for a restart is part of the settings dialog.
Saved_WhenOpen(p, c) ==
  /\ initial' = [initial EXCEPT ![p] = c.got.config]
  /\ restart' = [restart EXCEPT ![p] = c.got.restart /\ open[p]]
  /\ told' = (told \/ restart'[p])
  /\ open' = [open EXCEPT ![p] = @ /\ c.got.restart]
  /\ Done(c) /\ UNCHANGED <<app, form, edited>>

\* handleSave goes on: initial becomes what the server stored.
Saved(p, c) ==
  /\ initial' = [initial EXCEPT ![p] = c.got.config]
  /\ restart' = [restart EXCEPT ![p] = c.got.restart]
  /\ told' = (told \/ c.got.restart)
  /\ open' = [open EXCEPT ![p] = @ /\ c.got.restart]
  /\ Done(c) /\ UNCHANGED <<app, form, edited>>

Succeeds(p, c) ==
  /\ c.st = "ok"
  /\ \/ /\ c.op = "status" /\ view' = [view EXCEPT ![p] = c.got]
        /\ Done(c) /\ UNCHANGED <<cookie, lockout, dialog, told>>
     \/ c.op \in {"login", "setup"} /\ Leave(p, c, c.got)
     \/ c.op = "logout" /\ Leave(p, c, None)
     \/ /\ c.op = "change" /\ cookie' = [cookie EXCEPT ![p] = c.got]
        /\ Done(c) /\ UNCHANGED <<view, lockout, dialog, told>>
     \/ c.op = "get" /\ Loaded(p, c)
     \/ c.op = "patch" /\ Saved(p, c)
     \/ /\ c.op = "restart" /\ view' = [view EXCEPT ![p] = "closed"]
        /\ Done(c) /\ UNCHANGED <<cookie, lockout, dialog, told>>

\* An error is shown; a failed status asks for the password, a failed load
\* closes the dialog.
Fails(p, c) ==
  /\ c.st \in {"failed", "limited"} /\ Done(c)
  /\ view' = IF c.op = "status" THEN [view EXCEPT ![p] = "login"] ELSE view
  /\ lockout' = [lockout EXCEPT ![p] = @ \/ c.st = "limited"]
  /\ open' = IF c.op = "get" THEN [open EXCEPT ![p] = FALSE] ELSE open
  /\ UNCHANGED <<cookie, form, initial, restart, edited, told>>

Take(c) ==
  /\ \/ Succeeds(c.page, c) \/ Fails(c.page, c)
     \/ c.st = "unauthorized" /\ Leave(c.page, c, cookie[c.page])
  /\ UNCHANGED <<auth, limit, store, count>>

\* Nobody waits for the answer.
Forget(c) ==
  /\ c.st \in Answered /\ Done(c)
  /\ UNCHANGED <<auth, limit, store, count, app, dialog, told>>

Next ==
  \/ \E p \in Pages : UserStep(p) \/ Refresh(p)
  \/ \E c \in calls : \/ Handle(c) \/ RestartServer(c)
                      \/ IF c.page = None THEN Forget(c) ELSE Take(c)
  \/ \E s \in 1..MaxSids : Expire(s)
  \/ LockoutEnds \/ CleanupExpired

Spec == Init /\ [][Next]_vars

----------------------------------------------------------------------------
\* An address is locked out only after as many failures since its last lockout,
\* its last login or the last cleanup as the limit says (session.go).
LockedForCause == lock = "until" => tries >= MaxFails

\* Once a change of the password has ended the sessions, none that was there
\* when it was stored is left ("clears all existing sessions", session.go).
SessionsEndWithTheirPassword ==
  \A c \in calls : c.op = "change" /\ c.st \in {"cleared", "ok"} => c.old \cap sessions = {}

\* Saving the settings sends the fields the user edited since they were loaded,
\* no other ("Build diff: only changed fields", useConfigForm.ts).
OnlyEditsAreSaved ==
  [][\A p \in Pages : \A c \in calls' \ calls :
       c.op = "patch" /\ c.page = p /\ c.st = "sent" => DOMAIN c.arg \subseteq edited[p]]_vars

\* A port that is stored and not served was reported to some page, or is in an
\* answer on its way (restart_required).
RestartIsAnnounced ==
  disk.config.port # running =>
    \/ told
    \/ \E c \in calls : Announces(c)
=============================================================================
