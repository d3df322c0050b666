--------------------------- MODULE SessionProofs ---------------------------
(* Theorems about Session for every number of pages, passwords and calls and *)
(* every limit.                                                              *)
EXTENDS Session, TLAPS

----------------------------------------------------------------------------
(* The lockout                                                              *)

\* fails counts failures since the last reset, but for an expired lockout whose
\* count is still there.
LimitInv ==
  /\ fails \in Nat /\ tries \in Nat /\ lock \in {"none", "until", "over"}
  /\ lock # "over" => fails <= tries
  /\ LockedForCause

LEMMA LimitChanges ==
    ASSUME Next
    PROVE  \/ UNCHANGED limit
           \/ RecordFailedAttempt
           \/ fails' = 0 /\ lock' = "none" /\ tries' = 0
           \/ lock' = "over" /\ tries' = 0 /\ UNCHANGED fails
<1>1. ASSUME NEW p \in Pages, UserStep(p) \/ Refresh(p) PROVE UNCHANGED limit
  BY <1>1 DEF UserStep, SubmitLogin, SubmitSetup, Logout, ChangePassword, CountdownEnds,
              OpenSettings, CloseSettings, UpdateField, Save, RestartNow, Later, Refresh, Submit
<1>2. ASSUME NEW c \in calls, HandleLogin(c)
      PROVE  UNCHANGED limit \/ RecordFailedAttempt \/ (fails' = 0 /\ lock' = "none" /\ tries' = 0)
  BY <1>2 DEF HandleLogin
<1>3. ASSUME NEW c \in calls, Handle(c), ~HandleLogin(c) PROVE UNCHANGED limit
  BY <1>3 DEF Handle, Turned, HandleStatus, HandleSetup, HandleChangePassword, HandleLogout,
              GetConfig, PatchConfig, HandleRestart, AnswerLost
<1>4. ASSUME NEW c \in calls, RestartServer(c) PROVE fails' = 0 /\ lock' = "none" /\ tries' = 0
  BY <1>4 DEF RestartServer
<1>5. ASSUME NEW c \in calls, Take(c) \/ Forget(c) PROVE UNCHANGED limit
  BY <1>5 DEF Take, Forget
<1>6. ASSUME NEW s \in 1..MaxSids, Expire(s) PROVE UNCHANGED limit
  BY <1>6 DEF Expire
<1>7. ASSUME LockoutEnds PROVE lock' = "over" /\ tries' = 0 /\ UNCHANGED fails
  BY <1>7 DEF LockoutEnds
<1>8. ASSUME CleanupExpired PROVE fails' = 0 /\ lock' = "none" /\ tries' = 0
  BY <1>8 DEF CleanupExpired
<1> QED BY <1>1, <1>2, <1>3, <1>4, <1>5, <1>6, <1>7, <1>8 DEF Next

LEMMA LimitStep == ASSUME LimitInv, [Next]_vars PROVE LimitInv'
<1>1. CASE UNCHANGED limit
  BY <1>1 DEF LimitInv, LockedForCause, limit
<1>2. CASE RecordFailedAttempt
  BY <1>2, SessionAssumption DEF LimitInv, LockedForCause, RecordFailedAttempt
<1>3. CASE fails' = 0 /\ lock' = "none" /\ tries' = 0
  BY <1>3 DEF LimitInv, LockedForCause
<1>4. CASE lock' = "over" /\ tries' = 0 /\ UNCHANGED fails
  BY <1>4 DEF LimitInv, LockedForCause
<1>5. UNCHANGED vars => UNCHANGED limit
  BY DEF vars
<1> QED BY <1>1, <1>2, <1>3, <1>4, <1>5, LimitChanges

\* Nobody is locked out for fewer failures than the limit, whatever logins race,
\* lockouts end and cleanups come (session.go).
THEOREM LockoutIsEarned == Spec => []LockedForCause
<1>1. Init => LimitInv
  BY DEF Init, LimitInv, LockedForCause
<1>2. LimitInv => LockedForCause
  BY DEF LimitInv
<1> QED BY <1>1, <1>2, LimitStep, PTL DEF Spec

----------------------------------------------------------------------------
(* Calls: what a step does to them                                          *)

CallFields == {"id", "page", "op", "st", "arg", "cookie", "old", "got"}
Shaped(c) == DOMAIN c = CallFields
AllShaped == \A c \in calls : Shaped(c)

\* Everything is as in c but the field named.
LEMMA ToSet ==
    ASSUME NEW c, Shaped(c), NEW v
    PROVE  /\ Shaped(To(c, v)) /\ To(c, v).st = v /\ To(c, v).op = c.op
           /\ To(c, v).page = c.page /\ To(c, v).old = c.old /\ To(c, v).got = c.got
BY DEF Shaped, CallFields, To

LEMMA OldSet ==
    ASSUME NEW c, Shaped(c), NEW v
    PROVE  LET d == [c EXCEPT !.old = v]
           IN  Shaped(d) /\ d.old = v /\ d.op = c.op /\ d.page = c.page
BY DEF Shaped, CallFields

LEMMA PageSet ==
    ASSUME NEW c, Shaped(c), NEW v
    PROVE  LET d == [c EXCEPT !.page = v]
           IN  Shaped(d) /\ d.st = c.st /\ d.op = c.op /\ d.old = c.old /\ d.got = c.got
BY DEF Shaped, CallFields

LEMMA AnswerSet ==
    ASSUME NEW c, Shaped(c), NEW st, NEW got
    PROVE  /\ Shaped(Answer(c, st, got)) /\ Answer(c, st, got).st = st
           /\ Answer(c, st, got).got = got /\ Answer(c, st, got).op = c.op
           /\ Answer(c, st, got).page = c.page /\ Answer(c, st, got).old = c.old
<1> DEFINE b == [c EXCEPT !.got = got]
<1>1. Shaped(b) /\ b.got = got /\ b.op = c.op /\ b.page = c.page /\ b.old = c.old
  BY DEF Shaped, CallFields
<1>2. Answer(c, st, got) = To(b, st)
  BY DEF Answer
<1> HIDE DEF b
<1> QED BY <1>1, <1>2, ToSet

LEMMA RequestSet ==
    ASSUME NEW n, NEW p, NEW op, NEW a, NEW k
    PROVE  LET d == Request(n, p, op, a, k)
           IN  Shaped(d) /\ d.st = "sent" /\ d.op = op /\ d.page = p
BY DEF Request, Shaped, CallFields

\* A page asks for something, or only changes itself.
LEMMA UserCalls ==
    ASSUME NEW p \in Pages, UserStep(p)
    PROVE  /\ UNCHANGED <<auth, store, told>>
           /\ \/ UNCHANGED calls
              \/ \E n, op, a, k : calls' = calls \cup {Request(n, p, op, a, k)}
<1>1. ASSUME NEW op, NEW a, Send(p, op, a)
      PROVE  \E n, o, b, k : calls' = calls \cup {Request(n, p, o, b, k)}
  BY <1>1 DEF Send
<1>2. ASSUME NEW op, NEW a, Submit(p, op, a)
      PROVE  /\ UNCHANGED <<auth, store, told>>
             /\ \E n, o, b, k : calls' = calls \cup {Request(n, p, o, b, k)}
  BY <1>1, <1>2 DEF Submit
<1>3. CASE SubmitLogin(p) \/ SubmitSetup(p) \/ Logout(p) \/ ChangePassword(p) \/ RestartNow(p)
  BY <1>2, <1>3 DEF SubmitLogin, SubmitSetup, Logout, ChangePassword, RestartNow
<1>4. CASE CountdownEnds(p) \/ CloseSettings(p) \/ UpdateField(p) \/ Later(p)
  BY <1>4 DEF CountdownEnds, CloseSettings, UpdateField, Later, traffic
<1>5. CASE OpenSettings(p)
  BY <1>1, <1>5 DEF OpenSettings
<1>6. CASE Save(p)
  BY <1>1, <1>6 DEF Save, traffic
<1> QED BY <1>3, <1>4, <1>5, <1>6 DEF UserStep

\* A page takes an answer or loads anew: no call gets further.
LEMMA LeaveCalls ==
    ASSUME AllShaped, NEW p, NEW c, NEW k, Leave(p, c, k), NEW d \in calls'
    PROVE  /\ Shaped(d)
           /\ \/ d \in calls \ {c}
              \/ d.op = "status" /\ d.st = "sent"
              \/ \E b \in calls \ {c} : /\ b.page = p /\ d.op = b.op /\ d.st = b.st
                                        /\ d.old = b.old /\ d.got = b.got
<1>1. d = Status(p, k)
      \/ \E b \in calls \ {c} : \/ d = b
                                \/ b.page = p /\ d = [b EXCEPT !.page = None]
  BY DEF Leave
<1>2. CASE d = Status(p, k)
  BY <1>2, RequestSet DEF Status
<1>3. CASE d \in calls \ {c}
  BY <1>3 DEF AllShaped
<1>4. ASSUME NEW b \in calls \ {c}, b.page = p, d = [b EXCEPT !.page = None]
      PROVE  Shaped(d) /\ d.op = b.op /\ d.st = b.st /\ d.old = b.old /\ d.got = b.got
  BY <1>4, PageSet DEF AllShaped
<1> QED BY <1>1, <1>2, <1>3, <1>4

LEMMA TakeCalls ==
    ASSUME AllShaped, NEW c \in calls, Take(c) \/ Forget(c), NEW d \in calls'
    PROVE  /\ Shaped(d)
           /\ \/ d \in calls \ {c}
              \/ d.op = "status"
              \/ \E b \in calls \ {c} :
                   /\ \E k : Leave(c.page, c, k)
                   /\ b.page = c.page /\ d.op = b.op /\ d.st = b.st
                   /\ d.old = b.old /\ d.got = b.got
<1>1. CASE \E k : Leave(c.page, c, k)
  BY <1>1, LeaveCalls
<1>2. CASE Done(c)
  BY <1>2 DEF Done, AllShaped
<1>4. CASE Forget(c) \/ Fails(c.page, c)
  BY <1>2, <1>4 DEF Forget, Fails
<1>5. CASE Succeeds(c.page, c)
  <2>1. Done(c) \/ \E k : Leave(c.page, c, k)
    BY <1>5 DEF Succeeds, Loaded, Saved
  <2> QED BY <1>1, <1>2, <2>1
<1>6. CASE Leave(c.page, c, cookie[c.page])
  BY <1>1, <1>6
<1>7. Forget(c) \/ Succeeds(c.page, c) \/ Fails(c.page, c) \/ Leave(c.page, c, cookie[c.page])
  BY DEF Take
<1> QED BY <1>4, <1>5, <1>6, <1>7

LEMMA TurnedCalls ==
    ASSUME NEW c \in calls, Shaped(c), Turned(c) \/ AnswerLost(c)
    PROVE  /\ UNCHANGED <<auth, store>>
           /\ \E d : /\ Become(c, d) /\ Shaped(d) /\ d.op = c.op /\ d.page = c.page
                     /\ d.st \in {"failed", "unauthorized"}
<1>1. Become(c, To(c, "failed")) \/ Become(c, To(c, "unauthorized"))
  BY DEF Turned, AnswerLost
<1>2. UNCHANGED <<auth, store>>
  BY DEF Turned, AnswerLost
<1> QED BY <1>1, <1>2, ToSet

\* A process that is going to be replaced is a call of its own, without a page.
LEMMA RestartCalls ==
    ASSUME AllShaped, NEW c \in calls, HandleRestart(c), NEW d \in calls'
    PROVE  /\ Shaped(d)
           /\ \/ d \in calls \ {c}
              \/ d.op = "restart" /\ d.st \in {"ok", "restarting"}
<1>1. c.op = "restart" /\ Shaped(c)
  BY DEF HandleRestart, AllShaped
<1>2. Shaped(To(c, "ok")) /\ To(c, "ok").op = "restart" /\ To(c, "ok").st = "ok"
  BY <1>1, ToSet
<1> DEFINE b == [c EXCEPT !.page = None]
<1>3. Shaped(b) /\ b.op = "restart"
  BY <1>1, PageSet
<1>4. Replacing(c) = To(b, "restarting")
  BY DEF Replacing
<1> HIDE DEF b
<1>5. /\ Shaped(Replacing(c)) /\ Replacing(c).op = "restart"
      /\ Replacing(c).st = "restarting"
  BY <1>3, <1>4, ToSet
<1> QED BY <1>2, <1>5 DEF HandleRestart, AllShaped

----------------------------------------------------------------------------
(* Sessions                                                                 *)

\* A call to change the password holds the sessions that were there when it
\* stored, none of which is left once it has ended them all.
OldEnded(c) ==
  /\ c.st \in {"stored", "cleared", "ok"} => c.old \subseteq 1..issued
  /\ c.st \in {"cleared", "ok"} => c.old \cap sessions = {}

SessionInv ==
  /\ AllShaped
  /\ issued \in Nat /\ sessions \subseteq 1..issued
  /\ \A c \in calls : c.op = "change" => OldEnded(c)

\* What may become of a call of the next state.
Good(d) ==
  \/ d.op # "change"
  \/ d.st \notin {"stored", "cleared", "ok"}
  \/ d.old \subseteq 1..issued /\ (d.st = "stored" \/ sessions' = {})
  \/ \E b \in calls : b.op = "change" /\ b.old = d.old /\ b.st \in {d.st, "cleared"}

\* Identities are given out once, so what has ended stays ended.
LEMMA SessionKept ==
    ASSUME SessionInv, \A d \in calls' : Shaped(d) /\ Good(d),
           \/ sessions' \subseteq sessions /\ issued' = issued
           \/ sessions' = sessions \cup {issued'} /\ issued' = issued + 1
    PROVE  SessionInv'
<1>1. issued' \in Nat /\ sessions' \subseteq 1..issued' /\ 1..issued \subseteq 1..issued'
      /\ sessions' \cap 1..issued \subseteq sessions
  <2>1. issued \in Nat /\ sessions \subseteq 1..issued
    BY DEF SessionInv
  <2>2. CASE sessions' \subseteq sessions /\ issued' = issued
    BY <2>1, <2>2
  <2>3. CASE sessions' = sessions \cup {issued'} /\ issued' = issued + 1
    <3>1. issued' \in Nat /\ issued' \notin 1..issued /\ issued' \in 1..issued'
          /\ 1..issued \subseteq 1..issued'
      BY <2>1, <2>3
    <3> QED BY <2>1, <2>3, <3>1
  <2> QED BY <2>2, <2>3
<1>2. ASSUME NEW d \in calls', d.op = "change" PROVE OldEnded(d)'
  <2>1. Good(d)
    OBVIOUS
  <2>2. CASE d.st \notin {"stored", "cleared", "ok"}
    BY <2>2 DEF OldEnded
  <2>3. CASE d.old \subseteq 1..issued /\ (d.st = "stored" \/ sessions' = {})
    BY <1>1, <2>3 DEF OldEnded
  <2>4. ASSUME NEW b \in calls, b.op = "change", b.old = d.old, b.st \in {d.st, "cleared"}
        PROVE  OldEnded(d)'
    BY <1>1, <2>4 DEF OldEnded, SessionInv
  <2> QED BY <1>2, <2>1, <2>2, <2>3, <2>4 DEF Good
<1> QED BY <1>1, <1>2 DEF SessionInv, AllShaped

\* The call that is handled becomes d; the others are as they were.
LEMMA OthersGood ==
    ASSUME SessionInv, NEW c \in calls, NEW d, Become(c, d), Shaped(d), Good(d)
    PROVE  \A e \in calls' : Shaped(e) /\ Good(e)
BY DEF Become, Good, SessionInv, AllShaped

LEMMA ChangeSessions ==
    ASSUME SessionInv, NEW c \in calls, HandleChangePassword(c)
    PROVE  SessionInv'
<1>0. c.op = "change" /\ Shaped(c)
  BY DEF HandleChangePassword, SessionInv, AllShaped
<1>1. CASE /\ UNCHANGED <<sessions, issued>>
           /\ \E st \in {"verified", "failed"} : Become(c, To(c, st))
  <2> PICK st \in {"verified", "failed"} : Become(c, To(c, st))
    BY <1>1
  <2>1. Shaped(To(c, st)) /\ Good(To(c, st))
    BY <1>0, ToSet DEF Good
  <2> QED BY <1>1, <2>1, OthersGood, SessionKept
<1>2. CASE /\ UNCHANGED <<sessions, issued>>
           /\ Become(c, To([c EXCEPT !.old = sessions], "stored"))
  <2> DEFINE d == [c EXCEPT !.old = sessions]
  <2>1. Shaped(d) /\ d.old = sessions
    BY <1>0, OldSet
  <2>2. Become(c, To(d, "stored"))
    BY <1>2
  <2> HIDE DEF d
  <2>3. /\ Shaped(To(d, "stored")) /\ To(d, "stored").st = "stored"
        /\ To(d, "stored").old = sessions
    BY <2>1, ToSet
  <2>4. sessions \subseteq 1..issued
    BY DEF SessionInv
  <2>5. Shaped(To(d, "stored")) /\ Good(To(d, "stored"))
    BY <2>3, <2>4 DEF Good
  <2> QED BY <1>2, <2>2, <2>5, OthersGood, SessionKept
<1>3. CASE /\ c.st = "stored" /\ sessions' = {} /\ issued' = issued
           /\ Become(c, To(c, "cleared"))
  <2>1. Shaped(To(c, "cleared")) /\ Good(To(c, "cleared"))
    BY <1>0, <1>3, ToSet DEF Good, SessionInv, OldEnded
  <2> QED BY <1>3, <2>1, OthersGood, SessionKept
<1>4. CASE c.st = "cleared" /\ Issue(c)
  <2>1. Shaped(Answer(c, "ok", issued')) /\ Good(Answer(c, "ok", issued'))
    BY <1>0, <1>4, AnswerSet DEF Good
  <2> QED BY <1>4, <2>1, OthersGood, SessionKept DEF Issue
<1> QED BY <1>1, <1>2, <1>3, <1>4 DEF HandleChangePassword, Written, DeleteAllSessions, auth

\* The other handlers: their calls have no sessions to end.
LEMMA HandleSessions ==
    ASSUME SessionInv, NEW c \in calls, Handle(c)
    PROVE  SessionInv'
<1>0. Shaped(c)
  BY DEF SessionInv, AllShaped
<1>1. CASE Turned(c) \/ AnswerLost(c)
  <2>1. PICK d : Become(c, d) /\ Shaped(d) /\ d.st \in {"failed", "unauthorized"}
    BY <1>0, <1>1, TurnedCalls
  <2>2. Good(d)
    BY <2>1 DEF Good
  <2>3. UNCHANGED <<sessions, issued>>
    BY <1>1 DEF Turned, AnswerLost, auth
  <2> QED BY <2>1, <2>2, <2>3, OthersGood, SessionKept
<1>2. CASE HandleChangePassword(c)
  BY <1>2, ChangeSessions
<1>3. ASSUME c.op # "change", NEW st, Become(c, To(c, st)),
             sessions' \subseteq sessions, issued' = issued
      PROVE  SessionInv'
  <2>1. Shaped(To(c, st)) /\ Good(To(c, st))
    BY <1>0, <1>3, ToSet DEF Good
  <2> QED BY <1>3, <2>1, OthersGood, SessionKept
<1>4. ASSUME c.op # "change", Issue(c) PROVE SessionInv'
  <2>1. Shaped(Answer(c, "ok", issued')) /\ Good(Answer(c, "ok", issued'))
    BY <1>0, <1>4, AnswerSet DEF Good
  <2> QED BY <1>4, <2>1, OthersGood, SessionKept DEF Issue
<1>5. ASSUME c.op # "change", NEW b, Shaped(b), b.op = c.op, NEW st, Become(c, To(b, st)),
             UNCHANGED <<sessions, issued>>
      PROVE  SessionInv'
  <2>1. Shaped(To(b, st)) /\ Good(To(b, st))
    BY <1>5, ToSet DEF Good
  <2> QED BY <1>5, <2>1, OthersGood, SessionKept
<1>6. ASSUME c.op # "change", NEW got, Become(c, Answer(c, "ok", got)),
             UNCHANGED <<sessions, issued>>
      PROVE  SessionInv'
  <2>1. Shaped(Answer(c, "ok", got)) /\ Good(Answer(c, "ok", got))
    BY <1>0, <1>6, AnswerSet DEF Good
  <2> QED BY <1>6, <2>1, OthersGood, SessionKept
<1>7. CASE HandleStatus(c)
  BY <1>6, <1>7 DEF HandleStatus, auth
<1>8. CASE HandleLogin(c)
  BY <1>3, <1>4, <1>8 DEF HandleLogin, auth
<1>9. CASE HandleSetup(c)
  BY <1>3, <1>4, <1>9 DEF HandleSetup, Written, auth
<1>10. CASE HandleLogout(c)
  BY <1>3, <1>10 DEF HandleLogout
<1>11. CASE GetConfig(c)
  BY <1>6, <1>11 DEF GetConfig, auth
<1>12. CASE PatchConfig(c)
  <2>1. Shaped([c EXCEPT !.old = config.port]) /\ [c EXCEPT !.old = config.port].op = c.op
    BY <1>0, OldSet
  <2>2. c.op # "change" /\ UNCHANGED <<sessions, issued>>
    BY <1>12 DEF PatchConfig, auth
  <2>3. CASE Become(c, To([c EXCEPT !.old = config.port], "read"))
    BY <1>5, <2>1, <2>2, <2>3
  <2>4. CASE \E got : Become(c, Answer(c, "ok", got))
    BY <1>6, <2>2, <2>4
  <2>5. CASE Become(c, To(c, "failed"))
    BY <1>3, <2>2, <2>5
  <2> QED BY <1>12, <2>3, <2>4, <2>5 DEF PatchConfig, Written
<1>13. CASE HandleRestart(c)
  <2>1. UNCHANGED <<sessions, issued>>
    BY <1>13 DEF HandleRestart, auth
  <2>2. \A d \in calls' : Shaped(d) /\ Good(d)
    BY <1>13, RestartCalls DEF Good, SessionInv
  <2> QED BY <2>1, <2>2, SessionKept
<1> QED
  BY <1>1, <1>2, <1>7, <1>8, <1>9, <1>10, <1>11, <1>12, <1>13 DEF Handle

LEMMA SessionStep == ASSUME SessionInv, [Next]_vars PROVE SessionInv'
<1>1. ASSUME NEW p \in Pages, UserStep(p) PROVE SessionInv'
  <2>1. UNCHANGED <<sessions, issued>>
    BY <1>1, UserCalls DEF auth
  <2>2. \A d \in calls' : Shaped(d) /\ Good(d)
    BY <1>1, UserCalls, RequestSet DEF Good, SessionInv, AllShaped
  <2> QED BY <2>1, <2>2, SessionKept
<1>2. ASSUME NEW p \in Pages, Refresh(p) PROVE SessionInv'
  <2>1. UNCHANGED <<sessions, issued>>
    BY <1>2 DEF Refresh, auth
  <2>2. \E c, k : Leave(p, c, k)
    BY <1>2 DEF Refresh
  <2>3. \A d \in calls' : Shaped(d) /\ Good(d)
    BY <2>2, LeaveCalls DEF Good, SessionInv
  <2> QED BY <2>1, <2>3, SessionKept
<1>3. ASSUME NEW c \in calls, Take(c) \/ Forget(c) PROVE SessionInv'
  <2>1. UNCHANGED <<sessions, issued>>
    BY <1>3 DEF Take, Forget, auth
  <2>2. \A d \in calls' : Shaped(d) /\ Good(d)
    BY <1>3, TakeCalls DEF Good, SessionInv
  <2> QED BY <2>1, <2>2, SessionKept
<1>4. ASSUME NEW c \in calls, RestartServer(c) PROVE SessionInv'
  <2>1. sessions' \subseteq sessions /\ issued' = issued
    BY <1>4 DEF RestartServer
  <2>2. ASSUME NEW d \in calls' PROVE Shaped(d) /\ Good(d)
    <3>1. PICK b \in calls : d = b \/ d = To(b, "failed")
      BY <1>4 DEF RestartServer
    <3> QED BY <3>1, ToSet DEF Good, SessionInv, AllShaped
  <2> QED BY <2>1, <2>2, SessionKept
<1>5. ASSUME UNCHANGED calls, sessions' \subseteq sessions, issued' = issued PROVE SessionInv'
  <2>1. \A d \in calls' : Shaped(d) /\ Good(d)
    BY <1>5 DEF Good, SessionInv, AllShaped
  <2> QED BY <1>5, <2>1, SessionKept
<1>6. ASSUME \/ \E s \in 1..MaxSids : Expire(s)
             \/ LockoutEnds \/ CleanupExpired \/ UNCHANGED vars
      PROVE  SessionInv'
  BY <1>5, <1>6 DEF Expire, LockoutEnds, CleanupExpired, vars, auth, traffic
<1> QED BY <1>1, <1>2, <1>3, <1>4, <1>6, HandleSessions DEF Next

\* However logins, logouts, restarts and other changes of the password race a
\* change of the password, the sessions it found when it stored are gone when it
\* says so (ChangePassword in session.go).
THEOREM ChangeEndsSessions == Spec => []SessionsEndWithTheirPassword
<1>1. Init => SessionInv
  <2> SUFFICES ASSUME Init PROVE SessionInv
    OBVIOUS
  <2>1. issued \in Nat /\ sessions \subseteq 1..issued
    BY DEF Init
  <2>2. \A c \in calls : Shaped(c) /\ c.op = "status"
    BY RequestSet DEF Init, Status
  <2> QED BY <2>1, <2>2 DEF SessionInv, AllShaped
<1>2. SessionInv => SessionsEndWithTheirPassword
  BY DEF SessionInv, OldEnded, SessionsEndWithTheirPassword
<1> QED BY <1>1, <1>2, SessionStep, PTL DEF Spec

----------------------------------------------------------------------------
(* The restart that a change of the port needs                              *)

Announced == told \/ \E c \in calls : Announces(c)

\* A call that changes the settings has its page, and took the port for the one
\* that is served, or the difference is known.
Sound(c) ==
  c.op = "patch" => c.page # None /\ (c.st = "read" => c.old = running \/ Announced)

RestartInv ==
  /\ AllShaped
  /\ disk.config = config /\ disk.password = password
  /\ config.port # running => Announced
  /\ \A c \in calls : Sound(c)

\* What may become of a call of the next state.
Sounds(d) ==
  d.op = "patch" =>
    /\ d.page # None
    /\ d.st = "read" =>
         \/ d.old = config.port
         \/ \E b \in calls : b.op = "patch" /\ b.st = "read" /\ b.old = d.old

\* A step after which the same ports are stored and served.
LEMMA RestartKept ==
    ASSUME RestartInv, Announced => Announced', UNCHANGED running,
           config'.port = config.port \/ Announced' \/ config'.port = running,
           disk'.config = config', disk'.password = password',
           \A d \in calls' : Shaped(d) /\ Sounds(d)
    PROVE  RestartInv'
<1>1. config'.port # running' => Announced'
  BY DEF RestartInv
<1>2. ASSUME NEW d \in calls', d.op = "patch" PROVE Sound(d)'
  BY <1>2 DEF Sound, Sounds, RestartInv
<1>3. \A d \in calls' : Sound(d)'
  BY <1>2 DEF Sound
<1> QED BY <1>1, <1>3 DEF RestartInv, AllShaped

\* The call that is handled becomes d; the others are as they were.
LEMMA OthersSound ==
    ASSUME RestartInv, NEW c \in calls, NEW d, Become(c, d), Shaped(d), Sounds(d),
           UNCHANGED <<running, told>>, ~Announces(c)
    PROVE  /\ \A e \in calls' : Shaped(e) /\ Sounds(e)
           /\ Announced => Announced'
<1>1. \A e \in calls : Sounds(e)
  BY DEF RestartInv, Sound, Sounds
<1> QED BY <1>1 DEF Become, RestartInv, AllShaped, Announced

LEMMA PatchRestart ==
    ASSUME RestartInv, NEW c \in calls, PatchConfig(c), told' = told, "unsaved" \notin Slips
    PROVE  RestartInv'
<1>0. Shaped(c) /\ c.op = "patch" /\ c.page # None /\ ~Announces(c)
  BY DEF PatchConfig, Admitted, RestartInv, AllShaped, Sound, Announces
<1>1. CASE /\ Become(c, To([c EXCEPT !.old = config.port], "read"))
           /\ UNCHANGED <<config, disk, password, running>>
  <2> DEFINE d == [c EXCEPT !.old = config.port]
  <2>1. Shaped(d) /\ d.old = config.port /\ d.op = c.op /\ d.page = c.page
    BY <1>0, OldSet
  <2>2. Become(c, To(d, "read"))
    BY <1>1
  <2> HIDE DEF d
  <2>3. Shaped(To(d, "read")) /\ Sounds(To(d, "read"))
    BY <1>0, <2>1, ToSet DEF Sounds
  <2> QED BY <1>0, <1>1, <2>2, <2>3, OthersSound, RestartKept DEF RestartInv
<1>2. CASE /\ c.st = "read" /\ UNCHANGED <<password, running>>
           /\ disk' = [config |-> config', password |-> password']
           /\ Become(c, Answer(c, "ok", [config |-> config', restart |-> config'.port # c.old]))
  <2> DEFINE got == [config |-> config', restart |-> config'.port # c.old]
             d == Answer(c, "ok", got)
  <2>1. Shaped(d) /\ d.st = "ok" /\ d.got = got /\ d.op = "patch" /\ d.page = c.page
    BY <1>0, AnswerSet
  <2>2. Sounds(d)
    BY <1>0, <2>1 DEF Sounds
  <2>3. d \in calls' /\ Become(c, d)
    BY <1>2 DEF Become
  <2>4. config'.port # c.old => Announces(d)
    <3>1. got.restart = (config'.port # c.old)
      OBVIOUS
    <3>2. d.got.restart = (config'.port # c.old)
      BY <2>1, <3>1
    <3> HIDE DEF d, got
    <3> QED BY <2>1, <3>2, Zenon DEF Announces
  <2> HIDE DEF d
  <2>5. (Announced => Announced') /\ \A e \in calls' : Shaped(e) /\ Sounds(e)
    BY <1>0, <1>2, <2>1, <2>2, <2>3, OthersSound
  <2>6. Announced' \/ config'.port = running
    <3>1. c.old = running \/ Announced
      BY <1>0, <1>2 DEF RestartInv, Sound
    <3>2. Announces(d) => Announced'
      BY <2>3 DEF Announced, Announces
    <3> QED BY <2>4, <2>5, <3>1, <3>2
  <2> QED BY <1>2, <2>5, <2>6, RestartKept
<1> QED BY <1>1, <1>2 DEF PatchConfig, Written, Slip, auth, limit

\* The other handlers: settings and ports stay, and what was announced.
LEMMA HandleRestarts ==
    ASSUME RestartInv, NEW c \in calls, Handle(c), {"unsaved", "unsure"} \cap Slips = {}
    PROVE  RestartInv'
<1>0. Shaped(c) /\ told' = told
  BY DEF Handle, RestartInv, AllShaped
<1>1. CASE PatchConfig(c)
  BY <1>0, <1>1, PatchRestart
<1>2. ASSUME ~PatchConfig(c), UNCHANGED <<config, running>>,
             disk' = [config |-> config', password |-> password'] \/ UNCHANGED <<disk, password>>,
             NEW d, Become(c, d), Shaped(d), Sounds(d), ~Announces(c)
      PROVE  RestartInv'
  BY <1>0, <1>2, OthersSound, RestartKept DEF RestartInv
<1>3. ASSUME ~PatchConfig(c), UNCHANGED <<config, running>>, c.op # "patch",
             disk' = [config |-> config', password |-> password'] \/ UNCHANGED <<disk, password>>,
             NEW b, Shaped(b), b.op = c.op, NEW st, Become(c, To(b, st))
      PROVE  RestartInv'
  <2>1. Shaped(To(b, st)) /\ Sounds(To(b, st)) /\ ~Announces(c)
    BY <1>3, ToSet DEF Sounds, Announces
  <2> QED BY <1>2, <1>3, <2>1
<1>4. ASSUME ~PatchConfig(c), UNCHANGED <<config, running, disk, password>>, c.op # "patch",
             NEW got, Become(c, Answer(c, "ok", got))
      PROVE  RestartInv'
  <2>1. Shaped(Answer(c, "ok", got)) /\ Sounds(Answer(c, "ok", got)) /\ ~Announces(c)
    BY <1>0, <1>4, AnswerSet DEF Sounds, Announces
  <2> QED BY <1>2, <1>4, <2>1
<1>5. CASE Turned(c) \/ AnswerLost(c)
  <2>1. PICK d : /\ Become(c, d) /\ Shaped(d) /\ d.op = c.op /\ d.page = c.page
                 /\ d.st \in {"failed", "unauthorized"}
    BY <1>0, <1>5, TurnedCalls
  <2>2. Sounds(d) /\ ~Announces(c)
    BY <1>5, <2>1 DEF Sounds, RestartInv, Sound, Turned, AnswerLost, Slip, Announces
  <2>3. UNCHANGED <<config, running, disk, password>>
    BY <1>5 DEF Turned, AnswerLost, auth, store
  <2> QED BY <1>1, <1>2, <2>1, <2>2, <2>3
<1>6. CASE HandleStatus(c)
  BY <1>1, <1>4, <1>6 DEF HandleStatus, auth, store
<1>7. CASE HandleLogin(c)
  BY <1>0, <1>1, <1>3, <1>4, <1>7 DEF HandleLogin, Issue, auth, store
<1>8. CASE HandleSetup(c)
  <2>1. c.op = "setup" /\ UNCHANGED <<config, running>>
    BY <1>8 DEF HandleSetup
  <2>2. CASE Issue(c) /\ UNCHANGED <<password, disk>>
    BY <1>1, <1>4, <2>1, <2>2 DEF Issue
  <2>3. CASE /\ \E st : Become(c, To(c, st))
             /\ \/ disk' = [config |-> config', password |-> password']
                \/ UNCHANGED <<disk, password>>
    BY <1>0, <1>1, <1>3, <2>1, <2>3
  <2> QED BY <1>8, <2>2, <2>3 DEF HandleSetup, Written, Slip, auth
<1>9. CASE HandleChangePassword(c)
  <2>1. c.op = "change" /\ UNCHANGED <<config, running>>
    BY <1>9 DEF HandleChangePassword
  <2>2. CASE Issue(c) /\ UNCHANGED <<password, disk>>
    BY <1>1, <1>4, <2>1, <2>2 DEF Issue
  <2>3. CASE (\E st : Become(c, To(c, st))) /\ UNCHANGED <<disk, password>>
    BY <1>0, <1>1, <1>3, <2>1, <2>3
  <2>4. CASE /\ Become(c, To([c EXCEPT !.old = sessions], "stored"))
             /\ disk' = [config |-> config', password |-> password']
    <3> DEFINE b == [c EXCEPT !.old = sessions]
    <3>1. Shaped(b) /\ b.op = c.op
      BY <1>0, OldSet
    <3>2. Become(c, To(b, "stored"))
      BY <2>4
    <3> HIDE DEF b
    <3> QED BY <1>1, <1>3, <2>1, <2>4, <3>1, <3>2
  <2> QED BY <1>9, <2>2, <2>3, <2>4 DEF HandleChangePassword, Written, Slip, auth
<1>10. CASE HandleLogout(c)
  BY <1>0, <1>1, <1>3, <1>10 DEF HandleLogout, store
<1>11. CASE GetConfig(c)
  BY <1>1, <1>4, <1>11 DEF GetConfig, auth, store
<1>12. CASE HandleRestart(c)
  <2>1. \A d \in calls' : Shaped(d) /\ Sounds(d)
    BY <1>12, RestartCalls DEF RestartInv, Sound, Sounds
  <2>2. Announced => Announced'
    BY <1>0, <1>12 DEF HandleRestart, Announced, Announces
  <2>3. UNCHANGED <<running, config, disk, password>>
    BY <1>12 DEF HandleRestart, auth, store
  <2> QED BY <2>1, <2>2, <2>3, RestartKept DEF RestartInv
<1> QED
  BY <1>1, <1>5, <1>6, <1>7, <1>8, <1>9, <1>10, <1>11, <1>12 DEF Handle

\* A page that changes settings is not left.
LEMMA LeaveKeeps ==
    ASSUME NEW p, NEW c, NEW k, Leave(p, c, k), "leave" \notin Slips
    PROVE  /\ told' = told
           /\ \A b \in calls \ {c} : b.op = "patch" => b.page # p /\ b \in calls'
BY DEF Leave, Slip

\* What an answer announced, the page knows.
LEMMA TakeRestarts ==
    ASSUME RestartInv, NEW c \in calls, IF c.page = None THEN Forget(c) ELSE Take(c),
           "leave" \notin Slips
    PROVE  RestartInv'
<1>1. ASSUME NEW d \in calls' PROVE Shaped(d) /\ Sounds(d)
  <2>1. Sounds(d) \/ d \notin calls
    BY DEF RestartInv, Sound, Sounds
  <2>2. ASSUME NEW b \in calls \ {c}, NEW k, Leave(c.page, c, k), b.page = c.page, d.op = b.op
        PROVE  Sounds(d)
    BY <2>2, LeaveKeeps DEF Sounds
  <2> QED BY <2>1, <2>2, TakeCalls DEF RestartInv, Sounds
<1>2. told => told'
  BY LeaveKeeps DEF Forget, Take, Succeeds, Fails, Loaded, Saved
<1>3. CASE Announces(c)
  <2>1. Succeeds(c.page, c) /\ c.op = "patch"
    BY <1>3 DEF Announces, RestartInv, Sound, Take, Fails, Answered
  <2>2. Saved(c.page, c)
    BY <2>1 DEF Succeeds
  <2>3. told'
    BY <1>3, <2>2, Zenon DEF Announces, Saved
  <2>4. UNCHANGED <<running, config, disk, password>>
    BY DEF Take, Forget, auth, store
  <2> QED BY <1>1, <2>3, <2>4, RestartKept DEF Announced, RestartInv
<1>4. CASE ~Announces(c)
  <2>1. ASSUME NEW b \in calls \ {c}, b.op = "patch" PROVE b \in calls'
    <3>1. ASSUME NEW k, Leave(c.page, c, k) PROVE b \in calls'
      BY <2>1, <3>1, LeaveKeeps
    <3>2. Done(c) \/ (\E d : Become(c, d)) \/ \E k : Leave(c.page, c, k)
      BY DEF Forget, Take, Succeeds, Fails, Loaded, Saved
    <3> QED BY <3>1, <3>2 DEF Done, Become
  <2>2. Announced => Announced'
    BY <1>2, <1>4, <2>1 DEF Announced, Announces
  <2>3. UNCHANGED <<running, config, disk, password>>
    BY DEF Take, Forget, auth, store
  <2> QED BY <1>1, <2>2, <2>3, RestartKept DEF RestartInv
<1> QED BY <1>3, <1>4

LEMMA RestartStep ==
    ASSUME RestartInv, [Next]_vars, {"leave", "unsaved", "unsure"} \cap Slips = {}
    PROVE  RestartInv'
<1>1. ASSUME NEW p \in Pages, UserStep(p) PROVE RestartInv'
  <2>1. UNCHANGED <<config, disk, running, password, told>>
    BY <1>1, UserCalls DEF auth, store
  <2>2. \A c \in calls : c \in calls'
    BY <1>1, UserCalls
  <2>3. ASSUME NEW d \in calls' PROVE Shaped(d) /\ Sounds(d)
    <3>1. p # None
      BY SessionAssumption
    <3>2. d \in calls => Shaped(d) /\ Sounds(d)
      BY DEF RestartInv, AllShaped, Sound, Sounds
    <3>3. ASSUME NEW n, NEW op, NEW a, NEW k, d = Request(n, p, op, a, k)
          PROVE  Shaped(d) /\ Sounds(d)
      BY <3>1, <3>3, RequestSet DEF Sounds
    <3> QED BY <1>1, <3>2, <3>3, UserCalls
  <2> QED BY <2>1, <2>2, <2>3, RestartKept DEF RestartInv, Announced
<1>2. ASSUME NEW p \in Pages, Refresh(p) PROVE RestartInv'
  <2>1. PICK k : Leave(p, Status(p, None), k)
    BY <1>2 DEF Refresh
  <2>2. ASSUME NEW d \in calls' PROVE Shaped(d) /\ Sounds(d)
    <3>1. d \in calls => Sounds(d)
      BY DEF RestartInv, Sound, Sounds
    <3> QED BY <2>1, <3>1, LeaveCalls, LeaveKeeps DEF RestartInv, Sounds
  <2>3. Status(p, None).op = "status"
    BY RequestSet DEF Status
  <2>4. Announced => Announced'
    BY <2>1, <2>3, LeaveKeeps DEF Announced, Announces
  <2>5. UNCHANGED <<running, config, disk, password>>
    BY <1>2 DEF Refresh, auth, store
  <2> QED BY <2>2, <2>4, <2>5, RestartKept DEF RestartInv
<1>3. ASSUME NEW c \in calls, RestartServer(c) PROVE RestartInv'
  <2>1. ASSUME NEW d \in calls' PROVE Shaped(d) /\ Sound(d)'
    <3>1. PICK b \in calls : \/ d = b /\ b.st \in Answered
                             \/ d = To(b, "failed")
      BY <1>3 DEF RestartServer
    <3>2. Shaped(b) /\ (b.op = "patch" => b.page # None)
      BY DEF RestartInv, AllShaped, Sound
    <3> QED BY <3>1, <3>2, ToSet DEF Sound, Answered
  <2> QED BY <1>3, <2>1 DEF RestartServer, RestartInv, AllShaped
<1>4. ASSUME \/ \E s \in 1..MaxSids : Expire(s)
             \/ LockoutEnds \/ CleanupExpired \/ UNCHANGED vars
      PROVE  RestartInv'
  <2>1. UNCHANGED <<calls, config, disk, running, password, told>>
    BY <1>4 DEF Expire, LockoutEnds, CleanupExpired, vars, auth, store, traffic
  <2>2. \A d \in calls' : Shaped(d) /\ Sounds(d)
    BY <2>1 DEF RestartInv, AllShaped, Sound, Sounds
  <2> QED BY <2>1, <2>2, RestartKept DEF RestartInv, Announced
<1> QED BY <1>1, <1>2, <1>3, <1>4, HandleRestarts, TakeRestarts DEF Next

\* Unless the configuration cannot be written, a page is left while it changes
\* something or the answer that asks for the restart is lost, a stored port that
\* is not the one served was reported, through any race of two pages that save it
\* and whatever else fails (restart_required in config_handler.go).
THEOREM PortsAreAnnounced ==
  ASSUME {"leave", "unsaved", "unsure"} \cap Slips = {}
  PROVE  Spec => []RestartIsAnnounced
<1>1. Init => RestartInv
  <2> SUFFICES ASSUME Init PROVE RestartInv
    OBVIOUS
  <2>1. \A c \in calls : Shaped(c) /\ c.op = "status"
    BY RequestSet DEF Init, Status
  <2> QED BY <2>1 DEF Init, RestartInv, AllShaped, Sound
<1>2. RestartInv => RestartIsAnnounced
  BY DEF RestartInv, RestartIsAnnounced, Announced, Announces
<1>3. RestartInv /\ [Next]_vars => RestartInv'
  BY RestartStep
<1> QED BY <1>1, <1>2, <1>3, PTL DEF Spec

----------------------------------------------------------------------------
(* What is saved                                                            *)

\* Once the form is loaded, only what the user edited differs from what it is
\* compared with; a save ends the dialog before it moves that.
Tracked(p) ==
  (open[p] /\ ~restart[p] /\ form[p] # None /\ ~Live(p, "get")) => Patch(p) \subseteq edited[p]

DialogTyped ==
  /\ DOMAIN open = Pages /\ DOMAIN restart = Pages /\ DOMAIN form = Pages
  /\ DOMAIN initial = Pages /\ DOMAIN edited = Pages

EditInv == AllShaped /\ DialogTyped /\ \A p \in Pages : Tracked(p)

\* The dialog of p is left alone, and still waits for what it waited for.
SameDialog(p) ==
  /\ open'[p] = open[p] /\ restart'[p] = restart[p] /\ form'[p] = form[p]
  /\ initial'[p] = initial[p] /\ edited'[p] = edited[p]
  /\ Live(p, "get") => Live(p, "get")'

LEMMA SameTracked ==
    ASSUME NEW p \in Pages, Tracked(p), SameDialog(p) PROVE Tracked(p)'
BY DEF Tracked, SameDialog, Patch

\* The handlers keep the page and the operation, and answer what was sent.
LEMMA HandleCalls ==
    ASSUME AllShaped, NEW c \in calls, Handle(c), ~HandleRestart(c)
    PROVE  \E d : /\ Become(c, d) /\ Shaped(d) /\ d.op = c.op /\ d.page = c.page
                  /\ d.st # "sent"
<1>0. Shaped(c)
  BY DEF AllShaped
<1>1. ASSUME NEW b, Shaped(b), b.op = c.op, b.page = c.page, NEW st, st # "sent",
             Become(c, To(b, st))
      PROVE  \E d : /\ Become(c, d) /\ Shaped(d) /\ d.op = c.op /\ d.page = c.page
                    /\ d.st # "sent"
  BY <1>1, ToSet
<1>2. ASSUME NEW got, Become(c, Answer(c, "ok", got))
      PROVE  \E d : /\ Become(c, d) /\ Shaped(d) /\ d.op = c.op /\ d.page = c.page
                    /\ d.st # "sent"
  BY <1>0, <1>2, AnswerSet
<1>3. ASSUME NEW v, NEW st, st # "sent", Become(c, To([c EXCEPT !.old = v], st))
      PROVE  \E d : /\ Become(c, d) /\ Shaped(d) /\ d.op = c.op /\ d.page = c.page
                    /\ d.st # "sent"
  <2> DEFINE b == [c EXCEPT !.old = v]
  <2>1. Shaped(b) /\ b.op = c.op /\ b.page = c.page
    BY <1>0, OldSet
  <2>2. Become(c, To(b, st))
    BY <1>3
  <2> HIDE DEF b
  <2> QED BY <1>1, <1>3, <2>1, <2>2
<1>4. \/ \E st : st # "sent" /\ Become(c, To(c, st))
      \/ \E v, st : st # "sent" /\ Become(c, To([c EXCEPT !.old = v], st))
      \/ \E got : Become(c, Answer(c, "ok", got))
  <2>1. CASE Turned(c) \/ AnswerLost(c) \/ HandleStatus(c)
    BY <2>1 DEF Turned, AnswerLost, HandleStatus
  <2>2. CASE HandleLogin(c)
    BY <2>2 DEF HandleLogin, Issue
  <2>3. CASE HandleSetup(c)
    BY <2>3 DEF HandleSetup, Issue, Written
  <2>4. CASE HandleChangePassword(c)
    BY <2>4 DEF HandleChangePassword, Issue, Written
  <2>5. CASE HandleLogout(c) \/ GetConfig(c)
    BY <2>5 DEF HandleLogout, GetConfig
  <2>6. CASE PatchConfig(c)
    BY <2>6 DEF PatchConfig, Written
  <2> QED BY <2>1, <2>2, <2>3, <2>4, <2>5, <2>6 DEF Handle
<1> QED BY <1>0, <1>1, <1>2, <1>3, <1>4

LEMMA LeaveDialogs ==
    ASSUME DialogTyped, NEW p, NEW c, NEW k, Leave(p, c, k), c.page = p, NEW q \in Pages
    PROVE  /\ DialogTyped'
           /\ IF q = p THEN open'[q] = FALSE ELSE SameDialog(q)
<1>1. ASSUME q # p, NEW d \in calls, d.page = q PROVE d \in calls'
  BY <1>1 DEF Leave
<1> QED BY <1>1 DEF Leave, DialogTyped, SameDialog, Live

LEMMA UserDialogs ==
    ASSUME EditInv, NEW p \in Pages, UserStep(p), NEW q \in Pages
    PROVE  DialogTyped' /\ Tracked(q)'
<1>1. \A d \in calls : d \in calls'
  BY UserCalls
<1>2. Live(q, "get") => Live(q, "get")'
  BY <1>1 DEF Live
<1>3. ASSUME UNCHANGED dialog PROVE DialogTyped' /\ Tracked(q)'
  BY <1>2, <1>3, SameTracked DEF EditInv, SameDialog, DialogTyped, dialog
<1>4. CASE OpenSettings(p)
  <2>1. Live(p, "get")'
    BY <1>4, RequestSet DEF OpenSettings, Send, Live
  <2> QED
    BY <1>2, <1>4, <2>1, SameTracked DEF OpenSettings, EditInv, DialogTyped, SameDialog, Tracked
<1>5. CASE CloseSettings(p) \/ Later(p) \/ (Save(p) /\ ~UNCHANGED open)
  BY <1>2, <1>5, SameTracked
     DEF CloseSettings, Later, Save, EditInv, DialogTyped, SameDialog, Tracked
<1>6. CASE UpdateField(p)
  <2>1. PICK f, v : /\ form' = [form EXCEPT ![p] = [@ EXCEPT ![f] = v]]
                    /\ edited' = [edited EXCEPT ![p] = @ \cup {f}]
    BY <1>6 DEF UpdateField
  <2>2. DialogTyped' /\ UNCHANGED <<open, initial, restart, calls>>
    BY <1>6, <2>1 DEF UpdateField, EditInv, DialogTyped, traffic
  <2>3. CASE q # p
    BY <1>2, <2>1, <2>2, <2>3, SameTracked DEF EditInv, SameDialog, DialogTyped
  <2>4. CASE q = p
    <3>1. \A g : g # f => form'[p][g] = form[p][g]
      BY <2>1 DEF EditInv, DialogTyped
    <3>2. Patch(p)' \subseteq Patch(p) \cup {f}
      BY <2>2, <3>1 DEF Patch
    <3>3. Tracked(p) /\ form[p] # None
      BY <1>6 DEF EditInv, UpdateField
    <3> QED BY <1>2, <2>1, <2>2, <2>4, <3>2, <3>3 DEF Tracked, Live, EditInv, DialogTyped
  <2> QED BY <2>2, <2>3, <2>4
<1>7. UNCHANGED dialog \/ OpenSettings(p) \/ CloseSettings(p) \/ Later(p)
      \/ (Save(p) /\ ~UNCHANGED open) \/ UpdateField(p)
  BY DEF UserStep, SubmitLogin, SubmitSetup, Logout, ChangePassword, RestartNow, Submit,
         CountdownEnds, Save, dialog
<1> QED BY <1>3, <1>4, <1>5, <1>6, <1>7

LEMMA TakeDialogs ==
    ASSUME EditInv, NEW c \in calls, Take(c), NEW q \in Pages
    PROVE  DialogTyped' /\ Tracked(q)'
<1> DEFINE p == c.page
<1>1. ASSUME NEW k, Leave(p, c, k) PROVE DialogTyped' /\ Tracked(q)'
  BY <1>1, LeaveDialogs, SameTracked DEF EditInv, Tracked
<1>2. ASSUME Done(c), c.op # "get" \/ q # p PROVE Live(q, "get") => Live(q, "get")'
  BY <1>2 DEF Done, Live
<1>3. CASE Done(c) /\ UNCHANGED dialog /\ c.op # "get"
  BY <1>2, <1>3, SameTracked DEF EditInv, SameDialog, DialogTyped, dialog
<1>4. CASE Loaded(p, c)
  <2>1. Patch(q)' = {} \/ q # p
    BY <1>4 DEF Loaded, Patch, EditInv, DialogTyped
  <2> QED
    BY <1>2, <1>4, <2>1, SameTracked DEF Loaded, EditInv, DialogTyped, SameDialog, Tracked
<1>5. CASE Saved(p, c) /\ c.op = "patch"
  <2>1. q = p => ~(open'[q] /\ ~restart'[q])
    BY <1>5 DEF Saved, EditInv, DialogTyped
  <2> QED
    BY <1>2, <1>5, <2>1, SameTracked DEF Saved, EditInv, DialogTyped, SameDialog, Tracked
<1>7. CASE Fails(p, c)
  BY <1>2, <1>7, SameTracked DEF Fails, EditInv, DialogTyped, SameDialog, Tracked
<1>8. \/ \E k : Leave(p, c, k)
      \/ Done(c) /\ UNCHANGED dialog /\ c.op # "get"
      \/ Loaded(p, c)
      \/ Saved(p, c) /\ c.op = "patch"
      \/ Fails(p, c)
  BY DEF Take, Succeeds
<1> QED BY <1>1, <1>3, <1>4, <1>5, <1>7, <1>8

\* Steps that no dialog sees.
LEMMA OtherDialogs ==
    ASSUME EditInv, UNCHANGED dialog, NEW q \in Pages,
           \A b \in calls : b.page = q /\ b.op = "get" =>
             \E d \in calls' : d.page = q /\ d.op = "get"
    PROVE  DialogTyped' /\ Tracked(q)'
<1>1. Live(q, "get") => Live(q, "get")'
  BY DEF Live
<1> QED BY <1>1, SameTracked DEF EditInv, SameDialog, DialogTyped, dialog

LEMMA EditStep == ASSUME EditInv, [Next]_vars PROVE EditInv'
<1>1. ASSUME NEW p \in Pages, UserStep(p) PROVE EditInv'
  <2>1. AllShaped'
    BY <1>1, UserCalls, RequestSet DEF EditInv, AllShaped
  <2> QED BY <1>1, <2>1, UserDialogs DEF EditInv, DialogTyped
<1>2. ASSUME NEW p \in Pages, Refresh(p) PROVE EditInv'
  <2>1. PICK k : Leave(p, Status(p, None), k)
    BY <1>2 DEF Refresh
  <2>2. Status(p, None).page = p
    BY RequestSet DEF Status
  <2>3. AllShaped'
    BY <2>1, LeaveCalls DEF EditInv, AllShaped
  <2>4. DialogTyped' /\ \A q \in Pages : Tracked(q)'
    BY <2>1, <2>2, LeaveDialogs, SameTracked DEF EditInv, Tracked
  <2> QED BY <2>3, <2>4 DEF EditInv
<1>3. ASSUME NEW c \in calls, Handle(c) PROVE EditInv'
  <2>1. AllShaped'
    <3>1. CASE HandleRestart(c)
      BY <3>1, RestartCalls DEF EditInv, AllShaped
    <3>2. CASE ~HandleRestart(c)
      BY <1>3, <3>2, HandleCalls DEF EditInv, Become, AllShaped
    <3> QED BY <3>1, <3>2
  <2>2. \A q \in Pages : \A b \in calls : b.page = q /\ b.op = "get" =>
                        \E e \in calls' : e.page = q /\ e.op = "get"
    <3>1. CASE HandleRestart(c)
      BY <3>1 DEF HandleRestart
    <3>2. CASE ~HandleRestart(c)
      BY <1>3, <3>2, HandleCalls DEF EditInv, Become
    <3> QED BY <3>1, <3>2
  <2>3. UNCHANGED dialog
    BY <1>3 DEF Handle
  <2> QED BY <2>1, <2>2, <2>3, OtherDialogs DEF EditInv, DialogTyped, dialog
<1>4. ASSUME NEW c \in calls, RestartServer(c) PROVE EditInv'
  <2>1. \A b \in calls \ {c} : b \in calls' \/ To(b, "failed") \in calls'
    BY <1>4 DEF RestartServer
  <2>2. \A q \in Pages : \A b \in calls : b.page = q /\ b.op = "get" =>
                        \E e \in calls' : e.page = q /\ e.op = "get"
    BY <1>4, <2>1, ToSet DEF RestartServer, EditInv, AllShaped
  <2>3. AllShaped'
    BY <1>4, ToSet DEF RestartServer, EditInv, AllShaped
  <2>4. UNCHANGED dialog
    BY <1>4 DEF RestartServer
  <2> QED BY <2>2, <2>3, <2>4, OtherDialogs DEF EditInv, DialogTyped, dialog
<1>5. ASSUME NEW c \in calls, Take(c) PROVE EditInv'
  <2>1. AllShaped'
    BY <1>5, TakeCalls DEF EditInv, AllShaped
  <2>2. DialogTyped'
    BY <1>5, TakeDialogs
       DEF Take, Succeeds, Fails, Loaded, Saved, Leave, EditInv, DialogTyped, dialog
  <2> QED BY <1>5, <2>1, <2>2, TakeDialogs DEF EditInv
<1>6. ASSUME NEW c \in calls, c.page = None, Forget(c) PROVE EditInv'
  <2>1. AllShaped' /\ \A q \in Pages : \A b \in calls : b.page = q /\ b.op = "get" => b \in calls'
    BY <1>6, SessionAssumption DEF Forget, Done, EditInv, AllShaped
  <2>2. UNCHANGED dialog
    BY <1>6 DEF Forget
  <2> QED BY <2>1, <2>2, OtherDialogs DEF EditInv, DialogTyped, dialog
<1>7. ASSUME \/ \E s \in 1..MaxSids : Expire(s)
             \/ LockoutEnds \/ CleanupExpired \/ UNCHANGED vars
      PROVE  EditInv'
  <2>1. UNCHANGED <<calls, dialog>>
    BY <1>7 DEF Expire, LockoutEnds, CleanupExpired, vars, traffic
  <2> QED BY <2>1, OtherDialogs DEF EditInv, AllShaped, DialogTyped, dialog
<1> QED BY <1>1, <1>2, <1>3, <1>4, <1>5, <1>6, <1>7 DEF Next

\* Only a save asks for a change of the settings.
LEMMA PatchIsSaved ==
    ASSUME AllShaped, Next, NEW p \in Pages, NEW c \in calls' \ calls,
           c.op = "patch", c.page = p, c.st = "sent"
    PROVE  Save(p) /\ DOMAIN c.arg = Patch(p)
<1>1. ASSUME NEW q \in Pages, UserStep(q) PROVE Save(p) /\ DOMAIN c.arg = Patch(p)
  <2>1. ASSUME NEW op, NEW a, op # "patch", Submit(q, op, a) PROVE FALSE
    BY <2>1, RequestSet DEF Submit, Send
  <2>2. ~(SubmitLogin(q) \/ SubmitSetup(q) \/ Logout(q) \/ ChangePassword(q) \/ RestartNow(q))
    BY <2>1 DEF SubmitLogin, SubmitSetup, Logout, ChangePassword, RestartNow
  <2>3. ~(CountdownEnds(q) \/ CloseSettings(q) \/ UpdateField(q) \/ Later(q))
    BY DEF CountdownEnds, CloseSettings, UpdateField, Later, traffic
  <2>4. ~OpenSettings(q)
    BY RequestSet DEF OpenSettings, Send
  <2>5. Save(q)
    BY <1>1, <2>2, <2>3, <2>4 DEF UserStep
  <2>6. c = Request(count', q, "patch", [f \in Patch(q) |-> form[q][f]], cookie[q])
    BY <2>5 DEF Save, Send, traffic
  <2>7. q = p /\ DOMAIN c.arg = Patch(q)
    BY <2>6 DEF Request
  <2> QED BY <2>5, <2>7
<1>2. ASSUME NEW q \in Pages, Refresh(q) PROVE FALSE
  <2>1. PICK k : Leave(q, Status(q, None), k)
    BY <1>2 DEF Refresh
  <2>2. c = Status(q, k) \/ c \in calls \/ \E b : c = [b EXCEPT !.page = None] /\ b \in calls
    BY <2>1 DEF Leave
  <2> QED BY <2>2, RequestSet, SessionAssumption DEF Status, AllShaped, Shaped, CallFields
<1>3. ASSUME NEW b \in calls, Handle(b) PROVE FALSE
  <2>1. CASE HandleRestart(b)
    BY <2>1, RestartCalls
  <2>2. CASE ~HandleRestart(b)
    BY <1>3, <2>2, HandleCalls DEF Become
  <2> QED BY <2>1, <2>2
<1>4. ASSUME NEW b \in calls, RestartServer(b) PROVE FALSE
  BY <1>4, ToSet DEF RestartServer, AllShaped
<1>5. ASSUME NEW b \in calls, Take(b) \/ Forget(b) PROVE FALSE
  <2>1. ASSUME NEW k, Leave(b.page, b, k) PROVE FALSE
    <3>1. c = Status(b.page, k) \/ c \in calls
          \/ \E d : c = [d EXCEPT !.page = None] /\ d \in calls
      BY <2>1 DEF Leave
    <3> QED BY <3>1, RequestSet, SessionAssumption DEF Status, AllShaped, Shaped, CallFields
  <2>2. Done(b) => FALSE
    BY DEF Done
  <2> QED BY <1>5, <2>1, <2>2 DEF Take, Forget, Succeeds, Fails, Loaded, Saved
<1>6. ASSUME (\E s \in 1..MaxSids : Expire(s)) \/ LockoutEnds \/ CleanupExpired PROVE FALSE
  BY <1>6 DEF Expire, LockoutEnds, CleanupExpired, traffic
<1> QED BY <1>1, <1>2, <1>3, <1>4, <1>5, <1>6 DEF Next

\* A save sends what the user edited and nothing else, whatever saves, restarts
\* and reloads of this page or another came before ("Build diff: only changed
\* fields", useConfigForm.ts).
THEOREM SavesWhatWasEdited == ASSUME "eager" \notin Slips PROVE Spec => OnlyEditsAreSaved
<1>1. Init => EditInv
  <2> SUFFICES ASSUME Init PROVE EditInv
    OBVIOUS
  <2>1. AllShaped
    BY RequestSet DEF Init, Status, AllShaped
  <2> QED BY <2>1 DEF Init, EditInv, DialogTyped, Tracked
<1>2. EditInv /\ [Next]_vars => EditInv'
  BY EditStep
<1>3. EditInv /\ [Next]_vars =>
        [\A p \in Pages : \A c \in calls' \ calls :
           c.op = "patch" /\ c.page = p /\ c.st = "sent" => DOMAIN c.arg \subseteq edited[p]]_vars
  <2> SUFFICES ASSUME EditInv, Next, NEW p \in Pages, NEW c \in calls' \ calls,
                      c.op = "patch", c.page = p, c.st = "sent"
               PROVE  DOMAIN c.arg \subseteq edited[p]
    OBVIOUS
  <2>1. Save(p) /\ DOMAIN c.arg = Patch(p)
    BY PatchIsSaved DEF EditInv
  <2>2. Tracked(p)
    BY DEF EditInv
  <2> QED BY <2>1, <2>2 DEF Save, InSettings, Slip, Tracked
<1> QED BY <1>1, <1>2, <1>3, PTL DEF Spec, OnlyEditsAreSaved
=============================================================================
