------------------------- MODULE ServerDetailProofs -------------------------
(* Theorems about the page of a server and its tabs, Crons (C) and Processes *)
(* (P), for every number of servers, entries, pids, processes and requests.  *)
EXTENDS ServerDetail, TLAPS

----------------------------------------------------------------------------
(* The Processes tab: types                                                 *)

\* The table of processes of every server is a function from some pids.
ProcsTyped ==
  /\ DOMAIN procs = Servers
  /\ \A s \in Servers : /\ DOMAIN procs[s] \subseteq Pids
                        /\ \A p \in DOMAIN procs[s] : procs[s][p] \in P!Idents

Typed == P!TypeOK /\ ProcsTyped

LEMMA RunningTyped ==
    ASSUME ProcsTyped, NEW s \in Servers
    PROVE  P!Running(s) \subseteq P!Process
BY DEF ProcsTyped, P!Running, P!Process

LEMMA InitTyped == ASSUME P!ProcessesAssumption, P!Init PROVE Typed
<1>1. 1 \in P!Idents
  BY DEF P!ProcessesAssumption, P!Idents
<1>2. ProcsTyped
  BY <1>1 DEF P!Init, ProcsTyped
<1>3. \A s \in Servers : DOMAIN procs[s] \subseteq Pids /\ P!Running(s) \subseteq P!Process
  BY <1>2, RunningTyped DEF ProcsTyped
<1> QED BY <1>1, <1>2, <1>3 DEF P!Init, Typed, P!TypeOK

LEMMA FetchTyped ==
    ASSUME NEW others \in SUBSET P!Request, NEW s \in Servers, P!FetchWith(others, s)
    PROVE  procReqs' \subseteq P!Request /\ error' \in BOOLEAN
<1> DEFINE new == [op |-> "list", server |-> s, st |-> "sent", seen |-> {}]
<1>1. new \in P!Request
  BY DEF P!Request
<1> QED BY <1>1 DEF P!FetchWith

\* The answer to a request keeps what it was asked.
LEMMA BecomesTyped ==
    ASSUME Typed, NEW q \in procReqs, NEW st \in {"sent", "checked", "ok", "failed"},
           q.op = "kill" \/ st = "failed", P!Becomes(q, st)
    PROVE  procReqs' \subseteq P!Request
<1>1. q \in P!Request
  BY DEF Typed, P!TypeOK
<1>2. [q EXCEPT !.st = st] \in P!Request
  BY <1>1 DEF P!Request
<1> QED BY <1>2 DEF P!Becomes, Typed, P!TypeOK

LEMMA UserTyped == ASSUME Typed, P!Mount \/ P!Unmount \/ P!UserStep PROVE Typed'
<1>1. CASE P!Mount
  BY <1>1, FetchTyped DEF P!Mount, Typed, P!TypeOK, ProcsTyped, P!Running
<1>2. CASE P!Unmount
  <2>1. \A q \in P!Kills : [q EXCEPT !.mine = FALSE] \in P!Request
    BY DEF Typed, P!TypeOK, P!Kills, P!Request
  <2>2. procReqs' \subseteq P!Request /\ rows' = {} /\ error' = FALSE /\ killDialog' = P!NoProcess
    BY <1>2, <2>1 DEF P!Unmount
  <2>3. UNCHANGED <<shown, procs, started, hit, killed>>
    BY <1>2 DEF P!Unmount
  <2>4. (activeTab = "processes")' \in BOOLEAN
    OBVIOUS
  <2> QED BY <2>2, <2>3, <2>4 DEF Typed, P!TypeOK, ProcsTyped, P!Running
<1>3. CASE P!Refresh
  BY <1>3, FetchTyped DEF P!Refresh, Typed, P!TypeOK, ProcsTyped, P!Running
<1>4. CASE P!HandleKillClick
  BY <1>4 DEF P!HandleKillClick, Typed, P!TypeOK, ProcsTyped, P!Running, P!table
<1>5. CASE P!CloseDialog
  BY <1>5 DEF P!CloseDialog, Typed, P!TypeOK, ProcsTyped, P!Running, P!table
<1>6. CASE P!HandleKillConfirm
  <2> DEFINE new == [op |-> "kill", server |-> shown, target |-> killDialog,
                     mine |-> TRUE, st |-> "sent"]
  <2>1. new \in P!Request
    BY <1>6 DEF P!HandleKillConfirm, Typed, P!TypeOK, P!Request
  <2> QED BY <1>6, <2>1 DEF P!HandleKillConfirm, Typed, P!TypeOK, ProcsTyped, P!Running, P!table
<1> QED BY <1>1, <1>2, <1>3, <1>4, <1>5, <1>6 DEF P!UserStep

LEMMA NavigateTyped ==
    ASSUME Typed, NEW s \in Servers, P!Navigate(s) PROVE Typed'
BY FetchTyped DEF P!Navigate, Typed, P!TypeOK, ProcsTyped, P!Running

\* A process ends.
LEMMA WithoutTyped ==
    ASSUME ProcsTyped, NEW s \in Servers, NEW p,
           procs' = [procs EXCEPT ![s] = [k \in DOMAIN @ \ {p} |-> @[k]]]
    PROVE  ProcsTyped'
BY DEF ProcsTyped, P!Idents

LEMMA RequestTyped ==
    ASSUME Typed, NEW q \in procReqs,
           P!List(q) \/ P!Check(q) \/ P!Signal(q) \/ P!Listed(q) \/ P!Killed(q)
    PROVE  Typed'
<1>0. q \in P!Request /\ q.server \in Servers
  BY DEF Typed, P!TypeOK, P!Request
<1>1. CASE P!List(q)
  <2> DEFINE answer == [q EXCEPT !.st = "read", !.seen = P!Running(q.server)]
  <2>1. P!Running(q.server) \subseteq P!Process
    BY <1>0 DEF Typed, P!TypeOK
  <2>2. answer \in P!Request
    BY <1>0, <1>1, <2>1 DEF P!List, P!Request
  <2>3. procReqs' \subseteq P!Request
    BY <1>1, <2>2, BecomesTyped DEF P!List, Typed, P!TypeOK
  <2> QED BY <1>1, <2>3 DEF P!List, Typed, P!TypeOK, ProcsTyped, P!Running, P!table
<1>2. CASE P!Check(q)
  <2>1. procReqs' \subseteq P!Request
    BY <1>2, BecomesTyped DEF P!Check
  <2> QED BY <1>2, <2>1 DEF P!Check, Typed, P!TypeOK, ProcsTyped, P!Running, P!table
<1>3. CASE P!Signal(q)
  <2>1. procReqs' \subseteq P!Request
    BY <1>3, BecomesTyped DEF P!Signal
  <2>2. ProcsTyped'
    BY <1>0, <1>3, WithoutTyped DEF P!Signal, Typed, ProcsTyped
  <2>3. \A s \in Servers : DOMAIN procs'[s] \subseteq Pids /\ P!Running(s)' \subseteq P!Process
    BY <2>2 DEF ProcsTyped, P!Running, P!Process
  <2>4. hit' \subseteq P!Idents
    BY <1>0, <1>3 DEF P!Signal, Typed, P!TypeOK, ProcsTyped
  <2> QED BY <1>3, <2>1, <2>2, <2>3, <2>4 DEF P!Signal, Typed, P!TypeOK, P!table
<1>4. CASE P!Listed(q)
  <2>1. rows' \subseteq P!Process
    BY <1>0, <1>4 DEF P!Listed, Typed, P!TypeOK, P!Request
  <2> QED BY <1>4, <2>1 DEF P!Listed, Typed, P!TypeOK, ProcsTyped, P!Running
<1>5. CASE P!Killed(q)
  <2>1. procReqs' \subseteq P!Request /\ error' \in BOOLEAN
    BY <1>0, <1>5, FetchTyped DEF P!Killed, P!FetchAfter, Typed, P!TypeOK
  <2>2. q.target \in P!Process
    BY <1>0, <1>5 DEF P!Killed, P!Request
  <2>3. killed' \subseteq P!Idents
    BY <1>5, <2>2 DEF P!Killed, Typed, P!TypeOK, P!Process
  <2> QED BY <1>5, <2>1, <2>3 DEF P!Killed, Typed, P!TypeOK, ProcsTyped, P!Running, P!table
<1> QED BY <1>1, <1>2, <1>3, <1>4, <1>5

LEMMA SystemTyped == ASSUME P!ProcessesAssumption, Typed, P!SystemStep PROVE Typed'
<1>1. ProcsTyped' /\ started' \in P!Idents
  <2>1. ASSUME NEW s \in Servers, P!Exit(s) PROVE ProcsTyped' /\ started' \in P!Idents
    BY <2>1, WithoutTyped DEF P!Exit, Typed, P!TypeOK
  <2>2. ASSUME NEW s \in Servers, P!Start(s) PROVE ProcsTyped' /\ started' \in P!Idents
    <3>1. started' \in P!Idents
      BY <2>2 DEF P!Start, Typed, P!TypeOK, P!Idents, P!ProcessesAssumption
    <3> QED BY <2>2, <3>1 DEF P!Start, Typed, ProcsTyped, P!Idents
  <2> QED BY <2>1, <2>2 DEF P!SystemStep
<1>2. \A s \in Servers : DOMAIN procs'[s] \subseteq Pids /\ P!Running(s)' \subseteq P!Process
  BY <1>1 DEF ProcsTyped, P!Running, P!Process
<1> QED BY <1>1, <1>2 DEF P!SystemStep, P!Exit, P!Start, Typed, P!TypeOK, P!table

LEMMA TypedStep == ASSUME P!ProcessesAssumption, Typed, [P!Next]_P!vars PROVE Typed'
<1>1. CASE UNCHANGED P!vars
  BY <1>1 DEF P!vars, P!table, Typed, P!TypeOK, ProcsTyped, P!Running
<1> QED
  BY <1>1, UserTyped, NavigateTyped, RequestTyped, SystemTyped DEF P!Next, P!RequestStep

\* The state of the tab, its requests and the processes of every server keep
\* their types (ProcessState, KillDialogState).
THEOREM TypeCorrect == ASSUME P!ProcessesAssumption PROVE P!Spec => []P!TypeOK
<1>1. P!Init => Typed
  BY InitTyped
<1>2. Typed /\ [P!Next]_P!vars => Typed'
  BY TypedStep
<1>3. Typed => P!TypeOK
  BY DEF Typed
<1> QED BY <1>1, <1>2, <1>3, PTL DEF P!Spec

----------------------------------------------------------------------------
(* Protected processes                                                      *)

\* What the check of a kill found is still true: nothing runs under its pid,
\* or a process that may be signalled.
CheckedIsUnprotected ==
  \A q \in P!Kills :
    q.st = "checked" /\ q.target.pid \in DOMAIN procs[q.server]
      => procs[q.server][q.target.pid] \notin Protected

\* A fetch asks for no kill.
LEMMA FetchKills ==
    ASSUME NEW others, NEW s, P!FetchWith(others, s), NEW q \in procReqs', q.op = "kill"
    PROVE  q \in others
BY DEF P!FetchWith

LEMMA CheckedStep ==
    ASSUME Typed, Typed', CheckedIsUnprotected, [P!Next]_P!vars, "raced" \notin Slips
    PROVE  CheckedIsUnprotected'
<1>1. SUFFICES ASSUME NEW q \in procReqs', q.op = "kill", q.st = "checked",
                      q.target.pid \in DOMAIN procs'[q.server]
               PROVE  procs'[q.server][q.target.pid] \notin Protected
  BY DEF CheckedIsUnprotected, P!Kills
<1>2. q \in P!Request /\ q.server \in Servers
  BY DEF Typed, P!TypeOK, P!Request
\* It was checked before, or is checked now.
<1>3. CASE /\ q \in P!Kills
           /\ procs' = procs
  BY <1>1, <1>3 DEF CheckedIsUnprotected
<1>4. CASE /\ UNCHANGED procs
           /\ P!MaySignal(q.server, q.target.pid)
  BY <1>4 DEF P!MaySignal
<1>5. ASSUME \/ P!Mount \/ P!Unmount \/ P!UserStep \/ UNCHANGED P!vars
             \/ \E s \in Servers : P!Navigate(s)
      PROVE  procs' = procs /\ \E r \in P!Kills : /\ r.st = "checked"
                                                /\ r.server = q.server /\ r.target = q.target
  <2>1. procs' = procs
    BY <1>5 DEF P!Mount, P!Unmount, P!UserStep, P!Refresh, P!HandleKillClick, P!CloseDialog,
                P!HandleKillConfirm, P!Navigate, P!vars
  <2>2. ASSUME P!Unmount PROVE \E r \in P!Kills : /\ r.st = "checked"
                                              /\ r.server = q.server /\ r.target = q.target
    BY <1>1, <2>2 DEF P!Unmount, P!Kills, P!Request, Typed, P!TypeOK
  <2>3. CASE P!Mount \/ P!Refresh \/ \E s \in Servers : P!Navigate(s)
    <3>1. procReqs' = procReqs \/ \E s \in Servers : P!FetchWith(procReqs, s)
      BY <2>3 DEF P!Mount, P!Refresh, P!Navigate, Typed, P!TypeOK
    <3>2. ASSUME NEW s \in Servers, P!FetchWith(procReqs, s) PROVE q \in procReqs
      BY <1>1, <3>2, FetchKills
    <3> QED BY <1>1, <2>1, <3>1, <3>2 DEF P!Kills
  <2>4. CASE P!HandleKillClick \/ P!CloseDialog \/ P!HandleKillConfirm \/ UNCHANGED P!vars
    BY <1>1, <2>1, <2>4 DEF P!HandleKillClick, P!CloseDialog, P!HandleKillConfirm, P!vars, P!Kills
  <2> QED BY <1>1, <1>5, <2>1, <2>2, <2>3, <2>4 DEF P!UserStep, P!Kills
<1>6. ASSUME NEW r \in procReqs, P!List(r) \/ P!Listed(r) \/ P!Killed(r)
      PROVE  procs' = procs /\ q \in P!Kills
  <2>1. CASE P!List(r)
    <3> DEFINE answer == [r EXCEPT !.st = "read", !.seen = P!Running(r.server)]
    <3>1. r \in P!Request /\ r.op = "list"
      BY <2>1 DEF P!List, Typed, P!TypeOK
    <3>2. answer.op = "list"
      BY <3>1 DEF P!Request
    <3>3. [r EXCEPT !.st = "failed"].op = "list"
      BY <3>1 DEF P!Request
    <3>4. procs' = procs
      BY <2>1, Zenon DEF P!List
    <3>5. \/ procReqs' = (procReqs \ {r}) \cup {answer}
          \/ procReqs' = (procReqs \ {r}) \cup {[r EXCEPT !.st = "failed"]}
      BY <2>1, Zenon DEF P!List, P!Becomes
    <3> HIDE DEF answer
    <3> QED BY <1>1, <3>2, <3>3, <3>4, <3>5 DEF P!Kills
  <2>2. CASE P!Listed(r)
    BY <1>1, <2>2 DEF P!Listed, P!Kills
  <2>3. CASE P!Killed(r)
    <3>1. CASE procReqs' = procReqs \ {r}
      BY <1>1, <2>3, <3>1 DEF P!Killed, P!Kills
    <3>2. CASE P!FetchWith(procReqs \ {r}, r.server)
      <4>1. q \in procReqs \ {r}
        BY <1>1, <3>2, FetchKills
      <4> QED BY <1>1, <2>3, <4>1 DEF P!Killed, P!Kills
    <3> QED BY <2>3, <3>1, <3>2 DEF P!Killed, P!FetchAfter
  <2> QED BY <1>6, <2>1, <2>2, <2>3
<1>7. ASSUME NEW r \in procReqs, P!Check(r)
      PROVE  /\ procs' = procs
             /\ q \in P!Kills \/ P!MaySignal(q.server, q.target.pid)
  BY <1>1, <1>2, <1>7 DEF P!Check, P!Becomes, P!Kills, P!Request, Typed, P!TypeOK
<1>8. ASSUME NEW r \in procReqs, P!Signal(r)
      PROVE  procs'[q.server][q.target.pid] \notin Protected
  <2>1. q \in P!Kills
    BY <1>1, <1>8 DEF P!Signal, P!Becomes, P!Kills, P!Request, Typed, P!TypeOK
  <2>2. r.server \in Servers
    BY DEF Typed, P!TypeOK, P!Request
  <2>3. /\ q.target.pid \in DOMAIN procs[q.server]
        /\ procs'[q.server][q.target.pid] = procs[q.server][q.target.pid]
    BY <1>1, <1>2, <1>8, <2>2 DEF P!Signal, Typed, ProcsTyped
  <2> QED BY <1>1, <2>1, <2>3 DEF CheckedIsUnprotected
<1>9. ASSUME NEW s \in Servers, P!Exit(s)
      PROVE  procs'[q.server][q.target.pid] \notin Protected
  <2>1. q \in P!Kills
    BY <1>1, <1>9 DEF P!Exit, P!Kills
  <2>2. /\ q.target.pid \in DOMAIN procs[q.server]
        /\ procs'[q.server][q.target.pid] = procs[q.server][q.target.pid]
    BY <1>1, <1>2, <1>9 DEF P!Exit, Typed, ProcsTyped
  <2> QED BY <1>1, <2>1, <2>2 DEF CheckedIsUnprotected
<1>10. ASSUME NEW s \in Servers, P!Start(s)
       PROVE  procs'[q.server][q.target.pid] \notin Protected
  <2>1. q \in P!Kills
    BY <1>1, <1>10 DEF P!Start, P!Kills
  <2>2. /\ q.target.pid \in DOMAIN procs[q.server]
        /\ procs'[q.server][q.target.pid] = procs[q.server][q.target.pid]
    BY <1>1, <1>2, <1>10, <2>1 DEF P!Start, P!Slip, Typed, ProcsTyped
  <2> QED BY <1>1, <2>1, <2>2 DEF CheckedIsUnprotected
<1>11. ASSUME \/ P!Mount \/ P!Unmount \/ P!UserStep \/ UNCHANGED P!vars
              \/ \E s \in Servers : P!Navigate(s)
       PROVE  procs'[q.server][q.target.pid] \notin Protected
  BY <1>1, <1>5, <1>11 DEF CheckedIsUnprotected
<1>12. ASSUME NEW r \in procReqs, P!Check(r)
       PROVE  procs'[q.server][q.target.pid] \notin Protected
  BY <1>3, <1>4, <1>7, <1>12
<1>13. ASSUME NEW r \in procReqs, P!List(r) \/ P!Listed(r) \/ P!Killed(r)
       PROVE  procs'[q.server][q.target.pid] \notin Protected
  BY <1>3, <1>6, <1>13
<1> QED
  BY <1>8, <1>9, <1>10, <1>11, <1>12, <1>13 DEF P!Next, P!RequestStep, P!SystemStep

LEMMA NeverSignalledStep ==
    ASSUME Typed, CheckedIsUnprotected, P!ProtectedIsNeverSignalled, [P!Next]_P!vars
    PROVE  P!ProtectedIsNeverSignalled'
<1>1. ASSUME NEW q \in procReqs, P!Signal(q) PROVE P!ProtectedIsNeverSignalled'
  BY <1>1 DEF P!Signal, CheckedIsUnprotected, P!Kills, P!ProtectedIsNeverSignalled
<1>2. ASSUME UNCHANGED hit PROVE P!ProtectedIsNeverSignalled'
  BY <1>2 DEF P!ProtectedIsNeverSignalled
<1>3. (\E q \in procReqs : P!Signal(q)) \/ UNCHANGED hit
  BY DEF P!Next, P!Mount, P!Unmount, P!UserStep, P!Refresh, P!HandleKillClick, P!CloseDialog,
         P!HandleKillConfirm, P!Navigate, P!RequestStep, P!List, P!Check, P!Listed, P!Killed,
         P!SystemStep,
         P!Exit, P!Start, P!vars
<1> QED BY <1>1, <1>2, <1>3

\* Unless a pid is given to another process between the two commands of a kill,
\* no protected process is signalled, however stale the page and however many
\* kills are in flight (the check of Service.Kill).
THEOREM ProtectedAreSafe ==
  ASSUME P!ProcessesAssumption, "raced" \notin Slips
  PROVE  P!Spec => []P!ProtectedIsNeverSignalled
<1> DEFINE Inv == Typed /\ CheckedIsUnprotected /\ P!ProtectedIsNeverSignalled
<1>1. P!Init => Inv
  BY InitTyped DEF P!Init, CheckedIsUnprotected, P!ProtectedIsNeverSignalled, P!Kills
<1>2. Inv /\ [P!Next]_P!vars => Inv'
  BY TypedStep, CheckedStep, NeverSignalledStep
<1>3. Inv => P!ProtectedIsNeverSignalled
  OBVIOUS
<1> QED BY <1>1, <1>2, <1>3, PTL DEF P!Spec

----------------------------------------------------------------------------
(* Rows of killed processes                                                 *)

Alive(s) == {procs[s][p] : p \in DOMAIN procs[s]}

\* A process that was started and does not run elsewhere than on s.
Home(x, s) == x \in 1..started /\ \A t \in Servers \ {s} : x \notin Alive(t)

AliveHome == \A s \in Servers : \A x \in Alive(s) : Home(x, s)

KilledDead == \A x \in killed : x \in 1..started /\ \A s \in Servers : x \notin Alive(s)

\* What a request knows is of its server, and the page's are of the server it shows.
Sound(q) ==
  IF q.op = "list"
  THEN /\ activeTab = "processes" /\ q.server = shown
       /\ q.st = "read" => \A r \in q.seen : Home(r.id, q.server) /\ r.id \notin killed
  ELSE Home(q.target.id, q.server) /\ (q.mine => activeTab = "processes" /\ q.server = shown)

RowsInv ==
  /\ \A r \in rows : activeTab = "processes" /\ Home(r.id, shown)
  /\ killDialog # P!NoProcess => activeTab = "processes" /\ Home(killDialog.id, shown)
  /\ (\A q \in procReqs : q.op # "list") /\ ~error => \A r \in rows : r.id \notin killed

GoneInv == AliveHome /\ KilledDead /\ (\A q \in procReqs : Sound(q)) /\ RowsInv

\* Processes change on one server: some end, or a new one starts.
LEMMA WorldMoves ==
    ASSUME Typed, AliveHome, KilledDead, UNCHANGED killed, NEW s0 \in Servers,
           \A t \in Servers \ {s0} : Alive(t)' = Alive(t),
           \A x \in Alive(s0)' : x \in Alive(s0) \/ (x = started' /\ started' = started + 1),
           started' \in {started, started + 1}
    PROVE  AliveHome' /\ KilledDead' /\ \A x, s : Home(x, s) => Home(x, s)'
<1>1. started \in Nat
  BY DEF Typed, P!TypeOK, P!Idents
<1>2. \A x \in 1..started : x \in 1..started' /\ (started' = started + 1 => x # started')
  BY <1>1
<1>3. \A x, s : Home(x, s) => Home(x, s)'
  BY <1>2 DEF Home
<1>4. KilledDead'
  BY <1>2 DEF KilledDead
<1>5. ASSUME NEW s \in Servers, NEW x \in Alive(s)' PROVE Home(x, s)'
  <2>1. CASE x \in Alive(s)
    BY <1>3, <2>1 DEF AliveHome
  <2>2. CASE x \notin Alive(s)
    <3>1. s = s0 /\ x = started' /\ started' = started + 1
      BY <1>5, <2>2
    <3>2. x \in 1..started'
      BY <1>1, <3>1
    <3>3. \A t \in Servers \ {s} : x \notin Alive(t)
      BY <1>2, <3>1 DEF AliveHome, Home
    <3> QED BY <3>1, <3>2, <3>3 DEF Home
  <2> QED BY <2>1, <2>2
<1> QED BY <1>3, <1>4, <1>5 DEF AliveHome

LEMMA WorldStays ==
    ASSUME AliveHome, KilledDead, UNCHANGED <<procs, started>>
    PROVE  AliveHome' /\ (UNCHANGED killed => KilledDead') /\ \A x, s : Home(x, s) <=> Home(x, s)'
<1>1. \A s : Alive(s)' = Alive(s)
  BY DEF Alive
<1>2. \A x, s : Home(x, s) <=> Home(x, s)'
  BY <1>1 DEF Home
<1> QED BY <1>1, <1>2 DEF AliveHome, KilledDead

\* The page stays as it is, and so do the requests that do.
LEMMA SoundKept ==
    ASSUME \A x, s : Home(x, s) => Home(x, s)',
           UNCHANGED <<activeTab = "processes", shown, killed>>,
           NEW q, Sound(q)
    PROVE  Sound(q)'
BY DEF Sound

\* A kill goes on.
LEMMA KillGoes ==
    ASSUME Typed, GoneInv, \A x, s : Home(x, s) => Home(x, s)',
           UNCHANGED <<activeTab = "processes", shown, killed, rows, error, killDialog>>,
           NEW q \in procReqs, q.op = "kill", NEW st, P!Becomes(q, st)
    PROVE  (\A r \in procReqs' : Sound(r)') /\ RowsInv'
<1> DEFINE u == [q EXCEPT !.st = st]
<1>1. q \in P!Request
  BY DEF Typed, P!TypeOK
<1>2. u.op = "kill" /\ u.server = q.server /\ u.target = q.target /\ u.mine = q.mine
  BY <1>1 DEF P!Request
<1>3. procReqs' = (procReqs \ {q}) \cup {u}
  BY DEF P!Becomes
<1> HIDE DEF u
<1>4. Sound(u)'
  BY <1>2 DEF GoneInv, Sound
<1>5. \A r \in procReqs : Sound(r)'
  BY SoundKept DEF GoneInv
<1> QED BY <1>2, <1>3, <1>4, <1>5 DEF GoneInv, RowsInv

LEMMA UserGone ==
    ASSUME Typed, GoneInv, "overtaken" \notin Slips, "navigate" \notin Slips,
           P!Mount \/ P!Unmount \/ P!UserStep \/ \E s \in Servers : P!Navigate(s)
    PROVE  GoneInv'
<1>1. UNCHANGED <<procs, started, killed>>
  BY DEF P!Mount, P!Unmount, P!UserStep, P!Refresh, P!HandleKillClick, P!CloseDialog,
         P!HandleKillConfirm, P!Navigate
<1>2. AliveHome' /\ KilledDead' /\ \A x, s : Home(x, s) <=> Home(x, s)'
  BY <1>1, WorldStays DEF GoneInv
<1>3. CASE P!Mount
  <2>1. \A q \in procReqs : q.op # "list" /\ ~q.mine
    BY <1>3 DEF P!Mount, GoneInv, Sound
  <2>2. \A q \in procReqs' :
          q \in procReqs \/ q = [op |-> "list", server |-> shown, st |-> "sent", seen |-> {}]
    BY <1>3 DEF P!Mount, P!FetchWith
  <2>3. activeTab' = "processes" /\ shown' = shown /\ rows' = {} /\ killDialog' = P!NoProcess
    BY <1>3 DEF P!Mount
  <2>4. \A q \in procReqs' : Sound(q)'
    BY <1>2, <2>1, <2>2, <2>3 DEF GoneInv, Sound
  <2> QED BY <1>2, <2>3, <2>4 DEF GoneInv, RowsInv
<1>4. CASE P!Unmount
  <2>1. rows' = {} /\ killDialog' = P!NoProcess /\ shown' = shown
    BY <1>4 DEF P!Unmount
  <2>2. ASSUME NEW u \in procReqs' PROVE Sound(u)'
    <3>1. PICK q \in P!Kills : u = [q EXCEPT !.mine = FALSE]
      BY <1>4 DEF P!Unmount
    <3>2. q \in P!Request /\ q.op = "kill" /\ q \in procReqs
      BY DEF P!Kills, Typed, P!TypeOK
    <3>3. u.op = "kill" /\ u.server = q.server /\ u.target = q.target /\ ~u.mine
      BY <3>1, <3>2 DEF P!Request
    <3> QED BY <1>2, <3>2, <3>3 DEF GoneInv, Sound
  <2> QED BY <1>2, <2>1, <2>2 DEF GoneInv, RowsInv
<1>5. CASE P!Refresh
  <2>1. activeTab = "processes" /\ UNCHANGED <<activeTab = "processes", shown, rows, killDialog>>
    BY <1>5 DEF P!Refresh
  <2>2. PICK new : /\ new = [op |-> "list", server |-> shown, st |-> "sent", seen |-> {}]
                   /\ procReqs' = procReqs \cup {new}
    BY <1>5 DEF P!Refresh, P!FetchWith
  <2>3. Sound(new)' /\ new.op = "list" /\ new \in procReqs'
    BY <2>1, <2>2 DEF Sound
  <2>4. \A q \in procReqs : Sound(q)'
    BY <1>1, <1>2, <2>1, SoundKept DEF GoneInv
  <2> QED BY <1>2, <2>1, <2>2, <2>3, <2>4 DEF GoneInv, RowsInv
<1>6. CASE P!HandleKillClick \/ P!CloseDialog
  <2>1. /\ UNCHANGED <<activeTab = "processes", shown, rows, error, procReqs>>
        /\ killDialog' \in rows \/ killDialog' = P!NoProcess
    BY <1>6 DEF P!HandleKillClick, P!CloseDialog, P!table
  <2>2. \A q \in procReqs' : Sound(q)'
    BY <1>1, <1>2, <2>1, SoundKept DEF GoneInv
  <2> QED BY <1>1, <1>2, <2>1, <2>2 DEF GoneInv, RowsInv
<1>7. CASE P!HandleKillConfirm
  <2>1. PICK new : /\ new = [op |-> "kill", server |-> shown, target |-> killDialog,
                             mine |-> TRUE, st |-> "sent"]
                   /\ procReqs' = procReqs \cup {new}
    BY <1>7 DEF P!HandleKillConfirm
  <2>2. /\ killDialog # P!NoProcess
        /\ UNCHANGED <<activeTab = "processes", shown, rows, error, killDialog>>
    BY <1>7 DEF P!HandleKillConfirm, P!table
  <2>3. Sound(new)'
    BY <1>2, <2>1, <2>2 DEF Sound, GoneInv, RowsInv
  <2>4. \A q \in procReqs : Sound(q)'
    BY <1>1, <1>2, <2>2, SoundKept DEF GoneInv
  <2> QED BY <1>1, <1>2, <2>1, <2>2, <2>3, <2>4 DEF GoneInv, RowsInv
<1>8. ASSUME NEW s \in Servers, P!Navigate(s) PROVE GoneInv'
  <2>1. /\ activeTab # "processes"
        /\ UNCHANGED <<activeTab = "processes", rows, killDialog, procReqs, error>>
    BY <1>8 DEF P!Navigate, P!Slip
  <2>2. rows = {} /\ killDialog = P!NoProcess
    BY <2>1 DEF GoneInv, RowsInv
  <2>3. \A q \in procReqs' : Sound(q)'
    BY <1>2, <2>1 DEF GoneInv, Sound
  <2> QED BY <1>2, <2>1, <2>2, <2>3 DEF GoneInv, RowsInv
<1> QED BY <1>3, <1>4, <1>5, <1>6, <1>7, <1>8 DEF P!UserStep

LEMMA RequestGone ==
    ASSUME Typed, GoneInv, "overtaken" \notin Slips, NEW q \in procReqs,
           P!List(q) \/ P!Check(q) \/ P!Listed(q) \/ P!Killed(q)
    PROVE  GoneInv'
<1>0. q \in P!Request /\ q.server \in Servers /\ Sound(q)
  BY DEF Typed, P!TypeOK, P!Request, GoneInv
<1>1. UNCHANGED <<procs, started, shown, activeTab = "processes">>
  BY DEF P!List, P!Check, P!Listed, P!Killed
<1>2. AliveHome' /\ (UNCHANGED killed => KilledDead') /\ \A x, s : Home(x, s) <=> Home(x, s)'
  BY <1>1, WorldStays DEF GoneInv
<1>3. CASE P!List(q)
  <2>1. UNCHANGED <<rows, error, killDialog, killed>> /\ q.op = "list"
    BY <1>3 DEF P!List, P!table
  <2>2. PICK u : /\ procReqs' = (procReqs \ {q}) \cup {u}
                 /\ \/ u = [q EXCEPT !.st = "read", !.seen = P!Running(q.server)]
                    \/ u = [q EXCEPT !.st = "failed"]
    BY <1>3 DEF P!List, P!Becomes
  <2>3. /\ u.op = "list" /\ u.server = q.server
        /\ u.st = "read" => u.seen = P!Running(q.server)
    BY <1>0, <2>1, <2>2 DEF P!Request
  <2>4. \A r \in P!Running(q.server) : Home(r.id, q.server) /\ r.id \notin killed
    BY <1>0 DEF P!Running, GoneInv, AliveHome, KilledDead, Alive
  <2>5. Sound(u)'
    BY <1>0, <1>1, <1>2, <2>1, <2>3, <2>4 DEF Sound
  <2>6. \A r \in procReqs : Sound(r)'
    BY <1>1, <1>2, <2>1, SoundKept DEF GoneInv
  <2> QED BY <1>1, <1>2, <2>1, <2>2, <2>3, <2>5, <2>6 DEF GoneInv, RowsInv
<1>4. CASE P!Check(q)
  <2>1. UNCHANGED <<rows, error, killDialog, killed>> /\ q.op = "kill" /\ \E st : P!Becomes(q, st)
    BY <1>4 DEF P!Check, P!table
  <2> QED BY <1>1, <1>2, <2>1, KillGoes DEF GoneInv
<1>5. CASE P!Listed(q)
  <2>1. procReqs' = procReqs \ {q} /\ q.op = "list" /\ UNCHANGED <<killDialog, killed>>
    BY <1>5 DEF P!Listed
  <2>2. \A r \in procReqs' : Sound(r)'
    BY <1>1, <1>2, <2>1, SoundKept DEF GoneInv
  <2>3. \/ rows' = q.seen /\ q.st = "read"
        \/ rows' = rows /\ error'
    BY <1>5 DEF P!Listed
  <2> QED BY <1>0, <1>1, <1>2, <2>1, <2>2, <2>3 DEF GoneInv, RowsInv, Sound
<1>6. CASE P!Killed(q)
  <2>1. q.op = "kill" /\ rows' = rows
    BY <1>6 DEF P!Killed
  <2>2. CASE q.st = "ok" /\ q.mine
    <3>1. /\ killDialog' = P!NoProcess
          /\ killed' = killed \cup ({q.target.id} \ {r.id : r \in P!Running(q.server)})
          /\ \A r \in procReqs \ {q} : r.op # "list"
      BY <1>6, <2>2 DEF P!Killed, P!FetchAfter, P!FetchWith, P!Slip
    <3>2. PICK new : /\ new = [op |-> "list", server |-> q.server, st |-> "sent", seen |-> {}]
                     /\ procReqs' = (procReqs \ {q}) \cup {new}
      BY <1>6, <2>2 DEF P!Killed, P!FetchAfter, P!FetchWith
    <3>3. Sound(new)' /\ new.op = "list" /\ new \in procReqs'
      BY <1>0, <1>1, <2>1, <2>2, <3>2 DEF Sound
    <3>4. \A r \in procReqs \ {q} : Sound(r)'
      BY <1>1, <1>2, <3>1 DEF GoneInv, Sound
    <3>5. KilledDead'
      <4>1. Home(q.target.id, q.server)
        BY <1>0, <2>1 DEF Sound
      <4>2. q.target.id \in Alive(q.server) => q.target.id \in {r.id : r \in P!Running(q.server)}
        <5> SUFFICES ASSUME NEW p \in DOMAIN procs[q.server], q.target.id = procs[q.server][p]
                     PROVE  q.target.id \in {r.id : r \in P!Running(q.server)}
          BY DEF Alive
        <5>1. [pid |-> p, id |-> procs[q.server][p]] \in P!Running(q.server)
          BY DEF P!Running
        <5> QED BY <5>1
      <4>3. \A s : Alive(s)' = Alive(s)
        BY <1>1 DEF Alive
      <4> QED BY <1>1, <3>1, <4>1, <4>2, <4>3 DEF KilledDead, GoneInv, Home
    <3> QED BY <1>1, <1>2, <2>1, <3>1, <3>2, <3>3, <3>4, <3>5 DEF GoneInv, RowsInv
  <2>3. CASE ~(q.st = "ok" /\ q.mine)
    <3>1. procReqs' = procReqs \ {q} /\ UNCHANGED <<killDialog, killed, error>>
      BY <1>6, <2>3 DEF P!Killed
    <3>2. \A r \in procReqs' : Sound(r)'
      BY <1>1, <1>2, <3>1, SoundKept DEF GoneInv
    <3> QED BY <1>1, <1>2, <2>1, <3>1, <3>2 DEF GoneInv, RowsInv
  <2> QED BY <2>2, <2>3
<1> QED BY <1>3, <1>4, <1>5, <1>6

\* Signals, exits and starts.
LEMMA WorldGone ==
    ASSUME Typed, GoneInv, (\E q \in procReqs : P!Signal(q)) \/ P!SystemStep
    PROVE  GoneInv'
<1>0. UNCHANGED <<shown, activeTab = "processes", rows, error, killDialog, killed>>
  BY DEF P!Signal, P!SystemStep, P!Exit, P!Start, P!table
<1>1. ASSUME NEW s \in Servers, NEW p,
             procs' = [procs EXCEPT ![s] = [k \in DOMAIN @ \ {p} |-> @[k]]], started' = started
      PROVE  AliveHome' /\ KilledDead' /\ \A x, t : Home(x, t) => Home(x, t)'
  <2>1. \A t \in Servers \ {s} : Alive(t)' = Alive(t)
    BY <1>1 DEF Alive, Typed, ProcsTyped
  <2>2. \A x \in Alive(s)' : x \in Alive(s)
    BY <1>1 DEF Alive, Typed, ProcsTyped
  <2> QED BY <1>0, <1>1, <2>1, <2>2, WorldMoves DEF GoneInv
<1>2. CASE \E q \in procReqs : P!Signal(q)
  <2>1. PICK q \in procReqs : P!Signal(q)
    BY <1>2
  <2>2. q.server \in Servers /\ q.op = "kill" /\ started' = started /\ \E st : P!Becomes(q, st)
    BY <2>1 DEF P!Signal, Typed, P!TypeOK, P!Request
  <2>3. \/ procs' = procs
        \/ procs' = [procs EXCEPT ![q.server] = [k \in DOMAIN @ \ {q.target.pid} |-> @[k]]]
    BY <2>1 DEF P!Signal
  <2>4. AliveHome' /\ KilledDead' /\ \A x, t : Home(x, t) => Home(x, t)'
    BY <1>0, <1>1, <2>2, <2>3, WorldStays DEF GoneInv
  <2> QED BY <1>0, <2>2, <2>4, KillGoes DEF GoneInv
<1>3. CASE P!SystemStep
  <2>1. UNCHANGED procReqs
    BY <1>3 DEF P!SystemStep, P!Exit, P!Start
  <2>2. AliveHome' /\ KilledDead' /\ \A x, t : Home(x, t) => Home(x, t)'
    <3>1. ASSUME NEW s \in Servers, P!Exit(s)
          PROVE  AliveHome' /\ KilledDead' /\ \A x, t : Home(x, t) => Home(x, t)'
      BY <1>1, <3>1 DEF P!Exit
    <3>2. ASSUME NEW s \in Servers, P!Start(s)
          PROVE  AliveHome' /\ KilledDead' /\ \A x, t : Home(x, t) => Home(x, t)'
      <4>1. PICK p \in Pids \ DOMAIN procs[s] :
              procs' = [procs EXCEPT ![s] = [k \in DOMAIN @ \cup {p} |->
                                              IF k = p THEN started' ELSE @[k]]]
        BY <3>2 DEF P!Start
      <4>2. started' = started + 1
        BY <3>2 DEF P!Start
      <4>3. \A t \in Servers \ {s} : Alive(t)' = Alive(t)
        BY <4>1 DEF Alive, Typed, ProcsTyped
      <4>4. \A x \in Alive(s)' : x \in Alive(s) \/ x = started'
        BY <4>1 DEF Alive, Typed, ProcsTyped
      <4> QED BY <1>0, <4>2, <4>3, <4>4, WorldMoves DEF GoneInv
    <3> QED BY <1>3, <3>1, <3>2 DEF P!SystemStep
  <2>3. \A q \in procReqs' : Sound(q)'
    BY <1>0, <2>1, <2>2, SoundKept DEF GoneInv
  <2> QED BY <1>0, <2>1, <2>2, <2>3 DEF GoneInv, RowsInv
<1> QED BY <1>2, <1>3

\* While listings are asked for one after another and the page stays on its
\* server, the row of a process that was killed and is gone does not come back
\* (the fetch after a kill in ProcessesTab.tsx), pids reused or not.
THEOREM KilledRowsAreGone ==
  ASSUME P!ProcessesAssumption, "overtaken" \notin Slips, "navigate" \notin Slips
  PROVE  P!Spec => []P!KilledRowsGo
<1>1. P!Init => Typed
  BY InitTyped
<1>2. P!Init => GoneInv
  BY DEF P!Init, GoneInv, AliveHome, KilledDead, RowsInv, Alive, Home
<1>3. Typed /\ [P!Next]_P!vars => Typed'
  BY TypedStep
<1>4. Typed /\ GoneInv /\ [P!Next]_P!vars => GoneInv'
  <2>1. UNCHANGED P!vars /\ GoneInv => GoneInv'
    BY DEF GoneInv, AliveHome, KilledDead, RowsInv, Sound, Alive, Home, P!vars, P!table
  <2> QED BY <2>1, UserGone, RequestGone, WorldGone DEF P!Next, P!RequestStep
<1>5. GoneInv => P!KilledRowsGo
  BY DEF GoneInv, RowsInv, P!KilledRowsGo
<1> QED BY <1>1, <1>2, <1>3, <1>4, <1>5, PTL DEF P!Spec

----------------------------------------------------------------------------
(* The Processes tab on the page                                            *)

\* What the page does is a step of the Processes tab or none of its business.
LEMMA TabStep == [Next]_vars => [P!Next]_P!vars
<1> SUFFICES ASSUME [Next]_vars PROVE [P!Next]_P!vars
  OBVIOUS
<1>1. ASSUME NEW t \in {"overview", "crons", "processes"}, SetActiveTab(t)
      PROVE  [P!Next]_P!vars
  <2>1. CASE activeTab = "processes"
    BY <1>1, <2>1 DEF SetActiveTab, P!Next
  <2>2. CASE t = "processes"
    BY <1>1, <2>2 DEF SetActiveTab, P!Next
  <2>3. CASE activeTab # "processes" /\ t # "processes"
    BY <1>1, <2>3 DEF SetActiveTab, procVars, P!vars, P!table
  <2> QED BY <2>1, <2>2, <2>3
<1>2. ASSUME NEW s \in Servers, Navigate(s) PROVE [P!Next]_P!vars
  BY <1>2 DEF Navigate, P!Next
<1>3. CASE CronStep
  <2>1. UNCHANGED shown
    <3>1. ASSUME C!UserStep PROVE UNCHANGED shown
      BY <3>1 DEF C!UserStep, C!AnswerDelete, C!OpenAdd, C!CloseDialog, C!SetField, C!HandleSave,
                  C!HandleToggle, C!HandleRun, C!OpenDelete, C!OpenEdit
    <3>2. ASSUME NEW q \in cronReqs, C!Handled(q) \/ C!Answered(q) PROVE UNCHANGED shown
      BY <3>2 DEF C!Handled, C!Answered, C!Read, C!Write, C!ListDone, C!ToggleDone, C!DeleteDone,
                  C!RunDone, C!SaveDone
    <3>3. ASSUME C!OtherWrites PROVE UNCHANGED shown
      BY <3>3 DEF C!OtherWrites
    <3> QED BY <1>3, <3>1, <3>2, <3>3 DEF CronStep, C!RequestStep
  <2> QED BY <1>3, <2>1 DEF CronStep, procVars, P!vars, P!table
<1>4. CASE ProcessStep
  BY <1>4 DEF ProcessStep, P!Next
<1>5. CASE UNCHANGED vars
  BY <1>5 DEF vars, procVars, P!vars, P!table
<1> QED BY <1>1, <1>2, <1>3, <1>4, <1>5 DEF Next

\* ServerDetail.tsx implements the Processes tab: to the tab, the rest of the
\* page is when it is mounted and for which server.
THEOREM PageImplementsProcesses == Spec => P!Spec
<1>1. Init => P!Init
  BY DEF Init
<1> QED BY <1>1, TabStep, PTL DEF Spec, P!Spec

\* However tabs and servers are switched, no protected process is signalled
\* (Service.Kill), unless a pid changes hands within a kill.
THEOREM PageSignalsNoProtected ==
  ASSUME P!ProcessesAssumption, "raced" \notin Slips
  PROVE  Spec => []ProtectedIsNeverSignalled
<1>1. P!Spec => []P!ProtectedIsNeverSignalled
  BY ProtectedAreSafe
<1>2. P!ProtectedIsNeverSignalled => ProtectedIsNeverSignalled
  BY DEF ProtectedIsNeverSignalled
<1> QED BY <1>1, <1>2, PageImplementsProcesses, PTL

\* However tabs are switched, the row of a process that was killed and is gone
\* does not come back (ProcessesTab.tsx), while listings are asked for one after
\* another.
THEOREM PageForgetsKilled ==
  ASSUME P!ProcessesAssumption, "overtaken" \notin Slips, "navigate" \notin Slips
  PROVE  Spec => []KilledRowsGo
<1>1. P!Spec => []P!KilledRowsGo
  BY KilledRowsAreGone
<1>2. P!KilledRowsGo => KilledRowsGo
  BY DEF KilledRowsGo
<1> QED BY <1>1, <1>2, PageImplementsProcesses, PTL

----------------------------------------------------------------------------
(* The Cron Jobs tab: types                                                 *)

\* A sequence without its i-th element.
LEMMA Removed ==
    ASSUME NEW S, NEW f \in Seq(S), NEW i \in DOMAIN f
    PROVE  /\ C!RemoveAt(f, i) \in Seq(S)
           /\ DOMAIN C!RemoveAt(f, i) = 1..(Len(f) - 1)
           /\ \A k \in 1..(Len(f) - 1) :
                C!RemoveAt(f, i)[k] = IF k < i THEN f[k] ELSE f[k + 1]
<1> DEFINE a == SubSeq(f, 1, i - 1)
           b == SubSeq(f, i + 1, Len(f))
<1>0. i \in 1..Len(f) /\ Len(f) \in Nat
  OBVIOUS
<1>1. a \in Seq(S) /\ Len(a) = i - 1 /\ \A k \in 1..(i - 1) : a[k] = f[k]
  BY <1>0
<1>2. b \in Seq(S) /\ Len(b) = Len(f) - i /\ \A k \in 1..(Len(f) - i) : b[k] = f[i + k]
  BY <1>0
<1>3. C!RemoveAt(f, i) = a \o b
  BY DEF C!RemoveAt
<1> HIDE DEF a, b
<1>4. a \o b \in Seq(S) /\ Len(a \o b) = Len(f) - 1
  BY <1>0, <1>1, <1>2
<1>5. DOMAIN (a \o b) = 1..(Len(f) - 1)
  BY <1>4
<1>6. \A k \in 1..(Len(f) - 1) : (a \o b)[k] = IF k < i THEN f[k] ELSE f[k + 1]
  <2> TAKE k \in 1..(Len(f) - 1)
  <2>1. (a \o b)[k] = IF k <= Len(a) THEN a[k] ELSE b[k - Len(a)]
    BY <1>0, <1>1, <1>2
  <2>2. CASE k < i
    BY <1>0, <1>1, <2>1, <2>2
  <2>3. CASE k >= i
    <3>1. k - Len(a) \in 1..(Len(f) - i) /\ i + (k - Len(a)) = k + 1
      BY <1>0, <1>1, <2>3
    <3>2. ~(k <= Len(a)) /\ ~(k < i)
      BY <1>0, <1>1, <2>3
    <3>3. b[k - Len(a)] = f[i + (k - Len(a))]
      BY <1>2, <3>1
    <3> QED BY <2>1, <3>1, <3>2, <3>3
  <2>4. k < i \/ k >= i
    BY <1>0
  <2> QED BY <2>2, <2>3, <2>4, Zenon
<1>7. Len(a \o b) = Len(f) - 1
  BY <1>4
<1> QED BY <1>3, <1>4, <1>5, <1>6, Zenon

\* A sequence with another i-th element.
LEMMA Replaced ==
    ASSUME NEW S, NEW f \in Seq(S), NEW i \in DOMAIN f, NEW e \in S
    PROVE  /\ [f EXCEPT ![i] = e] \in Seq(S)
           /\ DOMAIN [f EXCEPT ![i] = e] = DOMAIN f
OBVIOUS

\* A sequence with one element more.
LEMMA Appended ==
    ASSUME NEW S, NEW f \in Seq(S), NEW e \in S
    PROVE  /\ Append(f, e) \in Seq(S)
           /\ DOMAIN Append(f, e) = DOMAIN f \cup {Len(f) + 1}
           /\ Len(f) + 1 \notin DOMAIN f
           /\ \A k \in DOMAIN f : Append(f, e)[k] = f[k]
           /\ Append(f, e)[Len(f) + 1] = e
OBVIOUS

\* Entries name jobs.
LEMMA EntryTyped == C!NoEntry \in C!Entry /\ \A e \in C!Entry : e.job \in C!Jobs
BY TabsAssumption DEF C!NoEntry, C!Entry, C!Jobs, C!CronAssumption

\* An entry with other contents.
LEMMA EntryPut ==
    ASSUME NEW e \in C!Entry
    PROVE  /\ \A b \in BOOLEAN : [e EXCEPT !.on = b] \in C!Entry
           /\ \A t \in Texts \cup {Blank} : [e EXCEPT !.text = t] \in C!Entry
           /\ \A t \in Texts \cup {Blank}, b \in BOOLEAN :
                [e EXCEPT !.text = t, !.on = b] \in C!Entry
BY DEF C!Entry

\* The same in a sequence.
LEMMA EntriesPut ==
    ASSUME NEW f \in Seq(C!Entry), NEW i \in DOMAIN f, NEW t, NEW b
    PROVE  [f EXCEPT ![i].text = t, ![i].on = b] =
             [f EXCEPT ![i] = [@ EXCEPT !.text = t, !.on = b]]
<1>1. f[i] \in C!Entry
  OBVIOUS
<1> QED BY <1>1 DEF C!Entry

\* A request made, and one answered, has the type of requests.
LEMMA SendTyped ==
    ASSUME C!TypeOK, NEW op \in C!Ops, NEW i \in Nat, NEW was \in C!Entry, NEW new \in C!Entry,
           C!Send(op, i, was, new)
    PROVE  cronReqs' \subseteq C!Request
<1> DEFINE q == [op |-> op, server |-> shown, i |-> i, was |-> was, new |-> new,
                 st |-> "sent", seen |-> <<>>, mine |-> TRUE]
<1>1. <<>> \in Seq(C!Entry)
  OBVIOUS
<1>2. q \in C!Request
  BY <1>1 DEF C!Request, C!TypeOK
<1> QED BY <1>2 DEF C!Send, C!TypeOK

LEMMA AnswerTyped ==
    ASSUME C!TypeOK, NEW q \in cronReqs, NEW st \in {"sent", "read", "ok", "failed"},
           NEW content \in Seq(C!Entry), C!Answer(q, st, content)
    PROVE  cronReqs' \subseteq C!Request
<1>1. q \in C!Request
  BY DEF C!TypeOK
<1>2. [q EXCEPT !.st = st, !.seen = content] \in C!Request
  BY <1>1 DEF C!Request
<1> QED BY <1>2 DEF C!Answer, C!TypeOK

\* Initially everything has its type.
LEMMA CronInitTyped == ASSUME C!Init PROVE C!TypeOK
<1>1. \A s \in Servers : <<>> \in Seq(C!Entry)
  OBVIOUS
<1>2. jobs \in C!Jobs
  BY TabsAssumption DEF C!Init, C!CronAssumption, C!Jobs
<1>3. ASSUME NEW s \in Servers PROVE crontab[s] \in Seq(C!Entry)
  <2>1. PICK t \in Texts : crontab = [r \in Servers |-> IF r # shown THEN <<>>
           ELSE [k \in 1..jobs |-> [home |-> r, job |-> k, text |-> t, on |-> TRUE]]]
    BY DEF C!Init
  <2>2. jobs \in Nat /\ \A k \in 1..jobs : k \in C!Jobs
    BY <1>2, TabsAssumption DEF C!Jobs, C!CronAssumption
  <2>3. \A k \in 1..jobs : [home |-> s, job |-> k, text |-> t, on |-> TRUE] \in C!Entry
    BY <2>2 DEF C!Entry
  <2>4. [k \in 1..jobs |-> [home |-> s, job |-> k, text |-> t, on |-> TRUE]] \in Seq(C!Entry)
    BY <2>2, <2>3
  <2>5. CASE s # shown
    BY <1>1, <2>1, <2>5
  <2>6. CASE s = shown
    BY <2>1, <2>4, <2>6
  <2> QED BY <2>5, <2>6
<1>4. crontab = [s \in Servers |-> crontab[s]]
  <2>1. PICK t \in Texts : crontab = [r \in Servers |-> IF r # shown THEN <<>>
           ELSE [k \in 1..jobs |-> [home |-> r, job |-> k, text |-> t, on |-> TRUE]]]
    BY DEF C!Init
  <2> QED BY <2>1
<1>5. crontab \in [Servers -> Seq(C!Entry)]
  BY <1>3, <1>4
<1>6. /\ shown \in Servers /\ activeTab # "crons" /\ loaded = FALSE /\ entries = <<>>
      /\ rowErrors = <<>> /\ dialog = FALSE /\ editIndex = 0 /\ editEntry = C!NoEntry
      /\ text = Blank /\ deleteIndex = 0 /\ runningIndex = 0 /\ cronReqs = {}
  BY DEF C!Init
<1>7. entries \in Seq(C!Entry) /\ DOMAIN rowErrors = {}
  BY <1>6
<1>8. (activeTab = "crons") \in BOOLEAN
  OBVIOUS
<1> QED BY <1>2, <1>5, <1>6, <1>7, <1>8, EntryTyped DEF C!TypeOK

\* What the user does keeps the types.
LEMMA CronUserTyped == ASSUME C!TypeOK, C!UserStep PROVE C!TypeOK'
<1>0. (activeTab = "crons")' \in BOOLEAN
  OBVIOUS
<1>1. UNCHANGED <<shown, crontab>>
  BY DEF C!UserStep, C!AnswerDelete, C!OpenAdd, C!CloseDialog, C!SetField, C!HandleSave,
         C!HandleToggle, C!HandleRun, C!OpenDelete, C!OpenEdit
<1>2. \A i \in DOMAIN entries : i \in Nat /\ entries[i] \in C!Entry
  BY DEF C!TypeOK
<1>3. ASSUME NEW i \in Nat, C!ClearRowError(i)
      PROVE  \A k \in DOMAIN rowErrors' : k \in Nat /\ rowErrors'[k] \in C!Jobs
  BY <1>3 DEF C!ClearRowError, C!TypeOK
<1>4. ASSUME NEW i \in DOMAIN entries, C!HandleToggle(i) PROVE C!TypeOK'
  <2>1. [entries[i] EXCEPT !.on = ~@] \in C!Entry
    BY <1>2, EntryPut DEF C!Entry
  <2>2. entries' \in Seq(C!Entry)
    BY <1>2, <1>4, <2>1, Replaced DEF C!HandleToggle, C!TypeOK
  <2>3. cronReqs' \subseteq C!Request
    BY <1>2, <1>4, <2>1, SendTyped DEF C!HandleToggle, C!Ops, C!Writers
  <2> QED BY <1>0, <1>1, <1>2, <1>3, <1>4, <2>2, <2>3 DEF C!HandleToggle, C!TypeOK, C!form
<1>5. ASSUME NEW i \in DOMAIN entries, C!HandleRun(i) PROVE C!TypeOK'
  <2>1. cronReqs' \subseteq C!Request
    BY <1>2, <1>5, SendTyped, EntryTyped DEF C!HandleRun, C!Ops, C!Writers
  <2> QED BY <1>0, <1>1, <1>2, <1>3, <1>5, <2>1 DEF C!HandleRun, C!TypeOK, C!form
<1>6. ASSUME NEW i \in DOMAIN entries, C!OpenDelete(i) \/ C!OpenEdit(i) PROVE C!TypeOK'
  <2>1. entries[i].text \in Texts \cup {Blank}
    BY <1>2 DEF C!Entry
  <2> QED BY <1>0, <1>1, <1>2, <1>6, <2>1 DEF C!OpenDelete, C!OpenEdit, C!TypeOK, C!form, C!page
<1>7. CASE C!AnswerDelete
  <2>1. CASE UNCHANGED <<rowErrors, cronReqs>>
    BY <1>0, <1>1, <1>7, <2>1 DEF C!AnswerDelete, C!TypeOK, C!form
  <2>2. CASE ~UNCHANGED <<rowErrors, cronReqs>>
    <3>1. deleteIndex \in DOMAIN entries /\ deleteIndex \in Nat
      BY <1>2, <1>7, <2>2 DEF C!AnswerDelete
    <3>2. cronReqs' \subseteq C!Request
      BY <1>2, <1>7, <2>2, <3>1, SendTyped, EntryTyped DEF C!AnswerDelete, C!Ops, C!Writers
    <3> QED BY <1>0, <1>1, <1>3, <1>7, <2>2, <3>1, <3>2 DEF C!AnswerDelete, C!TypeOK, C!form
  <2> QED BY <2>1, <2>2
<1>8. CASE C!OpenAdd \/ C!CloseDialog \/ C!SetField
  <2>1. /\ dialog' \in BOOLEAN /\ editIndex' \in Nat /\ editEntry' \in C!Entry
        /\ text' \in Texts \cup {Blank}
    <3>1. CASE C!OpenAdd
      BY <3>1, EntryTyped DEF C!OpenAdd
    <3>2. CASE C!CloseDialog
      BY <3>2, EntryTyped DEF C!CloseDialog, C!CloseForm
    <3>3. CASE C!SetField
      BY <3>3 DEF C!SetField, C!TypeOK
    <3> QED BY <1>8, <3>1, <3>2, <3>3
  <2>2. UNCHANGED <<jobs, loaded, entries, rowErrors, deleteIndex, runningIndex, cronReqs>>
    BY <1>8 DEF C!OpenAdd, C!CloseDialog, C!SetField, C!page
  <2> QED BY <1>0, <1>1, <2>1, <2>2 DEF C!TypeOK
<1>9. CASE C!HandleSave
  <2>1. jobs' \in C!Jobs /\ (jobs < MaxJobs => jobs + 1 \in C!Jobs)
    BY <1>9, TabsAssumption DEF C!HandleSave, C!TypeOK, C!Jobs, C!CronAssumption
  <2>2. cronReqs' \subseteq C!Request
    <3>1. CASE C!Send("edit", editIndex, editEntry, [editEntry EXCEPT !.text = text])
      BY <3>1, SendTyped, EntryPut DEF C!TypeOK, C!Ops, C!Writers
    <3>2. CASE /\ jobs < MaxJobs /\ jobs' = jobs + 1
               /\ C!Send("create", 0, C!NoEntry,
                         [home |-> shown, job |-> jobs', text |-> text, on |-> TRUE])
      <4>1. [home |-> shown, job |-> jobs', text |-> text, on |-> TRUE] \in C!Entry
        BY <2>1 DEF C!TypeOK, C!Entry
      <4> QED BY <3>2, <4>1, SendTyped, EntryTyped DEF C!Ops, C!Writers
    <3> QED BY <1>9, <3>1, <3>2 DEF C!HandleSave
  <2> QED BY <1>0, <1>1, <1>9, <2>1, <2>2 DEF C!HandleSave, C!TypeOK, C!form, C!page
<1> QED BY <1>4, <1>5, <1>6, <1>7, <1>8, <1>9 DEF C!UserStep

\* What the requests of the tab keep of its types.
LEMMA CronHandledTyped ==
    ASSUME C!TypeOK, NEW q \in cronReqs, C!Handled(q) PROVE C!TypeOK'
<1>0. (activeTab = "crons")' \in BOOLEAN
  OBVIOUS
<1>1. /\ q \in C!Request /\ q.server \in Servers /\ q.i \in Nat /\ q.seen \in Seq(C!Entry)
      /\ q.was \in C!Entry /\ q.new \in C!Entry /\ crontab[q.server] \in Seq(C!Entry)
  BY DEF C!TypeOK, C!Request
<1>2. <<>> \in Seq(C!Entry)
  OBVIOUS
<1>3. CASE C!Read(q)
  <2>1. cronReqs' \subseteq C!Request
    BY <1>1, <1>2, <1>3, AnswerTyped DEF C!Read
  <2> QED BY <1>0, <1>3, <2>1 DEF C!Read, C!TypeOK, C!page, C!form
<1>4. CASE C!Write(q)
  <2>1. cronReqs' \subseteq C!Request
    BY <1>2, <1>4, AnswerTyped DEF C!Write
  <2>2. ASSUME q.op = "create" \/ q.i \in DOMAIN q.seen, q.op \in C!Writers
        PROVE  C!Changed(q) \in Seq(C!Entry)
    <3>1. CASE q.op = "create"
      BY <1>1, <3>1 DEF C!Changed
    <3>2. CASE q.op = "delete"
      BY <1>1, <2>2, <3>2, Removed DEF C!Changed
    <3>3. CASE q.op \in {"toggle", "edit"}
      <4>0. q.i \in DOMAIN q.seen
        BY <2>2, <3>3
      <4>1. /\ q.seen[q.i] \in C!Entry /\ q.new.text \in Texts \cup {Blank}
            /\ q.new.on \in BOOLEAN
        <5>1. q.seen[q.i] \in C!Entry
          BY <1>1, <4>0
        <5> QED BY <1>1, <5>1 DEF C!Entry
      <4>2. [q.seen[q.i] EXCEPT !.text = q.new.text, !.on = q.new.on] \in C!Entry
        BY <4>1, EntryPut
      <4>3. C!Changed(q) =
              [q.seen EXCEPT ![q.i] = [@ EXCEPT !.text = q.new.text, !.on = q.new.on]]
        BY <1>1, <2>2, <3>3, EntriesPut DEF C!Changed
      <4> QED BY <1>1, <2>2, <3>3, <4>2, <4>3, Replaced
    <3> QED BY <2>2, <3>1, <3>2, <3>3 DEF C!Writers
  <2>3. crontab' \in [Servers -> Seq(C!Entry)]
    <3>1. CASE q.op # "create" /\ q.i \notin DOMAIN q.seen
      BY <1>4, <3>1 DEF C!Write, C!TypeOK
    <3>2. CASE q.op = "create" \/ q.i \in DOMAIN q.seen
      <4>1. C!Changed(q) \in Seq(C!Entry)
        BY <1>4, <2>2, <3>2 DEF C!Write
      <4>2. crontab' \in {crontab, [crontab EXCEPT ![q.server] = C!Changed(q)]}
        BY <1>4, <3>2 DEF C!Write
      <4> QED BY <1>1, <4>1, <4>2 DEF C!TypeOK
    <3> QED BY <3>1, <3>2
  <2> QED BY <1>0, <1>4, <2>1, <2>3 DEF C!Write, C!TypeOK, C!page, C!form
<1> QED BY <1>3, <1>4 DEF C!Handled

\* The errors of rows have their type after a failure.
LEMMA FailedTyped ==
    ASSUME C!TypeOK, NEW q \in C!Request, C!Failed(q)
    PROVE  \A i \in DOMAIN rowErrors' : i \in Nat /\ rowErrors'[i] \in C!Jobs
<1>1. q.i \in Nat /\ q.was.job \in C!Jobs
  BY EntryTyped DEF C!Request
<1> QED BY <1>1 DEF C!Failed, C!TypeOK

\* The table has its type after an entry was replaced.
LEMMA PutTyped ==
    ASSUME C!TypeOK, NEW i \in Nat, NEW e \in C!Entry, C!Put(i, e)
    PROVE  entries' \in Seq(C!Entry)
BY Replaced DEF C!Put, C!TypeOK

\* What an answer makes of the tab keeps the types.
LEMMA CronAnsweredTyped ==
    ASSUME C!TypeOK, NEW q \in cronReqs, C!Answered(q) PROVE C!TypeOK'
<1>0. (activeTab = "crons")' \in BOOLEAN
  OBVIOUS
<1>1. /\ q \in C!Request /\ q.server \in Servers /\ q.i \in Nat /\ q.seen \in Seq(C!Entry)
      /\ q.was \in C!Entry /\ q.new \in C!Entry
  BY DEF C!TypeOK, C!Request
<1>2. cronReqs' \subseteq C!Request
  BY DEF C!TypeOK, C!Answered, C!ListDone, C!ToggleDone, C!DeleteDone, C!RunDone, C!SaveDone
<1>3. UNCHANGED <<shown, crontab, jobs>>
  BY DEF C!Answered, C!ListDone, C!ToggleDone, C!DeleteDone, C!RunDone, C!SaveDone
<1>4. CASE C!ListDone(q)
  BY <1>0, <1>1, <1>2, <1>3, <1>4 DEF C!ListDone, C!TypeOK, C!form
<1>5. CASE C!ToggleDone(q)
  <2>1. entries' \in Seq(C!Entry)
    BY <1>1, <1>5, PutTyped DEF C!ToggleDone, C!TypeOK
  <2>2. \A i \in DOMAIN rowErrors' : i \in Nat /\ rowErrors'[i] \in C!Jobs
    BY <1>1, <1>5, FailedTyped DEF C!ToggleDone, C!TypeOK
  <2> QED BY <1>0, <1>2, <1>3, <1>5, <2>1, <2>2 DEF C!ToggleDone, C!TypeOK, C!form
<1>6. CASE C!DeleteDone(q)
  <2>1. entries' \in Seq(C!Entry)
    BY <1>1, <1>6, Removed DEF C!DeleteDone, C!DeleteCron, C!TypeOK
  <2>2. \A i \in DOMAIN rowErrors' : i \in Nat /\ rowErrors'[i] \in C!Jobs
    <3>1. CASE UNCHANGED rowErrors \/ C!Failed(q)
      BY <1>1, <3>1, FailedTyped DEF C!TypeOK
    <3>2. CASE C!DeleteCron(q.i)
      <4>1. \A j \in DOMAIN rowErrors : j \in Nat /\ (j > q.i => j - 1 \in Nat)
        BY <1>1 DEF C!TypeOK
      <4> QED BY <1>1, <3>2, <4>1 DEF C!DeleteCron, C!TypeOK
    <3> QED BY <1>6, <3>1, <3>2 DEF C!DeleteDone
  <2> QED BY <1>0, <1>2, <1>3, <1>6, <2>1, <2>2 DEF C!DeleteDone, C!TypeOK, C!form
<1>7. CASE C!RunDone(q)
  <2>1. \A i \in DOMAIN rowErrors' : i \in Nat /\ rowErrors'[i] \in C!Jobs
    BY <1>1, <1>7, FailedTyped DEF C!RunDone, C!TypeOK
  <2> QED BY <1>0, <1>2, <1>3, <1>7, <2>1 DEF C!RunDone, C!TypeOK, C!form
<1>8. CASE C!SaveDone(q)
  <2>1. entries' \in Seq(C!Entry)
    <3>1. CASE q.mine /\ q.st = "ok" /\ editIndex # 0
      BY <1>1, <1>8, <3>1, PutTyped DEF C!SaveDone, C!TypeOK
    <3>2. CASE q.mine /\ q.st = "ok" /\ editIndex = 0
      <4>1. Append(entries, q.new) \in Seq(C!Entry)
        BY <1>1, Appended DEF C!TypeOK
      <4> QED BY <1>8, <3>2, <4>1 DEF C!SaveDone
    <3>3. CASE ~(q.mine /\ q.st = "ok")
      BY <1>8, <3>3 DEF C!SaveDone, C!TypeOK
    <3> QED BY <3>1, <3>2, <3>3
  <2>2. /\ dialog' \in BOOLEAN /\ editIndex' \in Nat /\ editEntry' \in C!Entry
        /\ text' \in Texts \cup {Blank}
    <3>1. CASE C!CloseForm
      BY <3>1, EntryTyped DEF C!CloseForm
    <3>2. CASE UNCHANGED C!form
      BY <3>2 DEF C!form, C!TypeOK
    <3> QED BY <1>8, <3>1, <3>2 DEF C!SaveDone
  <2> QED BY <1>0, <1>2, <1>3, <1>8, <2>1, <2>2 DEF C!SaveDone, C!TypeOK
<1> QED BY <1>4, <1>5, <1>6, <1>7, <1>8 DEF C!Answered

\* The state of the tab, its requests and the crontabs keep their types.
LEMMA CronTyped == ASSUME C!TypeOK, [C!Next]_C!vars PROVE C!TypeOK'
<1>0. (activeTab = "crons")' \in BOOLEAN
  OBVIOUS
<1>1. CASE C!Mount
  <2>1. cronReqs' \subseteq C!Request
    BY <1>1, SendTyped, EntryTyped DEF C!Mount, C!Ops
  <2> QED BY <1>0, <1>1, <2>1 DEF C!Mount, C!TypeOK, C!form
<1>2. CASE C!Unmount
  <2>1. \A q \in cronReqs : [q EXCEPT !.mine = FALSE] \in C!Request
    BY DEF C!TypeOK, C!Request
  <2>2. cronReqs' \subseteq C!Request
    BY <1>2, <2>1 DEF C!Unmount
  <2>3. entries' \in Seq(C!Entry) /\ DOMAIN rowErrors' = {}
    BY <1>2 DEF C!Unmount
  <2>4. /\ UNCHANGED <<shown, crontab, jobs>> /\ loaded' = FALSE /\ dialog' = FALSE
        /\ editIndex' = 0 /\ editEntry' = C!NoEntry /\ text' = Blank /\ deleteIndex' = 0
        /\ runningIndex' = 0
    BY <1>2 DEF C!Unmount
  <2>5. /\ dialog' \in BOOLEAN /\ loaded' \in BOOLEAN
        /\ editIndex' \in Nat /\ editEntry' \in C!Entry
        /\ text' \in Texts \cup {Blank} /\ deleteIndex' \in Nat /\ runningIndex' \in Nat
    BY <2>4, EntryTyped
  <2>6. \A i \in DOMAIN rowErrors' : i \in Nat /\ rowErrors'[i] \in C!Jobs
    BY <2>3
  <2>7. shown' \in Servers /\ crontab' \in [Servers -> Seq(C!Entry)] /\ jobs' \in C!Jobs
    BY <2>4 DEF C!TypeOK
  <2> QED BY <1>0, <2>2, <2>3, <2>5, <2>6, <2>7 DEF C!TypeOK
<1>3. CASE C!OtherWrites
  <2>0. PICK s \in Servers : \E k \in DOMAIN crontab[s] :
          crontab' \in {[crontab EXCEPT ![s] = C!RemoveAt(@, k)],
                       [crontab EXCEPT ![s][k].on = ~@]}
    BY <1>3 DEF C!OtherWrites
  <2>1. PICK k \in DOMAIN crontab[s] :
          crontab' \in {[crontab EXCEPT ![s] = C!RemoveAt(@, k)],
                       [crontab EXCEPT ![s][k].on = ~@]}
    BY <2>0
  <2>2. crontab[s] \in Seq(C!Entry) /\ crontab[s][k] \in C!Entry
    BY DEF C!TypeOK
  <2>3. C!RemoveAt(crontab[s], k) \in Seq(C!Entry)
    BY <2>2, Removed
  <2>4. [crontab[s] EXCEPT ![k] = [crontab[s][k] EXCEPT !.on = ~crontab[s][k].on]] \in Seq(C!Entry)
    <3>1. [crontab[s][k] EXCEPT !.on = ~crontab[s][k].on] \in C!Entry
      BY <2>2 DEF C!Entry
    <3> QED BY <2>2, <3>1
  <2>5. crontab' \in [Servers -> Seq(C!Entry)]
    BY <2>1, <2>3, <2>4 DEF C!TypeOK
  <2> QED BY <1>0, <1>3, <2>5 DEF C!OtherWrites, C!TypeOK, C!page, C!form
<1>4. ASSUME NEW s \in Servers, C!Navigate(s) PROVE C!TypeOK'
  BY <1>0, <1>4 DEF C!Navigate, C!TypeOK, C!page, C!form
<1>5. CASE UNCHANGED C!vars
  BY <1>0, <1>5 DEF C!vars, C!TypeOK, C!page, C!form
<1> QED
  BY <1>1, <1>2, <1>3, <1>4, <1>5, CronUserTyped, CronHandledTyped, CronAnsweredTyped
     DEF C!Next, C!RequestStep

----------------------------------------------------------------------------
(* The Cron Jobs tab: the inductive invariant                               *)

\* Places survive: none of the slips that move entries under a place happens.
NoCronSlips == {"overlap", "held", "unsure", "navigate", "foreign"} \cap Slips = {}

Moves == {"toggle", "edit", "delete"}

\* Requests in flight for one server commute.
Commuting ==
  \A q, r \in cronReqs : q # r /\ q.server = r.server => ~C!Conflict(q.op, r.op)

\* A job is one entry, on its server, and was created.
OneEntry ==
  /\ \A s \in Servers : \A k \in DOMAIN crontab[s] :
       crontab[s][k].home = s /\ crontab[s][k].job \in 1..jobs
  /\ \A s, t \in Servers : \A k \in DOMAIN crontab[s], m \in DOMAIN crontab[t] :
       crontab[s][k].job = crontab[t][m].job => s = t /\ k = m

Pending(q) == q.st \in {"sent", "read"}

\* What q is to change is in the crontab as the user saw it.
Aimed(q) ==
  /\ q.op \in {"toggle", "edit"} =>
       q.new = [q.was EXCEPT !.text = q.new.text, !.on = q.new.on]
  /\ q.op \in Moves \cup {"run"} => q.was.home = q.server
  /\ q.op \in Moves /\ Pending(q) =>
       q.i \in DOMAIN crontab[q.server] /\ crontab[q.server][q.i] = q.was
  /\ q.op = "run" =>
       q.i \in DOMAIN crontab[q.server] /\ crontab[q.server][q.i].job = q.was.job
  /\ q.op = "create" =>
       /\ q.new.home = q.server /\ q.new.job \in 1..jobs
       /\ Pending(q) => \A s \in Servers : \A k \in DOMAIN crontab[s] :
                          crontab[s][k].job # q.new.job
  /\ q.st = "read" => q.op # "run" /\ q.seen = crontab[q.server]

NewJobs ==
  \A q, r \in cronReqs :
    q.op = "create" /\ r.op = "create" /\ q.new.job = r.new.job => q = r

\* What the page holds of a request whose answer it waits for.
Awaited(q) ==
  q.mine =>
    /\ activeTab = "crons" /\ q.server = shown
    /\ (q.op = "list") = ~loaded
    /\ q.op \in Moves \cup {"run"} =>
         q.i \in DOMAIN entries /\ entries[q.i].job = q.was.job
    /\ q.op = "edit" => dialog /\ editIndex = q.i
    /\ q.op = "create" => dialog /\ editIndex = 0

OneList ==
  \A q, r \in cronReqs : q.mine /\ r.mine /\ q.op = "list" /\ r.op = "list" => q = r

\* The table once the answer to q, a failure while there is none, has come.
After(q) ==
  CASE q.op = "toggle" -> [entries EXCEPT ![q.i] = IF q.st = "ok" THEN q.new ELSE q.was]
    [] q.op = "edit" /\ q.st = "ok" -> [entries EXCEPT ![q.i] = q.new]
    [] q.op = "create" /\ q.st = "ok" -> Append(entries, q.new)
    [] q.op = "delete" /\ q.st = "ok" -> C!RemoveAt(entries, q.i)
    [] OTHER -> entries

Writing == {q \in cronReqs : q.op \in C!Writers /\ q.server = shown}

\* The table is the crontab but for the answer that is still to come.
TableInv ==
  loaded =>
    /\ activeTab = "crons"
    /\ \A i \in DOMAIN entries : entries[i].home = shown
    /\ \A q \in Writing : After(q) = crontab[shown]
    /\ Writing = {} => entries = crontab[shown]

FormInv ==
  /\ ~loaded => entries = <<>> /\ DOMAIN rowErrors = {} /\ ~dialog /\ deleteIndex = 0
  /\ dialog /\ editIndex # 0 => editIndex \in DOMAIN entries /\ entries[editIndex] = editEntry

OwnWrites == activeTab = "crons" => \A q \in Writing : q.mine

CronInv ==
  /\ Commuting /\ OneEntry /\ NewJobs /\ OneList
  /\ \A q \in cronReqs : Aimed(q) /\ Awaited(q)
  /\ TableInv /\ FormInv /\ OwnWrites /\ C!ErrorsStayWithTheirRow

\* The request that Send adds.
Sent(op, i, was, new) ==
  [op |-> op, server |-> shown, i |-> i, was |-> was, new |-> new,
   st |-> "sent", seen |-> <<>>, mine |-> TRUE]

\* A request is made only if it commutes with what is in flight.
LEMMA Sends ==
    ASSUME NoCronSlips, NEW op \in C!Ops, NEW i, NEW was, NEW new, C!Send(op, i, was, new)
    PROVE  /\ cronReqs' = cronReqs \cup {Sent(op, i, was, new)}
           /\ \A r \in cronReqs : r.server = shown => ~C!Conflict(op, r.op) /\ ~C!Conflict(r.op, op)
           /\ op \in C!Writers => Writing = {}
           /\ op \in {"list", "run"} => \A r \in Writing : r.op # "delete"
           /\ op = "list" => Writing = {}
<1>1. cronReqs' = cronReqs \cup {Sent(op, i, was, new)}
  BY DEF C!Send, Sent
<1>2. ~\E r \in cronReqs : r.server = shown /\ C!Conflict(op, r.op)
  BY DEF C!Send, C!Slip, NoCronSlips
<1>3. \A x, y : C!Conflict(x, y) => C!Conflict(y, x)
  BY DEF C!Conflict
<1> QED BY <1>1, <1>2, <1>3 DEF C!Conflict, Writing, C!Writers, C!Ops

\* With the request made, what is in flight still commutes.
LEMMA SendCommutes ==
    ASSUME NoCronSlips, Commuting,
           NEW op \in C!Ops, NEW i, NEW was, NEW new, C!Send(op, i, was, new)
    PROVE  Commuting'
<1>1. Sent(op, i, was, new).op = op /\ Sent(op, i, was, new).server = shown
  BY DEF Sent
<1> QED BY <1>1, Sends DEF Commuting, C!Conflict

\* A request that is answered keeps what it asked.
LEMMA Answers ==
    ASSUME C!TypeOK, NEW q \in cronReqs, NEW st, NEW content, C!Answer(q, st, content)
    PROVE  \E a : /\ cronReqs' = (cronReqs \ {q}) \cup {a}
                  /\ a.op = q.op /\ a.server = q.server /\ a.i = q.i /\ a.was = q.was
                  /\ a.new = q.new /\ a.mine = q.mine /\ a.st = st /\ a.seen = content
<1>1. q \in C!Request
  BY DEF C!TypeOK
<1> DEFINE a == [q EXCEPT !.st = st, !.seen = content]
<1>2. /\ a.op = q.op /\ a.server = q.server /\ a.i = q.i /\ a.was = q.was
      /\ a.new = q.new /\ a.mine = q.mine /\ a.st = st /\ a.seen = content
  BY <1>1 DEF C!Request
<1>3. cronReqs' = (cronReqs \ {q}) \cup {a}
  BY DEF C!Answer
<1> QED BY <1>2, <1>3

\* An answered request conflicts with no more than before.
LEMMA AnswerKeeps ==
    ASSUME Commuting, NewJobs, OneList, NEW q \in cronReqs, NEW a,
           cronReqs' = (cronReqs \ {q}) \cup {a}, a.op = q.op, a.server = q.server,
           a.new = q.new, a.mine = q.mine
    PROVE  Commuting' /\ NewJobs' /\ OneList'
<1>1. Commuting'
  BY DEF Commuting, C!Conflict
<1>2. NewJobs'
  BY DEF NewJobs
<1>3. OneList'
  BY DEF OneList
<1> QED BY <1>1, <1>2, <1>3

\* With fewer requests in flight nothing conflicts.
LEMMA FewerKeep ==
    ASSUME Commuting, NewJobs, OneList, cronReqs' \subseteq cronReqs
    PROVE  Commuting' /\ NewJobs' /\ OneList'
BY DEF Commuting, NewJobs, OneList, C!Conflict

\* Requests of one server that commute with one that writes.
LEMMA WriterAlone ==
    ASSUME C!TypeOK, Commuting, NEW q \in cronReqs, q.op \in C!Writers,
           NEW r \in cronReqs, r # q, r.server = q.server
    PROVE  r.op = "run" /\ q.op # "delete"
<1>1. r.op \in C!Ops
  BY DEF C!TypeOK, C!Request
<1> QED BY <1>1 DEF Commuting, C!Conflict, C!Writers, C!Ops

\* While no crontab changes, requests keep their aim.
LEMMA AimedKept ==
    ASSUME C!TypeOK, NEW r \in cronReqs, Aimed(r), UNCHANGED crontab, jobs' >= jobs, jobs' \in Nat
    PROVE  Aimed(r)'
<1>1. jobs \in Nat /\ \A j \in 1..jobs : j \in 1..jobs'
  BY TabsAssumption DEF C!TypeOK, C!Jobs, C!CronAssumption
<1> QED BY <1>1 DEF Aimed, Pending, Moves

\* While every row keeps its job, the page knows what it waits for.
LEMMA AwaitedKept ==
    ASSUME NEW r, Awaited(r), UNCHANGED <<shown, loaded, dialog, editIndex>>,
           (activeTab = "crons") = (activeTab = "crons")',
           \A k \in DOMAIN entries : k \in DOMAIN entries' /\ entries'[k].job = entries[k].job
    PROVE  Awaited(r)'
BY DEF Awaited, Moves

\* Every row of the table is in the crontab, while none is being deleted.
LEMMA RowsAreThere ==
    ASSUME C!TypeOK, CronInv, loaded, \A q \in Writing : q.op # "delete", NEW i \in DOMAIN entries
    PROVE  i \in DOMAIN crontab[shown] /\ crontab[shown][i].job = entries[i].job
<1>1. CASE Writing = {}
  BY <1>1 DEF CronInv, TableInv
<1>2. ASSUME NEW q \in Writing
      PROVE  i \in DOMAIN crontab[shown] /\ crontab[shown][i].job = entries[i].job
  <2>1. After(q) = crontab[shown] /\ q.mine /\ Awaited(q) /\ Aimed(q)
    BY <1>2 DEF CronInv, TableInv, OwnWrites, Writing
  <2>2. q \in C!Request /\ entries \in Seq(C!Entry)
    BY DEF C!TypeOK, Writing
  <2>3. CASE q.op = "toggle"
    <3>1. q.was.job = entries[q.i].job /\ q.i \in DOMAIN entries
      BY <2>1, <2>3 DEF Awaited, Moves
    <3>2. q.new.job = q.was.job
      BY <2>1, <2>2, <2>3 DEF Aimed, C!Request, C!Entry
    <3> QED BY <2>1, <2>2, <2>3, <3>1, <3>2 DEF After
  <2>4. CASE q.op = "edit"
    <3>1. q.was.job = entries[q.i].job /\ q.i \in DOMAIN entries
      BY <2>1, <2>4 DEF Awaited, Moves
    <3>2. q.new.job = q.was.job
      BY <2>1, <2>2, <2>4 DEF Aimed, C!Request, C!Entry
    <3> QED BY <2>1, <2>2, <2>4, <3>1, <3>2 DEF After
  <2>5. CASE q.op = "create"
    <3>1. q.new \in C!Entry
      BY <2>2 DEF C!Request
    <3>2. /\ i \in DOMAIN Append(entries, q.new)
          /\ Append(entries, q.new)[i] = entries[i]
      BY <2>2, <3>1, Appended
    <3> QED BY <2>1, <2>5, <3>2 DEF After
  <2>6. q.op \in {"toggle", "edit", "create"}
    BY DEF Writing, C!Writers
  <2> QED BY <2>3, <2>4, <2>5, <2>6
<1> QED BY <1>1, <1>2

\* Only the dialogs change.
LEMMA DialogKeeps ==
    ASSUME C!TypeOK, CronInv,
           UNCHANGED <<shown, crontab, jobs, loaded, entries, rowErrors, cronReqs>>,
           (activeTab = "crons") = (activeTab = "crons")', FormInv',
           \A r \in cronReqs :
             r.mine /\ r.op \in {"edit", "create"} => UNCHANGED <<dialog, editIndex>>
    PROVE  CronInv'
<1>1. Commuting' /\ NewJobs' /\ OneList'
  BY FewerKeep DEF CronInv
<1>2. ASSUME NEW r \in cronReqs' PROVE Aimed(r)' /\ Awaited(r)'
  <2>0. r \in cronReqs /\ Awaited(r)
    BY DEF CronInv
  <2>1. jobs' >= jobs /\ jobs' \in Nat
    BY TabsAssumption DEF C!TypeOK, C!Jobs, C!CronAssumption
  <2>2. Aimed(r)'
    BY <2>0, <2>1, AimedKept DEF CronInv
  <2>3. CASE r.mine /\ r.op \in {"edit", "create"}
    BY <2>0, <2>2, <2>3, AwaitedKept
  <2>4. CASE ~(r.mine /\ r.op \in {"edit", "create"})
    BY <2>0, <2>2, <2>4 DEF Awaited, Moves
  <2> QED BY <2>3, <2>4
<1>3. OneEntry'
  BY DEF CronInv, OneEntry
<1>4. TableInv'
  BY DEF CronInv, TableInv, Writing, After, Moves
<1>5. OwnWrites' /\ C!ErrorsStayWithTheirRow'
  BY DEF CronInv, OwnWrites, Writing, C!ErrorsStayWithTheirRow
<1> QED BY <1>1, <1>2, <1>3, <1>4, <1>5 DEF CronInv

\* The dialogs open, close and are filled in.
LEMMA DialogSteps ==
    ASSUME C!TypeOK, CronInv,
           C!OpenAdd \/ C!CloseDialog \/ C!SetField
             \/ \E i \in DOMAIN entries : C!OpenDelete(i) \/ C!OpenEdit(i)
    PROVE  CronInv'
<1>1. /\ UNCHANGED <<shown, crontab, jobs, loaded, entries, rowErrors, cronReqs>>
      /\ (activeTab = "crons") = (activeTab = "crons")'
  BY DEF C!OpenAdd, C!CloseDialog, C!SetField, C!OpenDelete, C!OpenEdit, C!page
<1>2. FormInv'
  BY <1>1 DEF CronInv, FormInv, C!OpenAdd, C!CloseDialog, C!SetField, C!OpenDelete, C!OpenEdit,
              C!CloseForm, C!Idle, C!form
<1>3. ASSUME NEW r \in cronReqs, r.mine, r.op \in {"edit", "create"}
      PROVE  UNCHANGED <<dialog, editIndex>>
  <2>1. dialog
    BY <1>3 DEF CronInv, Awaited
  <2>2. ~C!CloseDialog
    BY <1>3 DEF C!CloseDialog, C!Saving
  <2> QED BY <2>1, <2>2 DEF C!OpenAdd, C!SetField, C!OpenDelete, C!OpenEdit, C!Idle, C!form
<1> QED BY <1>1, <1>2, <1>3, DialogKeeps

\* What the page remembers of a request it has just made.
LEMMA SentIs ==
    ASSUME NEW op, NEW i, NEW was, NEW new
    PROVE  LET q == Sent(op, i, was, new)
           IN /\ q.op = op /\ q.server = shown /\ q.i = i /\ q.was = was /\ q.new = new
              /\ q.st = "sent" /\ q.mine
BY DEF Sent

\* The optimistic toggle: the answer to come makes the table the crontab.
LEMMA ToggleKeeps ==
    ASSUME C!TypeOK, CronInv, NoCronSlips, NEW i \in DOMAIN entries, C!HandleToggle(i)
    PROVE  CronInv'
<1> DEFINE e == entries[i]
           new == [e EXCEPT !.on = ~@]
           q == Sent("toggle", i, e, new)
<1>0. /\ loaded /\ ~dialog /\ deleteIndex = 0 /\ activeTab = "crons"
      /\ (activeTab = "crons") = (activeTab = "crons")'
      /\ UNCHANGED <<shown, crontab, jobs, loaded, dialog, editIndex, editEntry, deleteIndex>>
      /\ C!Send("toggle", i, e, new) /\ C!ClearRowError(i)
  BY DEF C!HandleToggle, C!Idle, C!form, CronInv, TableInv
<1>1. /\ e \in C!Entry /\ i \in Nat /\ entries \in Seq(C!Entry)
      /\ jobs' >= jobs /\ jobs' \in Nat /\ shown \in Servers
  BY <1>0, TabsAssumption DEF C!TypeOK, C!Jobs, C!CronAssumption
<1>2. /\ cronReqs' = cronReqs \cup {q} /\ Writing = {}
      /\ \A r \in cronReqs : r.server = shown => ~C!Conflict("toggle", r.op)
  <2>1. "toggle" \in C!Ops /\ "toggle" \in C!Writers
    BY DEF C!Ops, C!Writers
  <2> QED BY <1>0, <2>1, Sends, Zenon
<1>3. /\ q.op = "toggle" /\ q.server = shown /\ q.i = i /\ q.was = e /\ q.new = new
      /\ q.st = "sent" /\ q.mine
  BY SentIs
<1>4. /\ entries = crontab[shown] /\ e.home = shown
      /\ entries' = [entries EXCEPT ![i] = new]
  BY <1>0, <1>2, Zenon DEF CronInv, TableInv, C!HandleToggle
<1>5. /\ new \in C!Entry /\ new.job = e.job /\ new.home = e.home
      /\ new = [e EXCEPT !.text = new.text, !.on = new.on]
  BY <1>1 DEF C!Entry
<1> HIDE DEF e, new, q
<1>6. /\ DOMAIN entries' = DOMAIN entries
      /\ \A k \in DOMAIN entries : /\ entries'[k].job = entries[k].job
                                   /\ entries'[k].home = entries[k].home
  BY <1>1, <1>4, <1>5 DEF e
<1>7. Commuting' /\ NewJobs' /\ OneList'
  <2>1. Commuting'
    BY <1>0, SendCommutes DEF CronInv, C!Ops, C!Writers
  <2> QED BY <1>2, <1>3, <2>1 DEF CronInv, NewJobs, OneList
<1>8. ASSUME NEW r \in cronReqs' PROVE Aimed(r)' /\ Awaited(r)'
  <2>1. CASE r \in cronReqs
    BY <1>0, <1>1, <1>6, <2>1, AimedKept, AwaitedKept DEF CronInv
  <2>2. CASE r = q
    <3>1. Aimed(r)'
      BY <1>0, <1>3, <1>4, <1>5, <2>2 DEF Aimed, Pending, Moves, e
    <3>2. Awaited(r)'
      BY <1>0, <1>3, <1>6, <2>2 DEF Awaited, Moves, e
    <3> QED BY <3>1, <3>2
  <2> QED BY <1>2, <2>1, <2>2
<1>9. TableInv'
  <2>1. Writing' = {q}
    BY <1>0, <1>2, <1>3 DEF Writing, C!Writers
  <2>2. [entries' EXCEPT ![i] = e] = entries
    BY <1>1, <1>4, <1>5 DEF e
  <2>3. ASSUME NEW r \in Writing' PROVE After(r)' = entries
    BY <1>3, <2>1, <2>2 DEF After
  <2>4. \A k \in DOMAIN entries' : entries'[k].home = shown'
    BY <1>0, <1>6 DEF CronInv, TableInv
  <2>5. crontab'[shown'] = entries /\ activeTab' = "crons" /\ Writing' # {}
    BY <1>0, <1>4, <2>1
  <2> QED BY <2>3, <2>4, <2>5 DEF TableInv
<1>10. FormInv' /\ OwnWrites'
  BY <1>0, <1>2, <1>3 DEF CronInv, FormInv, OwnWrites, Writing
<1>11. C!ErrorsStayWithTheirRow'
  BY <1>0, <1>6 DEF CronInv, C!ErrorsStayWithTheirRow, C!ClearRowError
<1>12. OneEntry'
  BY <1>0 DEF CronInv, OneEntry
<1> QED BY <1>7, <1>8, <1>9, <1>10, <1>11, <1>12 DEF CronInv

\* A run commutes with everything but a deletion.
LEMMA RunKeeps ==
    ASSUME C!TypeOK, CronInv, NoCronSlips, NEW i \in DOMAIN entries, C!HandleRun(i)
    PROVE  CronInv'
<1> DEFINE e == entries[i]
           q == Sent("run", i, e, C!NoEntry)
<1>0. /\ loaded /\ ~dialog /\ deleteIndex = 0 /\ activeTab = "crons"
      /\ (activeTab = "crons") = (activeTab = "crons")'
      /\ UNCHANGED <<shown, crontab, jobs, loaded, entries, dialog, editIndex, editEntry,
                     deleteIndex>>
      /\ C!Send("run", i, e, C!NoEntry) /\ C!ClearRowError(i)
  BY DEF C!HandleRun, C!Idle, C!form, CronInv, TableInv
<1>1. /\ jobs' >= jobs /\ jobs' \in Nat /\ shown \in Servers
  BY <1>0, TabsAssumption DEF C!TypeOK, C!Jobs, C!CronAssumption
<1>2. /\ cronReqs' = cronReqs \cup {q} /\ \A r \in Writing : r.op # "delete"
  <2>1. "run" \in C!Ops
    BY DEF C!Ops
  <2> QED BY <1>0, <2>1, Sends, Zenon
<1>3. /\ q.op = "run" /\ q.server = shown /\ q.i = i /\ q.was = e /\ q.st = "sent" /\ q.mine
  BY SentIs
<1>4. /\ i \in DOMAIN crontab[shown] /\ crontab[shown][i].job = e.job /\ e.home = shown
  BY <1>0, <1>2, RowsAreThere DEF CronInv, TableInv
<1> HIDE DEF q
<1>5. Commuting' /\ NewJobs' /\ OneList'
  <2>1. Commuting'
    BY <1>0, SendCommutes DEF CronInv, C!Ops
  <2> QED BY <1>2, <1>3, <2>1 DEF CronInv, NewJobs, OneList
<1>6. ASSUME NEW r \in cronReqs' PROVE Aimed(r)' /\ Awaited(r)'
  <2>1. CASE r \in cronReqs
    BY <1>0, <1>1, <2>1, AimedKept, AwaitedKept DEF CronInv
  <2>2. CASE r = q
    BY <1>0, <1>3, <1>4, <2>2 DEF Aimed, Awaited, Pending, Moves
  <2> QED BY <1>2, <2>1, <2>2
<1>7. Writing' = Writing
  BY <1>0, <1>2, <1>3 DEF Writing, C!Writers
<1>8. TableInv'
  BY <1>0, <1>7 DEF CronInv, TableInv, After
<1>9. FormInv' /\ OwnWrites'
  BY <1>0, <1>7 DEF CronInv, FormInv, OwnWrites
<1>10. C!ErrorsStayWithTheirRow'
  BY <1>0 DEF CronInv, C!ErrorsStayWithTheirRow, C!ClearRowError
<1>11. OneEntry'
  BY <1>0 DEF CronInv, OneEntry
<1> QED BY <1>5, <1>6, <1>8, <1>9, <1>10, <1>11 DEF CronInv

\* The confirmed deletion is alone in flight for its server.
LEMMA DeleteKeeps == ASSUME C!TypeOK, CronInv, NoCronSlips, C!AnswerDelete PROVE CronInv'
<1>0. /\ loaded /\ activeTab = "crons" /\ (activeTab = "crons") = (activeTab = "crons")'
      /\ UNCHANGED <<shown, crontab, jobs, loaded, entries, dialog, editIndex, editEntry>>
      /\ deleteIndex' = 0
  BY DEF C!AnswerDelete, C!form, CronInv, TableInv, FormInv
<1>1. FormInv' \/ ~UNCHANGED rowErrors
  BY <1>0 DEF CronInv, FormInv
<1>2. CASE UNCHANGED <<rowErrors, cronReqs>>
  BY <1>0, <1>1, <1>2, DialogKeeps
<1>3. CASE ~UNCHANGED <<rowErrors, cronReqs>>
  <2> DEFINE i == deleteIndex
             e == entries[i]
             q == Sent("delete", i, e, C!NoEntry)
  <2>0. /\ i \in DOMAIN entries /\ C!ClearRowError(i)
        /\ C!Send("delete", i, e, C!NoEntry)
    BY <1>3 DEF C!AnswerDelete
  <2>1. jobs' >= jobs /\ jobs' \in Nat /\ shown \in Servers
    BY <1>0, TabsAssumption DEF C!TypeOK, C!Jobs, C!CronAssumption
  <2>2. cronReqs' = cronReqs \cup {q} /\ Writing = {}
    <3>1. "delete" \in C!Ops /\ "delete" \in C!Writers
      BY DEF C!Ops, C!Writers
    <3> QED BY <2>0, <3>1, Sends, Zenon
  <2>3. /\ q.op = "delete" /\ q.server = shown /\ q.i = i /\ q.was = e /\ q.st = "sent" /\ q.mine
    BY SentIs
  <2>4. entries = crontab[shown] /\ e.home = shown
    BY <1>0, <2>0, <2>2 DEF CronInv, TableInv
  <2>5. Commuting' /\ NewJobs' /\ OneList'
    <3>1. Commuting'
      BY <2>0, SendCommutes DEF CronInv, C!Ops, C!Writers
    <3>2. NewJobs' /\ OneList'
      BY <2>2, <2>3 DEF CronInv, NewJobs, OneList
    <3> QED BY <3>1, <3>2
  <2> HIDE DEF q
  <2>6. ASSUME NEW r \in cronReqs' PROVE Aimed(r)' /\ Awaited(r)'
    <3>1. CASE r \in cronReqs
      BY <1>0, <2>1, <3>1, AimedKept, AwaitedKept DEF CronInv
    <3>2. CASE r = q
      BY <1>0, <2>0, <2>3, <2>4, <3>2 DEF Aimed, Awaited, Pending, Moves
    <3> QED BY <2>2, <3>1, <3>2
  <2>7. Writing' = {q}
    BY <1>0, <2>2, <2>3 DEF Writing, C!Writers
  <2>8. TableInv'
    <3>1. ASSUME NEW r \in Writing' PROVE After(r)' = entries
      BY <1>0, <2>3, <2>7 DEF After
    <3>2. \A k \in DOMAIN entries' : entries'[k].home = shown'
      BY <1>0 DEF CronInv, TableInv
    <3>3. crontab'[shown'] = entries /\ activeTab' = "crons" /\ Writing' # {}
      BY <1>0, <2>4, <2>7
    <3> QED BY <3>1, <3>2, <3>3 DEF TableInv
  <2>9. FormInv' /\ OwnWrites' /\ OneEntry'
    BY <1>0, <2>3, <2>7 DEF CronInv, FormInv, OwnWrites, OneEntry
  <2>10. C!ErrorsStayWithTheirRow'
    BY <1>0, <2>0 DEF CronInv, C!ErrorsStayWithTheirRow, C!ClearRowError
  <2> QED BY <2>5, <2>6, <2>8, <2>9, <2>10 DEF CronInv
<1> QED BY <1>2, <1>3

\* So is what the dialog saves; a job it creates is new.
LEMMA SaveKeeps == ASSUME C!TypeOK, CronInv, NoCronSlips, C!HandleSave PROVE CronInv'
<1>0. /\ loaded /\ dialog /\ activeTab = "crons"
      /\ (activeTab = "crons") = (activeTab = "crons")' /\ entries \in Seq(C!Entry)
      /\ UNCHANGED <<shown, crontab, loaded, entries, rowErrors, dialog, editIndex, editEntry,
                     deleteIndex>>
      /\ shown \in Servers /\ jobs \in Nat /\ text \in Texts \cup {Blank}
  BY TabsAssumption DEF C!HandleSave, C!form, C!page, CronInv, TableInv, FormInv, C!TypeOK, C!Jobs,
                        C!CronAssumption
<1>1. ASSUME NEW q, cronReqs' = cronReqs \cup {q}, Commuting', NewJobs', OneList',
             jobs' >= jobs, jobs' \in Nat, Aimed(q)', Awaited(q)', q.mine, q.server = shown,
             q.op \in C!Writers, Writing = {}, After(q)' = entries
      PROVE  CronInv'
  <2>1. ASSUME NEW r \in cronReqs' PROVE Aimed(r)' /\ Awaited(r)'
    <3>1. CASE r \in cronReqs
      BY <1>0, <1>1, <3>1, AimedKept, AwaitedKept DEF CronInv
    <3> QED BY <1>1, <3>1
  <2>2. Writing' = {q}
    BY <1>0, <1>1 DEF Writing
  <2>3. TableInv'
    BY <1>0, <1>1, <2>2 DEF CronInv, TableInv
  <2>4. FormInv' /\ OwnWrites' /\ C!ErrorsStayWithTheirRow'
    BY <1>0, <1>1, <2>2 DEF CronInv, FormInv, OwnWrites, C!ErrorsStayWithTheirRow
  <2>5. OneEntry'
    BY <1>0, <1>1 DEF CronInv, OneEntry
  <2> QED BY <1>1, <2>1, <2>3, <2>4, <2>5 DEF CronInv
<1>2. CASE editIndex # 0
  <2> DEFINE new == [editEntry EXCEPT !.text = text]
             q == Sent("edit", editIndex, editEntry, new)
  <2>0. /\ C!Send("edit", editIndex, editEntry, new) /\ UNCHANGED jobs
        /\ editIndex \in DOMAIN entries /\ entries[editIndex] = editEntry
    BY <1>0, <1>2 DEF C!HandleSave, CronInv, FormInv
  <2>1. cronReqs' = cronReqs \cup {q} /\ Writing = {}
    <3>1. "edit" \in C!Ops /\ "edit" \in C!Writers
      BY DEF C!Ops, C!Writers
    <3> QED BY <2>0, <3>1, Sends, Zenon
  <2>2. /\ q.op = "edit" /\ q.server = shown /\ q.i = editIndex /\ q.was = editEntry
        /\ q.new = new /\ q.st = "sent" /\ q.mine
    BY SentIs
  <2>3. entries = crontab[shown] /\ editEntry.home = shown
    BY <1>0, <2>0, <2>1 DEF CronInv, TableInv
  <2>4. Commuting' /\ NewJobs' /\ OneList'
    <3>1. Commuting'
      BY <2>0, SendCommutes DEF CronInv, C!Ops, C!Writers
    <3>2. NewJobs' /\ OneList'
      BY <2>1, <2>2 DEF CronInv, NewJobs, OneList
    <3> QED BY <3>1, <3>2
  <2>5. new = [editEntry EXCEPT !.text = new.text, !.on = new.on]
    BY <1>0, <2>0 DEF C!TypeOK, C!Entry
  <2> HIDE DEF q, new
  <2>6. ASSUME NEW r, r = q PROVE Aimed(r)' /\ Awaited(r)' /\ After(r)' = entries
    BY <1>0, <1>2, <2>0, <2>2, <2>3, <2>5, <2>6 DEF Aimed, Awaited, Pending, Moves, After
  <2>7. jobs' >= jobs /\ jobs' \in Nat
    BY <1>0, <2>0
  <2> QED BY <1>1, <2>1, <2>2, <2>4, <2>6, <2>7 DEF C!Writers
<1>3. CASE editIndex = 0
  <2> DEFINE new == [home |-> shown, job |-> jobs', text |-> text, on |-> TRUE]
             q == Sent("create", 0, C!NoEntry, new)
  <2>0. C!Send("create", 0, C!NoEntry, new) /\ jobs' = jobs + 1
    BY <1>3 DEF C!HandleSave
  <2>1. cronReqs' = cronReqs \cup {q} /\ Writing = {}
    <3>1. "create" \in C!Ops /\ "create" \in C!Writers
      BY DEF C!Ops, C!Writers
    <3> QED BY <2>0, <3>1, Sends, Zenon
  <2>2. /\ q.op = "create" /\ q.server = shown /\ q.new = new /\ q.st = "sent" /\ q.mine
    BY SentIs
  <2>3. entries = crontab[shown]
    BY <1>0, <2>1 DEF CronInv, TableInv
  <2>4. new.home = shown /\ new.job = jobs'
    OBVIOUS
  <2> HIDE DEF q, new
  <2>5. \A s \in Servers : \A k \in DOMAIN crontab[s] : crontab[s][k].job # jobs'
    BY <1>0, <2>0 DEF CronInv, OneEntry
  <2>6. Commuting' /\ NewJobs' /\ OneList'
    <3>1. Commuting'
      BY <2>0, SendCommutes DEF CronInv, C!Ops, C!Writers
    <3>2. ASSUME NEW r \in cronReqs, r.op = "create" PROVE r.new.job # jobs'
      <4>1. r.new.job \in 1..jobs
        BY <3>2 DEF CronInv, Aimed
      <4> QED BY <1>0, <2>0, <4>1
    <3>3. NewJobs'
      BY <2>1, <2>2, <2>4, <3>2 DEF CronInv, NewJobs
    <3>4. OneList'
      BY <2>1, <2>2 DEF CronInv, OneList
    <3> QED BY <3>1, <3>3, <3>4
  <2>7. ASSUME NEW r, r = q PROVE Aimed(r)' /\ Awaited(r)' /\ After(r)' = entries
    <3>1. Aimed(r)'
      <4>1. jobs' \in 1..jobs'
        BY <1>0, <2>0
      <4> QED BY <1>0, <2>2, <2>4, <2>5, <2>7, <4>1 DEF Aimed, Pending, Moves
    <3>2. Awaited(r)' /\ After(r)' = entries
      BY <1>0, <1>3, <2>2, <2>7 DEF Awaited, Moves, After
    <3> QED BY <3>1, <3>2
  <2>8. jobs' >= jobs /\ jobs' \in Nat
    BY <1>0, <2>0
  <2> QED BY <1>1, <2>1, <2>2, <2>6, <2>7, <2>8 DEF C!Writers
<1> QED BY <1>2, <1>3

\* The tab opens: nothing in flight is its own yet.
LEMMA MountKeeps == ASSUME C!TypeOK, CronInv, NoCronSlips, C!Mount PROVE CronInv'
<1> DEFINE q == Sent("list", 0, C!NoEntry, C!NoEntry)
<1>0. /\ activeTab # "crons" /\ (activeTab = "crons")' = TRUE /\ ~loaded
      /\ UNCHANGED <<shown, crontab, jobs, loaded, entries, rowErrors, dialog, editIndex,
                     editEntry, deleteIndex>>
      /\ C!Send("list", 0, C!NoEntry, C!NoEntry)
  BY DEF C!Mount, C!form, CronInv, TableInv
<1>1. jobs' >= jobs /\ jobs' \in Nat
  BY <1>0, TabsAssumption DEF C!TypeOK, C!Jobs, C!CronAssumption
<1>2. cronReqs' = cronReqs \cup {q} /\ Writing = {}
  <2>1. "list" \in C!Ops
    BY DEF C!Ops
  <2> QED BY <1>0, <2>1, Sends, Zenon
<1>3. q.op = "list" /\ q.server = shown /\ q.st = "sent" /\ q.mine
  BY SentIs
<1> HIDE DEF q
<1>4. \A r \in cronReqs : ~r.mine
  BY <1>0 DEF CronInv, Awaited
<1>5. Commuting' /\ NewJobs' /\ OneList'
  <2>1. Commuting'
    BY <1>0, SendCommutes DEF CronInv, C!Ops
  <2> QED BY <1>2, <1>3, <1>4, <2>1 DEF CronInv, NewJobs, OneList
<1>6. ASSUME NEW r \in cronReqs' PROVE Aimed(r)' /\ Awaited(r)'
  <2>1. CASE r \in cronReqs
    BY <1>0, <1>1, <1>4, <2>1, AimedKept DEF CronInv, Awaited
  <2>2. CASE r = q
    BY <1>0, <1>3, <2>2 DEF Aimed, Awaited, Pending, Moves
  <2> QED BY <1>2, <2>1, <2>2
<1>7. Writing' = {}
  BY <1>0, <1>2, <1>3 DEF Writing, C!Writers
<1>8. TableInv' /\ FormInv' /\ OwnWrites' /\ C!ErrorsStayWithTheirRow' /\ OneEntry'
  BY <1>0, <1>7 DEF CronInv, TableInv, FormInv, OwnWrites, C!ErrorsStayWithTheirRow, OneEntry
<1> QED BY <1>5, <1>6, <1>8 DEF CronInv

\* The tab closes: nothing in flight is its own any more.
LEMMA UnmountKeeps == ASSUME C!TypeOK, CronInv, C!Unmount PROVE CronInv'
<1>0. /\ (activeTab = "crons")' = FALSE /\ loaded' = FALSE /\ entries' = <<>> /\ rowErrors' = <<>>
      /\ dialog' = FALSE /\ deleteIndex' = 0 /\ UNCHANGED <<shown, crontab, jobs>>
      /\ cronReqs' = {[q EXCEPT !.mine = FALSE] : q \in cronReqs}
  BY DEF C!Unmount
<1>1. ASSUME NEW r \in cronReqs'
      PROVE  \E q \in cronReqs : /\ r = [q EXCEPT !.mine = FALSE] /\ ~r.mine
                                 /\ q.op = r.op /\ q.server = r.server /\ q.i = r.i
                                 /\ q.was = r.was /\ q.new = r.new /\ q.st = r.st
                                 /\ q.seen = r.seen
  BY <1>0 DEF C!TypeOK, C!Request
<1>2. Commuting'
  <2> SUFFICES ASSUME NEW r \in cronReqs', NEW p \in cronReqs', r # p, r.server = p.server
               PROVE  ~C!Conflict(r.op, p.op)
    BY DEF Commuting, C!Conflict
  <2>1. PICK q \in cronReqs : r = [q EXCEPT !.mine = FALSE] /\ q.op = r.op /\ q.server = r.server
    BY <1>1
  <2>2. PICK a \in cronReqs : p = [a EXCEPT !.mine = FALSE] /\ a.op = p.op /\ a.server = p.server
    BY <1>1
  <2>3. q # a
    BY <2>1, <2>2
  <2> QED BY <2>1, <2>2, <2>3 DEF CronInv, Commuting
<1>3. NewJobs'
  <2> SUFFICES ASSUME NEW r \in cronReqs', NEW p \in cronReqs', r.op = "create",
                      p.op = "create", r.new.job = p.new.job
               PROVE  r = p
    BY DEF NewJobs
  <2>1. PICK q \in cronReqs : r = [q EXCEPT !.mine = FALSE] /\ q.op = r.op /\ q.new = r.new
    BY <1>1
  <2>2. PICK a \in cronReqs : p = [a EXCEPT !.mine = FALSE] /\ a.op = p.op /\ a.new = p.new
    BY <1>1
  <2>3. q = a
    BY <2>1, <2>2 DEF CronInv, NewJobs
  <2> QED BY <2>1, <2>2, <2>3
<1>4. OneList'
  BY <1>1 DEF OneList
<1>5. ASSUME NEW r \in cronReqs' PROVE Aimed(r)' /\ Awaited(r)'
  <2>1. PICK q \in cronReqs : /\ ~r.mine /\ q.op = r.op /\ q.server = r.server /\ q.i = r.i
                              /\ q.was = r.was /\ q.new = r.new /\ q.st = r.st /\ q.seen = r.seen
    BY <1>1
  <2>2. jobs' >= jobs /\ jobs' \in Nat
    BY <1>0, TabsAssumption DEF C!TypeOK, C!Jobs, C!CronAssumption
  <2>3. Aimed(q)'
    BY <1>0, <2>2, AimedKept DEF CronInv
  <2>4. Aimed(r)'
    BY <2>1, <2>3 DEF Aimed, Pending, Moves
  <2>5. Awaited(r)'
    BY <2>1 DEF Awaited
  <2> QED BY <2>4, <2>5
<1>6. DOMAIN rowErrors' = {} /\ DOMAIN entries' = {}
  BY <1>0
<1>7. TableInv' /\ FormInv' /\ OwnWrites'
  BY <1>0, <1>6 DEF TableInv, FormInv, OwnWrites
<1>8. C!ErrorsStayWithTheirRow' /\ OneEntry'
  BY <1>0, <1>6 DEF CronInv, C!ErrorsStayWithTheirRow, OneEntry
<1> QED BY <1>2, <1>3, <1>4, <1>5, <1>7, <1>8 DEF CronInv

\* Another server is shown while the tab is closed.
LEMMA NavigateKeeps ==
    ASSUME C!TypeOK, CronInv, NoCronSlips, NEW s \in Servers, C!Navigate(s) PROVE CronInv'
<1>0. /\ activeTab # "crons" /\ (activeTab = "crons")' = FALSE /\ ~loaded
      /\ UNCHANGED <<crontab, jobs, loaded, entries, rowErrors, dialog, editIndex, editEntry,
                     deleteIndex, cronReqs>>
  BY DEF C!Navigate, C!Slip, NoCronSlips, C!page, C!form, CronInv, TableInv
<1>1. jobs' >= jobs /\ jobs' \in Nat
  BY <1>0, TabsAssumption DEF C!TypeOK, C!Jobs, C!CronAssumption
<1>2. Commuting' /\ NewJobs' /\ OneList'
  BY <1>0, FewerKeep DEF CronInv
<1>3. ASSUME NEW r \in cronReqs' PROVE Aimed(r)' /\ Awaited(r)'
  <2>1. r \in cronReqs /\ ~r.mine
    BY <1>0 DEF CronInv, Awaited
  <2> QED BY <1>0, <1>1, <2>1, AimedKept DEF CronInv, Awaited
<1>4. TableInv' /\ FormInv' /\ OwnWrites' /\ C!ErrorsStayWithTheirRow' /\ OneEntry'
  BY <1>0 DEF CronInv, TableInv, FormInv, OwnWrites, C!ErrorsStayWithTheirRow, OneEntry
<1> QED BY <1>2, <1>3, <1>4 DEF CronInv

\* A crontab without one of its entries, or with a changed one.
LEMMA RemovedOnce ==
    ASSUME C!TypeOK, OneEntry, UNCHANGED jobs, NEW s \in Servers, NEW k \in DOMAIN crontab[s],
           crontab' = [crontab EXCEPT ![s] = C!RemoveAt(crontab[s], k)]
    PROVE  /\ OneEntry'
           /\ \A r \in Servers : \A m \in DOMAIN crontab'[r] :
                \E n \in DOMAIN crontab[r] :
                  crontab'[r][m] = crontab[r][n] /\ (r # s \/ n # k)
           /\ \A r \in Servers : \A n \in DOMAIN crontab[r] :
                r # s \/ n # k => \E m \in DOMAIN crontab'[r] : crontab'[r][m] = crontab[r][n]
<1>0. /\ crontab[s] \in Seq(C!Entry) /\ crontab \in [Servers -> Seq(C!Entry)]
      /\ k \in 1..Len(crontab[s]) /\ Len(crontab[s]) \in Nat
  BY DEF C!TypeOK
<1>1. \A r \in Servers : r # s => crontab'[r] = crontab[r]
  BY <1>0
<1>2. crontab'[s] = C!RemoveAt(crontab[s], k)
  BY <1>0
<1>3. DOMAIN crontab'[s] = 1..(Len(crontab[s]) - 1)
  BY <1>0, <1>2, Removed
<1>4. \A m \in DOMAIN crontab'[s] :
        crontab'[s][m] = IF m < k THEN crontab[s][m] ELSE crontab[s][m + 1]
  BY <1>0, <1>2, <1>3, Removed
<1>5. ASSUME NEW r \in Servers, NEW m \in DOMAIN crontab'[r]
      PROVE  \E n \in DOMAIN crontab[r] :
               /\ crontab'[r][m] = crontab[r][n]
               /\ n = (IF r = s /\ m >= k THEN m + 1 ELSE m)
  <2>1. CASE r # s
    BY <1>1, <1>5, <2>1
  <2>2. CASE r = s /\ m < k
    BY <1>0, <1>3, <1>4, <1>5, <2>2
  <2>3. CASE r = s /\ m >= k
    <3>1. m + 1 \in DOMAIN crontab[r] /\ ~(m < k)
      BY <1>0, <1>3, <1>5, <2>3
    <3> QED BY <1>4, <1>5, <2>3, <3>1
  <2>4. r = s => m < k \/ m >= k
    BY <1>0, <1>3, <1>5
  <2> QED BY <2>1, <2>2, <2>3, <2>4
<1>6. \A r \in Servers : \A m \in DOMAIN crontab'[r] :
        crontab'[r][m].home = r /\ crontab'[r][m].job \in 1..jobs
  BY <1>5 DEF OneEntry
<1>7. ASSUME NEW r \in Servers, NEW t \in Servers, NEW m \in DOMAIN crontab'[r],
             NEW n \in DOMAIN crontab'[t], crontab'[r][m].job = crontab'[t][n].job
      PROVE  r = t /\ m = n
  <2>1. PICK a \in DOMAIN crontab[r] :
          crontab'[r][m] = crontab[r][a] /\ a = (IF r = s /\ m >= k THEN m + 1 ELSE m)
    BY <1>5
  <2>2. PICK b \in DOMAIN crontab[t] :
          crontab'[t][n] = crontab[t][b] /\ b = (IF t = s /\ n >= k THEN n + 1 ELSE n)
    BY <1>5
  <2>3. r = t /\ a = b
    BY <1>7, <2>1, <2>2 DEF OneEntry
  <2>4. CASE r # s
    BY <2>1, <2>2, <2>3, <2>4
  <2>5. CASE r = s
    <3>1. m \in Nat /\ n \in Nat /\ k \in Nat
      BY <1>0, <1>3, <2>3, <2>5
    <3> QED BY <2>1, <2>2, <2>3, <2>5, <3>1
  <2> QED BY <2>4, <2>5
<1>8. ASSUME NEW r \in Servers, NEW m \in DOMAIN crontab'[r]
      PROVE  \E n \in DOMAIN crontab[r] : crontab'[r][m] = crontab[r][n] /\ (r # s \/ n # k)
  <2>1. PICK n \in DOMAIN crontab[r] :
          crontab'[r][m] = crontab[r][n] /\ n = (IF r = s /\ m >= k THEN m + 1 ELSE m)
    BY <1>5
  <2>2. r = s => m \in Nat /\ k \in Nat
    BY <1>0, <1>3
  <2>3. r # s \/ n # k
    BY <2>1, <2>2
  <2> QED BY <2>1, <2>3
<1>9. ASSUME NEW r \in Servers, NEW n \in DOMAIN crontab[r], r # s \/ n # k
      PROVE  \E m \in DOMAIN crontab'[r] : crontab'[r][m] = crontab[r][n]
  <2>1. CASE r # s
    BY <1>1, <2>1
  <2>2. CASE r = s /\ n < k
    <3>1. n \in 1..(Len(crontab[s]) - 1)
      BY <1>0, <2>2
    <3> QED BY <1>3, <1>4, <2>2, <3>1
  <2>3. CASE r = s /\ n > k
    <3>1. n - 1 \in 1..(Len(crontab[s]) - 1) /\ ~(n - 1 < k) /\ (n - 1) + 1 = n
      BY <1>0, <2>3
    <3> QED BY <1>3, <1>4, <2>3, <3>1
  <2>4. r = s => n < k \/ n > k
    BY <1>0, <1>9
  <2> QED BY <2>1, <2>2, <2>3, <2>4
<1>10. OneEntry'
  BY <1>6, <1>7 DEF OneEntry
<1> QED BY <1>8, <1>9, <1>10

LEMMA ReplacedOnce ==
    ASSUME C!TypeOK, OneEntry, UNCHANGED jobs, NEW s \in Servers, NEW k \in DOMAIN crontab[s],
           NEW e, e.home = crontab[s][k].home, e.job = crontab[s][k].job,
           \A r \in Servers : r # s => crontab'[r] = crontab[r],
           crontab'[s] = [crontab[s] EXCEPT ![k] = e]
    PROVE  /\ OneEntry'
           /\ \A r \in Servers :
                /\ DOMAIN crontab'[r] = DOMAIN crontab[r]
                /\ \A m \in DOMAIN crontab[r] : /\ crontab'[r][m].home = crontab[r][m].home
                                                 /\ crontab'[r][m].job = crontab[r][m].job
           /\ \A r \in Servers : \A m \in DOMAIN crontab[r] :
                crontab'[r][m] = IF r = s /\ m = k THEN e ELSE crontab[r][m]
<1>0. crontab[s] \in Seq(C!Entry)
  BY DEF C!TypeOK
<1>1. ASSUME NEW r \in Servers
      PROVE  /\ DOMAIN crontab'[r] = DOMAIN crontab[r]
             /\ \A m \in DOMAIN crontab[r] : /\ crontab'[r][m].home = crontab[r][m].home
                                              /\ crontab'[r][m].job = crontab[r][m].job
  <2>1. CASE r # s
    BY <2>1
  <2>2. CASE r = s
    BY <1>0, <2>2
  <2> QED BY <2>1, <2>2
<1>2. ASSUME NEW r \in Servers, NEW m \in DOMAIN crontab[r]
      PROVE  crontab'[r][m] = IF r = s /\ m = k THEN e ELSE crontab[r][m]
  <2>1. CASE r # s
    BY <2>1
  <2>2. CASE r = s
    BY <1>0, <1>2, <2>2
  <2> QED BY <2>1, <2>2
<1>3. OneEntry'
  BY <1>1 DEF OneEntry
<1> QED BY <1>1, <1>2, <1>3

\* Somebody else changes a crontab while the tab is at rest.
LEMMA OtherWritesKeeps == ASSUME C!TypeOK, CronInv, NoCronSlips, C!OtherWrites PROVE CronInv'
<1>0. /\ activeTab # "crons" /\ cronReqs = {} /\ cronReqs' = {} /\ ~loaded
      /\ UNCHANGED <<shown, jobs, loaded, entries, rowErrors, dialog, editIndex, editEntry,
                     deleteIndex>>
      /\ (activeTab = "crons") = (activeTab = "crons")'
  BY DEF C!OtherWrites, C!Slip, NoCronSlips, C!page, C!form, CronInv, TableInv
<1>1. OneEntry'
  <2>1. PICK s \in Servers : \E k \in DOMAIN crontab[s] :
          crontab' \in {[crontab EXCEPT ![s] = C!RemoveAt(@, k)],
                        [crontab EXCEPT ![s][k].on = ~@]}
    BY DEF C!OtherWrites
  <2>2. PICK k \in DOMAIN crontab[s] :
          crontab' \in {[crontab EXCEPT ![s] = C!RemoveAt(@, k)],
                        [crontab EXCEPT ![s][k].on = ~@]}
    BY <2>1
  <2>3. /\ crontab[s] \in Seq(C!Entry) /\ crontab \in [Servers -> Seq(C!Entry)]
        /\ crontab[s][k] \in C!Entry
    BY DEF C!TypeOK
  <2>4. CASE crontab' = [crontab EXCEPT ![s] = C!RemoveAt(@, k)]
    <3>1. crontab' = [crontab EXCEPT ![s] = C!RemoveAt(crontab[s], k)]
      BY <2>4
    <3> QED BY <1>0, <3>1, RemovedOnce DEF CronInv
  <2>5. CASE crontab' = [crontab EXCEPT ![s][k].on = ~@]
    <3> DEFINE e == [crontab[s][k] EXCEPT !.on = ~crontab[s][k].on]
    <3>1. e.home = crontab[s][k].home /\ e.job = crontab[s][k].job
      BY <2>3 DEF C!Entry
    <3>2. /\ crontab'[s] = [crontab[s] EXCEPT ![k] = e]
          /\ \A r \in Servers : r # s => crontab'[r] = crontab[r]
      BY <2>3, <2>5
    <3> HIDE DEF e
    <3> QED BY <1>0, <3>1, <3>2, ReplacedOnce DEF CronInv
  <2> QED BY <2>2, <2>4, <2>5
<1>2. Commuting' /\ NewJobs' /\ OneList'
  BY <1>0 DEF Commuting, NewJobs, OneList
<1>3. TableInv' /\ FormInv' /\ OwnWrites' /\ C!ErrorsStayWithTheirRow'
  BY <1>0 DEF CronInv, TableInv, FormInv, OwnWrites, C!ErrorsStayWithTheirRow
<1> QED BY <1>0, <1>1, <1>2, <1>3 DEF CronInv

\* Steps of the other tab.
LEMMA StutterKeeps == ASSUME C!TypeOK, CronInv, UNCHANGED C!vars PROVE CronInv'
<1>1. /\ UNCHANGED <<shown, crontab, jobs, loaded, entries, rowErrors, cronReqs, dialog, editIndex,
                     editEntry, deleteIndex>>
      /\ (activeTab = "crons") = (activeTab = "crons")'
  BY DEF C!vars, C!page, C!form
<1>2. FormInv'
  BY <1>1 DEF CronInv, FormInv
<1> QED BY <1>1, <1>2, DialogKeeps

----------------------------------------------------------------------------
(* The Cron Jobs tab: the requests on their server                         *)

\* A request of the tab has gone further on its server.
LEMMA HandledKeeps ==
    ASSUME C!TypeOK, CronInv, NEW q \in cronReqs, NEW a, cronReqs' = (cronReqs \ {q}) \cup {a},
           a.op = q.op, a.server = q.server, a.i = q.i, a.was = q.was, a.new = q.new,
           a.mine = q.mine, Aimed(a)', \A r \in cronReqs : r # q => Aimed(r)',
           UNCHANGED <<shown, jobs, loaded, entries, rowErrors, dialog, editIndex, editEntry,
                       deleteIndex>>,
           (activeTab = "crons") = (activeTab = "crons")', OneEntry',
           q \in Writing /\ loaded => After(a)' = crontab'[shown],
           q \notin Writing => UNCHANGED crontab[shown]
    PROVE  CronInv'
<1>1. Commuting' /\ NewJobs' /\ OneList'
  BY AnswerKeeps DEF CronInv
<1>2. ASSUME NEW r \in cronReqs' PROVE Aimed(r)' /\ Awaited(r)'
  <2>1. CASE r \in cronReqs /\ r # q
    BY <2>1, AwaitedKept DEF CronInv
  <2>2. CASE r = a
    <3>1. Awaited(q)
      BY DEF CronInv
    <3> QED BY <2>2, <3>1 DEF Awaited, Moves
  <2> QED BY <2>1, <2>2
<1>3. CASE q \in Writing
  <2>1. ASSUME NEW r \in Writing, r # q PROVE FALSE
    <3>1. r.op = "run" /\ r.op \in C!Writers
      BY <1>3, <2>1, WriterAlone DEF Writing, CronInv
    <3> QED BY <3>1 DEF C!Writers
  <2>2. Writing' = {a}
    BY <1>3, <2>1 DEF Writing
  <2>3. TableInv' /\ OwnWrites'
    BY <1>3, <2>2 DEF CronInv, TableInv, OwnWrites
  <2> QED BY <1>1, <1>2, <2>3 DEF CronInv, FormInv, C!ErrorsStayWithTheirRow
<1>4. CASE q \notin Writing
  <2>1. Writing' = Writing
    BY <1>4 DEF Writing
  <2>2. TableInv' /\ OwnWrites'
    BY <1>4, <2>1 DEF CronInv, TableInv, OwnWrites, After
  <2> QED BY <1>1, <1>2, <2>2 DEF CronInv, FormInv, C!ErrorsStayWithTheirRow
<1> QED BY <1>3, <1>4

\* Nothing was written.
LEMMA UnwrittenKeeps ==
    ASSUME C!TypeOK, CronInv, NEW q \in cronReqs, Pending(q), UNCHANGED crontab,
           UNCHANGED <<shown, jobs, loaded, entries, rowErrors, dialog, editIndex, editEntry,
                       deleteIndex>>,
           (activeTab = "crons") = (activeTab = "crons")',
           \/ q.op # "run" /\ C!Answer(q, "read", crontab[q.server])
           \/ q.op = "run" /\ C!Answer(q, "ok", <<>>)
           \/ C!Answer(q, "failed", <<>>)
    PROVE  CronInv'
<1>0. \E a : /\ cronReqs' = (cronReqs \ {q}) \cup {a}
             /\ a.op = q.op /\ a.server = q.server /\ a.i = q.i /\ a.was = q.was
             /\ a.new = q.new /\ a.mine = q.mine
             /\ \/ a.st = "read" /\ a.op # "run" /\ a.seen = crontab[q.server]
                \/ a.st = "ok" /\ a.op = "run"
                \/ a.st = "failed"
  <2>1. CASE q.op # "run" /\ C!Answer(q, "read", crontab[q.server])
    BY <2>1, Answers
  <2>2. CASE q.op = "run" /\ C!Answer(q, "ok", <<>>)
    BY <2>2, Answers
  <2>3. CASE C!Answer(q, "failed", <<>>)
    BY <2>3, Answers
  <2> QED BY <2>1, <2>2, <2>3
<1>1. PICK a : /\ cronReqs' = (cronReqs \ {q}) \cup {a}
               /\ a.op = q.op /\ a.server = q.server /\ a.i = q.i /\ a.was = q.was
               /\ a.new = q.new /\ a.mine = q.mine
               /\ \/ a.st = "read" /\ a.op # "run" /\ a.seen = crontab[q.server]
                  \/ a.st = "ok" /\ a.op = "run"
                  \/ a.st = "failed"
  BY <1>0
<1>2. jobs' >= jobs /\ jobs' \in Nat
  BY TabsAssumption DEF C!TypeOK, C!Jobs, C!CronAssumption
<1>3. \A r \in cronReqs : Aimed(r)'
  BY <1>2, AimedKept DEF CronInv
<1>4. Aimed(a)'
  <2>1. Aimed(q)'
    BY <1>3
  <2> QED BY <1>1, <2>1 DEF Aimed, Pending, Moves
<1>5. OneEntry'
  BY DEF CronInv, OneEntry
<1>6. q \in Writing /\ loaded => After(a)' = crontab'[shown]
  <2> SUFFICES ASSUME q \in Writing, loaded PROVE After(a)' = crontab'[shown]
    OBVIOUS
  <2>1. After(q) = crontab[shown] /\ q.op # "run" /\ q.st # "ok" /\ a.st # "ok"
    BY <1>1 DEF CronInv, TableInv, Writing, C!Writers, Pending
  <2> QED BY <1>1, <2>1 DEF After
<1> QED BY <1>1, <1>3, <1>4, <1>5, <1>6, HandledKeeps

\* crontab -l, or a run, is answered.
LEMMA ReadKeeps == ASSUME C!TypeOK, CronInv, NEW q \in cronReqs, C!Read(q) PROVE CronInv'
<1>1. /\ Pending(q)
      /\ UNCHANGED <<crontab, shown, jobs, loaded, entries, rowErrors, dialog, editIndex, editEntry,
                     deleteIndex>>
      /\ (activeTab = "crons") = (activeTab = "crons")'
  BY DEF C!Read, Pending, C!page, C!form
<1>2. \/ q.op # "run" /\ C!Answer(q, "read", crontab[q.server])
      \/ q.op = "run" /\ C!Answer(q, "ok", <<>>)
      \/ C!Answer(q, "failed", <<>>)
  BY DEF C!Read, C!Writers
<1> QED BY <1>1, <1>2, UnwrittenKeeps

\* What a request that was read writes.
LEMMA ChangedIs ==
    ASSUME C!TypeOK, CronInv, NEW q \in cronReqs, q.st = "read", q.op \in C!Writers
    PROVE  /\ q.op \in {"toggle", "edit"} =>
                C!Changed(q) = [crontab[q.server] EXCEPT ![q.i] = q.new]
           /\ q.op = "create" => C!Changed(q) = Append(crontab[q.server], q.new)
           /\ q.op = "delete" => C!Changed(q) = C!RemoveAt(crontab[q.server], q.i)
           /\ q.op # "create" => /\ q.i \in DOMAIN q.seen
                                 /\ q.i \in DOMAIN crontab[q.server]
                                 /\ crontab[q.server][q.i] = q.was
<1>1. Aimed(q) /\ q.seen = crontab[q.server] /\ q \in C!Request /\ q.seen \in Seq(C!Entry)
  BY DEF CronInv, Aimed, C!TypeOK, C!Request
<1>2. q.op # "create" => q.i \in DOMAIN q.seen /\ crontab[q.server][q.i] = q.was
  BY <1>1 DEF Aimed, Pending, Moves, C!Writers
<1>3. CASE q.op \in {"toggle", "edit"}
  <2>1. q.new = [q.seen[q.i] EXCEPT !.text = q.new.text, !.on = q.new.on]
    BY <1>1, <1>2, <1>3 DEF Aimed
  <2>2. C!Changed(q) =
          [q.seen EXCEPT ![q.i] = [q.seen[q.i] EXCEPT !.text = q.new.text, !.on = q.new.on]]
    BY <1>1, <1>2, <1>3, EntriesPut DEF C!Changed
  <2>3. C!Changed(q) = [q.seen EXCEPT ![q.i] = q.new]
    BY <2>1, <2>2
  <2> QED BY <1>1, <1>2, <1>3, <2>3
<1>4. CASE q.op \in {"create", "delete"}
  BY <1>1, <1>2, <1>4 DEF C!Changed
<1> QED BY <1>3, <1>4 DEF C!Writers

\* A crontab with one entry more.
LEMMA AddedOnce ==
    ASSUME C!TypeOK, OneEntry, UNCHANGED jobs, NEW s \in Servers, NEW e \in C!Entry,
           e.home = s, e.job \in 1..jobs,
           \A r \in Servers : \A k \in DOMAIN crontab[r] : crontab[r][k].job # e.job,
           crontab' = [crontab EXCEPT ![s] = Append(crontab[s], e)]
    PROVE  /\ OneEntry'
           /\ \A r \in Servers : \A m \in DOMAIN crontab[r] :
                m \in DOMAIN crontab'[r] /\ crontab'[r][m] = crontab[r][m]
           /\ \A r \in Servers : \A m \in DOMAIN crontab'[r] :
                crontab'[r][m] = e \/ \E n \in DOMAIN crontab[r] : crontab'[r][m] = crontab[r][n]
           /\ \E m \in DOMAIN crontab'[s] : crontab'[s][m] = e
<1>0. crontab[s] \in Seq(C!Entry) /\ crontab \in [Servers -> Seq(C!Entry)]
  BY DEF C!TypeOK
<1> DEFINE new == Len(crontab[s]) + 1
<1>1. /\ DOMAIN Append(crontab[s], e) = DOMAIN crontab[s] \cup {new} /\ new \notin DOMAIN crontab[s]
      /\ \A k \in DOMAIN crontab[s] : Append(crontab[s], e)[k] = crontab[s][k]
      /\ Append(crontab[s], e)[new] = e
  BY <1>0, Appended
<1> HIDE DEF new
<1>2. ASSUME NEW r \in Servers
      PROVE  /\ DOMAIN crontab'[r] = DOMAIN crontab[r] \cup (IF r = s THEN {new} ELSE {})
             /\ \A m \in DOMAIN crontab[r] : crontab'[r][m] = crontab[r][m]
             /\ r = s => crontab'[r][new] = e
  <2>1. CASE r # s
    BY <1>0, <2>1
  <2>2. CASE r = s
    <3>1. crontab'[s] = Append(crontab[s], e)
      BY <1>0
    <3> QED BY <1>1, <2>2, <3>1
  <2> QED BY <2>1, <2>2
<1>3. ASSUME NEW r \in Servers, NEW m \in DOMAIN crontab'[r]
      PROVE  \/ m \in DOMAIN crontab[r] /\ crontab'[r][m] = crontab[r][m]
             \/ r = s /\ m = new /\ crontab'[r][m] = e
  BY <1>2, <1>3
<1>4. OneEntry'
  BY <1>3 DEF OneEntry
<1> QED BY <1>2, <1>3, <1>4

\* The changed crontab is written back: the answer still to come makes the table it.
LEMMA WrittenKeeps ==
    ASSUME C!TypeOK, CronInv, NEW q \in cronReqs, q.st = "read", q.op \in C!Writers,
           crontab' = [crontab EXCEPT ![q.server] = C!Changed(q)], C!Answer(q, "ok", <<>>),
           UNCHANGED <<shown, jobs, loaded, entries, rowErrors, dialog, editIndex, editEntry,
                       deleteIndex>>,
           (activeTab = "crons") = (activeTab = "crons")'
    PROVE  CronInv'
<1> DEFINE s == q.server
<1>0. /\ q \in C!Request /\ s \in Servers /\ q.was \in C!Entry /\ q.new \in C!Entry
      /\ crontab[s] \in Seq(C!Entry) /\ crontab \in [Servers -> Seq(C!Entry)]
      /\ shown \in Servers /\ Aimed(q) /\ Pending(q) /\ OneEntry
  BY DEF C!TypeOK, C!Request, CronInv, Pending
<1>1. PICK a : /\ cronReqs' = (cronReqs \ {q}) \cup {a}
               /\ a.op = q.op /\ a.server = q.server /\ a.i = q.i /\ a.was = q.was
               /\ a.new = q.new /\ a.mine = q.mine /\ a.st = "ok"
  BY Answers
<1>2. /\ crontab'[s] = C!Changed(q)
      /\ \A r \in Servers : r # s => crontab'[r] = crontab[r]
  BY <1>0
<1>3. ASSUME q.op \in {"toggle", "edit"}
      PROVE  /\ OneEntry'
             /\ \A r \in Servers :
                  /\ DOMAIN crontab'[r] = DOMAIN crontab[r]
                  /\ \A m \in DOMAIN crontab[r] : crontab'[r][m].job = crontab[r][m].job
  <2>1. q.new = [q.was EXCEPT !.text = q.new.text, !.on = q.new.on]
    BY <1>0, <1>3 DEF Aimed
  <2>2. q.new.home = q.was.home /\ q.new.job = q.was.job
    BY <1>0, <2>1 DEF C!Entry
  <2>3. crontab'[s] = [crontab[s] EXCEPT ![q.i] = q.new]
    BY <1>2, <1>3, ChangedIs
  <2>4. /\ q.i \in DOMAIN crontab[s]
        /\ q.new.home = crontab[s][q.i].home /\ q.new.job = crontab[s][q.i].job
    BY <1>3, <2>2, ChangedIs
  <2>6. s \in Servers /\ OneEntry
    BY <1>0
  <2> HIDE DEF s
  <2>5. /\ OneEntry'
        /\ \A r \in Servers :
             /\ DOMAIN crontab'[r] = DOMAIN crontab[r]
             /\ \A m \in DOMAIN crontab[r] : /\ crontab'[r][m].home = crontab[r][m].home
                                              /\ crontab'[r][m].job = crontab[r][m].job
    BY <1>2, <2>3, <2>4, <2>6, ReplacedOnce
  <2> QED BY <2>5
<1>4. ASSUME q.op = "create"
      PROVE  /\ OneEntry'
             /\ \A r \in Servers : \A m \in DOMAIN crontab[r] :
                  m \in DOMAIN crontab'[r] /\ crontab'[r][m] = crontab[r][m]
             /\ \A r \in Servers : \A m \in DOMAIN crontab'[r] :
                  \/ crontab'[r][m] = q.new
                  \/ \E n \in DOMAIN crontab[r] : crontab'[r][m] = crontab[r][n]
  <2>1. crontab' = [crontab EXCEPT ![s] = Append(crontab[s], q.new)]
    BY <1>4, ChangedIs
  <2>2. /\ q.new.home = s /\ q.new.job \in 1..jobs
        /\ \A r \in Servers : \A k \in DOMAIN crontab[r] : crontab[r][k].job # q.new.job
    BY <1>0, <1>4 DEF Aimed
  <2>3. s \in Servers /\ OneEntry /\ q.new \in C!Entry
    BY <1>0
  <2> QED BY <1>2, <2>1, <2>2, <2>3, AddedOnce, ZenonT(30)
<1>5. ASSUME q.op = "delete"
      PROVE  /\ OneEntry'
             /\ \A r \in Servers : \A m \in DOMAIN crontab'[r] :
                  \E n \in DOMAIN crontab[r] : crontab'[r][m] = crontab[r][n]
  <2>1. crontab' = [crontab EXCEPT ![s] = C!RemoveAt(crontab[s], q.i)] /\ q.i \in DOMAIN crontab[s]
    BY <1>5, ChangedIs
  <2>2. /\ OneEntry'
        /\ \A r \in Servers : \A m \in DOMAIN crontab'[r] :
             \E n \in DOMAIN crontab[r] : crontab'[r][m] = crontab[r][n] /\ (r # s \/ n # q.i)
    <3>1. s \in Servers /\ OneEntry
      BY <1>0
    <3> HIDE DEF s
    <3> QED BY <1>2, <2>1, <3>1, RemovedOnce
  <2> QED BY <2>2
<1>6. OneEntry' /\ q.op \in {"toggle", "edit", "create", "delete"}
  BY <1>3, <1>4, <1>5 DEF C!Writers
<1>7. ASSUME NEW r \in cronReqs, r # q PROVE Aimed(r)'
  <2>0. Aimed(r) /\ r.server \in Servers
    BY DEF CronInv, C!TypeOK, C!Request
  <2>1. ASSUME r.op = "create", Pending(r), NEW t \in Servers, NEW k \in DOMAIN crontab'[t]
        PROVE  crontab'[t][k].job # r.new.job
    <3>1. q.op = "create" => q.new.job # r.new.job
      BY <1>7, <2>1 DEF CronInv, NewJobs
    <3>2. \A u \in Servers : \A m \in DOMAIN crontab[u] : crontab[u][m].job # r.new.job
      BY <2>0, <2>1 DEF Aimed
    <3>3. CASE q.op \in {"toggle", "edit"}
      BY <1>3, <2>1, <3>2, <3>3
    <3>4. CASE q.op = "create"
      BY <1>4, <2>1, <3>1, <3>2, <3>4
    <3>5. CASE q.op = "delete"
      BY <1>5, <2>1, <3>2, <3>5
    <3> QED BY <1>6, <3>3, <3>4, <3>5
  <2>2. CASE r.server # s
    <3>1. crontab'[r.server] = crontab[r.server]
      BY <1>2, <2>0, <2>2
    <3> QED BY <2>0, <2>1, <3>1 DEF Aimed, Pending, Moves
  <2>3. CASE r.server = s
    <3>1. r.op = "run" /\ q.op # "delete"
      BY <1>7, <2>3, WriterAlone DEF CronInv
    <3>2. r.i \in DOMAIN crontab[s] /\ crontab[s][r.i].job = r.was.job
      BY <2>0, <2>3, <3>1 DEF Aimed
    <3>3. r.i \in DOMAIN crontab'[s] /\ crontab'[s][r.i].job = r.was.job
      <4>1. CASE q.op \in {"toggle", "edit"}
        BY <1>0, <1>3, <3>2, <4>1
      <4>2. CASE q.op = "create"
        BY <1>0, <1>4, <3>2, <4>2
      <4> QED BY <1>6, <3>1, <4>1, <4>2
    <3> QED BY <2>0, <2>3, <3>1, <3>3 DEF Aimed, Pending, Moves
  <2> QED BY <2>2, <2>3
<1>8. Aimed(a)'
  BY <1>0, <1>1, <1>6 DEF Aimed, Pending, Moves
<1>9. q \in Writing /\ loaded => After(a)' = crontab'[shown]
  <2> SUFFICES ASSUME q \in Writing, loaded PROVE After(a)' = crontab'[shown]
    OBVIOUS
  <2>1. After(q) = crontab[s] /\ shown = s
    BY DEF CronInv, TableInv, Writing
  <2>2. q.mine /\ Awaited(q)
    BY DEF CronInv, TableInv, OwnWrites
  <2>3. CASE q.op = "toggle"
    <3>1. q.i \in DOMAIN entries /\ entries \in Seq(C!Entry)
      BY <2>2, <2>3 DEF Awaited, Moves, C!TypeOK
    <3>2. crontab[s] = [entries EXCEPT ![q.i] = q.was]
      BY <2>1, <2>3 DEF After
    <3>3. [crontab[s] EXCEPT ![q.i] = q.new] = [entries EXCEPT ![q.i] = q.new]
      BY <3>1, <3>2
    <3>4. After(a)' = [entries EXCEPT ![q.i] = q.new]
      BY <1>1, <2>3 DEF After
    <3>5. C!Changed(q) = [crontab[s] EXCEPT ![q.i] = q.new]
      BY <2>3, ChangedIs
    <3> QED BY <1>2, <2>1, <3>3, <3>4, <3>5
  <2>4. CASE q.op \in {"edit", "create", "delete"}
    <3>1. crontab[s] = entries
      BY <2>1, <2>4 DEF After
    <3>2. CASE q.op = "edit"
      BY <1>1, <1>2, <2>1, <3>1, <3>2, ChangedIs DEF After
    <3>3. CASE q.op = "create"
      BY <1>1, <1>2, <2>1, <3>1, <3>3, ChangedIs DEF After
    <3>4. CASE q.op = "delete"
      BY <1>1, <1>2, <2>1, <3>1, <3>4, ChangedIs DEF After
    <3> QED BY <2>4, <3>2, <3>3, <3>4
  <2> QED BY <1>6, <2>3, <2>4
<1>10. q \notin Writing => UNCHANGED crontab[shown]
  BY <1>0, <1>2 DEF Writing
<1> QED BY <1>1, <1>6, <1>7, <1>8, <1>9, <1>10, HandledKeeps

\* The second command of a change, carried out or not.
LEMMA WriteKeeps ==
    ASSUME C!TypeOK, CronInv, NoCronSlips, NEW q \in cronReqs, C!Write(q) PROVE CronInv'
<1>1. /\ q.st = "read" /\ q.op \in C!Writers /\ Pending(q)
      /\ UNCHANGED <<shown, jobs, loaded, entries, rowErrors, dialog, editIndex, editEntry,
                     deleteIndex>>
      /\ (activeTab = "crons") = (activeTab = "crons")'
  BY DEF C!Write, Pending, C!page, C!form
<1>2. ~(q.op # "create" /\ q.i \notin DOMAIN q.seen)
  BY <1>1, ChangedIs
<1>3. \/ /\ crontab' = [crontab EXCEPT ![q.server] = C!Changed(q)]
         /\ C!Answer(q, "ok", <<>>)
      \/ UNCHANGED crontab /\ C!Answer(q, "failed", <<>>)
  BY <1>2 DEF C!Write, C!Slip, NoCronSlips
<1> QED BY <1>1, <1>3, WrittenKeeps, UnwrittenKeeps

----------------------------------------------------------------------------
(* The Cron Jobs tab: the answers                                           *)

\* An answer the page makes nothing of.
LEMMA DropKeeps ==
    ASSUME C!TypeOK, CronInv, NEW q \in cronReqs, cronReqs' = cronReqs \ {q},
           UNCHANGED <<shown, crontab, jobs, loaded, entries, dialog, editIndex, editEntry,
                       deleteIndex>>,
           (activeTab = "crons") = (activeTab = "crons")',
           C!ErrorsStayWithTheirRow', DOMAIN rowErrors' # {} => loaded,
           q \in Writing /\ loaded => entries = crontab[shown]
    PROVE  CronInv'
<1>1. Commuting' /\ NewJobs' /\ OneList'
  BY FewerKeep DEF CronInv
<1>2. jobs' >= jobs /\ jobs' \in Nat
  BY TabsAssumption DEF C!TypeOK, C!Jobs, C!CronAssumption
<1>3. ASSUME NEW r \in cronReqs' PROVE Aimed(r)' /\ Awaited(r)'
  BY <1>2, AimedKept, AwaitedKept DEF CronInv
<1>4. OneEntry' /\ FormInv'
  BY DEF CronInv, OneEntry, FormInv
<1>5. Writing' = Writing \ {q}
  BY DEF Writing
<1>6. OwnWrites'
  BY <1>5 DEF CronInv, OwnWrites
<1>7. \A r \in Writing' : After(r)' = After(r)
  BY DEF After
<1>8. TableInv'
  <2>1. CASE q \in Writing
    <3>1. ASSUME NEW r \in Writing, r # q PROVE FALSE
      <4>1. r.op = "run" /\ r.op \in C!Writers
        BY <2>1, <3>1, WriterAlone DEF Writing, CronInv
      <4> QED BY <4>1 DEF C!Writers
    <3>2. Writing' = {}
      BY <1>5, <3>1
    <3> QED BY <2>1, <3>2 DEF CronInv, TableInv
  <2>2. CASE q \notin Writing
    <3>1. Writing' = Writing
      BY <1>5, <2>2
    <3> QED BY <1>7, <3>1 DEF CronInv, TableInv
  <2> QED BY <2>1, <2>2
<1> QED BY <1>1, <1>3, <1>4, <1>6, <1>8 DEF CronInv

\* An answer to a change the page has made.
LEMMA DoneKeeps ==
    ASSUME C!TypeOK, CronInv, loaded, NEW q \in Writing, cronReqs' = cronReqs \ {q},
           UNCHANGED <<shown, crontab, jobs, loaded>>,
           (activeTab = "crons") = (activeTab = "crons")',
           entries' = crontab[shown], FormInv', C!ErrorsStayWithTheirRow',
           q.op = "delete" \/ \A k \in DOMAIN entries :
                                k \in DOMAIN entries' /\ entries'[k].job = entries[k].job
    PROVE  CronInv'
<1>1. Commuting' /\ NewJobs' /\ OneList'
  BY FewerKeep DEF CronInv
<1>2. jobs' >= jobs /\ jobs' \in Nat /\ shown \in Servers
  BY TabsAssumption DEF C!TypeOK, C!Jobs, C!CronAssumption
<1>3. ASSUME NEW r \in cronReqs' PROVE Aimed(r)' /\ Awaited(r)'
  <2>0. r \in cronReqs /\ r # q
    OBVIOUS
  <2>1. Aimed(r)'
    BY <1>2, <2>0, AimedKept DEF CronInv
  <2>2. CASE r.mine
    <3>1. Awaited(r) /\ r.server = q.server
      BY <2>0, <2>2 DEF CronInv, Awaited, Writing
    <3>2. r.op = "run" /\ q.op # "delete"
      BY <2>0, <3>1, WriterAlone DEF CronInv, Writing
    <3> QED BY <2>1, <3>1, <3>2 DEF Awaited, Moves
  <2>3. CASE ~r.mine
    BY <2>1, <2>3 DEF Awaited
  <2> QED BY <2>2, <2>3
<1>4. OneEntry'
  BY DEF CronInv, OneEntry
<1>5. ASSUME NEW r \in Writing, r # q PROVE FALSE
  <2>1. r.op = "run" /\ r.op \in C!Writers
    BY <1>5, WriterAlone DEF Writing, CronInv
  <2> QED BY <2>1 DEF C!Writers
<1>6. Writing' = {}
  BY <1>5 DEF Writing
<1>7. OwnWrites'
  BY <1>6 DEF OwnWrites
<1>8. TableInv'
  BY <1>2, <1>6 DEF CronInv, TableInv, OneEntry
<1> QED BY <1>1, <1>3, <1>4, <1>7, <1>8 DEF CronInv

\* The list the tab asked for when it opened.
LEMMA ListKeeps == ASSUME C!TypeOK, CronInv, NEW q \in cronReqs, C!ListDone(q) PROVE CronInv'
<1>0. /\ q.op = "list" /\ cronReqs' = cronReqs \ {q}
      /\ UNCHANGED <<shown, crontab, jobs, rowErrors, dialog, editIndex, editEntry, deleteIndex>>
      /\ (activeTab = "crons") = (activeTab = "crons")'
  BY DEF C!ListDone, C!form
<1>1. CASE q.mine /\ q.st = "read"
  <2>1. /\ loaded' = TRUE /\ entries' = crontab[shown] /\ ~loaded /\ activeTab = "crons"
        /\ shown \in Servers /\ q.server = shown
    <3>1. Awaited(q) /\ Aimed(q) /\ shown \in Servers
      BY DEF CronInv, C!TypeOK
    <3>2. loaded' = TRUE /\ entries' = q.seen
      BY <1>1 DEF C!ListDone
    <3>3. ~loaded /\ activeTab = "crons" /\ q.server = shown
      BY <1>0, <1>1, <3>1 DEF Awaited
    <3>4. q.seen = crontab[q.server]
      BY <1>0, <1>1, <3>1 DEF Aimed
    <3> QED BY <3>1, <3>2, <3>3, <3>4
  <2>2. Commuting' /\ NewJobs' /\ OneList'
    BY <1>0, FewerKeep DEF CronInv
  <2>3. jobs' >= jobs /\ jobs' \in Nat
    BY <1>0, TabsAssumption DEF C!TypeOK, C!Jobs, C!CronAssumption
  <2>4. ASSUME NEW r \in cronReqs' PROVE Aimed(r)' /\ Awaited(r)'
    <3>1. r \in cronReqs /\ r # q
      BY <1>0
    <3>2. ~r.mine
      BY <1>0, <1>1, <2>1, <3>1 DEF CronInv, Awaited, OneList
    <3> QED BY <1>0, <2>3, <3>1, <3>2, AimedKept DEF CronInv, Awaited
  <2>5. ASSUME NEW r \in Writing PROVE FALSE
    BY <1>0, <2>1 DEF CronInv, Commuting, C!Conflict, Writing, C!Writers
  <2>6. Writing' = {}
    BY <1>0, <2>5 DEF Writing
  <2>7. TableInv' /\ OwnWrites' /\ OneEntry'
    BY <1>0, <2>1, <2>6 DEF CronInv, TableInv, OwnWrites, OneEntry
  <2>8. FormInv' /\ C!ErrorsStayWithTheirRow'
    BY <1>0, <2>1 DEF CronInv, FormInv, C!ErrorsStayWithTheirRow
  <2> QED BY <2>2, <2>4, <2>7, <2>8 DEF CronInv
<1>2. CASE ~(q.mine /\ q.st = "read")
  <2>1. UNCHANGED <<loaded, entries>>
    BY <1>2 DEF C!ListDone
  <2>2. C!ErrorsStayWithTheirRow' /\ (DOMAIN rowErrors' # {} => loaded)
    BY <1>0, <2>1 DEF CronInv, C!ErrorsStayWithTheirRow, FormInv
  <2>3. q \notin Writing
    BY <1>0 DEF Writing, C!Writers
  <2> QED BY <1>0, <2>1, <2>2, <2>3, DropKeeps
<1> QED BY <1>1, <1>2

\* An answer to a tab that is gone.
LEMMA ForgottenKeeps ==
    ASSUME C!TypeOK, CronInv, NEW q \in cronReqs, ~q.mine, cronReqs' = cronReqs \ {q},
           UNCHANGED <<shown, crontab, jobs, loaded, entries, rowErrors, dialog, editIndex,
                       editEntry, deleteIndex>>,
           (activeTab = "crons") = (activeTab = "crons")'
    PROVE  CronInv'
<1>1. C!ErrorsStayWithTheirRow' /\ (DOMAIN rowErrors' # {} => loaded)
  BY DEF CronInv, C!ErrorsStayWithTheirRow, FormInv
<1>2. ~(q \in Writing /\ loaded)
  BY DEF CronInv, TableInv, OwnWrites
<1> QED BY <1>1, <1>2, DropKeeps

\* A failed operation marks the row it was made on.
LEMMA FailedKeeps ==
    ASSUME CronInv, NEW q, q.i \in DOMAIN entries', entries'[q.i].job = q.was.job,
           \A k \in DOMAIN entries : k \in DOMAIN entries' /\ entries'[k].job = entries[k].job,
           C!Failed(q) \/ UNCHANGED rowErrors
    PROVE  C!ErrorsStayWithTheirRow'
BY DEF CronInv, C!ErrorsStayWithTheirRow, C!Failed

\* The toggle is confirmed, or taken back.
LEMMA ToggleDoneKeeps ==
    ASSUME C!TypeOK, CronInv, NoCronSlips, NEW q \in cronReqs, C!ToggleDone(q) PROVE CronInv'
<1>0. /\ q.op = "toggle" /\ q.st \in {"ok", "failed"} /\ cronReqs' = cronReqs \ {q}
      /\ UNCHANGED <<shown, crontab, jobs, loaded, dialog, editIndex, editEntry, deleteIndex>>
      /\ (activeTab = "crons") = (activeTab = "crons")'
  BY DEF C!ToggleDone, C!form
<1>1. CASE q.mine
  <2>1. /\ loaded /\ q \in Writing /\ q.i \in DOMAIN entries /\ entries[q.i].job = q.was.job
        /\ ~dialog /\ deleteIndex = 0 /\ q \in C!Request /\ entries \in Seq(C!Entry)
    BY <1>0, <1>1 DEF CronInv, Awaited, Writing, C!Writers, Moves, C!ToggleDone, C!Slip,
                      NoCronSlips, C!Held, C!TypeOK
  <2> DEFINE e == IF q.st = "ok" THEN q.new ELSE q.was
  <2>2. e \in C!Entry /\ e.job = q.was.job
    <3>1. q.new = [q.was EXCEPT !.text = q.new.text, !.on = q.new.on]
      BY <1>0 DEF CronInv, Aimed
    <3>2. q.new \in C!Entry /\ q.was \in C!Entry
      BY <2>1 DEF C!Request
    <3>3. q.new.job = q.was.job
      BY <3>1, <3>2 DEF C!Entry
    <3> QED BY <3>2, <3>3
  <2>3. entries' = [entries EXCEPT ![q.i] = e]
    BY <1>0, <1>1, <2>1 DEF C!ToggleDone, C!Put
  <2>4. entries' = crontab[shown]
    <3>1. After(q) = crontab[shown]
      BY <2>1 DEF CronInv, TableInv
    <3> QED BY <1>0, <2>3, <3>1 DEF After
  <2> HIDE DEF e
  <2>5. /\ \A k \in DOMAIN entries : k \in DOMAIN entries' /\ entries'[k].job = entries[k].job
        /\ q.i \in DOMAIN entries' /\ entries'[q.i].job = q.was.job
    BY <2>1, <2>2, <2>3
  <2>6. C!Failed(q) \/ UNCHANGED rowErrors
    BY <1>1 DEF C!ToggleDone
  <2>7. C!ErrorsStayWithTheirRow'
    BY <2>5, <2>6, FailedKeeps
  <2>8. FormInv'
    BY <1>0, <2>1 DEF FormInv
  <2> QED BY <1>0, <2>1, <2>4, <2>5, <2>7, <2>8, DoneKeeps
<1>2. CASE ~q.mine
  <2>1. UNCHANGED <<entries, rowErrors>>
    BY <1>2 DEF C!ToggleDone
  <2> QED BY <1>0, <1>2, <2>1, ForgottenKeeps
<1> QED BY <1>1, <1>2

\* The deletion removes its row and renumbers the errors below.
LEMMA DeleteDoneKeeps ==
    ASSUME C!TypeOK, CronInv, NoCronSlips, NEW q \in cronReqs, C!DeleteDone(q) PROVE CronInv'
<1>0. /\ q.op = "delete" /\ q.st \in {"ok", "failed"} /\ cronReqs' = cronReqs \ {q}
      /\ UNCHANGED <<shown, crontab, jobs, loaded, dialog, editIndex, editEntry, deleteIndex>>
      /\ (activeTab = "crons") = (activeTab = "crons")'
  BY DEF C!DeleteDone, C!form
<1>1. CASE q.mine
  <2>1. /\ loaded /\ q \in Writing /\ q.i \in DOMAIN entries /\ entries[q.i].job = q.was.job
        /\ ~dialog /\ deleteIndex = 0 /\ entries \in Seq(C!Entry)
    BY <1>0, <1>1 DEF CronInv, Awaited, Writing, C!Writers, Moves, C!DeleteDone, C!Slip,
                      NoCronSlips, C!Held, C!TypeOK
  <2>2. After(q) = crontab[shown]
    BY <2>1 DEF CronInv, TableInv
  <2>3. FormInv'
    BY <1>0, <2>1 DEF FormInv
  <2>4. entries' = crontab[shown] /\ C!ErrorsStayWithTheirRow'
    <3>1. CASE q.st = "ok"
      <4>1. C!DeleteCron(q.i) /\ entries' = C!RemoveAt(entries, q.i)
        BY <1>1, <2>1, <3>1 DEF C!DeleteDone, C!DeleteCron
      <4>2. entries' = crontab[shown]
        BY <1>0, <2>2, <3>1, <4>1 DEF After
      <4>3. /\ DOMAIN entries' = 1..(Len(entries) - 1)
            /\ \A k \in 1..(Len(entries) - 1) :
                 entries'[k] = IF k < q.i THEN entries[k] ELSE entries[k + 1]
        BY <2>1, <4>1, Removed
      <4>4. \A k \in DOMAIN rowErrors : k \in 1..Len(entries) /\ entries[k].job = rowErrors[k]
        BY <2>1 DEF CronInv, C!ErrorsStayWithTheirRow
      <4>5. ASSUME NEW k \in DOMAIN rowErrors'
            PROVE  k \in DOMAIN entries' /\ entries'[k].job = rowErrors'[k]
        <5>0. q.i \in 1..Len(entries) /\ Len(entries) \in Nat
          BY <2>1
        <5>1. CASE k \in DOMAIN rowErrors /\ k < q.i
          <6>1. rowErrors'[k] = rowErrors[k]
            BY <4>1, <5>1 DEF C!DeleteCron
          <6>2. k \in 1..(Len(entries) - 1)
            BY <4>4, <5>0, <5>1
          <6> QED BY <4>3, <4>4, <5>1, <6>1, <6>2
        <5>2. ASSUME NEW m \in DOMAIN rowErrors, m > q.i, k = m - 1
              PROVE  k \in DOMAIN entries' /\ entries'[k].job = rowErrors'[k]
          <6>1. k \in 1..(Len(entries) - 1) /\ ~(k < q.i) /\ k + 1 = m
            BY <4>4, <5>0, <5>2
          <6>2. rowErrors'[k] = rowErrors[m]
            BY <4>1, <6>1 DEF C!DeleteCron
          <6>3. entries'[k] = entries[m]
            BY <4>3, <6>1
          <6> QED BY <4>3, <4>4, <5>2, <6>1, <6>2, <6>3
        <5>3. \/ k \in DOMAIN rowErrors /\ k < q.i
              \/ \E m \in DOMAIN rowErrors : m > q.i /\ k = m - 1
          BY <4>1 DEF C!DeleteCron
        <5> QED BY <5>1, <5>2, <5>3
      <4> QED BY <4>2, <4>5 DEF C!ErrorsStayWithTheirRow
    <3>2. CASE q.st = "failed"
      <4>1. UNCHANGED entries /\ C!Failed(q)
        BY <1>1, <3>2 DEF C!DeleteDone
      <4>2. C!ErrorsStayWithTheirRow'
        BY <2>1, <4>1, FailedKeeps
      <4> QED BY <1>0, <2>2, <3>2, <4>1, <4>2 DEF After
    <3> QED BY <1>0, <3>1, <3>2
  <2> QED BY <1>0, <2>1, <2>3, <2>4, DoneKeeps
<1>2. CASE ~q.mine
  <2>1. UNCHANGED <<entries, rowErrors>>
    BY <1>2 DEF C!DeleteDone
  <2> QED BY <1>0, <1>2, <2>1, ForgottenKeeps
<1> QED BY <1>1, <1>2

\* A run changes no row.
LEMMA RunDoneKeeps == ASSUME C!TypeOK, CronInv, NEW q \in cronReqs, C!RunDone(q) PROVE CronInv'
<1>0. /\ q.op = "run" /\ cronReqs' = cronReqs \ {q} /\ q \notin Writing
      /\ UNCHANGED <<shown, crontab, jobs, loaded, entries, dialog, editIndex, editEntry,
                     deleteIndex>>
      /\ (activeTab = "crons") = (activeTab = "crons")'
  BY DEF C!RunDone, C!form, Writing, C!Writers
<1>1. CASE q.mine
  <2>1. loaded /\ q.i \in DOMAIN entries /\ entries[q.i].job = q.was.job
    BY <1>0, <1>1 DEF CronInv, Awaited
  <2>2. C!Failed(q) \/ UNCHANGED rowErrors
    BY <1>1 DEF C!RunDone
  <2>3. C!ErrorsStayWithTheirRow'
    BY <1>0, <2>1, <2>2, FailedKeeps
  <2> QED BY <1>0, <2>1, <2>3, DropKeeps
<1>2. CASE ~q.mine
  <2>1. UNCHANGED rowErrors
    BY <1>2 DEF C!RunDone
  <2> QED BY <1>0, <1>2, <2>1, ForgottenKeeps
<1> QED BY <1>1, <1>2

\* The saved entry takes its place, or the last one.
LEMMA SaveDoneKeeps == ASSUME C!TypeOK, CronInv, NEW q \in cronReqs, C!SaveDone(q) PROVE CronInv'
<1>0. /\ q.op \in {"edit", "create"} /\ q.st \in {"ok", "failed"} /\ cronReqs' = cronReqs \ {q}
      /\ UNCHANGED <<shown, crontab, jobs, loaded, rowErrors, deleteIndex>>
      /\ (activeTab = "crons") = (activeTab = "crons")'
  BY DEF C!SaveDone
<1>1. CASE q.mine /\ q.st = "ok"
  <2>1. /\ loaded /\ q \in Writing /\ q \in C!Request /\ entries \in Seq(C!Entry)
        /\ q.op = "edit" => /\ editIndex = q.i /\ q.i \in DOMAIN entries
                            /\ entries[q.i].job = q.was.job
        /\ q.op = "create" => editIndex = 0
    BY <1>0, <1>1 DEF CronInv, Awaited, Writing, C!Writers, Moves, C!TypeOK
  <2>2. After(q) = crontab[shown] /\ q.new \in C!Entry /\ q.was \in C!Entry
    BY <2>1 DEF CronInv, TableInv, C!Request
  <2>3. FormInv'
    BY <1>0, <1>1, <2>1 DEF FormInv, C!SaveDone, C!CloseForm
  <2>4. /\ entries' = crontab[shown]
        /\ \A k \in DOMAIN entries : k \in DOMAIN entries' /\ entries'[k].job = entries[k].job
    <3>1. CASE q.op = "edit"
      <4>1. entries' = [entries EXCEPT ![q.i] = q.new]
        BY <1>1, <2>1, <3>1 DEF C!SaveDone, C!Put
      <4>2. q.new = [q.was EXCEPT !.text = q.new.text, !.on = q.new.on]
        BY <3>1 DEF CronInv, Aimed
      <4>3. q.new.job = q.was.job
        BY <2>2, <4>2 DEF C!Entry
      <4> QED BY <1>1, <2>1, <2>2, <3>1, <4>1, <4>3 DEF After
    <3>2. CASE q.op = "create"
      <4>1. entries' = Append(entries, q.new)
        BY <1>1, <2>1, <3>2 DEF C!SaveDone
      <4>2. \A k \in DOMAIN entries : k \in DOMAIN entries' /\ entries'[k] = entries[k]
        BY <2>1, <2>2, <4>1, Appended
      <4> QED BY <1>1, <2>2, <3>2, <4>1, <4>2 DEF After
    <3> QED BY <1>0, <3>1, <3>2
  <2>5. C!ErrorsStayWithTheirRow'
    BY <1>0, <2>4 DEF CronInv, C!ErrorsStayWithTheirRow
  <2> QED BY <1>0, <2>1, <2>3, <2>4, <2>5, DoneKeeps
<1>2. CASE ~(q.mine /\ q.st = "ok")
  <2>1. UNCHANGED <<entries, dialog, editIndex, editEntry>>
    BY <1>2 DEF C!SaveDone, C!form
  <2>2. C!ErrorsStayWithTheirRow' /\ (DOMAIN rowErrors' # {} => loaded)
    BY <1>0, <2>1 DEF CronInv, C!ErrorsStayWithTheirRow, FormInv
  <2>3. q \in Writing /\ loaded => entries = crontab[shown]
    <3> SUFFICES ASSUME q \in Writing, loaded PROVE entries = crontab[shown]
      OBVIOUS
    <3>1. q.mine /\ After(q) = crontab[shown]
      BY DEF CronInv, TableInv, OwnWrites
    <3> QED BY <1>0, <1>2, <3>1 DEF After
  <2> QED BY <1>0, <2>1, <2>2, <2>3, DropKeeps
<1> QED BY <1>1, <1>2

\* Initially the tab is closed, and jobs are numbered by their rows.
LEMMA CronInitHolds == ASSUME C!Init PROVE CronInv
<1>0. /\ activeTab # "crons" /\ loaded = FALSE /\ entries = <<>> /\ DOMAIN rowErrors = {}
      /\ dialog = FALSE /\ deleteIndex = 0 /\ cronReqs = {} /\ jobs \in Nat
  BY TabsAssumption DEF C!Init, C!CronAssumption
<1>1. PICK t \in Texts : crontab = [s \in Servers |-> IF s # shown THEN <<>>
         ELSE [k \in 1..jobs |-> [home |-> s, job |-> k, text |-> t, on |-> TRUE]]]
  BY DEF C!Init
<1>2. ASSUME NEW s \in Servers, NEW k \in DOMAIN crontab[s]
      PROVE  s = shown /\ k \in 1..jobs /\ crontab[s][k].home = s /\ crontab[s][k].job = k
  <2>1. CASE s # shown
    <3>1. crontab[s] = <<>>
      BY <1>1, <2>1
    <3> QED BY <1>2, <3>1
  <2>2. CASE s = shown
    <3>1. crontab[s] = [j \in 1..jobs |-> [home |-> s, job |-> j, text |-> t, on |-> TRUE]]
      BY <1>1, <2>2
    <3> QED BY <1>2, <2>2, <3>1
  <2> QED BY <2>1, <2>2
<1>3. OneEntry
  BY <1>2 DEF OneEntry
<1> QED BY <1>0, <1>3 DEF CronInv, Commuting, NewJobs, OneList, TableInv, FormInv, OwnWrites,
                          C!ErrorsStayWithTheirRow

\* The invariant is inductive.
LEMMA CronKeeps == ASSUME C!TypeOK, CronInv, NoCronSlips, [C!Next]_C!vars PROVE CronInv'
<1>1. CASE C!UserStep
  BY <1>1, DeleteKeeps, DialogSteps, SaveKeeps, ToggleKeeps, RunKeeps DEF C!UserStep
<1>2. ASSUME NEW q \in cronReqs, C!Handled(q) PROVE CronInv'
  BY <1>2, ReadKeeps, WriteKeeps DEF C!Handled
<1>3. ASSUME NEW q \in cronReqs, C!Answered(q) PROVE CronInv'
  BY <1>3, ListKeeps, ToggleDoneKeeps, DeleteDoneKeeps, RunDoneKeeps, SaveDoneKeeps DEF C!Answered
<1>4. ASSUME NEW s \in Servers, C!Navigate(s) PROVE CronInv'
  BY <1>4, NavigateKeeps
<1> QED
  BY <1>1, <1>2, <1>3, <1>4, MountKeeps, UnmountKeeps, OtherWritesKeeps, StutterKeeps
     DEF C!Next, C!RequestStep

\* The invariant of the tab.
LEMMA CronsAreRight == ASSUME NoCronSlips PROVE C!Spec => [](C!TypeOK /\ CronInv)
<1>1. C!Init => C!TypeOK /\ CronInv
  BY CronInitTyped, CronInitHolds
<1>2. C!TypeOK /\ CronInv /\ [C!Next]_C!vars => (C!TypeOK /\ CronInv)'
  BY CronTyped, CronKeeps
<1> QED BY <1>1, <1>2, PTL DEF C!Spec

----------------------------------------------------------------------------
(* The Cron Jobs tab: what a request changes                                *)

\* The entries of all crontabs.
LEMMA EntriesAre ==
    /\ \A e : e \in C!Entries <=> \E s \in Servers : \E k \in DOMAIN crontab[s] : e = crontab[s][k]
    /\ \A e : e \in C!Entries' <=>
                \E s \in Servers : \E k \in DOMAIN crontab'[s] : e = crontab'[s][k]
BY DEF C!Entries

\* What is written back changes the entry picked and no other.
LEMMA WriteHits ==
    ASSUME C!TypeOK, CronInv, NEW q \in cronReqs, q.st = "read", q.op \in C!Writers,
           crontab' = [crontab EXCEPT ![q.server] = C!Changed(q)], UNCHANGED jobs
    PROVE  C!Entries' = CASE q.op = "create" -> C!Entries \cup {q.new}
                          [] q.op = "delete" -> {e \in C!Entries : e.job # q.was.job}
                          [] OTHER -> {IF e.job = q.was.job THEN q.new ELSE e : e \in C!Entries}
<1> DEFINE s == q.server
<1>0. /\ q \in C!Request /\ s \in Servers /\ q.was \in C!Entry /\ q.new \in C!Entry
      /\ crontab \in [Servers -> Seq(C!Entry)] /\ Aimed(q) /\ Pending(q) /\ OneEntry
  BY DEF C!TypeOK, C!Request, CronInv, Pending
<1>1. /\ crontab'[s] = C!Changed(q)
      /\ \A r \in Servers : r # s => crontab'[r] = crontab[r]
  BY <1>0
<1>2. CASE q.op = "create"
  <2>1. crontab' = [crontab EXCEPT ![s] = Append(crontab[s], q.new)]
    BY <1>2, ChangedIs
  <2>2. /\ q.new.home = s /\ q.new.job \in 1..jobs
        /\ \A r \in Servers : \A k \in DOMAIN crontab[r] : crontab[r][k].job # q.new.job
    BY <1>0, <1>2 DEF Aimed
  <2>3. /\ \A r \in Servers : \A m \in DOMAIN crontab[r] :
             m \in DOMAIN crontab'[r] /\ crontab'[r][m] = crontab[r][m]
        /\ \A r \in Servers : \A m \in DOMAIN crontab'[r] :
             crontab'[r][m] = q.new \/ \E n \in DOMAIN crontab[r] : crontab'[r][m] = crontab[r][n]
        /\ \E m \in DOMAIN crontab'[s] : crontab'[s][m] = q.new
    <3>1. s \in Servers /\ OneEntry /\ q.new \in C!Entry
      BY <1>0
    <3> QED BY <2>1, <2>2, <3>1, AddedOnce, ZenonT(30)
  <2>4. \A e : e \in C!Entries' <=> e \in C!Entries \cup {q.new}
    BY <1>0, <2>3, EntriesAre
  <2>5. C!Entries' = C!Entries \cup {q.new}
    BY <2>4
  <2> QED BY <1>2, <2>5
<1>3. CASE q.op \in {"toggle", "edit", "delete"}
  <2>1. /\ q.i \in DOMAIN crontab[s] /\ crontab[s][q.i] = q.was
    BY <1>3, ChangedIs DEF C!Writers
  <2>2. \A r \in Servers : \A m \in DOMAIN crontab[r] :
          crontab[r][m].job = q.was.job <=> r = s /\ m = q.i
    BY <1>0, <2>1 DEF OneEntry
  <2>3. CASE q.op = "delete"
    <3>1. crontab' = [crontab EXCEPT ![s] = C!RemoveAt(crontab[s], q.i)]
      BY <2>3, ChangedIs
    <3>2. /\ \A r \in Servers : \A m \in DOMAIN crontab'[r] :
               \E n \in DOMAIN crontab[r] :
                 crontab'[r][m] = crontab[r][n] /\ (r # s \/ n # q.i)
          /\ \A r \in Servers : \A n \in DOMAIN crontab[r] :
               r # s \/ n # q.i => \E m \in DOMAIN crontab'[r] : crontab'[r][m] = crontab[r][n]
      <4>1. s \in Servers /\ OneEntry /\ q.i \in DOMAIN crontab[s]
        BY <1>0, <2>1
      <4> HIDE DEF s
      <4> QED BY <3>1, <4>1, RemovedOnce, ZenonT(30)
    <3>3. \A e : e \in C!Entries' <=> e \in C!Entries /\ e.job # q.was.job
      BY <2>2, <3>2, EntriesAre
    <3>4. C!Entries' = {e \in C!Entries : e.job # q.was.job}
      BY <3>3
    <3> QED BY <2>3, <3>4
  <2>4. CASE q.op \in {"toggle", "edit"}
    <3>1. q.new = [q.was EXCEPT !.text = q.new.text, !.on = q.new.on]
      BY <1>0, <2>4 DEF Aimed
    <3>2. q.new.home = q.was.home /\ q.new.job = q.was.job
      BY <1>0, <3>1 DEF C!Entry
    <3>3. crontab'[s] = [crontab[s] EXCEPT ![q.i] = q.new]
      BY <1>1, <2>4, ChangedIs
    <3>4. /\ q.new.home = crontab[s][q.i].home /\ q.new.job = crontab[s][q.i].job
          /\ s \in Servers /\ OneEntry
      BY <1>0, <2>1, <3>2
    <3> HIDE DEF s
    <3>5. /\ \A r \in Servers : DOMAIN crontab'[r] = DOMAIN crontab[r]
          /\ \A r \in Servers : \A m \in DOMAIN crontab[r] :
               crontab'[r][m] = IF r = s /\ m = q.i THEN q.new ELSE crontab[r][m]
      BY <1>1, <2>1, <3>3, <3>4, ReplacedOnce
    <3>6. \A r \in Servers : \A m \in DOMAIN crontab[r] :
            crontab'[r][m] = IF crontab[r][m].job = q.was.job THEN q.new ELSE crontab[r][m]
      BY <2>2, <3>5
    <3>7. \A e : e \in C!Entries' <=>
                   \E f \in C!Entries : e = IF f.job = q.was.job THEN q.new ELSE f
      BY <3>5, <3>6, EntriesAre
    <3>8. C!Entries' = {IF e.job = q.was.job THEN q.new ELSE e : e \in C!Entries}
      BY <3>7
    <3> QED BY <2>4, <3>8
  <2> QED BY <1>3, <2>3, <2>4
<1> QED BY <1>2, <1>3 DEF C!Writers

\* What a request does on its server reaches the entry picked.
LEMMA HandledHits ==
    ASSUME C!TypeOK, CronInv, NoCronSlips, NEW q \in cronReqs, C!Handled(q)
    PROVE  /\ crontab' # crontab =>
                C!Entries' = CASE q.op = "create" -> C!Entries \cup {q.new}
                               [] q.op = "delete" -> {e \in C!Entries : e.job # q.was.job}
                               [] OTHER -> {IF e.job = q.was.job THEN q.new ELSE e :
                                              e \in C!Entries}
           /\ (q.op = "run" /\ q.i \in DOMAIN crontab[q.server]) =>
                crontab[q.server][q.i].job = q.was.job
<1>1. q.op = "run" => crontab[q.server][q.i].job = q.was.job
  BY DEF CronInv, Aimed
<1>2. CASE C!Read(q)
  BY <1>1, <1>2 DEF C!Read
<1>3. CASE C!Write(q)
  <2>1. q.st = "read" /\ q.op \in C!Writers /\ UNCHANGED jobs
    BY <1>3 DEF C!Write
  <2>2. ~(q.op # "create" /\ q.i \notin DOMAIN q.seen)
    BY <2>1, ChangedIs
  <2>3. crontab' # crontab => crontab' = [crontab EXCEPT ![q.server] = C!Changed(q)]
    BY <1>3, <2>2 DEF C!Write
  <2> QED BY <1>1, <2>1, <2>3, WriteHits
<1> QED BY <1>2, <1>3 DEF C!Handled

----------------------------------------------------------------------------
(* The Cron Jobs tab: the server of a row                                   *)

Homes(f, s) == \A k \in DOMAIN f : f[k].home = s

\* Every entry the tab holds, or has in flight, is of the server it is used for.
HomeInv ==
  /\ \A s \in Servers : Homes(crontab[s], s)
  /\ \A q \in cronReqs : /\ q.op \in Moves \cup {"run"} => q.was.home = q.server
                         /\ q.op \in {"toggle", "edit", "create"} => q.new.home = q.server
                         /\ Homes(q.seen, q.server)
                         /\ q.mine => activeTab = "crons" /\ q.server = shown
  /\ Homes(entries, shown) /\ (editIndex # 0 => editEntry.home = shown)
  /\ activeTab # "crons" => entries = <<>> /\ editIndex = 0 /\ ~loaded /\ ~dialog

\* Changes that leave the entries at home.
LEMMA HomesKept ==
    ASSUME NEW f \in Seq(C!Entry), NEW s, Homes(f, s)
    PROVE  /\ \A i \in DOMAIN f : Homes(C!RemoveAt(f, i), s)
           /\ \A e \in C!Entry, i \in DOMAIN f : e.home = s => Homes([f EXCEPT ![i] = e], s)
           /\ \A e \in C!Entry : e.home = s => Homes(Append(f, e), s)
           /\ \A i \in DOMAIN f : \A t, b : Homes([f EXCEPT ![i].text = t, ![i].on = b], s)
           /\ \A i \in DOMAIN f : \A b : Homes([f EXCEPT ![i].on = b], s)
<1>1. ASSUME NEW i \in DOMAIN f PROVE Homes(C!RemoveAt(f, i), s)
  <2>1. /\ DOMAIN C!RemoveAt(f, i) = 1..(Len(f) - 1)
        /\ \A k \in 1..(Len(f) - 1) :
             C!RemoveAt(f, i)[k] = IF k < i THEN f[k] ELSE f[k + 1]
    BY Removed
  <2>2. \A k \in 1..(Len(f) - 1) : k \in DOMAIN f /\ k + 1 \in DOMAIN f
    OBVIOUS
  <2> QED BY <2>1, <2>2 DEF Homes
<1>2. \A e \in C!Entry, i \in DOMAIN f : e.home = s => Homes([f EXCEPT ![i] = e], s)
  BY DEF Homes
<1>3. ASSUME NEW e \in C!Entry, e.home = s PROVE Homes(Append(f, e), s)
  <2>1. /\ DOMAIN Append(f, e) = DOMAIN f \cup {Len(f) + 1}
        /\ \A k \in DOMAIN f : Append(f, e)[k] = f[k]
        /\ Append(f, e)[Len(f) + 1] = e
    BY Appended
  <2> QED BY <1>3, <2>1 DEF Homes
<1>4. ASSUME NEW i \in DOMAIN f, NEW t, NEW b
      PROVE  /\ Homes([f EXCEPT ![i].text = t, ![i].on = b], s)
             /\ Homes([f EXCEPT ![i].on = b], s)
  <2>1. f[i] \in C!Entry
    OBVIOUS
  <2>2. /\ [f EXCEPT ![i].text = t, ![i].on = b] =
             [f EXCEPT ![i] = [f[i] EXCEPT !.text = t, !.on = b]]
        /\ [f EXCEPT ![i].on = b] = [f EXCEPT ![i] = [f[i] EXCEPT !.on = b]]
    BY <2>1 DEF C!Entry
  <2>3. /\ [f[i] EXCEPT !.text = t, !.on = b].home = f[i].home
        /\ [f[i] EXCEPT !.on = b].home = f[i].home
    BY <2>1 DEF C!Entry
  <2> QED BY <2>2, <2>3 DEF Homes
<1> QED BY <1>1, <1>2, <1>3, <1>4

\* Initially entries are at home.
LEMMA HomeInit == ASSUME C!Init PROVE HomeInv
<1>0. /\ activeTab # "crons" /\ loaded = FALSE /\ entries = <<>> /\ editIndex = 0
      /\ dialog = FALSE /\ cronReqs = {}
  BY DEF C!Init
<1>1. PICK t \in Texts : crontab = [s \in Servers |-> IF s # shown THEN <<>>
         ELSE [k \in 1..jobs |-> [home |-> s, job |-> k, text |-> t, on |-> TRUE]]]
  BY DEF C!Init
<1>2. ASSUME NEW s \in Servers PROVE Homes(crontab[s], s)
  <2>1. CASE s # shown
    <3>1. crontab[s] = <<>>
      BY <1>1, <2>1
    <3> QED BY <3>1 DEF Homes
  <2>2. CASE s = shown
    <3>1. crontab[s] = [j \in 1..jobs |-> [home |-> s, job |-> j, text |-> t, on |-> TRUE]]
      BY <1>1, <2>2
    <3> QED BY <3>1 DEF Homes
  <2> QED BY <2>1, <2>2
<1>3. Homes(entries, shown)
  BY <1>0 DEF Homes
<1> QED BY <1>0, <1>2, <1>3 DEF HomeInv

\* A request made of the rows of the page.
LEMMA HomeSent ==
    ASSUME HomeInv, activeTab = "crons", NEW op, NEW i, NEW was, NEW new, C!Send(op, i, was, new),
           op \in Moves \cup {"run"} => was.home = shown,
           op \in {"toggle", "edit", "create"} => new.home = shown
    PROVE  \A q \in cronReqs' : /\ q.op \in Moves \cup {"run"} => q.was.home = q.server
                                /\ q.op \in {"toggle", "edit", "create"} => q.new.home = q.server
                                /\ Homes(q.seen, q.server)
                                /\ q.mine => q.server = shown
<1> DEFINE r == [op |-> op, server |-> shown, i |-> i, was |-> was, new |-> new,
                 st |-> "sent", seen |-> <<>>, mine |-> TRUE]
<1>1. /\ r.op = op /\ r.server = shown /\ r.was = was /\ r.new = new /\ DOMAIN r.seen = {}
  OBVIOUS
<1>2. cronReqs' = cronReqs \cup {r}
  BY DEF C!Send
<1> HIDE DEF r
<1>3. Homes(r.seen, r.server)
  BY <1>1 DEF Homes
<1> QED BY <1>1, <1>2, <1>3 DEF HomeInv

\* What the user does.
LEMMA HomeUser == ASSUME C!TypeOK, HomeInv, C!UserStep PROVE HomeInv'
<1>0. /\ UNCHANGED <<shown, crontab, loaded>> /\ (activeTab = "crons") = (activeTab = "crons")'
  BY DEF C!UserStep, C!AnswerDelete, C!OpenAdd, C!CloseDialog, C!SetField, C!HandleSave,
         C!HandleToggle, C!HandleRun, C!OpenDelete, C!OpenEdit, C!page
<1>1. \A i \in DOMAIN entries : entries[i] \in C!Entry /\ entries[i].home = shown
  BY DEF C!TypeOK, HomeInv, Homes
<1>2. ASSUME NEW i \in DOMAIN entries, C!HandleToggle(i) PROVE HomeInv'
  <2>0. activeTab = "crons"
    BY <1>2 DEF HomeInv
  <2>1. [entries[i] EXCEPT !.on = ~@].home = shown
    BY <1>1 DEF C!Entry
  <2>2. C!Send("toggle", i, entries[i], [entries[i] EXCEPT !.on = ~@])
    BY <1>2 DEF C!HandleToggle
  <2>3. \A q \in cronReqs' : /\ q.op \in Moves \cup {"run"} => q.was.home = q.server
                             /\ q.op \in {"toggle", "edit", "create"} => q.new.home = q.server
                             /\ Homes(q.seen, q.server)
                             /\ q.mine => q.server = shown
    BY <1>1, <2>0, <2>1, <2>2, HomeSent
  <2>4. Homes(entries', shown)
    BY <1>2, HomesKept DEF C!HandleToggle, C!TypeOK, HomeInv
  <2> QED BY <1>0, <1>2, <2>0, <2>3, <2>4 DEF HomeInv, C!HandleToggle, C!form, Homes
<1>3. ASSUME NEW i \in DOMAIN entries, C!HandleRun(i) PROVE HomeInv'
  <2>0. activeTab = "crons"
    BY <1>3 DEF HomeInv
  <2>1. C!Send("run", i, entries[i], C!NoEntry)
    BY <1>3 DEF C!HandleRun
  <2>2. \A q \in cronReqs' : /\ q.op \in Moves \cup {"run"} => q.was.home = q.server
                             /\ q.op \in {"toggle", "edit", "create"} => q.new.home = q.server
                             /\ Homes(q.seen, q.server)
                             /\ q.mine => q.server = shown
    BY <1>1, <2>0, <2>1, HomeSent
  <2> QED BY <1>0, <1>3, <2>0, <2>2 DEF HomeInv, C!HandleRun, C!form, Homes
<1>4. ASSUME NEW i \in DOMAIN entries, C!OpenDelete(i) \/ C!OpenEdit(i) PROVE HomeInv'
  <2>0. activeTab = "crons"
    BY <1>4 DEF HomeInv
  <2> QED BY <1>0, <1>1, <1>4, <2>0 DEF HomeInv, C!OpenDelete, C!OpenEdit, C!form, C!page, Homes
<1>5. CASE C!OpenAdd \/ C!CloseDialog \/ C!SetField
  BY <1>0, <1>5 DEF HomeInv, C!OpenAdd, C!CloseDialog, C!SetField, C!CloseForm, C!Idle, C!page,
                     Homes
<1>6. CASE C!AnswerDelete
  <2>1. CASE UNCHANGED cronReqs
    BY <1>0, <1>6, <2>1 DEF HomeInv, C!AnswerDelete, C!form, Homes
  <2>2. CASE ~UNCHANGED cronReqs
    <3>0. /\ C!Send("delete", deleteIndex, entries[deleteIndex], C!NoEntry)
          /\ deleteIndex \in DOMAIN entries
      BY <1>6, <2>2 DEF C!AnswerDelete
    <3>1. activeTab = "crons"
      BY <3>0 DEF HomeInv
    <3>2. \A q \in cronReqs' : /\ q.op \in Moves \cup {"run"} => q.was.home = q.server
                               /\ q.op \in {"toggle", "edit", "create"} => q.new.home = q.server
                               /\ Homes(q.seen, q.server)
                               /\ q.mine => q.server = shown
      BY <1>1, <3>0, <3>1, HomeSent
    <3> QED BY <1>0, <1>6, <3>1, <3>2 DEF HomeInv, C!AnswerDelete, C!form, Homes
  <2> QED BY <2>1, <2>2
<1>7. CASE C!HandleSave
  <2>0. activeTab = "crons"
    BY <1>7 DEF HomeInv, C!HandleSave
  <2>1. \A q \in cronReqs' : /\ q.op \in Moves \cup {"run"} => q.was.home = q.server
                             /\ q.op \in {"toggle", "edit", "create"} => q.new.home = q.server
                             /\ Homes(q.seen, q.server)
                             /\ q.mine => q.server = shown
    <3>1. CASE editIndex # 0
      <4>1. C!Send("edit", editIndex, editEntry, [editEntry EXCEPT !.text = text])
        BY <1>7, <3>1 DEF C!HandleSave
      <4>2. editEntry.home = shown /\ [editEntry EXCEPT !.text = text].home = shown
        BY <3>1 DEF HomeInv, C!TypeOK, C!Entry
      <4> QED BY <2>0, <4>1, <4>2, HomeSent
    <3>2. CASE editIndex = 0
      <4> DEFINE new == [home |-> shown, job |-> jobs', text |-> text, on |-> TRUE]
      <4>1. C!Send("create", 0, C!NoEntry, new) /\ new.home = shown
        BY <1>7, <3>2 DEF C!HandleSave
      <4> HIDE DEF new
      <4> QED BY <2>0, <4>1, HomeSent DEF Moves
    <3> QED BY <3>1, <3>2
  <2> QED BY <1>0, <1>7, <2>0, <2>1 DEF HomeInv, C!HandleSave, C!form, C!page, Homes
<1> QED BY <1>2, <1>3, <1>4, <1>5, <1>6, <1>7 DEF C!UserStep

\* What a request does on its server.
LEMMA HomeHandled == ASSUME C!TypeOK, HomeInv, NEW q \in cronReqs, C!Handled(q) PROVE HomeInv'
<1>0. /\ q \in C!Request /\ q.server \in Servers /\ q.seen \in Seq(C!Entry) /\ q.new \in C!Entry
      /\ crontab \in [Servers -> Seq(C!Entry)]
      /\ UNCHANGED <<shown, loaded, entries, dialog, editIndex, editEntry>>
      /\ (activeTab = "crons") = (activeTab = "crons")'
  BY DEF C!TypeOK, C!Request, C!Handled, C!Read, C!Write, C!page, C!form
<1>1. ASSUME NEW st, NEW content, C!Answer(q, st, content), Homes(content, q.server)
      PROVE  \A r \in cronReqs' :
               /\ r.op \in Moves \cup {"run"} => r.was.home = r.server
               /\ r.op \in {"toggle", "edit", "create"} => r.new.home = r.server
               /\ Homes(r.seen, r.server)
               /\ r.mine => activeTab = "crons" /\ r.server = shown
  <2>1. PICK a : /\ cronReqs' = (cronReqs \ {q}) \cup {a}
                 /\ a.op = q.op /\ a.server = q.server /\ a.was = q.was
                 /\ a.new = q.new /\ a.mine = q.mine /\ a.seen = content
    BY <1>1, Answers
  <2> QED BY <1>1, <2>1 DEF HomeInv
<1>2. Homes(<<>>, q.server) /\ Homes(crontab[q.server], q.server)
  BY <1>0 DEF Homes, HomeInv
<1>3. \A r \in cronReqs' :
        /\ r.op \in Moves \cup {"run"} => r.was.home = r.server
        /\ r.op \in {"toggle", "edit", "create"} => r.new.home = r.server
        /\ Homes(r.seen, r.server)
        /\ r.mine => activeTab = "crons" /\ r.server = shown
  BY <1>1, <1>2 DEF C!Handled, C!Read, C!Write
<1>4. \A s \in Servers : Homes(crontab'[s], s)
  <2>1. CASE UNCHANGED crontab
    BY <2>1 DEF HomeInv
  <2>2. CASE ~UNCHANGED crontab
    <3>0. C!Write(q)
      BY <2>2 DEF C!Handled, C!Read
    <3>1. /\ crontab' = [crontab EXCEPT ![q.server] = C!Changed(q)] /\ q.op \in C!Writers
          /\ q.op = "create" \/ q.i \in DOMAIN q.seen
      BY <2>2, <3>0 DEF C!Write
    <3>2. Homes(q.seen, q.server) /\ (q.op = "create" => q.new.home = q.server)
      BY DEF HomeInv
    <3>3. CASE q.op = "create"
      <4>1. Homes(C!Changed(q), q.server)
        BY <1>0, <3>2, <3>3, HomesKept DEF C!Changed
      <4> QED BY <1>0, <3>1, <4>1 DEF HomeInv
    <3>4. CASE q.op = "delete"
      <4>1. Homes(C!Changed(q), q.server)
        BY <1>0, <3>1, <3>2, <3>4, HomesKept DEF C!Changed
      <4> QED BY <1>0, <3>1, <4>1 DEF HomeInv
    <3>5. CASE q.op \in {"toggle", "edit"}
      <4>1. C!Changed(q) = [q.seen EXCEPT ![q.i].text = q.new.text, ![q.i].on = q.new.on]
        BY <3>5 DEF C!Changed
      <4>2. \A i \in DOMAIN q.seen : \A t, b :
              Homes([q.seen EXCEPT ![i].text = t, ![i].on = b], q.server)
        BY <1>0, <3>2, HomesKept
      <4>3. q.i \in DOMAIN q.seen
        BY <3>1, <3>5
      <4>4. Homes([q.seen EXCEPT ![q.i].text = q.new.text, ![q.i].on = q.new.on], q.server)
        BY <4>2, <4>3
      <4>5. Homes(C!Changed(q), q.server)
        BY <4>1, <4>4
      <4> QED BY <1>0, <3>1, <4>5 DEF HomeInv
    <3> QED BY <3>1, <3>3, <3>4, <3>5 DEF C!Writers
  <2> QED BY <2>1, <2>2
<1> QED BY <1>0, <1>3, <1>4 DEF HomeInv, Homes

\* What an answer makes of the table.
LEMMA HomeAnswered == ASSUME C!TypeOK, HomeInv, NEW q \in cronReqs, C!Answered(q) PROVE HomeInv'
<1>0. /\ q \in C!Request /\ q.seen \in Seq(C!Entry) /\ q.new \in C!Entry /\ q.was \in C!Entry
      /\ entries \in Seq(C!Entry) /\ UNCHANGED <<shown, crontab>> /\ cronReqs' = cronReqs \ {q}
      /\ (activeTab = "crons") = (activeTab = "crons")'
  BY DEF C!TypeOK, C!Request, C!Answered, C!ListDone, C!ToggleDone, C!DeleteDone, C!RunDone,
         C!SaveDone
<1>1. \A s \in Servers : Homes(crontab'[s], s)
  BY <1>0 DEF HomeInv
<1>2. \A r \in cronReqs' :
        /\ r.op \in Moves \cup {"run"} => r.was.home = r.server
        /\ r.op \in {"toggle", "edit", "create"} => r.new.home = r.server
        /\ Homes(r.seen, r.server)
        /\ r.mine => activeTab = "crons" /\ r.server = shown
  BY <1>0 DEF HomeInv
<1>3. Homes(entries, shown) /\ Homes(q.seen, q.server)
  BY DEF HomeInv
<1>4. CASE ~q.mine
  <2>1. UNCHANGED <<entries, loaded, dialog, editIndex, editEntry>>
    BY <1>4 DEF C!Answered, C!ListDone, C!ToggleDone, C!DeleteDone, C!RunDone, C!SaveDone, C!form
  <2> QED BY <1>0, <1>1, <1>2, <2>1 DEF HomeInv, Homes
<1>5. CASE q.mine
  <2>0. /\ activeTab = "crons" /\ q.server = shown
        /\ q.op \in Moves => q.was.home = shown
        /\ q.op \in {"toggle", "edit", "create"} => q.new.home = shown
    BY <1>5 DEF HomeInv
  <2>1. editIndex' # 0 => editEntry'.home = shown
    BY DEF HomeInv, C!Answered, C!ListDone, C!ToggleDone, C!DeleteDone, C!RunDone, C!SaveDone,
           C!form, C!CloseForm
  <2>2. ASSUME NEW i, NEW e \in C!Entry, e.home = shown, C!Put(i, e) PROVE Homes(entries', shown)
    BY <1>0, <1>3, <2>2, HomesKept DEF C!Put
  <2>3. Homes(entries', shown)
    <3>1. CASE C!ListDone(q)
      BY <1>3, <2>0, <3>1 DEF C!ListDone
    <3>2. CASE C!ToggleDone(q)
      BY <1>0, <1>5, <2>0, <2>2, <3>2 DEF C!ToggleDone, Moves
    <3>3. CASE C!DeleteDone(q)
      <4>1. \/ UNCHANGED entries
            \/ q.i \in DOMAIN entries /\ entries' = C!RemoveAt(entries, q.i)
        BY <1>5, <3>3 DEF C!DeleteDone, C!DeleteCron
      <4>2. \A i \in DOMAIN entries : Homes(C!RemoveAt(entries, i), shown)
        BY <1>0, <1>3, HomesKept
      <4>3. CASE UNCHANGED entries
        BY <1>3, <4>3
      <4> QED BY <4>1, <4>2, <4>3
    <3>4. CASE C!RunDone(q)
      BY <1>3, <3>4 DEF C!RunDone
    <3>5. CASE C!SaveDone(q)
      <4>1. CASE entries' = Append(entries, q.new)
        BY <1>0, <1>3, <2>0, <3>5, <4>1, HomesKept DEF C!SaveDone
      <4>2. CASE C!Put(editIndex, q.new)
        BY <1>0, <2>0, <2>2, <3>5, <4>2 DEF C!SaveDone
      <4>3. CASE UNCHANGED entries
        BY <1>3, <4>3
      <4> QED BY <3>5, <4>1, <4>2, <4>3 DEF C!SaveDone
    <3> QED BY <3>1, <3>2, <3>3, <3>4, <3>5 DEF C!Answered
  <2> QED BY <1>0, <1>1, <1>2, <2>0, <2>1, <2>3 DEF HomeInv
<1> QED BY <1>4, <1>5

\* The invariant is inductive: only Navigate can move the rows away.
LEMMA HomeKeeps ==
    ASSUME C!TypeOK, HomeInv, "navigate" \notin Slips, [C!Next]_C!vars PROVE HomeInv'
<1>1. CASE C!Mount
  <2>0. /\ (activeTab = "crons")' /\ ~(activeTab = "crons")
        /\ C!Send("list", 0, C!NoEntry, C!NoEntry)
        /\ UNCHANGED <<shown, crontab, loaded, entries, dialog, editIndex, editEntry>>
    BY <1>1 DEF C!Mount, C!form
  <2>1. \A q \in cronReqs : ~q.mine
    BY <2>0 DEF HomeInv
  <2> DEFINE r == [op |-> "list", server |-> shown, i |-> 0, was |-> C!NoEntry, new |-> C!NoEntry,
                   st |-> "sent", seen |-> <<>>, mine |-> TRUE]
  <2>2. cronReqs' = cronReqs \cup {r} /\ r.op = "list" /\ r.server = shown /\ DOMAIN r.seen = {}
    BY <2>0 DEF C!Send
  <2> HIDE DEF r
  <2>3. \A q \in cronReqs' : /\ q.op \in Moves \cup {"run"} => q.was.home = q.server
                             /\ q.op \in {"toggle", "edit", "create"} => q.new.home = q.server
                             /\ Homes(q.seen, q.server)
                             /\ q.mine => q.server = shown
    BY <2>1, <2>2 DEF HomeInv, Homes, Moves
  <2> QED BY <2>0, <2>3 DEF HomeInv, Homes
<1>2. CASE C!Unmount
  <2>0. /\ ~(activeTab = "crons")' /\ entries' = <<>> /\ editIndex' = 0 /\ ~loaded' /\ ~dialog'
        /\ UNCHANGED <<shown, crontab>> /\ cronReqs' = {[q EXCEPT !.mine = FALSE] : q \in cronReqs}
    BY <1>2 DEF C!Unmount
  <2>1. ASSUME NEW r \in cronReqs'
        PROVE  \E q \in cronReqs : /\ ~r.mine /\ q.op = r.op /\ q.server = r.server
                                   /\ q.was = r.was /\ q.new = r.new /\ q.seen = r.seen
    BY <2>0 DEF C!TypeOK, C!Request
  <2>2. \A r \in cronReqs' : /\ r.op \in Moves \cup {"run"} => r.was.home = r.server
                             /\ r.op \in {"toggle", "edit", "create"} => r.new.home = r.server
                             /\ Homes(r.seen, r.server)
                             /\ ~r.mine
    BY <2>1 DEF HomeInv
  <2>3. Homes(entries', shown')
    BY <2>0 DEF Homes
  <2> QED BY <2>0, <2>2, <2>3 DEF HomeInv
<1>3. CASE C!OtherWrites
  <2>0. /\ UNCHANGED <<shown, loaded, entries, dialog, editIndex, editEntry, cronReqs>>
        /\ (activeTab = "crons") = (activeTab = "crons")'
    BY <1>3 DEF C!OtherWrites, C!page, C!form
  <2>1. PICK s \in Servers : \E k \in DOMAIN crontab[s] :
          crontab' \in {[crontab EXCEPT ![s] = C!RemoveAt(@, k)],
                        [crontab EXCEPT ![s][k].on = ~@]}
    BY <1>3 DEF C!OtherWrites
  <2>2. PICK k \in DOMAIN crontab[s] :
          crontab' \in {[crontab EXCEPT ![s] = C!RemoveAt(crontab[s], k)],
                        [crontab EXCEPT ![s] = [crontab[s] EXCEPT ![k].on = ~crontab[s][k].on]]}
    BY <2>1 DEF C!TypeOK
  <2>3. crontab \in [Servers -> Seq(C!Entry)] /\ Homes(crontab[s], s)
    BY DEF C!TypeOK, HomeInv
  <2>4. /\ Homes(C!RemoveAt(crontab[s], k), s)
        /\ Homes([crontab[s] EXCEPT ![k].on = ~crontab[s][k].on], s)
    BY <2>3, HomesKept
  <2>5. \A t \in Servers : Homes(crontab'[t], t)
    BY <2>2, <2>3, <2>4 DEF HomeInv
  <2> QED BY <2>0, <2>5 DEF HomeInv, Homes
<1>4. ASSUME NEW s \in Servers, C!Navigate(s) PROVE HomeInv'
  <2>1. /\ activeTab # "crons" /\ ~(activeTab = "crons")'
        /\ UNCHANGED <<crontab, loaded, entries, dialog, editIndex, editEntry, cronReqs>>
    BY <1>4 DEF C!Navigate, C!Slip, C!page, C!form
  <2> QED BY <2>1 DEF HomeInv, Homes
<1>5. CASE UNCHANGED C!vars
  BY <1>5 DEF C!vars, C!page, C!form, HomeInv, Homes
<1> QED
  BY <1>1, <1>2, <1>3, <1>4, <1>5, HomeUser, HomeHandled, HomeAnswered DEF C!Next, C!RequestStep

\* The invariant of the rows' servers.
LEMMA HomesAreRight == ASSUME "navigate" \notin Slips PROVE C!Spec => [](C!TypeOK /\ HomeInv)
<1>1. C!Init => C!TypeOK /\ HomeInv
  BY CronInitTyped, HomeInit
<1>2. C!TypeOK /\ HomeInv /\ [C!Next]_C!vars => (C!TypeOK /\ HomeInv)'
  BY CronTyped, HomeKeeps
<1> QED BY <1>1, <1>2, PTL DEF C!Spec

----------------------------------------------------------------------------
(* The Cron Jobs tab in the page                                            *)

\* Every step of the page is one of the tab, or none.
LEMMA CronStepIs == [Next]_vars => [C!Next]_C!vars
<1> SUFFICES ASSUME [Next]_vars PROVE [C!Next]_C!vars
  OBVIOUS
<1>1. ASSUME NEW t \in {"overview", "crons", "processes"}, SetActiveTab(t)
      PROVE  [C!Next]_C!vars
  <2>1. CASE activeTab = "crons"
    BY <1>1, <2>1 DEF SetActiveTab, C!Next
  <2>2. CASE activeTab # "crons" /\ t = "crons"
    BY <1>1, <2>2 DEF SetActiveTab, C!Next
  <2>3. CASE activeTab # "crons" /\ t # "crons"
    <3>1. UNCHANGED cronVars /\ UNCHANGED shown /\ activeTab' # "crons"
      BY <1>1, <2>3 DEF SetActiveTab
    <3> QED BY <2>3, <3>1 DEF cronVars, C!vars, C!page, C!form
  <2> QED BY <2>1, <2>2, <2>3
<1>2. ASSUME NEW s \in Servers, Navigate(s) PROVE [C!Next]_C!vars
  BY <1>2 DEF Navigate, C!Next
<1>3. CASE CronStep
  BY <1>3 DEF CronStep, C!Next
<1>4. CASE ProcessStep
  <2>1. UNCHANGED shown
    BY <1>4 DEF ProcessStep, P!UserStep, P!Refresh, P!HandleKillClick, P!CloseDialog,
                P!HandleKillConfirm, P!RequestStep, P!List, P!Check, P!Signal, P!Listed, P!Killed,
                P!SystemStep, P!Exit, P!Start
  <2> QED BY <1>4, <2>1 DEF ProcessStep, cronVars, C!vars, C!page, C!form
<1>5. CASE UNCHANGED vars
  BY <1>5 DEF vars, cronVars, C!vars, C!page, C!form
<1> QED BY <1>1, <1>2, <1>3, <1>4, <1>5 DEF Next

\* ServerDetail.tsx implements the Cron Jobs tab: to the tab, the rest of the
\* page is when it is mounted and for which server.
THEOREM PageImplementsCrons == Spec => C!Spec
<1>1. Init => C!Init
  BY DEF Init
<1> QED BY <1>1, CronStepIs, PTL DEF Spec, C!Spec

\* The state of the tab keeps its type.
LEMMA CronsTyped == C!Spec => []C!TypeOK
BY CronInitTyped, CronTyped, PTL DEF C!Spec

\* The state of the page and of both tabs keeps its type (ServerDetail.tsx,
\* CronState, ProcessState), whatever the slips.
THEOREM PageTypeCorrect == Spec => []TypeOK
<1> DEFINE Tab == activeTab \in {"overview"} \cup visited
<1>1. Init => Tab
  BY DEF Init
<1>2. Tab /\ [Next]_vars => Tab'
  BY DEF Next, vars, SetActiveTab, Navigate, CronStep, ProcessStep
<1>3. Tab /\ C!TypeOK /\ P!TypeOK => TypeOK
  BY DEF TypeOK
<1>4. P!Spec => []P!TypeOK
  BY TypeCorrect, TabsAssumption
<1>5. C!Spec => []C!TypeOK
  BY CronsTyped
<1> HIDE DEF Tab
<1> QED BY <1>1, <1>2, <1>3, <1>4, <1>5, PageImplementsCrons, PageImplementsProcesses, PTL DEF Spec

\* However tabs are switched and requests answered, the table is the crontab when
\* no change is in flight (useCrons.ts, CronJobsTab.tsx), while places survive.
THEOREM TableIsCrontab == ASSUME NoCronSlips PROVE Spec => []PageMatchesCrontab
<1>1. CronInv => PageMatchesCrontab
  BY DEF CronInv, TableInv, Writing, PageMatchesCrontab, C!PageMatchesCrontab
<1> QED BY <1>1, CronsAreRight, PageImplementsCrons, PTL

\* An error stays with the row whose operation failed while rows are deleted
\* around it (DELETE_CRON), while places survive.
THEOREM ErrorsStay == ASSUME NoCronSlips PROVE Spec => []ErrorsStayWithTheirRow
<1>1. CronInv => ErrorsStayWithTheirRow
  BY DEF CronInv, ErrorsStayWithTheirRow
<1> QED BY <1>1, CronsAreRight, PageImplementsCrons, PTL

\* A row acts on the server its entry was read from, whatever else happens to the
\* crontab, unless another server is shown in the open tab (ServerDetail.tsx).
THEOREM RowsAct == ASSUME "navigate" \notin Slips PROVE Spec => []RowsActOnTheirServer
<1>1. HomeInv => RowsActOnTheirServer
  BY DEF HomeInv, Moves, RowsActOnTheirServer, C!RowsActOnTheirServer
<1> QED BY <1>1, HomesAreRight, PageImplementsCrons, PTL

\* What Service.Toggle, Update, Create and Delete write is the change the user
\* asked for, to the entry the user picked, while places survive.
THEOREM OperationsHit == ASSUME NoCronSlips PROVE Spec => OperationsHitTheirEntry
<1>1. C!TypeOK /\ CronInv /\ [C!Next]_C!vars =>
        [\A q \in cronReqs : C!Handled(q) =>
           /\ crontab' # crontab =>
                C!Entries' = CASE q.op = "create" -> C!Entries \cup {q.new}
                               [] q.op = "delete" -> {e \in C!Entries : e.job # q.was.job}
                               [] OTHER -> {IF e.job = q.was.job THEN q.new ELSE e :
                                              e \in C!Entries}
           /\ (q.op = "run" /\ q.i \in DOMAIN crontab[q.server]) =>
                crontab[q.server][q.i].job = q.was.job]_C!vars
  BY HandledHits
<1> QED BY <1>1, CronsAreRight, PageImplementsCrons, PTL
        DEF C!Spec, OperationsHitTheirEntry, C!OperationsHitTheirEntry
=============================================================================
