------------------------------ MODULE Processes ------------------------------
(* The Processes tab of a server: web/src/hooks/useProcesses.ts and         *)
(* ProcessesTab.tsx, with the listings and kills they request of            *)
(* internal/process/service.go. A kill names a pid; the server looks up     *)
(* what runs under it with one command and signals it with another.         *)
(*                                                                          *)
(* The identity of a process is not in the code: it tells a process from    *)
(* a later one that the system gave the same pid.                           *)
EXTENDS Naturals, FiniteSets

CONSTANTS Servers, Pids,
          MaxProcs,         \* bound: processes ever started
          MaxKills,         \* bound: kills in flight
          Protected,        \* the identities model.IsProtectedCommand protects
          Slips             \* what may happen although pids do not survive it

\* Assumed by ServerDetail.
ProcessesAssumption ==
  MaxProcs \in Nat \ {0} /\ MaxKills \in Nat /\ Protected \subseteq 1..MaxProcs

VARIABLES
  shown,                    \* the server of the page, the prop serverId
  procs, started,           \* server -> pid -> process; processes started so far
  mounted,                  \* the tab
  rows, error,              \* state.processes and state.error
  killDialog,               \* the process of the dialog, or NoProcess
  reqs,                     \* requests in flight
  hit, killed               \* history: processes signalled; kills reported as done

table == <<rows, error>>
vars == <<shown, procs, started, mounted, table, killDialog, reqs, hit, killed>>

Idents == 1..MaxProcs
Process == [pid : Pids, id : Idents]
NoProcess == [pid |-> 0, id |-> 0]
Request == [op : {"list"}, server : Servers, st : {"sent", "read", "failed"}, seen : SUBSET Process]
           \cup [op : {"kill"}, server : Servers, target : Process, mine : BOOLEAN,
                 st : {"sent", "checked", "ok", "failed"}]

Kills == {q \in reqs : q.op = "kill"}
Killing == \E q \in Kills : q.mine

Running(s) == {[pid |-> p, id |-> procs[s][p]] : p \in DOMAIN procs[s]}

\* A slip is followed only if Slips names it:
\*   "overtaken" a listing is asked for while an older one is in flight,
\*   "recycled"  a pid is given to a new process while the page lists the old one,
\*   "raced"     the same, between the two commands of a kill,
\*   "navigate"  another server is shown while the tab is open.
Slip(cond, what) == cond => what \in Slips

Init ==
  /\ shown \in Servers
  /\ \E p \in Pids : procs = [s \in Servers |-> [q \in IF s = shown THEN {p} ELSE {} |-> 1]]
  /\ started = 1
  /\ mounted = FALSE
  /\ rows = {} /\ error = FALSE /\ killDialog = NoProcess
  /\ reqs = {} /\ hit = {} /\ killed = {}

----------------------------------------------------------------------------
\* The tab

\* fetchProcesses; the requests given are the ones it joins.
FetchWith(others, s) ==
  /\ Slip(\E q \in others : q.op = "list", "overtaken")
  /\ reqs' = others \cup {[op |-> "list", server |-> s, st |-> "sent", seen |-> {}]}
  /\ error' = FALSE

Mount ==
  /\ ~mounted /\ mounted' = TRUE
  /\ rows' = {} /\ killDialog' = NoProcess
  /\ FetchWith(reqs, shown)
  /\ UNCHANGED <<shown, procs, started, hit, killed>>

\* The interval is cleared and the answer of a listing goes nowhere; a kill in
\* flight is carried out.
Unmount ==
  /\ mounted /\ mounted' = FALSE
  /\ rows' = {} /\ error' = FALSE /\ killDialog' = NoProcess
  /\ reqs' = {[q EXCEPT !.mine = FALSE] : q \in Kills}
  /\ UNCHANGED <<shown, procs, started, hit, killed>>

\* A link of the sidebar: an open tab fetches for the new server, and shows the
\* rows it has until the answer comes.
Navigate(s) ==
  /\ s # shown /\ shown' = s
  /\ Slip(mounted, "navigate")
  /\ IF mounted THEN FetchWith(reqs, s) ELSE UNCHANGED <<reqs, error>>
  /\ UNCHANGED <<procs, started, mounted, rows, killDialog, hit, killed>>

\* The 3 s interval or, when the user turned it off, the button: the listing may
\* be asked for at any time.
Refresh ==
  /\ mounted
  /\ FetchWith(reqs, shown)
  /\ UNCHANGED <<shown, procs, started, mounted, rows, killDialog, hit, killed>>

HandleKillClick ==
  /\ mounted /\ killDialog = NoProcess
  /\ \E p \in rows : p.id \notin Protected /\ killDialog' = p
  /\ UNCHANGED <<shown, procs, started, mounted, table, reqs, hit, killed>>

CloseDialog ==
  /\ killDialog # NoProcess /\ killDialog' = NoProcess
  /\ UNCHANGED <<shown, procs, started, mounted, table, reqs, hit, killed>>

HandleKillConfirm ==
  /\ killDialog # NoProcess /\ ~Killing /\ Cardinality(Kills) < MaxKills
  /\ reqs' = reqs \cup {[op |-> "kill", server |-> shown, target |-> killDialog,
                         mine |-> TRUE, st |-> "sent"]}
  /\ UNCHANGED <<shown, procs, started, mounted, table, killDialog, hit, killed>>

----------------------------------------------------------------------------
\* The server

Becomes(q, st) == reqs' = (reqs \ {q}) \cup {[q EXCEPT !.st = st]}

List(q) ==
  /\ q.op = "list" /\ q.st = "sent"
  /\ \/ reqs' = (reqs \ {q}) \cup {[q EXCEPT !.st = "read", !.seen = Running(q.server)]}
     \/ Becomes(q, "failed")
  /\ UNCHANGED <<shown, procs, started, mounted, table, killDialog, hit, killed>>

\* Mutant: only the page looks at what is protected.
MaySignal_Any(s, p) == p \in DOMAIN procs[s]

\* The process runs, and model.IsProtectedCommand does not protect it.
MaySignal(s, p) == p \in DOMAIN procs[s] /\ procs[s][p] \notin Protected

\* cat /proc/<pid>/comm: nothing runs there, a protected process does, or the
\* kill goes on.
Check(q) ==
  /\ q.op = "kill" /\ q.st = "sent"
  /\ \/ Becomes(q, "failed")
     \/ MaySignal(q.server, q.target.pid) /\ Becomes(q, "checked")
  /\ UNCHANGED <<shown, procs, started, mounted, table, killDialog, hit, killed>>

\* kill: a process may outlive a SIGTERM, and the answer may be lost.
Signal(q) ==
  /\ q.op = "kill" /\ q.st = "checked"
  /\ LET s == q.server
         p == q.target.pid
     IN \/ /\ p \in DOMAIN procs[s]
           /\ hit' = hit \cup {procs[s][p]}
           /\ procs' \in {procs, [procs EXCEPT ![s] = [k \in DOMAIN @ \ {p} |-> @[k]]]}
           /\ Becomes(q, "ok") \/ Becomes(q, "failed")
        \/ Becomes(q, "failed") /\ UNCHANGED <<procs, hit>>
  /\ UNCHANGED <<shown, started, mounted, table, killDialog, killed>>

Exit(s) ==
  /\ \E p \in DOMAIN procs[s] : procs' = [procs EXCEPT ![s] = [k \in DOMAIN @ \ {p} |-> @[k]]]
  /\ UNCHANGED <<shown, started, mounted, table, killDialog, reqs, hit, killed>>

Start(s) ==
  /\ started < MaxProcs /\ started' = started + 1
  /\ \E p \in Pids \ DOMAIN procs[s] :
       /\ procs' = [procs EXCEPT ![s] = [k \in DOMAIN @ \cup {p} |->
                                          IF k = p THEN started' ELSE @[k]]]
       /\ Slip(\E r \in rows : r.pid = p, "recycled")
       /\ Slip(\E q \in Kills : q.server = s /\ q.target.pid = p /\ q.st = "checked", "raced")
  /\ UNCHANGED <<shown, mounted, table, killDialog, reqs, hit, killed>>

----------------------------------------------------------------------------
\* The answers

Listed(q) ==
  /\ q.op = "list" /\ q.st \in {"read", "failed"}
  /\ IF q.st = "read" THEN rows' = q.seen /\ error' = FALSE
     ELSE error' = TRUE /\ UNCHANGED rows
  /\ reqs' = reqs \ {q}
  /\ UNCHANGED <<shown, procs, started, mounted, killDialog, hit, killed>>

\* Mutant: the table waits for the next listing.
FetchAfter_Not(q) == reqs' = reqs \ {q} /\ UNCHANGED error

FetchAfter(q) == FetchWith(reqs \ {q}, q.server)

\* After a kill the page fetches again, for the server it was asked of.
Killed(q) ==
  /\ q.op = "kill" /\ q.st \in {"ok", "failed"}
  /\ IF q.st = "ok" /\ q.mine
     THEN /\ killDialog' = NoProcess
          /\ killed' = killed \cup ({q.target.id} \ {r.id : r \in Running(q.server)})
          /\ FetchAfter(q)
     ELSE reqs' = reqs \ {q} /\ UNCHANGED <<killDialog, killed, error>>
  /\ UNCHANGED <<shown, procs, started, mounted, rows, hit>>

----------------------------------------------------------------------------
UserStep == Refresh \/ HandleKillClick \/ CloseDialog \/ HandleKillConfirm

RequestStep == \E q \in reqs : List(q) \/ Check(q) \/ Signal(q) \/ Listed(q) \/ Killed(q)

SystemStep == mounted /\ \E s \in Servers : Exit(s) \/ Start(s)

Next ==
  \/ Mount \/ Unmount \/ UserStep \/ RequestStep \/ SystemStep
  \/ \E s \in Servers : Navigate(s)

Spec == Init /\ [][Next]_vars

----------------------------------------------------------------------------
\* Every variable keeps its type (ProcessState, KillDialogState).
TypeOK ==
  /\ shown \in Servers /\ started \in Idents
  /\ \A s \in Servers : DOMAIN procs[s] \subseteq Pids /\ Running(s) \subseteq Process
  /\ mounted \in BOOLEAN
  /\ rows \subseteq Process /\ error \in BOOLEAN
  /\ killDialog \in Process \cup {NoProcess}
  /\ reqs \subseteq Request
  /\ hit \subseteq Idents /\ killed \subseteq Idents

\* No protected process is signalled, although the pid the page named may have
\* been given to one since it was listed (the check of Service.Kill).
ProtectedIsNeverSignalled == hit \cap Protected = {}

\* A process reported as killed, and gone, is not in a table that says it is
\* up to date.
KilledRowsGo ==
  (reqs = {} /\ ~error) => \A r \in rows : r.id \notin killed
=============================================================================
