---------------------------- MODULE ServerDetail -----------------------------
(* The page of a server, web/src/pages/ServerDetail.tsx: one of its tabs is *)
(* mounted at a time, and what a tab has in flight outlives it.             *)
EXTENDS Naturals, Sequences, FiniteSets

CONSTANTS Servers, Texts, Blank, Pids, Protected,
          MaxJobs, MaxRows, MaxReqs, MaxProcs, MaxKills, Slips,       \* bounds
          MaxTabs           \* bound: tabs a behaviour mounts

VARIABLES
  shown, activeTab,
  visited,                  \* history: the tabs mounted so far
  crontab, jobs, loaded, entries, rowErrors, dialog, editIndex, editEntry, text,
  deleteIndex, runningIndex, cronReqs,                      \* Crons
  procs, started, rows, error, killDialog, procReqs, hit, killed

C == INSTANCE Crons WITH mounted <- activeTab = "crons", reqs <- cronReqs
P == INSTANCE Processes WITH mounted <- activeTab = "processes", reqs <- procReqs

ASSUME TabsAssumption == C!CronAssumption /\ P!ProcessesAssumption /\ MaxTabs \in Nat

cronVars == <<crontab, jobs, loaded, entries, rowErrors, dialog, editIndex, editEntry,
              text, deleteIndex, runningIndex, cronReqs>>
procVars == <<procs, started, rows, error, killDialog, procReqs, hit, killed>>
vars == <<shown, activeTab, visited, cronVars, procVars>>

Init == activeTab = "overview" /\ visited = {} /\ C!Init /\ P!Init

\* setActiveTab: the tab left is unmounted, the tab chosen mounted. The dialogs
\* of a tab are modal.
SetActiveTab(t) ==
  /\ t # activeTab /\ activeTab' = t
  /\ visited' = visited \cup ({t} \ {"overview"}) /\ Cardinality(visited') <= MaxTabs
  /\ ~dialog /\ deleteIndex = 0 /\ killDialog = P!NoProcess
  /\ CASE activeTab = "crons" -> C!Unmount
       [] t = "crons" -> C!Mount
       [] OTHER -> UNCHANGED cronVars
  /\ CASE activeTab = "processes" -> P!Unmount
       [] t = "processes" -> P!Mount
       [] OTHER -> UNCHANGED procVars
  /\ UNCHANGED shown

\* Another server: the page and its tab are not mounted anew.
Navigate(s) == UNCHANGED <<activeTab, visited>> /\ C!Navigate(s) /\ P!Navigate(s)

CronStep ==
  /\ UNCHANGED <<activeTab, visited, procVars>>
  /\ C!UserStep \/ ("crons" \in visited /\ C!OtherWrites) \/ C!RequestStep

ProcessStep ==
  /\ UNCHANGED <<activeTab, visited, cronVars>>
  /\ P!UserStep \/ P!RequestStep \/ P!SystemStep

Next ==
  \/ \E t \in {"overview", "crons", "processes"} : SetActiveTab(t)
  \/ \E s \in Servers : Navigate(s)
  \/ CronStep \/ ProcessStep

Spec == Init /\ [][Next]_vars

----------------------------------------------------------------------------
\* The types of both tabs (Crons, Processes).
TypeOK ==
  /\ activeTab \in {"overview"} \cup visited
  /\ C!TypeOK /\ P!TypeOK

\* The properties of the tabs hold for the page that mounts one at a time.
PageMatchesCrontab == C!PageMatchesCrontab
ErrorsStayWithTheirRow == C!ErrorsStayWithTheirRow
OperationsHitTheirEntry == C!OperationsHitTheirEntry
RowsActOnTheirServer == C!RowsActOnTheirServer
ProtectedIsNeverSignalled == P!ProtectedIsNeverSignalled
KilledRowsGo == P!KilledRowsGo
=============================================================================
