------------------------------ MODULE Inventory ------------------------------
(* The groups and servers as one page shows and changes them: the sidebar   *)
(* (Sidebar.tsx, useSidebarActions.ts, useGroups.ts, useTreeState.ts), the  *)
(* dashboard (Dashboard.tsx), the state they share (useMonitorState.ts,     *)
(* WebSocketProvider.tsx), and what the server keeps and broadcasts.        *)
(*                                                                          *)
(* A mutation is one asynchronous function: the request, on success the     *)
(* change of the shared state, for the sidebar's a new listing of the       *)
(* groups, and then the end of the dialog it came from.                     *)
EXTENDS Naturals, FiniteSets, Functions

CONSTANTS Servers, Groups, Names,
          None,             \* no group, no page of a group
          MaxTasks,         \* bound: mutations in flight
          MaxSteps,         \* bound: mutations begun and connections lost
          Slips             \* what may happen although the page does not survive it

Home == "home"
Detail == "detail"

ASSUME InventoryAssumption ==
  /\ None \notin Servers \cup Groups \cup Names
  /\ Groups \cap {Home, Detail, "drop"} = {}      \* what route and from also are
  /\ MaxTasks \in Nat /\ MaxSteps \in Nat

VARIABLES
  groups, members,          \* the database: group -> name, server -> group
  used,                     \* the identities given to groups: none is given twice
  last,                     \* the hub's stored snapshot
  connected, stream,        \* the page's WebSocket; the snapshot on its way, if any
  servers,                  \* MonitorState.servers
  side, dash,               \* the two useGroups: of the sidebar, of the dashboard
  expanded, seeded,         \* TreeState
  route,                    \* the group of ?group_id, Home, or Detail
  dialog,                   \* what a dialog is open for
  tasks,                    \* the mutations in flight, and the first listings
  stale, steps              \* history: an old snapshot is shown; steps taken

db == <<groups, members, used, last>>
wire == <<connected, stream>>
tree == <<side, expanded, seeded>>
vars == <<db, wire, servers, tree, dash, route, dialog, tasks, stale, steps>>

NoDialog == [kind |-> "none"]
Naming == UNION {[G -> Names] : G \in SUBSET Groups}

Without(f, x) == [y \in DOMAIN f \ {x} |-> f[y]]
With(f, x, v) == [y \in DOMAIN f \cup {x} |-> IF y = x THEN v ELSE f[y]]

\* A slip is followed only if Slips names it:
\*   "escape"  the dialog of a deletion or a move is left while it runs,
\*   "overlap" two mutations that do not commute are in flight together,
\*   "unlisted" a listing of groups fails,
\*   "unsure"  the answer of a change of the groups is lost: the page says that
\*             it failed,
\*   "dangling" a server is added to a group that the dashboard still offers, or
\*              is filtered by, and the sidebar has deleted.
Slip(cond, what) == cond => what \in Slips

Init ==
  /\ groups \in Naming /\ IsInjective(groups)
  /\ members \in [Servers -> DOMAIN groups \cup {None}]
  /\ used = DOMAIN groups
  /\ last = [servers |-> members, old |-> FALSE]
  /\ connected = FALSE /\ stream = {}
  /\ servers = <<>> /\ side = <<>> /\ dash = <<>>
  /\ expanded = {} /\ seeded = {}
  /\ route = Home /\ dialog = NoDialog
  /\ tasks = {[op |-> op, st |-> "sent"] : op \in {"side", "dash"}}
  /\ stale = TRUE /\ steps = 0

Step == steps < MaxSteps /\ steps' = steps + 1

----------------------------------------------------------------------------
\* The page: navigation, the tree

\* The page goes to r, with rest left of the tasks. When a server's page is left
\* the dashboard is mounted again, with a listing of its own.
Go(r, rest) ==
  /\ route' = r
  /\ IF route = Detail /\ r # Detail
     THEN /\ dash' = <<>>
          /\ tasks' = {t \in rest : t.op # "dash"} \cup {[op |-> "dash", st |-> "sent"]}
     ELSE dash' = dash /\ tasks' = rest

\* A row of a group, the breadcrumb, a server's row or card.
Navigate(r) ==
  /\ dialog = NoDialog /\ r # route
  /\ r \in {Home, Detail} \cup DOMAIN side
  /\ Go(r, tasks)
  /\ UNCHANGED <<db, wire, servers, tree, dialog, stale, steps>>

\* buildGroupList: the rows under each group; the other servers' rows are at the
\* root if they have no group.
GroupList == [g \in DOMAIN side |-> {s \in DOMAIN servers : servers[s] = g}]
UngroupedRootServers == {s \in DOMAIN servers : servers[s] = None}

Toggle(g) ==
  /\ dialog = NoDialog /\ g \in DOMAIN side
  /\ expanded' = IF g \in expanded THEN expanded \ {g} ELSE expanded \cup {g}
  /\ UNCHANGED <<db, wire, servers, side, seeded, dash, route, dialog, tasks, stale, steps>>

\* groups_updated: a group seen for the first time is expanded.
SetGroups(list) ==
  /\ side' = list
  /\ seeded' = seeded \cup DOMAIN list
  /\ expanded' = expanded \cup (DOMAIN list \ seeded)

----------------------------------------------------------------------------
\* The page: mutations

Mutations == {t \in tasks : t.op \notin {"side", "dash"}}

\* Moves, additions and removals of different servers commute, and each with
\* the first listing.
Commute(t, u) ==
  \/ u.op = "dash"
  \/ /\ {t.op, u.op} \subseteq {"move", "add", "remove", "side"}
     /\ u.op # "side" => t.server # u.server

Begin(t) ==
  /\ Step
  /\ Cardinality(Mutations) < MaxTasks
  /\ Slip(\E u \in tasks : ~Commute(t, u), "overlap")
  /\ tasks' = tasks \cup {t}
  /\ UNCHANGED <<db, wire, servers, tree, dash, route, stale>>

Open(d) ==
  /\ dialog = NoDialog /\ dialog' = d
  /\ UNCHANGED <<db, wire, servers, tree, dash, route, tasks, stale, steps>>

\* The context menus of the tree, of a group's row and of a server's; the trash
\* of a group's row opens the dialog of its menu.
OpenCreate == Open([kind |-> "create"])

OpenGroupDialog ==
  \E g \in DOMAIN side, kind \in {"rename", "deleteGroup"} : Open([kind |-> kind, group |-> g])

OpenMove == \E s \in DOMAIN servers : Open([kind |-> "move", server |-> s])

\* A server's page, or its card.
OpenRemove == \E s \in DOMAIN servers : Open([kind |-> "remove", server |-> s])

\* The dashboard's button: it has to be mounted.
OpenAdd == route # Detail /\ Open([kind |-> "add"])

OpenDialog == OpenCreate \/ OpenGroupDialog \/ OpenMove \/ OpenRemove \/ OpenAdd

Busy == \E t \in Mutations : t.from # "drop" /\ t.op = dialog.kind

\* Cancel, or Escape. The name dialogs do not close while saving.
CloseDialog ==
  /\ dialog # NoDialog
  /\ Busy => dialog.kind \notin {"create", "rename", "add"}
  /\ Slip(Busy, "escape")
  /\ dialog' = NoDialog
  /\ UNCHANGED <<db, wire, servers, tree, dash, route, tasks, stale, steps>>

\* What a dialog sends: from is the route its handler closed over.
Confirm(t) == dialog.kind = t.op /\ Begin(t) /\ UNCHANGED dialog

\* handleSave of the name dialogs.
SubmitName ==
  /\ ~Busy
  /\ \E n \in Names :
       \/ Confirm([op |-> "create", st |-> "sent", from |-> route, name |-> n])
       \/ /\ dialog.kind = "rename"
          /\ Confirm([op |-> "rename", st |-> "sent", from |-> route, group |-> dialog.group,
                      name |-> n])

SubmitDeletion ==
  /\ ~Busy /\ dialog.kind = "deleteGroup"
  /\ Confirm([op |-> "deleteGroup", st |-> "sent", from |-> route, group |-> dialog.group])

SubmitRemoval ==
  /\ ~Busy /\ dialog.kind = "remove"
  /\ Confirm([op |-> "remove", st |-> "sent", from |-> route, server |-> dialog.server])

\* The groups of the sidebar, or none. The button stays enabled.
SubmitMove ==
  /\ dialog.kind = "move"
  /\ \E g \in DOMAIN side \cup {None} :
       Confirm([op |-> "move", st |-> "sent", from |-> route, server |-> dialog.server,
                group |-> g])

\* The groups of the dashboard's own listing, or none; at first the one it is
\* filtered by, which may be in no listing.
SubmitServer ==
  /\ ~Busy
  /\ \E s \in Servers \ DOMAIN members, g \in DOMAIN dash \cup {None} \cup ({route} \cap Groups) :
       /\ Confirm([op |-> "add", st |-> "sent", from |-> route, server |-> s, group |-> g])
       /\ Slip(g \notin DOMAIN groups \cup {None}, "dangling")

Submit ==
  /\ dialog # NoDialog
  /\ SubmitName \/ SubmitDeletion \/ SubmitRemoval \/ SubmitMove \/ SubmitServer

\* handleDropOnGroup, handleDropOnRoot: a row of a server is dropped on a group,
\* or on the blank of the tree.
Drop(s, g) ==
  /\ dialog = NoDialog
  /\ s \in DOMAIN servers /\ g \in DOMAIN side \cup {None}
  /\ Begin([op |-> "move", st |-> "sent", server |-> s, group |-> g, from |-> "drop"])
  /\ UNCHANGED dialog

----------------------------------------------------------------------------
\* The server

Becomes(t, st) == tasks' = (tasks \ {t}) \cup {[t EXCEPT !.st = st]}

Taken(n, g) == \E h \in DOMAIN groups \ {g} : groups[h] = n

\* What the handlers do to the tables, and what they answer.
CreateGroup(t) ==
  /\ t.op = "create" /\ UNCHANGED members
  /\ IF Taken(t.name, None) THEN Becomes(t, "taken") /\ UNCHANGED groups
     ELSE /\ \E g \in Groups \ used : groups' = With(groups, g, t.name)
          /\ Becomes(t, "ok")

RenameGroup(t) ==
  /\ t.op = "rename" /\ UNCHANGED members
  /\ CASE t.group \notin DOMAIN groups -> Becomes(t, "missing") /\ UNCHANGED groups
       [] t.group \in DOMAIN groups /\ Taken(t.name, t.group) ->
            Becomes(t, "taken") /\ UNCHANGED groups
       [] OTHER -> Becomes(t, "ok") /\ groups' = With(groups, t.group, t.name)

\* Its members are ungrouped, and then it is deleted; a failure of the second
\* statement leaves the first.
DeleteGroup(t) ==
  /\ t.op = "deleteGroup"
  /\ members' = [s \in DOMAIN members |-> IF members[s] = t.group THEN None ELSE members[s]]
  /\ \/ /\ groups' = Without(groups, t.group)
        /\ Becomes(t, IF t.group \in DOMAIN groups THEN "ok" ELSE "missing")
     \/ UNCHANGED groups /\ Becomes(t, "failed")

\* A move is an update. Nothing checks that the group exists.
MoveServer(t) ==
  /\ t.op = "move" /\ UNCHANGED groups
  /\ IF t.server \in DOMAIN members
     THEN members' = With(members, t.server, t.group) /\ Becomes(t, "ok")
     ELSE Becomes(t, "missing") /\ UNCHANGED members

CreateServer(t) ==
  /\ t.op = "add" /\ UNCHANGED groups
  /\ members' = With(members, t.server, t.group) /\ Becomes(t, "ok")

DeleteServer(t) ==
  /\ t.op = "remove" /\ UNCHANGED groups
  /\ members' = Without(members, t.server)
  /\ Becomes(t, IF t.server \in DOMAIN members THEN "ok" ELSE "missing")

Change(t) ==
  \/ CreateGroup(t) \/ RenameGroup(t) \/ DeleteGroup(t)
  \/ MoveServer(t) \/ CreateServer(t) \/ DeleteServer(t)

\* The change a deletion makes to its members is in no answer: what the page
\* shows, and what is on its way, is old.
Orphans(t) == t.op = "deleteGroup" /\ \E s \in DOMAIN members : members[s] = t.group

Aged(x) == [x EXCEPT !.old = TRUE]
Age == last' = Aged(last) /\ stream' = {Aged(x) : x \in stream}

Handle(t) ==
  /\ t \in Mutations /\ t.st = "sent"
  /\ \/ /\ Change(t)
        /\ IF Orphans(t) THEN Age /\ stale' = TRUE ELSE UNCHANGED <<last, stream, stale>>
     \/ Becomes(t, "failed") /\ UNCHANGED <<groups, members, last, stream, stale>>
  /\ used' = used \cup DOMAIN groups'
  /\ UNCHANGED <<connected, servers, tree, dash, route, dialog, steps>>

\* The answer is lost, or is an error after the change (Update reads the server
\* again): what is shown of a server, and what is on its way, is old.
AnswerLost(t) ==
  /\ t \in Mutations /\ t.st \in {"ok", "missing", "taken"} /\ Becomes(t, "failed")
  /\ Slip(t.st = "ok" /\ t.op \in {"create", "rename", "deleteGroup"}, "unsure")
  /\ IF t.op \in {"move", "add", "remove"} THEN Age /\ stale' = TRUE
     ELSE UNCHANGED <<last, stream, stale>>
  /\ UNCHANGED <<groups, members, used, connected, servers, tree, dash, route, dialog, steps>>

\* ListGroups, for a first listing or for the refetch of a mutation.
ListGroups(t) ==
  /\ t.st = IF t.op \in {"side", "dash"} THEN "sent" ELSE "refetch"
  /\ \/ tasks' = (tasks \ {t}) \cup {With(With(t, "list", groups), "st", "listed")}
     \/ Becomes(t, "unlisted") /\ Slip(TRUE, "unlisted")
  /\ UNCHANGED <<db, wire, servers, tree, dash, route, dialog, stale, steps>>

\* The ticker: the hub stores the snapshot and sends it.
Broadcast ==
  /\ connected /\ stream = {}
  /\ last' = [servers |-> members, old |-> FALSE]
  /\ stream' = {last'}
  /\ UNCHANGED <<groups, members, used, connected, servers, tree, dash, route, dialog, tasks, stale,
                 steps>>

\* Another page moves or adds a server, unless this one is at it.
OtherPage ==
  /\ Step
  /\ \E s \in Servers, g \in DOMAIN groups \cup {None} :
       /\ \A t \in Mutations : "server" \in DOMAIN t => t.server # s
       /\ members' = With(members, s, g)
  /\ Age /\ stale' = TRUE
  /\ UNCHANGED <<groups, used, connected, servers, tree, dash, route, dialog, tasks>>

----------------------------------------------------------------------------
\* The page: what arrives

\* The socket opens, the hub sends the snapshot it has stored.
Connect ==
  /\ ~connected /\ connected' = TRUE
  /\ stream' = {last}
  /\ UNCHANGED <<db, servers, tree, dash, route, dialog, tasks, stale, steps>>

Disconnect ==
  /\ connected /\ connected' = FALSE /\ stream' = {} /\ Step
  /\ UNCHANGED <<db, servers, tree, dash, route, dialog, tasks, stale>>

\* Mutant: the servers a snapshot does not have stay.
Replaced_Merge(snapshot) ==
  [s \in DOMAIN snapshot \cup DOMAIN servers |->
     IF s \in DOMAIN snapshot THEN snapshot[s] ELSE servers[s]]

\* server_snapshot: the servers are those of the snapshot.
Replaced(snapshot) == snapshot

\* The snapshot replaces the servers, whatever was changed here since.
SnapshotArrives ==
  /\ \E x \in stream : servers' = Replaced(x.servers) /\ stale' = x.old
  /\ stream' = {}
  /\ UNCHANGED <<db, connected, tree, dash, route, dialog, tasks, steps>>

\* Mutant: a server that was deleted stays until the next snapshot.
Dispatch_KeepRemoved(t) ==
  servers' =
    CASE t.op = "move" -> IF t.server \in DOMAIN servers
                          THEN With(servers, t.server, t.group) ELSE servers
      [] t.op = "add" -> With(servers, t.server, t.group)
      [] OTHER -> servers

\* update_server, add_server, remove_server.
Dispatch(t) ==
  servers' =
    CASE t.op = "move" -> IF t.server \in DOMAIN servers
                          THEN With(servers, t.server, t.group) ELSE servers
      [] t.op = "add" -> IF t.server \in DOMAIN servers THEN servers
                         ELSE With(servers, t.server, t.group)
      [] t.op = "remove" -> Without(servers, t.server)
      [] OTHER -> servers

End(t) == dialog' = IF t.from = "drop" THEN dialog ELSE NoDialog

\* A deletion answered "not found" counts as done for a server. The sidebar's
\* mutations go on with the listing.
Answered(t) ==
  /\ t \in Mutations /\ t.st \in {"ok", "missing"}
  /\ t.st = "missing" => t.op = "remove"
  /\ Dispatch(t) /\ Age
  /\ IF t.op \in {"add", "remove"}
     THEN End(t) /\ Go(IF t.op = "remove" /\ t.from = Detail THEN Home ELSE route, tasks \ {t})
     ELSE Becomes(t, "refetch") /\ UNCHANGED <<dash, dialog, route>>
  /\ UNCHANGED <<groups, members, used, connected, tree, stale, steps>>

\* The dialog stays for another try, but for a move, which it ends.
Refused(t) ==
  /\ t \in Mutations
  /\ t.st \in {"failed", "taken"} \/ (t.st = "missing" /\ t.op # "remove")
  /\ tasks' = tasks \ {t}
  /\ IF t.op = "move" THEN End(t) ELSE UNCHANGED dialog
  /\ UNCHANGED <<db, wire, servers, tree, dash, route, stale, steps>>

\* Mutant: the filter stays.
RouteAfter_Same(t) == route

\* handleDeleteGroupConfirmed leaves the page of the group it deleted.
RouteAfter(t) == IF t.op = "deleteGroup" /\ t.from = t.group THEN Home ELSE route

\* setGroups, or the old listing; then the end of the mutation, which leaves a
\* filter on the group it deleted.
Listed(t) ==
  /\ t.st \in {"listed", "unlisted"}
  /\ IF t.op = "dash"
     THEN /\ dash' = IF t.st = "listed" THEN t.list ELSE dash
          /\ tasks' = tasks \ {t} /\ UNCHANGED route
     ELSE Go(RouteAfter(t), tasks \ {t})
  /\ IF t.op # "dash" /\ t.st = "listed" THEN SetGroups(t.list) ELSE UNCHANGED tree
  /\ IF t \in Mutations THEN End(t) ELSE UNCHANGED dialog
  /\ UNCHANGED <<db, wire, servers, stale, steps>>

----------------------------------------------------------------------------
UserStep ==
  \/ OpenDialog \/ CloseDialog \/ Submit
  \/ \E r \in {Home, Detail} \cup Groups : Navigate(r)
  \/ \E g \in Groups : Toggle(g)
  \/ \E s \in Servers, g \in Groups \cup {None} : Drop(s, g)

TaskStep(t) ==
  Handle(t) \/ AnswerLost(t) \/ ListGroups(t) \/ Answered(t) \/ Refused(t) \/ Listed(t)

Tasks == \E t \in tasks : TaskStep(t)

Next == UserStep \/ OtherPage \/ Broadcast \/ Connect \/ Disconnect \/ SnapshotArrives \/ Tasks

\* A request ends, the socket comes back, the ticker ticks.
Fairness ==
  WF_vars(Tasks) /\ WF_vars(Connect) /\ WF_vars(Broadcast) /\ WF_vars(SnapshotArrives)

Spec == Init /\ [][Next]_vars /\ Fairness

----------------------------------------------------------------------------
\* With nothing in flight the sidebar has the groups of the database and, but
\* for an old snapshot, members ungrouped by a deletion and servers whose answer
\* was lost, its servers in their groups, each with a row.
SettledPageIsTrue ==
  LET listed == \A t \in tasks : t.op # "side"
      rows == (UNION Range(GroupList)) \cup UngroupedRootServers
  IN Mutations = {} =>
       /\ listed => side = groups
       /\ ~stale => servers = members
       /\ listed /\ ~stale => rows = DOMAIN servers

\* A group the user collapsed is never re-expanded but by the user
\* (useTreeState.ts).
CollapsedStaysCollapsed ==
  [][\A g \in seeded \ expanded : g \in expanded' => (Toggle(g) /\ g \in DOMAIN side)]_vars

\* The dashboard is not left on the filter of a deleted group.
FilterIsNotDangling ==
  (Mutations = {} /\ route \in Groups) => route \in DOMAIN groups

\* Whatever was lost, late or overtaken, the page comes to show the servers of
\* the database.
PageCatchesUp == <>[](servers = members)
=============================================================================
