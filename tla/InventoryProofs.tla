--------------------------- MODULE InventoryProofs ---------------------------
(* Theorems about Inventory for every number of servers, groups, names,      *)
(* mutations and steps.                                                      *)
EXTENDS Inventory, TLAPS

----------------------------------------------------------------------------
(* The tree                                                                 *)

\* Toggle is how the user opens and closes a group; all else that changes what
\* is expanded is a listing, which opens only groups never seen before.
LEMMA ExpandedStep ==
    ASSUME Next, NEW g \in seeded \ expanded, g \in expanded'
    PROVE  Toggle(g) /\ g \in DOMAIN side
<1>1. ASSUME NEW h \in Groups, Toggle(h) PROVE Toggle(g) /\ g \in DOMAIN side
  <2>1. g = h
    BY <1>1 DEF Toggle
  <2> QED BY <1>1, <2>1 DEF Toggle
<1>2. ASSUME NEW t \in tasks, TaskStep(t) PROVE FALSE
  <2>1. CASE Listed(t)
    BY <2>1 DEF Listed, SetGroups, tree
  <2> QED BY <1>2, <2>1 DEF TaskStep, Handle, AnswerLost, ListGroups, Answered, Refused, tree
<1>3. (\E h \in Groups : Toggle(h)) \/ Tasks \/ UNCHANGED expanded
  <2>1. ASSUME UserStep PROVE (\E h \in Groups : Toggle(h)) \/ UNCHANGED expanded
    <3>1. ASSUME Submit PROVE UNCHANGED expanded
      BY <3>1 DEF Submit, SubmitName, SubmitDeletion, SubmitRemoval, SubmitMove, SubmitServer,
                  Confirm, Begin, tree
    <3> QED
      BY <2>1, <3>1 DEF UserStep, OpenDialog, OpenCreate, OpenGroupDialog, OpenMove, OpenRemove,
                        OpenAdd, Open, CloseDialog, Navigate, Drop, Begin, tree
  <2> QED BY <2>1 DEF Next, OtherPage, Broadcast, Connect, Disconnect, SnapshotArrives, tree
<1> QED BY <1>1, <1>2, <1>3 DEF Tasks

\* However listings, mutations and snapshots interleave, a group that was
\* collapsed is expanded again by the user alone (useTreeState.ts).
THEOREM TreeIsTheUsers == Spec => CollapsedStaysCollapsed
<1>1. [Next]_vars =>
        [\A g \in seeded \ expanded : g \in expanded' => (Toggle(g) /\ g \in DOMAIN side)]_vars
  BY ExpandedStep
<1> QED BY <1>1, PTL DEF Spec, CollapsedStaysCollapsed

----------------------------------------------------------------------------
(* The filter of the dashboard                                              *)

\* The group is deleted and the deletion not yet over.
Gone(g) ==
  \E t \in tasks : /\ t.op = "deleteGroup" /\ t.group = g
                   /\ t.st \in {"ok", "refetch", "listed"}

Stands(g) == g \in DOMAIN groups \/ Gone(g)

InDialog(t) == t.op \notin {"side", "dash"} /\ t.from # "drop"

\* The fields of a task by its kind.
Formed(t) ==
  /\ {"op", "st"} \subseteq DOMAIN t /\ t.op # "none"
  /\ t.op \notin {"side", "dash"} => "from" \in DOMAIN t
  /\ t.op = "deleteGroup" => "group" \in DOMAIN t /\ t.from # "drop"
  /\ t.op = "move" => "server" \in DOMAIN t

\* A dialog stays open while it works.
HasDialog(t) ==
  InDialog(t) =>
    /\ dialog.kind = t.op
    /\ t.op = "deleteGroup" => dialog.group = t.group
    /\ t.op = "move" => dialog.server = t.server

\* A deletion of a group is alone, for the page its dialog was opened on; a group
\* is there until it is carried out.
Deletes(t) ==
  t.op = "deleteGroup" =>
    /\ t.from = route
    /\ t.st \in {"sent", "failed"} => t.group \in DOMAIN groups
    /\ t.st \in {"sent", "failed", "ok", "refetch", "listed"}
    /\ \A u \in tasks : u = t \/ u.op = "dash"

\* A listing for the sidebar has only groups that are there.
Lists(t) ==
  t.op # "dash" =>
    /\ t.st # "unlisted"
    /\ t.st = "listed" => "list" \in DOMAIN t /\ DOMAIN t.list \subseteq DOMAIN groups

FilterInv ==
  /\ \A t \in tasks : Formed(t) /\ HasDialog(t) /\ Deletes(t) /\ Lists(t)
  /\ \A t, u \in tasks : InDialog(t) /\ InDialog(u) => t = u
  /\ \A g \in DOMAIN side : Stands(g)
  /\ dialog.kind = "deleteGroup" => Stands(dialog.group)
  /\ route # "drop"
  /\ route \in Groups => Stands(route)

\* What an unanswered task keeps.
Same(t, u) ==
  \A x \in DOMAIN t \ {"st", "list"} : x \in DOMAIN u /\ u[x] = t[x]

NoSlips == {"overlap", "escape", "unlisted", "unsure"} \cap Slips = {}

\* t ends; a listing for the dashboard may begin anew.
Leaves(t) ==
  /\ \A v \in tasks \ {t} : v.op # "dash" => v \in tasks'
  /\ \A v \in tasks' : \/ v \in tasks \ {t}
                       \/ v.op = "dash" /\ v.st = "sent" /\ Formed(v)

LEMMA GoLeaves ==
    ASSUME NEW r, NEW t, Go(r, tasks \ {t})
    PROVE  Leaves(t) /\ route' = r
<1> DEFINE d == [op |-> "dash", st |-> "sent"]
<1>1. d.op = "dash" /\ d.st = "sent" /\ Formed(d)
  BY DEF Formed
<1>2. \A v \in tasks \ {t} : v.op # "dash" => v \in tasks'
  BY DEF Go
<1>3. \A v \in tasks' : v \in tasks \ {t} \/ v = d
  BY DEF Go
<1>4. route' = r
  BY DEF Go
<1> HIDE DEF d
<1> QED BY <1>1, <1>2, <1>3, <1>4 DEF Leaves

LEMMA KeepsSame ==
    ASSUME NEW t, Formed(t), NEW st
    PROVE  LET u == [t EXCEPT !.st = st] IN Same(t, u) /\ u.st = st /\ Formed(u)
BY DEF Formed, Same

LEMMA ListSame ==
    ASSUME NEW t, Formed(t), NEW list
    PROVE  LET u == With(With(t, "list", list), "st", "listed")
           IN Same(t, u) /\ u.st = "listed" /\ "list" \in DOMAIN u /\ u.list = list /\ Formed(u)
BY DEF Formed, Same, With


\* What u keeps of t.
LEMMA SameFields ==
    ASSUME NEW t, NEW u, Formed(t), Same(t, u)
    PROVE  /\ u.op = t.op
           /\ t.op \notin {"side", "dash"} => u.from = t.from
           /\ t.op = "deleteGroup" => u.group = t.group
           /\ t.op = "move" => u.server = t.server
           /\ InDialog(u) <=> InDialog(t)
BY DEF Formed, Same, InDialog

\* A mutation begins.
LEMMA BeginFilter ==
    ASSUME NoSlips, FilterInv, NEW t, Begin(t), UNCHANGED dialog,
           Formed(t), t.st = "sent", t.op \notin {"side", "dash"},
           t.from = "drop" => t.op = "move",
           t.from # "drop" => /\ dialog.kind = t.op /\ t.from = route
                              /\ t.op = "deleteGroup" => dialog.group = t.group
                              /\ t.op = "move" => dialog.server = t.server
                              /\ t.op # "move" => ~Busy
    PROVE  FilterInv'
<1>1. tasks' = tasks \cup {t} /\ UNCHANGED <<groups, side, route, dialog>>
  BY DEF Begin, db, tree
<1>2. \A u \in tasks : Commute(t, u)
  BY DEF Begin, Slip, NoSlips
<1>3. \A g : Stands(g) => Stands(g)'
  BY <1>1 DEF Stands, Gone
<1>4. \A u \in tasks : InDialog(u) => u.from # "drop" /\ u \in Mutations /\ u.op = dialog.kind
  BY DEF FilterInv, HasDialog, InDialog, Mutations
<1>5. ASSUME NEW u \in tasks, InDialog(t), InDialog(u) PROVE FALSE
  <2>1. CASE t.op = "move"
    BY <1>2, <1>4, <1>5, <2>1 DEF Commute, InDialog, FilterInv, HasDialog
  <2>2. CASE t.op # "move"
    BY <1>4, <1>5, <2>2 DEF Busy, InDialog
  <2> QED BY <2>1, <2>2
<1>6. \A u \in tasks : u.op = "deleteGroup" => InDialog(u)
  BY DEF FilterInv, Formed, InDialog
<1>7. Deletes(t)'
  <2> SUFFICES ASSUME t.op = "deleteGroup" PROVE Deletes(t)'
    BY DEF Deletes
  <2>1. InDialog(t) /\ t.from = route /\ dialog.group = t.group /\ dialog.kind = "deleteGroup"
    BY DEF Formed, InDialog
  <2>2. t.group \in DOMAIN groups
    BY <1>5, <1>6, <2>1 DEF FilterInv, Stands, Gone
  <2>3. \A u \in tasks : u.op = "dash"
    BY <1>2 DEF Commute
  <2> QED BY <1>1, <2>1, <2>2, <2>3 DEF Deletes
<1>8. ASSUME NEW u \in tasks PROVE Deletes(u)'
  <2>1. u.op # "deleteGroup"
    BY <1>2 DEF Commute
  <2> QED BY <2>1 DEF Deletes
<1>9. \A u \in tasks' : Formed(u) /\ HasDialog(u)' /\ Deletes(u)' /\ Lists(u)'
  <2>1. \A u \in tasks : HasDialog(u)' /\ Lists(u)'
    BY <1>1 DEF FilterInv, HasDialog, Lists
  <2>2. HasDialog(t)' /\ Lists(t)'
    BY <1>1 DEF HasDialog, Lists, InDialog
  <2> QED BY <1>1, <1>7, <1>8, <2>1, <2>2 DEF FilterInv
<1>10. \A u, v \in tasks' : InDialog(u) /\ InDialog(v) => u = v
  BY <1>1, <1>5 DEF FilterInv
<1> QED BY <1>1, <1>3, <1>9, <1>10 DEF FilterInv

\* A task goes on, and no group goes.
LEMMA GoesOn ==
    ASSUME FilterInv, NEW t \in tasks, NEW u, tasks' = (tasks \ {t}) \cup {u},
           Same(t, u), Formed(u), UNCHANGED <<side, route, dialog>>,
           DOMAIN groups \subseteq DOMAIN groups', Lists(u)',
           t.op = "deleteGroup" =>
             \/ u.st = "failed" /\ t.st = "sent"
             \/ u.st \in {"ok", "refetch", "listed"} /\ t.st \in {"ok", "refetch", "listed"}
    PROVE  FilterInv'
<1>1. /\ Formed(t) /\ u.op = t.op
      /\ t.op \notin {"side", "dash"} => u.from = t.from
      /\ t.op = "deleteGroup" => u.group = t.group
      /\ t.op = "move" => u.server = t.server
      /\ InDialog(u) <=> InDialog(t)
  BY SameFields DEF FilterInv
<1>2. ASSUME NEW g, Stands(g) PROVE Stands(g)'
  <2>1. CASE g \in DOMAIN groups
    BY <2>1 DEF Stands
  <2>2. CASE Gone(g)
    <3>1. PICK w \in tasks : w.op = "deleteGroup" /\ w.group = g /\ w.st \in {"ok", "refetch", "listed"}
      BY <2>2 DEF Gone
    <3>2. \E v \in tasks' : v.op = "deleteGroup" /\ v.group = g /\ v.st \in {"ok", "refetch", "listed"}
      BY <1>1, <3>1
    <3> QED BY <3>2 DEF Stands, Gone
  <2> QED BY <1>2, <2>1, <2>2 DEF Stands
<1>3. HasDialog(u)'
  BY <1>1 DEF FilterInv, HasDialog, InDialog
<1>4. Deletes(u)'
  BY <1>1 DEF FilterInv, Deletes
<1>5. ASSUME NEW v \in tasks PROVE HasDialog(v)' /\ Lists(v)'
  BY DEF FilterInv, HasDialog, Lists
<1>6. ASSUME NEW v \in tasks \ {t} PROVE Deletes(v)'
  BY <1>1 DEF FilterInv, Deletes
<1>7. \A v \in tasks' : Formed(v) /\ HasDialog(v)' /\ Deletes(v)' /\ Lists(v)'
  BY <1>3, <1>4, <1>5, <1>6 DEF FilterInv
<1>8. \A v, w \in tasks' : InDialog(v) /\ InDialog(w) => v = w
  BY <1>1 DEF FilterInv
<1> QED BY <1>2, <1>7, <1>8 DEF FilterInv

\* A group is deleted: its deletion is alone, and was asked for where the page is.
LEMMA DeletionFilter ==
    ASSUME FilterInv, NEW t \in tasks, t.st = "sent", t.op = "deleteGroup",
           groups' = Without(groups, t.group),
           Becomes(t, IF t.group \in DOMAIN groups THEN "ok" ELSE "missing"),
           UNCHANGED <<side, route, dialog>>
    PROVE  FilterInv'
<1> DEFINE u == [t EXCEPT !.st = "ok"]
<1>1. t.op = "deleteGroup" /\ t.group \in DOMAIN groups /\ t.from = route
  BY DEF FilterInv, Deletes
<1>2. tasks' = (tasks \ {t}) \cup {u} /\ DOMAIN groups' = DOMAIN groups \ {t.group}
  BY <1>1 DEF Becomes, Without
<1>3. Same(t, u) /\ Formed(u) /\ u.st = "ok"
  BY KeepsSame DEF FilterInv
<1>4. /\ Formed(t) /\ u.op = "deleteGroup" /\ u.from = t.from /\ u.group = t.group
      /\ InDialog(u) <=> InDialog(t)
  BY <1>1, <1>3, SameFields DEF FilterInv
<1> HIDE DEF u
<1>5. \A v \in tasks' : v = u \/ v.op = "dash"
  BY <1>1, <1>2 DEF FilterInv, Deletes
<1>6. Gone(t.group)'
  BY <1>2, <1>3, <1>4 DEF Gone
<1>7. ASSUME NEW g, Stands(g) PROVE Stands(g)'
  <2>1. g = t.group \/ g \in DOMAIN groups
    BY <1>1, <1>7 DEF Stands, Gone, FilterInv, Deletes
  <2> QED BY <1>2, <1>6, <2>1 DEF Stands
<1>8. HasDialog(u)'
  BY <1>1, <1>4 DEF FilterInv, HasDialog
<1>9. Deletes(u)' /\ Lists(u)'
  BY <1>1, <1>2, <1>3, <1>4, <1>5 DEF Deletes, Lists
<1>10. ASSUME NEW v \in tasks, v.op = "dash" PROVE HasDialog(v)' /\ Deletes(v)' /\ Lists(v)'
  BY <1>10 DEF HasDialog, Deletes, Lists, InDialog
<1>11. \A v \in tasks' : Formed(v) /\ HasDialog(v)' /\ Deletes(v)' /\ Lists(v)'
  BY <1>2, <1>3, <1>5, <1>8, <1>9, <1>10 DEF FilterInv
<1>12. \A v, w \in tasks' : InDialog(v) /\ InDialog(w) => v = w
  BY <1>5 DEF InDialog
<1> QED BY <1>7, <1>11, <1>12 DEF FilterInv

\* A task ends, with its dialog if it has one and not on the page of a group that
\* it deleted.
LEMMA Ends ==
    ASSUME FilterInv, NEW t \in tasks, Leaves(t), UNCHANGED groups,
           side' = side \/ DOMAIN side' \subseteq DOMAIN groups,
           dialog' = dialog \/ (dialog' = NoDialog /\ InDialog(t)),
           route' = route \/ (route' = Home /\ t.op \in {"remove", "deleteGroup"}),
           t.op = "deleteGroup" =>
             \/ t.st = "failed" /\ UNCHANGED <<side, dialog, route>>
             \/ /\ DOMAIN side' \subseteq DOMAIN groups /\ dialog' = NoDialog
                /\ route = t.group => route' = Home
    PROVE  FilterInv'
<1>0. \A v \in tasks' : \/ v \in tasks /\ v # t
                        \/ v.op = "dash" /\ v.st = "sent" /\ Formed(v)
  BY DEF Leaves
<1>1. ASSUME NEW g, Stands(g) PROVE Stands(g)' \/ (t.op = "deleteGroup" /\ t.group = g /\ t.st # "failed")
  BY <1>1 DEF Stands, Gone, Leaves
<1>2. \A v \in tasks' : HasDialog(v)'
  BY <1>0 DEF FilterInv, HasDialog, InDialog
<1>3. ASSUME NEW v \in tasks' PROVE Deletes(v)'
  <2>1. CASE v.op # "deleteGroup"
    BY <2>1 DEF Deletes
  <2>2. CASE v.op = "deleteGroup"
    <3>1. v \in tasks /\ v # t
      BY <1>0, <2>2
    <3>2. t.op = "dash"
      BY <2>2, <3>1 DEF FilterInv, Deletes
    <3>3. route' = route
      BY <3>2
    <3> QED BY <1>0, <3>1, <3>3 DEF FilterInv, Deletes
  <2> QED BY <2>1, <2>2
<1>4. \A v \in tasks' : Formed(v) /\ HasDialog(v)' /\ Deletes(v)' /\ Lists(v)'
  BY <1>0, <1>2, <1>3 DEF FilterInv, Lists
<1>5. \A v, w \in tasks' : InDialog(v) /\ InDialog(w) => v = w
  BY <1>0 DEF FilterInv, InDialog
<1>6. \A g \in DOMAIN side' : Stands(g)'
  BY <1>1 DEF FilterInv, Stands
<1>7. (dialog.kind = "deleteGroup" => Stands(dialog.group))'
  BY <1>1 DEF FilterInv, NoDialog
<1>8. route' # "drop" /\ (route' \in Groups => Stands(route)')
  <2>1. CASE route' = Home
    BY <2>1, InventoryAssumption DEF Home
  <2>2. CASE route' = route
    <3>1. t.op = "deleteGroup" /\ t.group = route /\ t.st # "failed" => route' = Home
      OBVIOUS
    <3> QED BY <1>1, <2>2, <3>1, InventoryAssumption DEF FilterInv, Home
  <2> QED BY <2>1, <2>2
<1> QED BY <1>4, <1>5, <1>6, <1>7, <1>8 DEF FilterInv

LEMMA QuietFilter ==
    ASSUME FilterInv, UNCHANGED <<groups, side, route, dialog, tasks>>
    PROVE  FilterInv'
BY DEF FilterInv, Formed, HasDialog, Deletes, Lists, Stands, Gone, InDialog

LEMMA OpenFilter ==
    ASSUME FilterInv, NEW d, Open(d), d.kind = "deleteGroup" => d.group \in DOMAIN side
    PROVE  FilterInv'
<1>1. UNCHANGED <<groups, side, route, tasks>> /\ dialog' = d /\ dialog.kind = "none"
  BY DEF Open, db, tree, NoDialog
<1>2. \A t \in tasks : ~InDialog(t)
  BY <1>1 DEF FilterInv, HasDialog, Formed
<1>3. \A g : Stands(g) <=> Stands(g)'
  BY <1>1 DEF Stands, Gone
<1>4. \A t \in tasks : HasDialog(t)' /\ (Deletes(t) => Deletes(t)') /\ (Lists(t) => Lists(t)')
  BY <1>1, <1>2 DEF HasDialog, Deletes, Lists
<1> QED BY <1>1, <1>3, <1>4 DEF FilterInv

LEMMA CloseFilter == ASSUME NoSlips, FilterInv, CloseDialog PROVE FilterInv'
<1>1. UNCHANGED <<groups, side, route, tasks>> /\ dialog'.kind = "none" /\ ~Busy
  BY DEF CloseDialog, NoSlips, Slip, db, tree, NoDialog
<1>2. \A t \in tasks : ~InDialog(t)
  BY <1>1 DEF FilterInv, HasDialog, Busy, InDialog, Mutations
<1>3. \A g : Stands(g) <=> Stands(g)'
  BY <1>1 DEF Stands, Gone
<1>4. \A t \in tasks : HasDialog(t)' /\ (Deletes(t) => Deletes(t)') /\ (Lists(t) => Lists(t)')
  BY <1>1, <1>2 DEF HasDialog, Deletes, Lists
<1> QED BY <1>1, <1>3, <1>4 DEF FilterInv

LEMMA NavigateFilter ==
    ASSUME FilterInv, NEW r \in {Home, Detail} \cup Groups, Navigate(r)
    PROVE  FilterInv'
<1>1. /\ UNCHANGED <<groups, side, dialog>> /\ route' = r /\ dialog.kind = "none"
      /\ r \in Groups => r \in DOMAIN side
  BY InventoryAssumption DEF Navigate, Go, db, tree, NoDialog
<1>2. \A t \in tasks : ~InDialog(t) /\ t.op # "deleteGroup"
  BY <1>1 DEF FilterInv, HasDialog, Formed, InDialog
<1>3. \A t \in tasks' : t \in tasks \/ t = [op |-> "dash", st |-> "sent"]
  BY DEF Navigate, Go
<1>4. \A g : Stands(g) => Stands(g)'
  BY <1>1, <1>2 DEF Stands, Gone
<1>5. \A t \in tasks' : Formed(t) /\ ~InDialog(t) /\ t.op # "deleteGroup" /\ Lists(t)'
  BY <1>1, <1>2, <1>3 DEF FilterInv, Formed, InDialog, Lists
<1>6. \A t \in tasks' : HasDialog(t)' /\ Deletes(t)'
  BY <1>5 DEF HasDialog, Deletes
<1>7. r # "drop"
  BY InventoryAssumption DEF Home, Detail
<1> QED BY <1>1, <1>4, <1>5, <1>6, <1>7 DEF FilterInv

LEMMA SubmitFilter == ASSUME NoSlips, FilterInv, Submit PROVE FilterInv'
<1>1. CASE SubmitName
  <2>1. ~Busy
    BY <1>1 DEF SubmitName
  <2>2. ASSUME NEW n, NEW t, t = [op |-> "create", st |-> "sent", from |-> route, name |-> n],
               Confirm(t)
        PROVE  FilterInv'
    BY <2>1, <2>2, BeginFilter DEF Confirm, Formed, FilterInv
  <2>3. ASSUME NEW n, NEW t, t = [op |-> "rename", st |-> "sent", from |-> route,
                                  group |-> dialog.group, name |-> n], Confirm(t)
        PROVE  FilterInv'
    BY <2>1, <2>3, BeginFilter DEF Confirm, Formed, FilterInv
  <2> QED BY <1>1, <2>2, <2>3 DEF SubmitName
<1>2. CASE SubmitDeletion
  <2> DEFINE t == [op |-> "deleteGroup", st |-> "sent", from |-> route, group |-> dialog.group]
  <2>1. /\ t.op = "deleteGroup" /\ t.st = "sent" /\ t.from = route /\ t.group = dialog.group
        /\ DOMAIN t = {"op", "st", "from", "group"}
    OBVIOUS
  <2> HIDE DEF t
  <2> QED
    BY <1>2, <2>1, BeginFilter DEF SubmitDeletion, Confirm, Formed, FilterInv, t
<1>3. CASE SubmitRemoval
  <2> DEFINE t == [op |-> "remove", st |-> "sent", from |-> route, server |-> dialog.server]
  <2>1. Formed(t) /\ t.op = "remove" /\ t.st = "sent" /\ t.from = route
    BY DEF Formed
  <2> HIDE DEF t
  <2>2. Confirm(t) /\ ~Busy
    BY <1>3 DEF SubmitRemoval, t
  <2> QED BY <2>1, <2>2, BeginFilter DEF Confirm, FilterInv
<1>4. CASE SubmitMove
  <2>1. ASSUME NEW g, NEW t, t = [op |-> "move", st |-> "sent", from |-> route,
                                  server |-> dialog.server, group |-> g], Confirm(t)
        PROVE  FilterInv'
    BY <2>1, BeginFilter DEF Confirm, Formed, FilterInv
  <2> QED BY <1>4, <2>1 DEF SubmitMove
<1>5. CASE SubmitServer
  <2>1. ASSUME NEW srv, NEW g, NEW t, t = [op |-> "add", st |-> "sent", from |-> route,
                                         server |-> srv, group |-> g], Confirm(t), ~Busy
        PROVE  FilterInv'
    BY <2>1, BeginFilter DEF Confirm, Formed, FilterInv
  <2> QED BY <1>5, <2>1 DEF SubmitServer
<1> QED BY <1>1, <1>2, <1>3, <1>4, <1>5 DEF Submit

LEMMA DropFilter == ASSUME NoSlips, FilterInv, NEW s, NEW g, Drop(s, g) PROVE FilterInv'
<1> DEFINE t == [op |-> "move", st |-> "sent", server |-> s, group |-> g, from |-> "drop"]
<1>1. Formed(t) /\ t.op = "move" /\ t.st = "sent" /\ t.from = "drop"
  BY DEF Formed
<1>2. Begin(t) /\ UNCHANGED dialog
  BY DEF Drop
<1> HIDE DEF t
<1> QED BY <1>1, <1>2, BeginFilter

LEMMA UserFilter == ASSUME NoSlips, FilterInv, UserStep PROVE FilterInv'
<1>1. CASE OpenDialog
  <2>1. ASSUME NEW kind \in {"create", "move", "remove", "add"}, NEW d, d.kind = kind, Open(d)
        PROVE  FilterInv'
    BY <2>1, OpenFilter
  <2>2. ASSUME NEW g \in DOMAIN side, NEW kind, NEW d, d = [kind |-> kind, group |-> g], Open(d)
        PROVE  FilterInv'
    BY <2>2, OpenFilter
  <2> QED
    BY <1>1, <2>1, <2>2 DEF OpenDialog, OpenCreate, OpenGroupDialog, OpenMove, OpenRemove, OpenAdd
<1>2. CASE \E g \in Groups : Toggle(g)
  BY <1>2, QuietFilter DEF Toggle, db
<1> QED
  BY <1>1, <1>2, CloseFilter, SubmitFilter, NavigateFilter, DropFilter DEF UserStep

LEMMA HandleFilter == ASSUME FilterInv, NEW t \in tasks, Handle(t) PROVE FilterInv'
<1>1. t.st = "sent" /\ UNCHANGED <<side, route, dialog>>
  BY DEF Handle, tree
<1>2. CASE DeleteGroup(t) /\ ~(UNCHANGED groups /\ Becomes(t, "failed"))
  BY <1>1, <1>2, DeletionFilter DEF DeleteGroup
<1>3. ASSUME NEW st \in {"ok", "missing", "taken", "failed"}, Becomes(t, st),
             t.op # "deleteGroup" \/ st = "failed", DOMAIN groups \subseteq DOMAIN groups'
      PROVE  FilterInv'
  <2> DEFINE u == [t EXCEPT !.st = st]
  <2>1. Same(t, u) /\ Formed(u) /\ u.st = st
    BY KeepsSame DEF FilterInv
  <2>2. tasks' = (tasks \ {t}) \cup {u}
    BY <1>3 DEF Becomes
  <2> HIDE DEF u
  <2>3. Lists(u)'
    BY <2>1 DEF Lists
  <2> QED BY <1>1, <1>3, <2>1, <2>2, <2>3, GoesOn
<1>4. CASE Change(t) /\ ~DeleteGroup(t)
  <2>1. t.op # "deleteGroup" /\ DOMAIN groups \subseteq DOMAIN groups'
    BY <1>4 DEF Change, CreateGroup, RenameGroup, MoveServer, CreateServer, DeleteServer, With
  <2>2. \E st \in {"ok", "missing", "taken"} : Becomes(t, st)
    BY <1>4 DEF Change, CreateGroup, RenameGroup, MoveServer, CreateServer, DeleteServer
  <2> QED BY <1>3, <2>1, <2>2
<1>5. CASE Becomes(t, "failed") /\ UNCHANGED groups
  BY <1>3, <1>5
<1> QED BY <1>2, <1>4, <1>5 DEF Handle, Change

LEMMA LostFilter ==
    ASSUME NoSlips, FilterInv, NEW t \in tasks, AnswerLost(t)
    PROVE  FilterInv'
<1> DEFINE u == [t EXCEPT !.st = "failed"]
<1>1. Same(t, u) /\ Formed(u) /\ u.st = "failed"
  BY KeepsSame DEF FilterInv
<1>2. tasks' = (tasks \ {t}) \cup {u} /\ UNCHANGED <<groups, side, route, dialog>>
  BY DEF AnswerLost, Becomes, tree
<1>3. t.op # "deleteGroup"
  BY DEF AnswerLost, NoSlips, Slip, FilterInv, Deletes
<1> HIDE DEF u
<1>4. Lists(u)'
  BY <1>1 DEF Lists
<1> QED BY <1>1, <1>2, <1>3, <1>4, GoesOn

LEMMA ListFilter ==
    ASSUME NoSlips, FilterInv, NEW t \in tasks, ListGroups(t)
    PROVE  FilterInv'
<1> PICK u : u = With(With(t, "list", groups), "st", "listed")
  OBVIOUS
<1>1. /\ UNCHANGED <<groups, side, route, dialog>> /\ tasks' = (tasks \ {t}) \cup {u}
      /\ t.op = "deleteGroup" => t.st = "refetch"
  BY DEF ListGroups, NoSlips, Slip, db, tree
<1>2. Same(t, u) /\ Formed(u) /\ u.st = "listed" /\ "list" \in DOMAIN u /\ u.list = groups
  BY ListSame DEF FilterInv
<1>3. Lists(u)'
  BY <1>1, <1>2 DEF Lists
<1> QED BY <1>1, <1>2, <1>3, GoesOn

LEMMA AnswerFilter == ASSUME FilterInv, NEW t \in tasks, Answered(t) PROVE FilterInv'
<1>1. UNCHANGED <<groups, side>> /\ t.op \notin {"side", "dash"} /\ t.st \in {"ok", "missing"}
  BY DEF Answered, tree, Mutations
<1>2. CASE t.op \in {"add", "remove"}
  <2>1. /\ Leaves(t)
        /\ dialog' = dialog \/ (dialog' = NoDialog /\ InDialog(t))
        /\ route' = route \/ (route' = Home /\ t.op = "remove")
    BY <1>1, <1>2, GoLeaves DEF Answered, End, InDialog
  <2> QED BY <1>1, <1>2, <2>1, Ends
<1>3. CASE t.op \notin {"add", "remove"}
  <2> DEFINE u == [t EXCEPT !.st = "refetch"]
  <2>1. Same(t, u) /\ Formed(u) /\ u.st = "refetch"
    BY KeepsSame DEF FilterInv
  <2>2. tasks' = (tasks \ {t}) \cup {u} /\ UNCHANGED <<route, dialog>>
    BY <1>3 DEF Answered, Becomes
  <2>3. t.op = "deleteGroup" => t.st = "ok"
    BY <1>1 DEF FilterInv, Deletes
  <2> HIDE DEF u
  <2>4. Lists(u)'
    BY <2>1 DEF Lists
  <2> QED BY <1>1, <2>1, <2>2, <2>3, <2>4, GoesOn
<1> QED BY <1>2, <1>3

LEMMA RefuseFilter == ASSUME FilterInv, NEW t \in tasks, Refused(t) PROVE FilterInv'
<1>1. /\ UNCHANGED <<groups, side, route>> /\ Leaves(t)
      /\ dialog' = dialog \/ (dialog' = NoDialog /\ InDialog(t))
      /\ t.op = "deleteGroup" => dialog' = dialog
  BY DEF Refused, Leaves, tree, db, End, InDialog, Mutations
<1>2. t.op = "deleteGroup" => t.st = "failed"
  BY DEF Refused, FilterInv, Deletes
<1> QED BY <1>1, <1>2, Ends

LEMMA ListedFilter == ASSUME FilterInv, NEW t \in tasks, Listed(t) PROVE FilterInv'
<1>1. UNCHANGED groups /\ Leaves(t)
  BY GoLeaves DEF Listed, Leaves, db
<1>2. t.op # "dash" => t.st = "listed" /\ side' = t.list /\ DOMAIN t.list \subseteq DOMAIN groups
  BY DEF Listed, SetGroups, FilterInv, Lists
<1>3. t.op = "dash" => UNCHANGED side
  BY DEF Listed, tree
<1>4. dialog' = dialog \/ (dialog' = NoDialog /\ InDialog(t))
  BY DEF Listed, End, InDialog, Mutations
<1>5. route' = route \/ (route' = Home /\ t.op \in {"remove", "deleteGroup"})
  BY DEF Listed, Go, RouteAfter
<1>6. t.op = "deleteGroup" => dialog' = NoDialog /\ (route = t.group => route' = Home)
  BY DEF Listed, Go, RouteAfter, End, Mutations, FilterInv, Formed, Deletes
<1> QED BY <1>1, <1>2, <1>3, <1>4, <1>5, <1>6, Ends

LEMMA FilterStep == ASSUME NoSlips, FilterInv, [Next]_vars PROVE FilterInv'
<1>1. CASE OtherPage \/ Broadcast \/ Connect \/ Disconnect \/ SnapshotArrives \/ UNCHANGED vars
  BY <1>1, QuietFilter DEF OtherPage, Broadcast, Connect, Disconnect, SnapshotArrives, vars, db, tree
<1> QED
  BY <1>1, UserFilter, HandleFilter, LostFilter, ListFilter, AnswerFilter, RefuseFilter,
     ListedFilter
     DEF Next, Tasks, TaskStep

\* However listings, mutations and clicks interleave, the dashboard is not left
\* on the filter of a deleted group (handleDeleteGroupConfirmed), unless a dialog
\* is left while it works, a listing fails, the answer to a change of the groups
\* is lost, or two mutations that do not commute are in flight.
THEOREM FiltersExist == ASSUME NoSlips PROVE Spec => []FilterIsNotDangling
<1>1. Init => FilterInv
  BY InventoryAssumption DEF Init, FilterInv, Formed, HasDialog, InDialog, Deletes, Lists, NoDialog,
     Home
<1>2. FilterInv => FilterIsNotDangling
  BY DEF FilterInv, FilterIsNotDangling, Stands, Gone, Mutations
<1>3. FilterInv /\ [Next]_vars => FilterInv'
  BY FilterStep
<1> QED BY <1>1, <1>2, <1>3, PTL DEF Spec

----------------------------------------------------------------------------
(* The page at rest                                                         *)

Func(f) == f = [s \in DOMAIN f |-> f[s]]

OnServer(t) == t.op \in {"move", "add", "remove"}
OnGroup(t) == t.op \in {"create", "rename", "deleteGroup"}

\* The table was changed and the page is yet to hear of it.
Due(t) ==
  \/ OnServer(t) /\ t.st = "ok"
  \/ t.op = "remove" /\ t.st = "missing"

\* An answer that is to change the row of s in f.
Pending(f, s) ==
  \E t \in tasks :
    /\ Due(t) /\ t.server = s
    /\ t.op = "move" => s \in DOMAIN f
    /\ t.op = "add" => s \notin DOMAIN f

Matches(f, s) ==
  /\ s \in DOMAIN f <=> s \in DOMAIN members
  /\ s \in DOMAIN f => f[s] = members[s]

\* f differs from the table only where an answer is to come.
Current(f) == Func(f) /\ \A s : Matches(f, s) \/ Pending(f, s)

\* What a task on a server did is in the table until it is answered.
Placed(t) ==
  OnServer(t) =>
    /\ "server" \in DOMAIN t
    /\ t.op # "remove" => "group" \in DOMAIN t
    /\ t.op # "remove" /\ t.st = "sent" => t.group \in DOMAIN groups \cup {None}
    /\ t.op # "remove" /\ t.st = "ok" =>
         t.server \in DOMAIN members /\ members[t.server] = t.group
    /\ t.op = "add" /\ t.st = "sent" => t.server \notin DOMAIN members
    /\ t.op = "remove" /\ t.st \in {"ok", "missing"} => t.server \notin DOMAIN members

\* A change of the groups is alone.
Alone(t) == OnGroup(t) => \A u \in tasks : u = t \/ u.op = "dash"

\* A listing for the sidebar is the table.
Exact(t) == t.op # "dash" /\ t.st = "listed" => "list" \in DOMAIN t /\ t.list = groups

TasksInv ==
  /\ \A t \in tasks : Placed(t) /\ Alone(t) /\ Exact(t)
  /\ \A t, u \in tasks : OnServer(t) /\ OnServer(u) /\ t.server = u.server => t = u

TableInv ==
  /\ Func(members) /\ Func(groups)
  /\ \A s \in DOMAIN members : members[s] \in DOMAIN groups \cup {None}

ListingInv ==
  \/ side = groups
  \/ \E t \in tasks : t.op = "side" \/ (OnGroup(t) /\ t.st \in {"ok", "refetch", "listed"})

CopiesInv ==
  /\ ~stale => Current(servers)
  /\ "old" \in DOMAIN last /\ (~last.old => Current(last.servers))
  /\ \A x \in stream : "old" \in DOMAIN x /\ (~x.old => Current(x.servers))

PageInv == TasksInv /\ TableInv /\ ListingInv /\ CopiesInv

\* The table is the same at s.
Untouched(s) ==
  /\ s \in DOMAIN members <=> s \in DOMAIN members'
  /\ s \in DOMAIN members => members'[s] = members[s]

\* Tasks end, and listings for the dashboard begin.
LEMMA TasksFew ==
    ASSUME TasksInv, UNCHANGED <<groups, members>>,
           \A t \in tasks' : t \in tasks \/ (t.op = "dash" /\ t.st = "sent")
    PROVE  TasksInv'
<1>1. \A t \in tasks' : Placed(t)' /\ Exact(t)'
  BY DEF TasksInv, Placed, Exact, OnServer
<1>2. \A t \in tasks' : Alone(t)'
  BY DEF TasksInv, Alone, OnGroup
<1>3. \A t, u \in tasks' : OnServer(t) /\ OnServer(u) /\ t.server = u.server => t = u
  BY DEF TasksInv, OnServer
<1> QED BY <1>1, <1>2, <1>3 DEF TasksInv

\* A task goes on, having changed the groups or its own server if anything.
LEMMA TasksGo ==
    ASSUME TasksInv, NEW t \in tasks, NEW u, tasks' = (tasks \ {t}) \cup {u},
           u.op = t.op, OnServer(t) => u.server = t.server, Placed(u)', Exact(u)',
           \/ OnGroup(t)
           \/ UNCHANGED <<groups, members>>
           \/ OnServer(t) /\ UNCHANGED groups /\ \A s : s # t.server => Untouched(s)
    PROVE  TasksInv'
<1>1. ASSUME NEW v \in tasks \ {t} PROVE Placed(v)' /\ Exact(v)'
  <2>1. CASE OnGroup(t)
    <3>1. v.op = "dash"
      BY <2>1 DEF TasksInv, Alone
    <3> QED BY <3>1 DEF Placed, Exact, OnServer
  <2>2. CASE UNCHANGED <<groups, members>>
    BY <2>2 DEF TasksInv, Placed, Exact
  <2>3. CASE OnServer(t) /\ UNCHANGED groups /\ \A s : s # t.server => Untouched(s)
    <3>1. Exact(v)'
      BY <2>3 DEF TasksInv, Exact
    <3>2. OnServer(v) => Untouched(v.server)
      BY <2>3 DEF TasksInv
    <3>3. Placed(v)'
      BY <2>3, <3>2 DEF TasksInv, Placed, Untouched
    <3> QED BY <3>1, <3>3
  <2> QED BY <2>1, <2>2, <2>3
<1>2. \A v \in tasks' : Alone(v)'
  BY DEF TasksInv, Alone, OnGroup
<1>3. \A v, w \in tasks' : OnServer(v) /\ OnServer(w) /\ v.server = w.server => v = w
  BY DEF TasksInv, OnServer
<1> QED BY <1>1, <1>2, <1>3 DEF TasksInv

\* A copy stays current if no answer is taken.
LEMMA CurrentKept ==
    ASSUME UNCHANGED members, \A t \in tasks : Due(t) => t \in tasks'
    PROVE  \A f : Current(f) => Current(f)'
<1> SUFFICES ASSUME NEW f, Current(f) PROVE Current(f)'
  OBVIOUS
<1>1. \A s : Matches(f, s) => Matches(f, s)'
  BY DEF Matches
<1>2. \A s : Pending(f, s) => Pending(f, s)'
  BY DEF Pending
<1> QED BY <1>1, <1>2 DEF Current

LEMMA CopiesKept ==
    ASSUME CopiesInv, UNCHANGED <<servers, stale, last, stream>>,
           \A f : Current(f) => Current(f)'
    PROVE  CopiesInv'
<1>1. ~stale' => Current(servers)'
  <2>1. PICK f : f = servers
    OBVIOUS
  <2>2. Current(servers) => Current(f)
    BY <2>1
  <2>3. Current(f)' => Current(servers)'
    BY <2>1 DEF Current, Matches, Pending
  <2> QED BY <2>2, <2>3 DEF CopiesInv
<1>2. "old" \in DOMAIN last' /\ (~last'.old => Current(last.servers)')
  <2>1. PICK f : f = last.servers
    OBVIOUS
  <2>2. Current(last.servers) => Current(f)
    BY <2>1
  <2>3. Current(f)' => Current(last.servers)'
    BY <2>1 DEF Current, Matches, Pending
  <2> QED BY <2>2, <2>3 DEF CopiesInv
<1>3. \A x \in stream' : "old" \in DOMAIN x /\ (~x.old => Current(x.servers)')
  BY DEF CopiesInv
<1> QED BY <1>1, <1>2, <1>3 DEF CopiesInv

LEMMA AgedOld == ASSUME CopiesInv, Age PROVE
    /\ "old" \in DOMAIN last' /\ last'.old
    /\ \A x \in stream' : "old" \in DOMAIN x /\ x.old
BY DEF CopiesInv, Age, Aged

\* A mutation begins. The groups it names are there: a deletion would be alone.
LEMMA BeginPage ==
    ASSUME NoSlips, PageInv, NEW t, Begin(t), t.st = "sent", Placed(t), t.op \notin {"side", "dash"}
    PROVE  PageInv'
<1>1. /\ tasks' = tasks \cup {t} /\ \A u \in tasks : Commute(t, u)
      /\ UNCHANGED <<groups, members, servers, stale, last, stream, side>>
  BY DEF Begin, Slip, NoSlips, db, wire, tree
<1>2. \A u \in tasks' : Placed(u)' /\ Exact(u)'
  BY <1>1 DEF PageInv, TasksInv, Placed, Exact
<1>3. \A u \in tasks' : Alone(u)'
  BY <1>1 DEF PageInv, TasksInv, Alone, OnGroup, Commute
<1>4. \A u, v \in tasks' : OnServer(u) /\ OnServer(v) /\ u.server = v.server => u = v
  BY <1>1 DEF PageInv, TasksInv, OnServer, Commute
<1>5. TasksInv'
  BY <1>2, <1>3, <1>4 DEF TasksInv
<1>6. TableInv' /\ ListingInv'
  BY <1>1 DEF PageInv, TableInv, ListingInv
<1>7. CopiesInv'
  BY <1>1, CurrentKept, CopiesKept DEF PageInv
<1> QED BY <1>5, <1>6, <1>7 DEF PageInv

\* The sidebar offers only groups that are there while a mutation may begin.
LEMMA OfferedGroups ==
    ASSUME NoSlips, FilterInv, NEW t, Begin(t), t.op = "move", NEW g \in DOMAIN side \cup {None}
    PROVE  g \in DOMAIN groups \cup {None}
<1>1. \A u \in tasks : u.op # "deleteGroup"
  BY DEF Begin, Slip, NoSlips, Commute
<1> QED BY <1>1 DEF FilterInv, Stands, Gone

LEMMA SubmitPage ==
    ASSUME NoSlips, "dangling" \notin Slips, FilterInv, PageInv, Submit
    PROVE  PageInv'
<1>1. CASE SubmitName \/ SubmitDeletion
  <2>1. ASSUME NEW t, Begin(t), t.st = "sent", OnGroup(t) PROVE PageInv'
    BY <2>1, BeginPage DEF OnGroup, OnServer, Placed
  <2> QED BY <1>1, <2>1 DEF SubmitName, SubmitDeletion, Confirm, OnGroup
<1>2. CASE SubmitRemoval
  <2> DEFINE t == [op |-> "remove", st |-> "sent", from |-> route, server |-> dialog.server]
  <2>1. Placed(t) /\ t.op = "remove" /\ t.st = "sent"
    BY DEF Placed
  <2> HIDE DEF t
  <2>2. Begin(t)
    BY <1>2 DEF SubmitRemoval, Confirm, t
  <2> QED BY <2>1, <2>2, BeginPage
<1>3. CASE SubmitMove
  <2>1. ASSUME NEW g \in DOMAIN side \cup {None}, NEW t,
               t = [op |-> "move", st |-> "sent", from |-> route, server |-> dialog.server,
                    group |-> g],
               Begin(t)
        PROVE  PageInv'
    <3>1. t.op = "move" /\ t.st = "sent" /\ t.group = g /\ {"server", "group"} \subseteq DOMAIN t
      BY <2>1
    <3>2. Placed(t)
      BY <2>1, <3>1, OfferedGroups DEF Placed
    <3> QED BY <2>1, <3>1, <3>2, BeginPage
  <2> QED BY <1>3, <2>1 DEF SubmitMove, Confirm
<1>4. CASE SubmitServer
  <2>1. ASSUME NEW s \in Servers \ DOMAIN members, NEW g \in DOMAIN groups \cup {None}, NEW t,
               t = [op |-> "add", st |-> "sent", from |-> route, server |-> s, group |-> g],
               Begin(t)
        PROVE  PageInv'
    <3>1. Placed(t) /\ t.op = "add" /\ t.st = "sent"
      BY <2>1 DEF Placed
    <3> QED BY <2>1, <3>1, BeginPage
  <2> QED BY <1>4, <2>1 DEF SubmitServer, Confirm, Slip
<1> QED BY <1>1, <1>2, <1>3, <1>4 DEF Submit

LEMMA DropPage == ASSUME NoSlips, FilterInv, PageInv, NEW s, NEW g, Drop(s, g) PROVE PageInv'
<1> DEFINE t == [op |-> "move", st |-> "sent", server |-> s, group |-> g, from |-> "drop"]
<1>1. t.op = "move" /\ t.st = "sent" /\ t.group = g /\ {"server", "group"} \subseteq DOMAIN t
  OBVIOUS
<1>2. Begin(t) /\ g \in DOMAIN side \cup {None}
  BY DEF Drop
<1> HIDE DEF t
<1>3. Placed(t)
  BY <1>1, <1>2, OfferedGroups DEF Placed
<1> QED BY <1>1, <1>2, <1>3, BeginPage

\* What changes neither the table, nor a copy, nor a mutation.
LEMMA QuietPage ==
    ASSUME PageInv, UNCHANGED <<groups, members, side, servers, stale, last, stream>>,
           \A t \in tasks : t.op # "dash" => t \in tasks',
           \A t \in tasks' : t \in tasks \/ (t.op = "dash" /\ t.st = "sent")
    PROVE  PageInv'
<1>1. TasksInv'
  BY TasksFew DEF PageInv
<1>2. CopiesInv'
  BY CurrentKept, CopiesKept DEF PageInv, Due, OnServer
<1>3. ListingInv'
  BY DEF PageInv, ListingInv, OnGroup
<1> QED BY <1>1, <1>2, <1>3 DEF PageInv, TableInv

LEMMA UserPage ==
    ASSUME NoSlips, "dangling" \notin Slips, FilterInv, PageInv, UserStep
    PROVE  PageInv'
<1>1. CASE OpenDialog \/ CloseDialog
  BY <1>1, QuietPage DEF OpenDialog, OpenCreate, OpenGroupDialog, OpenMove, OpenRemove, OpenAdd,
                         Open, CloseDialog, db, wire, tree
<1>2. CASE \E r \in {Home, Detail} \cup Groups : Navigate(r)
  BY <1>2, QuietPage DEF Navigate, Go, db, wire, tree
<1>3. CASE \E g \in Groups : Toggle(g)
  BY <1>3, QuietPage DEF Toggle, db, wire
<1> QED BY <1>1, <1>2, <1>3, SubmitPage, DropPage DEF UserStep

\* The hub, the socket, and the other pages.
LEMMA WirePage ==
    ASSUME PageInv, OtherPage \/ Broadcast \/ Connect \/ Disconnect \/ SnapshotArrives
    PROVE  PageInv'
<1>1. CASE OtherPage
  <2>1. PICK s \in Servers, g \in DOMAIN groups \cup {None} :
          /\ \A t \in Mutations : "server" \in DOMAIN t => t.server # s
          /\ members' = With(members, s, g)
    BY <1>1 DEF OtherPage
  <2>2. Age /\ stale' = TRUE /\ UNCHANGED <<groups, side, tasks>>
    BY <1>1 DEF OtherPage, tree
  <2>3. CopiesInv'
    BY <2>2, AgedOld DEF PageInv, CopiesInv
  <2>4. TableInv' /\ ListingInv'
    BY <2>1, <2>2 DEF PageInv, TableInv, ListingInv, With, Func
  <2>5. \A t \in tasks : OnServer(t) => t.server # s
    BY <2>1 DEF PageInv, TasksInv, Placed, OnServer, Mutations
  <2>6. \A t \in tasks' : Placed(t)' /\ Alone(t)' /\ Exact(t)'
    BY <2>1, <2>2, <2>5 DEF PageInv, TasksInv, Placed, Alone, Exact, With
  <2> QED BY <2>2, <2>3, <2>4, <2>6 DEF PageInv, TasksInv
<1>2. CASE Broadcast \/ Connect \/ Disconnect \/ SnapshotArrives
  <2>1. UNCHANGED <<groups, members, side, tasks>>
    BY <1>2 DEF Broadcast, Connect, Disconnect, SnapshotArrives, db, tree
  <2>2. TasksInv' /\ TableInv' /\ ListingInv'
    BY <2>1, TasksFew DEF PageInv, TableInv, ListingInv
  <2>3. \A f : Current(f) => Current(f)'
    BY <2>1, CurrentKept
  <2>4. CASE Broadcast
    <3>1. Current(members)'
      BY <2>1 DEF PageInv, TableInv, Current, Matches
    <3>2. last' = [servers |-> members, old |-> FALSE] /\ stream' = {last'} /\ members' = members
          /\ UNCHANGED <<servers, stale>>
      BY <2>4 DEF Broadcast
    <3>3. last'.servers = members' /\ "old" \in DOMAIN last' /\ ~last'.old
      BY <3>2
    <3>4. Current(last.servers)'
      BY <3>1, <3>3
    <3>5. ~stale => Current(servers)'
      <4>1. PICK f : f = servers
        OBVIOUS
      <4>2. Current(servers) => Current(f)
        BY <4>1
      <4>3. Current(f)' => Current(servers)'
        BY <3>2, <4>1 DEF Current, Matches, Pending
      <4> QED BY <2>3, <4>2, <4>3 DEF PageInv, CopiesInv
    <3> QED BY <2>2, <3>2, <3>3, <3>4, <3>5 DEF PageInv, CopiesInv
  <2>5. CASE Connect \/ Disconnect
    <3>1. UNCHANGED <<servers, stale, last>> /\ (stream' = {} \/ stream' = {last})
      BY <2>5 DEF Connect, Disconnect, db
    <3> QED BY <2>2, <2>3, <3>1 DEF PageInv, CopiesInv
  <2>6. CASE SnapshotArrives
    BY <2>2, <2>3, <2>6 DEF PageInv, CopiesInv, SnapshotArrives, Replaced, db
  <2> QED BY <1>2, <2>4, <2>5, <2>6
<1> QED BY <1>1, <1>2

\* A task that changes its server makes an answer due, in a copy that was true of
\* that server before.
LEMMA CurrentOwing ==
    ASSUME TasksInv, NEW t \in tasks, NEW u, tasks' = (tasks \ {t}) \cup {u},
           OnServer(t), ~Due(t), Due(u), u.op = t.op, u.server = t.server,
           \A s : s # t.server => Untouched(s),
           t.op = "move" => t.server \in DOMAIN members,
           t.op = "add" => t.server \notin DOMAIN members
    PROVE  \A f : Current(f) => Current(f)'
<1> SUFFICES ASSUME NEW f, Current(f) PROVE Current(f)'
  OBVIOUS
<1>1. ASSUME NEW s, s # t.server PROVE Matches(f, s)' \/ Pending(f, s)'
  <2>1. Matches(f, s) => Matches(f, s)'
    BY <1>1 DEF Matches, Untouched
  <2>2. Pending(f, s) => Pending(f, s)'
    BY <1>1 DEF Pending
  <2> QED BY <2>1, <2>2 DEF Current
<1>2. ASSUME NEW s, s = t.server PROVE Pending(f, s)'
  <2>1. ~Pending(f, s)
    BY <1>2 DEF Pending, TasksInv, Due, OnServer
  <2>2. Matches(f, s)
    BY <2>1 DEF Current
  <2> QED BY <1>2, <2>2 DEF Pending, Matches
<1> QED BY <1>1, <1>2 DEF Current

\* A move, an addition or a removal is carried out.
LEMMA ChangePage ==
    ASSUME PageInv, NEW t \in tasks, t.st = "sent", UNCHANGED <<side, servers, stale, last, stream>>,
           MoveServer(t) \/ CreateServer(t) \/ DeleteServer(t), "st" \in DOMAIN t
    PROVE  PageInv'
<1>1. OnServer(t) /\ UNCHANGED groups /\ Placed(t)
  BY DEF MoveServer, CreateServer, DeleteServer, OnServer, PageInv, TasksInv
<1>2. PICK st \in {"ok", "missing"} :
        /\ Becomes(t, st)
        /\ st = "missing" => t.op # "add"
        /\ t.op = "move" => IF st = "ok" THEN t.server \in DOMAIN members
                                          /\ members' = With(members, t.server, t.group)
                                         ELSE UNCHANGED members
        /\ t.op = "add" => members' = With(members, t.server, t.group)
        /\ t.op = "remove" => members' = Without(members, t.server)
  BY DEF MoveServer, CreateServer, DeleteServer
<1> DEFINE u == [t EXCEPT !.st = st]
<1>3. /\ tasks' = (tasks \ {t}) \cup {u} /\ u.st = st /\ u.op = t.op /\ u.server = t.server
      /\ "server" \in DOMAIN u /\ u.group = t.group /\ ("group" \in DOMAIN t => "group" \in DOMAIN u)
  BY <1>1, <1>2 DEF Becomes, Placed
<1> HIDE DEF u
<1>4. \A s : s # t.server => Untouched(s)
  BY <1>1, <1>2 DEF Untouched, With, Without, OnServer
<1>5. Placed(u)'
  BY <1>1, <1>2, <1>3 DEF Placed, With, Without, OnServer
<1>6. Exact(u)'
  BY <1>2, <1>3 DEF Exact
<1>7. TasksInv'
  BY <1>1, <1>3, <1>4, <1>5, <1>6, TasksGo DEF PageInv
<1>8. TableInv'
  BY <1>1, <1>2 DEF PageInv, TableInv, Placed, OnServer, Func, With, Without
<1>9. ListingInv'
  BY <1>1, <1>3 DEF PageInv, ListingInv, OnServer, OnGroup
<1>10. \A f : Current(f) => Current(f)'
  <2>1. ~Due(t)
    BY DEF Due
  <2>2. CASE t.op = "move" /\ st = "missing"
    BY <1>2, <1>3, <2>1, <2>2, CurrentKept
  <2>3. CASE ~(t.op = "move" /\ st = "missing")
    <3>1. Due(u)
      BY <1>1, <1>2, <1>3, <2>3 DEF Due, OnServer
    <3> QED BY <1>1, <1>2, <1>3, <1>4, <2>1, <2>3, <3>1, CurrentOwing DEF PageInv, Placed
  <2> QED BY <2>2, <2>3
<1> QED BY <1>7, <1>8, <1>9, <1>10, CopiesKept DEF PageInv

\* A group is created, renamed or deleted: its task is alone, and the members of
\* a deleted one are ungrouped.
LEMMA GroupPage ==
    ASSUME FilterInv, PageInv, NEW t \in tasks, t.st = "sent", UNCHANGED <<side, servers>>,
           CreateGroup(t) \/ RenameGroup(t) \/ DeleteGroup(t), "st" \in DOMAIN t,
           IF Orphans(t) THEN Age /\ stale' = TRUE ELSE UNCHANGED <<last, stream, stale>>
    PROVE  PageInv'
<1>1. OnGroup(t) /\ t.op \notin {"side", "dash"} /\ ~OnServer(t)
  BY DEF CreateGroup, RenameGroup, DeleteGroup, OnGroup, OnServer
<1>2. PICK st \in {"ok", "missing", "taken", "failed"} :
        Becomes(t, st) /\ (st # "ok" => UNCHANGED groups)
  BY DEF CreateGroup, RenameGroup, DeleteGroup, FilterInv, Deletes
<1> DEFINE u == [t EXCEPT !.st = st]
<1>3. tasks' = (tasks \ {t}) \cup {u} /\ u.st = st /\ u.op = t.op
  BY <1>2 DEF Becomes
<1> HIDE DEF u
<1>4. TasksInv'
  <2>1. Placed(u)' /\ Exact(u)'
    BY <1>1, <1>2, <1>3 DEF Placed, Exact, OnServer
  <2> QED BY <1>1, <1>3, <2>1, TasksGo DEF PageInv
<1>5. /\ \A s \in DOMAIN members : members[s] = t.group /\ t.op = "deleteGroup" => members'[s] = None
      /\ \A s \in DOMAIN members : ~(members[s] = t.group /\ t.op = "deleteGroup")
                                     => members'[s] = members[s]
      /\ DOMAIN members' = DOMAIN members /\ Func(members)' /\ Func(groups)'
      /\ DOMAIN groups \ (IF t.op = "deleteGroup" THEN {t.group} ELSE {}) \subseteq DOMAIN groups'
  BY ZenonT(30) DEF CreateGroup, RenameGroup, DeleteGroup, PageInv, TableInv, Func, With, Without
<1>6. TableInv'
  BY <1>5 DEF PageInv, TableInv
<1>7. ListingInv'
  <2>1. CASE st = "ok"
    BY <1>1, <1>3, <2>1 DEF ListingInv, OnGroup
  <2>2. CASE st # "ok"
    BY <1>1, <1>2, <1>3, <2>2 DEF PageInv, ListingInv
  <2> QED BY <2>1, <2>2
<1>8. CopiesInv'
  <2>1. CASE Orphans(t)
    BY <2>1, AgedOld DEF PageInv, CopiesInv
  <2>2. CASE ~Orphans(t)
    <3>1. members' = members
      BY <1>5, <2>2 DEF Orphans, PageInv, TableInv, Func
    <3>2. ~Due(t)
      BY DEF Due
    <3> QED BY <1>3, <2>2, <3>1, <3>2, CurrentKept, CopiesKept DEF PageInv
  <2> QED BY <2>1, <2>2
<1> QED BY <1>4, <1>6, <1>7, <1>8 DEF PageInv

\* A task goes on and the table stays.
LEMMA GoesOnPage ==
    ASSUME PageInv, NEW t \in tasks, NEW u, tasks' = (tasks \ {t}) \cup {u}, Formed(t),
           Same(t, u), u.st \in {"failed", "refetch", "listed"}, t.st # "listed",
           t.st = "sent" => u.st = "failed" \/ t.op = "side" \/ t.op = "dash",
           UNCHANGED <<groups, members, side>>, Exact(u)', CopiesInv',
           u.st = "failed" => /\ t.op \notin {"side", "dash"}
                              /\ OnGroup(t) => t.st \notin {"ok", "refetch", "listed"}
    PROVE  PageInv'
<1>1. u.op = t.op /\ (OnServer(t) => u.server = t.server)
  BY DEF Same, Formed, PageInv, TasksInv, Placed
<1>2. Placed(u)'
  BY <1>1 DEF Placed, OnServer, Same, PageInv, TasksInv
<1>3. TasksInv'
  BY <1>1, <1>2, TasksGo DEF PageInv
<1>4. ListingInv'
  BY <1>1 DEF PageInv, ListingInv, OnGroup
<1> QED BY <1>3, <1>4 DEF PageInv, TableInv

LEMMA HandlePage ==
    ASSUME FilterInv, PageInv, NEW t \in tasks, Handle(t)
    PROVE  PageInv'
<1>1. t.st = "sent" /\ t.op \notin {"side", "dash"} /\ UNCHANGED <<side, servers>> /\ Formed(t)
  BY DEF Handle, tree, Mutations, FilterInv
<1>2. CASE /\ Change(t)
           /\ IF Orphans(t) THEN Age /\ stale' = TRUE ELSE UNCHANGED <<last, stream, stale>>
  <2>1. CASE MoveServer(t) \/ CreateServer(t) \/ DeleteServer(t)
    <3>1. ~Orphans(t)
      BY <2>1 DEF MoveServer, CreateServer, DeleteServer, Orphans
    <3>2. UNCHANGED <<last, stream, stale>>
      BY <1>2, <3>1
    <3> QED BY <1>1, <2>1, <3>2, ChangePage DEF Formed
  <2>2. CASE CreateGroup(t) \/ RenameGroup(t) \/ DeleteGroup(t)
    BY <1>1, <1>2, <2>2, GroupPage DEF Formed
  <2> QED BY <1>2, <2>1, <2>2 DEF Change
<1>3. CASE Becomes(t, "failed") /\ UNCHANGED <<groups, members, last, stream, stale>>
  <2> DEFINE u == [t EXCEPT !.st = "failed"]
  <2>1. Same(t, u) /\ u.st = "failed" /\ tasks' = (tasks \ {t}) \cup {u}
    BY <1>1, <1>3, KeepsSame DEF Becomes
  <2> HIDE DEF u
  <2>2. CopiesInv'
    BY <1>1, <1>3, <2>1, CurrentKept, CopiesKept DEF PageInv, Due
  <2>3. Exact(u)'
    BY <2>1 DEF Exact
  <2> QED BY <1>1, <1>3, <2>1, <2>2, <2>3, GoesOnPage
<1> QED BY <1>2, <1>3 DEF Handle

\* What the page shows of a server is old once an answer is lost.
LEMMA LostPage ==
    ASSUME NoSlips, FilterInv, PageInv, NEW t \in tasks, AnswerLost(t)
    PROVE  PageInv'
<1> DEFINE u == [t EXCEPT !.st = "failed"]
<1>1. Same(t, u) /\ u.st = "failed" /\ tasks' = (tasks \ {t}) \cup {u} /\ Formed(t)
  BY KeepsSame DEF AnswerLost, Becomes, FilterInv
<1> HIDE DEF u
<1>2. /\ UNCHANGED <<groups, members, side, servers>> /\ t.op \notin {"side", "dash"}
      /\ t.st \in {"ok", "missing", "taken"} /\ (OnGroup(t) => t.st # "ok")
  BY DEF AnswerLost, NoSlips, Slip, OnGroup, Mutations, tree
<1>3. Exact(u)'
  BY <1>1 DEF Exact
<1>4. CopiesInv'
  <2>1. CASE OnServer(t)
    BY <2>1, AgedOld DEF AnswerLost, OnServer, PageInv, CopiesInv
  <2>2. CASE ~OnServer(t)
    <3>1. UNCHANGED <<last, stream, stale>> /\ ~Due(t)
      BY <2>2 DEF AnswerLost, OnServer, Due
    <3> QED BY <1>1, <1>2, <3>1, CurrentKept, CopiesKept DEF PageInv
  <2> QED BY <2>1, <2>2
<1> QED BY <1>1, <1>2, <1>3, <1>4, GoesOnPage

LEMMA ListPage ==
    ASSUME NoSlips, FilterInv, PageInv, NEW t \in tasks, ListGroups(t)
    PROVE  PageInv'
<1> PICK u : u = With(With(t, "list", groups), "st", "listed")
  OBVIOUS
<1>1. /\ UNCHANGED <<groups, members, side, servers, stale, last, stream>>
      /\ tasks' = (tasks \ {t}) \cup {u}
      /\ t.st = IF t.op \in {"side", "dash"} THEN "sent" ELSE "refetch"
  BY DEF ListGroups, NoSlips, Slip, db, wire, tree
<1>2. Same(t, u) /\ Formed(t) /\ u.st = "listed" /\ "list" \in DOMAIN u /\ u.list = groups
  BY ListSame DEF FilterInv
<1>3. Exact(u)'
  BY <1>1, <1>2 DEF Exact
<1>4. CopiesInv'
  BY <1>1, CurrentKept, CopiesKept DEF PageInv, Due, OnServer
<1> QED BY <1>1, <1>2, <1>3, <1>4, GoesOnPage

\* update_server, add_server and remove_server make the copy true where the answer
\* was due.
LEMMA AnswerCurrent ==
    ASSUME TasksInv, NEW t \in tasks, Due(t) \/ OnGroup(t), Dispatch(t), UNCHANGED members,
           \A v \in tasks : Due(v) /\ v # t => v \in tasks', Current(servers)
    PROVE  Current(servers)'
<1>1. CASE OnGroup(t)
  <2>1. PICK f : f = servers
    OBVIOUS
  <2>2. servers' = servers /\ ~Due(t)
    BY <1>1 DEF Dispatch, OnGroup, Due, OnServer
  <2>3. Current(f)
    BY <2>1
  <2>4. Current(f)'
    BY <2>2, <2>3, CurrentKept
  <2> QED BY <2>1, <2>2, <2>4 DEF Current, Matches, Pending
<1>2. CASE Due(t)
  <2>1. OnServer(t) /\ Placed(t)
    BY <1>2 DEF Due, OnServer, TasksInv
  <2>2. Func(servers)'
    BY <2>1 DEF Current, Func, Dispatch, OnServer, With, Without
  <2>3. ASSUME NEW s, s # t.server PROVE Matches(servers, s)' \/ Pending(servers, s)'
    <3>1. /\ s \in DOMAIN servers' <=> s \in DOMAIN servers
          /\ s \in DOMAIN servers => servers'[s] = servers[s]
      BY <2>1, <2>3 DEF Dispatch, OnServer, With, Without
    <3>2. Matches(servers, s) => Matches(servers, s)'
      BY <3>1 DEF Matches
    <3>3. Pending(servers, s) => Pending(servers, s)'
      BY <2>3, <3>1 DEF Pending
    <3> QED BY <3>2, <3>3 DEF Current
  <2>4. ASSUME NEW s, s = t.server PROVE Matches(servers, s)'
    <3>1. Pending(servers, s) => /\ t.op = "move" => s \in DOMAIN servers
                                 /\ t.op = "add" => s \notin DOMAIN servers
      BY <2>1, <2>4 DEF Pending, TasksInv, Due, OnServer
    <3>2. Matches(servers, s) \/ Pending(servers, s)
      BY DEF Current
    <3>3. CASE t.op = "move"
      <4>1. s \in DOMAIN servers /\ s \in DOMAIN members /\ members[s] = t.group
        BY <1>2, <2>1, <2>4, <3>1, <3>2, <3>3 DEF Placed, Due, Matches
      <4> QED BY <2>4, <3>3, <4>1 DEF Dispatch, With, Matches
    <3>4. CASE t.op = "add"
      <4>1. s \in DOMAIN members /\ members[s] = t.group
        BY <1>2, <2>1, <2>4, <3>4 DEF Placed, Due
      <4>2. s \in DOMAIN servers => servers[s] = members[s]
        BY <3>1, <3>2, <3>4 DEF Matches
      <4> QED BY <2>4, <3>4, <4>1, <4>2 DEF Dispatch, With, Matches
    <3>5. CASE t.op = "remove"
      <4>1. s \notin DOMAIN members
        BY <1>2, <2>1, <2>4, <3>5 DEF Placed, Due, OnServer
      <4> QED BY <2>4, <3>5, <4>1 DEF Dispatch, Without, Matches
    <3> QED BY <2>1, <3>3, <3>4, <3>5 DEF OnServer
  <2> QED BY <2>2, <2>3, <2>4 DEF Current
<1> QED BY <1>1, <1>2

LEMMA AnswerPage == ASSUME FilterInv, PageInv, NEW t \in tasks, Answered(t) PROVE PageInv'
<1>1. /\ UNCHANGED <<groups, members, side, stale>> /\ Dispatch(t) /\ Age
      /\ t.op \notin {"side", "dash"} /\ t.st \in {"ok", "missing"}
      /\ t.st = "missing" => t.op = "remove"
  BY DEF Answered, tree, Mutations
<1>2. Formed(t)
  BY DEF FilterInv
<1>3. \A v \in tasks : v # t /\ v.op # "dash" => v \in tasks'
  BY GoLeaves DEF Answered, Becomes, Leaves
<1>0. \A v \in tasks : Due(v) /\ v # t => v \in tasks'
  BY <1>3 DEF Due, OnServer
<1>4. CASE Due(t) \/ OnGroup(t)
  <2>1. CopiesInv'
    BY <1>0, <1>1, <1>4, AnswerCurrent, AgedOld DEF PageInv, CopiesInv
  <2>2. CASE t.op \in {"add", "remove"}
    <3>1. Leaves(t)
      BY <2>2, GoLeaves DEF Answered
    <3>2. TasksInv'
      BY <1>1, <3>1, TasksFew DEF PageInv, Leaves
    <3>3. ListingInv'
      BY <1>1, <2>2, <3>1 DEF PageInv, ListingInv, OnGroup, Leaves
    <3> QED BY <1>1, <2>1, <3>2, <3>3 DEF PageInv, TableInv
  <2>3. CASE t.op \notin {"add", "remove"}
    <3> DEFINE u == [t EXCEPT !.st = "refetch"]
    <3>1. Same(t, u) /\ u.st = "refetch" /\ tasks' = (tasks \ {t}) \cup {u}
      BY <1>2, <2>3, KeepsSame DEF Answered, Becomes
    <3> HIDE DEF u
    <3>2. Exact(u)'
      BY <3>1 DEF Exact
    <3> QED BY <1>1, <1>2, <2>1, <3>1, <3>2, GoesOnPage
  <2> QED BY <2>2, <2>3
<1>5. CASE ~(Due(t) \/ OnGroup(t))
  <2>1. UNCHANGED servers
    BY <1>1, <1>5 DEF Dispatch, Due, OnGroup, OnServer
  <2>2. t.op \notin {"add", "remove", "move"}
    BY <1>1, <1>5 DEF Due, OnServer
  <2>3. CopiesInv'
    <3>1. \A f : Current(f) => Current(f)'
      BY <1>0, <1>1, <1>5, CurrentKept
    <3>2. PICK f : f = servers
      OBVIOUS
    <3>3. Current(servers) => Current(f)
      BY <3>2
    <3>4. Current(f)' => Current(servers)'
      BY <2>1, <3>2 DEF Current, Matches, Pending
    <3> QED BY <1>1, <3>1, <3>3, <3>4, AgedOld DEF PageInv, CopiesInv
  <2> DEFINE u == [t EXCEPT !.st = "refetch"]
  <2>4. Same(t, u) /\ u.st = "refetch" /\ tasks' = (tasks \ {t}) \cup {u}
    BY <1>2, <2>2, KeepsSame DEF Answered, Becomes
  <2> HIDE DEF u
  <2>5. Exact(u)'
    BY <2>4 DEF Exact
  <2> QED BY <1>1, <1>2, <2>3, <2>4, <2>5, GoesOnPage
<1> QED BY <1>4, <1>5

\* A task ends, and with it a listing for the sidebar if it has one.
LEMMA EndPage ==
    ASSUME NoSlips, FilterInv, PageInv, NEW t \in tasks, Refused(t) \/ Listed(t)
    PROVE  PageInv'
<1>1. /\ UNCHANGED <<groups, members, servers, stale, last, stream>> /\ Leaves(t)
      /\ ~Due(t)
  BY GoLeaves DEF Refused, Listed, Leaves, db, wire, Due, OnServer
<1>2. TasksInv' /\ CopiesInv' /\ TableInv'
  <2>1. TasksInv' /\ TableInv'
    BY <1>1, TasksFew DEF PageInv, TableInv, Leaves
  <2>2. \A v \in tasks : Due(v) => v \in tasks'
    BY <1>1 DEF Leaves, Due, OnServer
  <2> QED BY <1>1, <2>1, <2>2, CurrentKept, CopiesKept DEF PageInv
<1>3. ListingInv'
  <2>1. CASE Refused(t) \/ t.op = "dash"
    <3>1. UNCHANGED side /\ ~(OnGroup(t) /\ t.st \in {"ok", "refetch", "listed"}) /\ t.op # "side"
      BY <2>1 DEF Refused, Listed, tree, OnGroup, Mutations
    <3> QED BY <1>1, <3>1 DEF PageInv, ListingInv, OnGroup, Leaves
  <2>2. CASE Listed(t) /\ t.op # "dash"
    <3>1. t.st = "listed" /\ side' = t.list
      BY <2>2 DEF Listed, SetGroups, FilterInv, Lists
    <3> QED BY <1>1, <2>2, <3>1 DEF PageInv, TasksInv, Exact, ListingInv
  <2> QED BY <2>1, <2>2
<1> QED BY <1>2, <1>3 DEF PageInv

LEMMA PageStep ==
    ASSUME NoSlips, "dangling" \notin Slips, FilterInv, PageInv, [Next]_vars
    PROVE  PageInv'
<1>1. CASE UNCHANGED vars
  BY <1>1, QuietPage DEF vars, db, wire, tree
<1> QED
  BY <1>1, UserPage, WirePage, HandlePage, LostPage, ListPage, AnswerPage, EndPage
     DEF Next, Tasks, TaskStep

\* Whatever mutations, listings and snapshots overtake each other, a page with
\* nothing in flight shows the groups of the database and, but for an old snapshot,
\* members that a deletion ungrouped and a lost answer, its servers, each with a row
\* (Sidebar.tsx, useMonitorState.ts), whatever else fails; without the slips excluded above, and without a server
\* added to a group that was deleted.
THEOREM PagesAreTrue ==
  ASSUME NoSlips, "dangling" \notin Slips
  PROVE  Spec => []SettledPageIsTrue
<1>1. Init => FilterInv
  BY InventoryAssumption DEF Init, FilterInv, Formed, HasDialog, InDialog, Deletes, Lists, NoDialog,
     Home
<1>2. Init => PageInv
  <2> SUFFICES ASSUME Init PROVE PageInv
    OBVIOUS
  <2>1. TasksInv /\ ListingInv
    <3>1. tasks = {[op |-> op, st |-> "sent"] : op \in {"side", "dash"}}
      BY DEF Init
    <3>2. \A t \in tasks : t.op \in {"side", "dash"} /\ t.st = "sent"
      BY <3>1
    <3>3. \E t \in tasks : t.op = "side"
      <4>1. [op |-> "side", st |-> "sent"] \in tasks
        BY <3>1
      <4> QED BY <4>1
    <3> QED BY <3>2, <3>3 DEF TasksInv, ListingInv, Placed, Alone, Exact, OnServer, OnGroup
  <2>2. TableInv
    BY DEF Init, TableInv, Func, Naming
  <2>3. Current(members)
    BY <2>2 DEF TableInv, Current, Matches
  <2>4. last.servers = members /\ "old" \in DOMAIN last /\ stale /\ stream = {}
    BY DEF Init
  <2>5. CopiesInv
    BY <2>3, <2>4 DEF CopiesInv
  <2> QED BY <2>1, <2>2, <2>5 DEF PageInv
<1>3. PageInv => SettledPageIsTrue
  <2> SUFFICES ASSUME PageInv, Mutations = {}
               PROVE  /\ (\A t \in tasks : t.op # "side") => side = groups
                      /\ ~stale => servers = members
                      /\ (\A t \in tasks : t.op # "side") /\ ~stale =>
                           (UNION Range(GroupList)) \cup UngroupedRootServers = DOMAIN servers
    BY DEF SettledPageIsTrue
  <2>1. \A t \in tasks : ~OnServer(t) /\ ~OnGroup(t)
    BY DEF Mutations, OnServer, OnGroup
  <2>2. (\A t \in tasks : t.op # "side") => side = groups
    BY <2>1 DEF PageInv, ListingInv
  <2>3. ~stale => servers = members
    <3>1. \A s : ~Pending(servers, s)
      BY <2>1 DEF Pending, Due, OnServer
    <3>2. Current(servers) => servers = members
      BY <3>1 DEF Current, Matches, Func, PageInv, TableInv
    <3> QED BY <3>2 DEF PageInv, CopiesInv
  <2>4. ASSUME side = groups, servers = members
        PROVE  (UNION Range(GroupList)) \cup UngroupedRootServers = DOMAIN servers
    <3>1. \A s : s \in UNION Range(GroupList) <=> s \in DOMAIN servers /\ servers[s] \in DOMAIN side
      BY DEF Range, GroupList
    <3> QED BY <2>4, <3>1 DEF UngroupedRootServers, PageInv, TableInv
  <2> QED BY <2>2, <2>3, <2>4
<1>4. FilterInv /\ PageInv /\ [Next]_vars => FilterInv' /\ PageInv'
  BY FilterStep, PageStep
<1> QED BY <1>1, <1>2, <1>3, <1>4, PTL DEF Spec
=============================================================================
