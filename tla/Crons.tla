-------------------------------- MODULE Crons --------------------------------
(* The Cron Jobs tab of a server: web/src/hooks/useCrons.ts, the table of   *)
(* CronJobsTab.tsx and AddCronDialog.tsx, with the requests they make.      *)
(* Everything names an entry by its place: the page, its row errors, the    *)
(* requests, and the server, which reads the crontab and writes a changed   *)
(* one back with a second remote command (internal/cron/service.go).        *)
(*                                                                          *)
(* An entry carries the identity of the job it stands for, which the code   *)
(* does not have: it says whether an operation reached the entry picked.    *)
EXTENDS Naturals, Sequences, FiniteSets, SequencesExt

CONSTANTS Servers,
          Texts,            \* schedules with their commands
          Blank,            \* nothing: no server, no command typed yet
          MaxJobs,          \* bound: jobs ever created
          MaxRows,          \* bound: rows of the crontab
          MaxReqs,          \* bound: requests in flight
          Slips             \* what may happen although places do not survive it

\* Assumed by ServerDetail.
CronAssumption ==
  /\ Blank \notin Texts \cup Servers /\ Texts # {}
  /\ MaxJobs \in Nat /\ MaxReqs \in Nat /\ MaxRows \in 0..MaxJobs

VARIABLES
  shown,                    \* the server of the page, the prop serverId
  crontab, jobs,            \* the remote crontabs, the jobs created so far
  mounted, loaded, entries, \* the tab; cronsResult is set; its entries
  rowErrors,                \* row -> the job whose operation failed
  dialog, editIndex, editEntry, text,       \* AddCronDialog
  deleteIndex, runningIndex,                \* deleteConfirmIndex, runningIndex
  reqs                      \* requests in flight

page == <<mounted, loaded, entries, rowErrors>>
form == <<dialog, editIndex, editEntry, text>>
vars == <<shown, crontab, jobs, page, form, deleteIndex, runningIndex, reqs>>

Jobs == 0..MaxJobs          \* 0: no job
Entry == [home : Servers \cup {Blank}, job : Jobs, text : Texts \cup {Blank}, on : BOOLEAN]
NoEntry == [home |-> Blank, job |-> 0, text |-> Blank, on |-> FALSE]
Writers == {"toggle", "edit", "create", "delete"}
Ops == Writers \cup {"list", "run"}
Request == [op : Ops, server : Servers, i : Nat, was : Entry, new : Entry,
            st : {"sent", "read", "ok", "failed"}, seen : Seq(Entry), mine : BOOLEAN]

\* A slip is followed only if Slips names it:
\*   "overlap"  two requests that do not commute are in flight together,
\*   "held"     an entry moves or changes under a dialog that holds its place,
\*   "unsure"   a change is carried out and its answer is lost,
\*   "navigate" another server is shown while the tab is open,
\*   "foreign"  someone else changes the crontab while the page is at work.
Slip(cond, what) == cond => what \in Slips

\* Two requests that do not commute: one moves the entries, or both write back
\* a crontab they read before.
Conflict(op1, op2) ==
  \/ "delete" \in {op1, op2}
  \/ {op1, op2} \subseteq Writers
  \/ "list" \in {op1, op2} /\ {op1, op2} \cap Writers # {}

Send(op, i, was, new) ==
  /\ Cardinality(reqs) < MaxReqs
  /\ reqs' = reqs \cup {[op |-> op, server |-> shown, i |-> i, was |-> was, new |-> new,
                         st |-> "sent", seen |-> <<>>, mine |-> TRUE]}
  /\ Slip(\E q \in reqs : q.server = shown /\ Conflict(op, q.op), "overlap")

Init ==
  /\ shown \in Servers
  /\ jobs \in 0..MaxRows
  /\ \E t \in Texts : crontab =
       [s \in Servers |-> IF s # shown THEN <<>>
          ELSE [k \in 1..jobs |-> [home |-> s, job |-> k, text |-> t, on |-> TRUE]]]
  /\ mounted = FALSE /\ loaded = FALSE /\ entries = <<>> /\ rowErrors = <<>>
  /\ dialog = FALSE /\ editIndex = 0 /\ editEntry = NoEntry /\ text = Blank
  /\ deleteIndex = 0 /\ runningIndex = 0
  /\ reqs = {}

----------------------------------------------------------------------------
\* The tab

\* The tab is mounted when it is selected, and fetches once.
Mount ==
  /\ ~mounted
  /\ mounted' = TRUE
  /\ Send("list", 0, NoEntry, NoEntry)
  /\ UNCHANGED <<shown, crontab, jobs, loaded, entries, rowErrors, form, deleteIndex,
                 runningIndex>>

\* Leaving the tab forgets its state; what is in flight is carried out.
Unmount ==
  /\ mounted
  /\ mounted' = FALSE /\ loaded' = FALSE /\ entries' = <<>> /\ rowErrors' = <<>>
  /\ dialog' = FALSE /\ editIndex' = 0 /\ editEntry' = NoEntry /\ text' = Blank
  /\ deleteIndex' = 0 /\ runningIndex' = 0
  /\ reqs' = {[q EXCEPT !.mine = FALSE] : q \in reqs}
  /\ UNCHANGED <<shown, crontab, jobs>>

\* A link of the sidebar. The tab is not keyed by the server and cronsFetched
\* stays set: an open tab keeps the entries, and every place, it holds.
Navigate(s) ==
  /\ s # shown /\ shown' = s
  /\ Slip(mounted, "navigate")
  /\ UNCHANGED <<crontab, jobs, page, form, deleteIndex, runningIndex, reqs>>

\* Only one dialog at a time, over the table.
Idle == loaded /\ ~dialog /\ deleteIndex = 0

ClearRowError(i) == rowErrors' = [k \in DOMAIN rowErrors \ {i} |-> rowErrors[k]]

HandleToggle(i) ==
  /\ Idle
  /\ entries' = [entries EXCEPT ![i].on = ~@]
  /\ ClearRowError(i)
  /\ Send("toggle", i, entries[i], [entries[i] EXCEPT !.on = ~@])
  /\ UNCHANGED <<shown, crontab, jobs, mounted, loaded, form, deleteIndex, runningIndex>>

HandleRun(i) ==
  /\ Idle /\ runningIndex # i
  /\ runningIndex' = i
  /\ ClearRowError(i)
  /\ Send("run", i, entries[i], NoEntry)
  /\ UNCHANGED <<shown, crontab, jobs, mounted, loaded, entries, form, deleteIndex>>

OpenDelete(i) ==
  /\ Idle
  /\ deleteIndex' = i
  /\ UNCHANGED <<shown, crontab, jobs, page, form, runningIndex, reqs>>

\* Cancel, or handleDeleteConfirmed.
AnswerDelete ==
  /\ deleteIndex # 0
  /\ deleteIndex' = 0
  /\ \/ UNCHANGED <<rowErrors, reqs>>
     \/ /\ deleteIndex \in DOMAIN entries
        /\ ClearRowError(deleteIndex)
        /\ Send("delete", deleteIndex, entries[deleteIndex], NoEntry)
  /\ UNCHANGED <<shown, crontab, jobs, mounted, loaded, entries, form, runningIndex>>

----------------------------------------------------------------------------
\* The dialog

OpenAdd ==
  /\ Idle
  /\ dialog' = TRUE /\ editIndex' = 0 /\ editEntry' = NoEntry /\ text' = Blank
  /\ UNCHANGED <<shown, crontab, jobs, page, deleteIndex, runningIndex, reqs>>

OpenEdit(i) ==
  /\ Idle
  /\ dialog' = TRUE /\ editIndex' = i
  /\ editEntry' = entries[i] /\ text' = entries[i].text
  /\ UNCHANGED <<shown, crontab, jobs, page, deleteIndex, runningIndex, reqs>>

Saving == \E q \in reqs : q.mine /\ q.op \in {"edit", "create"}

CloseForm ==
  /\ dialog' = FALSE /\ editIndex' = 0 /\ editEntry' = NoEntry /\ text' = Blank

CloseDialog ==
  /\ dialog /\ ~Saving
  /\ CloseForm
  /\ UNCHANGED <<shown, crontab, jobs, page, deleteIndex, runningIndex, reqs>>

SetField ==
  /\ dialog
  /\ \E t \in Texts \ {text} : text' = t
  /\ UNCHANGED <<shown, crontab, jobs, page, dialog, editIndex, editEntry, deleteIndex,
                 runningIndex, reqs>>

\* The state of the switch is the one the entry had when the dialog opened.
HandleSave ==
  /\ dialog /\ ~Saving /\ text # Blank
  /\ \/ /\ editIndex # 0
        /\ Send("edit", editIndex, editEntry,
                [editEntry EXCEPT !.text = text])
        /\ UNCHANGED jobs
     \/ /\ editIndex = 0 /\ jobs < MaxJobs /\ Len(entries) < MaxRows
        /\ jobs' = jobs + 1
        /\ Send("create", 0, NoEntry, [home |-> shown, job |-> jobs', text |-> text, on |-> TRUE])
  /\ UNCHANGED <<shown, crontab, page, form, deleteIndex, runningIndex>>

----------------------------------------------------------------------------
\* The server

Answer(q, st, content) ==
  reqs' = (reqs \ {q}) \cup {[q EXCEPT !.st = st, !.seen = content]}

\* crontab -l, and for a run its second command.
Read(q) ==
  /\ q.st = "sent"
  /\ \/ /\ q.op \in Writers \cup {"list"}
        /\ Answer(q, "read", crontab[q.server])
     \/ q.op = "run" /\ q.i \in DOMAIN crontab[q.server] /\ Answer(q, "ok", <<>>)
     \/ Answer(q, "failed", <<>>)
  /\ UNCHANGED <<shown, crontab, jobs, page, form, deleteIndex, runningIndex>>

\* Mutant: a deletion counts the entries from zero.
Changed_FromZero(q) ==
  CASE q.op = "create" -> Append(q.seen, q.new)
    [] q.op = "delete" -> RemoveAt(q.seen, IF q.i = 1 THEN 1 ELSE q.i - 1)
    [] OTHER -> [q.seen EXCEPT ![q.i].text = q.new.text, ![q.i].on = q.new.on]

\* ReplaceCronEntry and the append of Create.
Changed(q) ==
  CASE q.op = "create" -> Append(q.seen, q.new)
    [] q.op = "delete" -> RemoveAt(q.seen, q.i)
    [] OTHER -> [q.seen EXCEPT ![q.i].text = q.new.text, ![q.i].on = q.new.on]

\* The changed crontab is written back, or not, and the page is told so; a
\* command whose answer is lost counts as failed although it was carried out.
Write(q) ==
  /\ q.st = "read" /\ q.op \in Writers
  /\ IF q.op # "create" /\ q.i \notin DOMAIN q.seen
     THEN Answer(q, "failed", <<>>) /\ UNCHANGED crontab
     ELSE LET written == [crontab EXCEPT ![q.server] = Changed(q)] IN
          \/ /\ crontab' = written
             /\ Answer(q, "ok", <<>>)
          \/ /\ crontab' \in {crontab, written}
             /\ Answer(q, "failed", <<>>)
             /\ Slip(crontab' # crontab, "unsure")
  /\ UNCHANGED <<shown, jobs, page, form, deleteIndex, runningIndex>>

\* Another page, or the server's own user.
OtherWrites ==
  /\ \E s \in Servers : \E k \in DOMAIN crontab[s] :
       crontab' \in {[crontab EXCEPT ![s] = RemoveAt(@, k)],
                    [crontab EXCEPT ![s][k].on = ~@]}
  /\ Slip(mounted \/ reqs # {}, "foreign")
  /\ UNCHANGED <<shown, jobs, page, form, deleteIndex, runningIndex, reqs>>

----------------------------------------------------------------------------
\* The answers

Failed(q) ==
  rowErrors' = [k \in DOMAIN rowErrors \cup {q.i} |->
                  IF k = q.i THEN q.was.job ELSE rowErrors[k]]

\* A row that moves, or changes, under an open dialog that holds it.
Held == dialog \/ deleteIndex # 0

\* Mutant: the errors keep their places.
DeleteCron_KeepErrors(i) ==
  /\ entries' = IF i \in DOMAIN entries THEN RemoveAt(entries, i) ELSE entries
  /\ UNCHANGED rowErrors

\* DELETE_CRON: the entry goes, the errors below it move up.
DeleteCron(i) ==
  /\ entries' = IF i \in DOMAIN entries THEN RemoveAt(entries, i) ELSE entries
  /\ rowErrors' = [k \in {j \in DOMAIN rowErrors : j < i} \cup
                         {j - 1 : j \in {m \in DOMAIN rowErrors : m > i}} |->
                     IF k < i THEN rowErrors[k] ELSE rowErrors[k + 1]]

\* Mutant: an entry that was changed goes to the end.
Put_AtEnd(i, e) == entries' = IF i \in DOMAIN entries THEN Append(RemoveAt(entries, i), e)
                              ELSE entries

\* The entry at i is replaced.
Put(i, e) == entries' = IF i \in DOMAIN entries THEN [entries EXCEPT ![i] = e]
                        ELSE entries

ListDone(q) ==
  /\ q.op = "list" /\ q.st \in {"read", "failed"}
  /\ IF q.mine /\ q.st = "read"
     THEN loaded' = TRUE /\ entries' = q.seen
     ELSE UNCHANGED <<loaded, entries>>
  /\ reqs' = reqs \ {q}
  /\ UNCHANGED <<shown, crontab, jobs, mounted, rowErrors, form, deleteIndex,
                 runningIndex>>

ToggleDone(q) ==
  /\ q.op = "toggle" /\ q.st \in {"ok", "failed"}
  /\ IF q.mine
     THEN /\ IF q.st = "ok" THEN Put(q.i, q.new) /\ UNCHANGED rowErrors
             ELSE Put(q.i, q.was) /\ Failed(q)
          /\ Slip(Held, "held")
     ELSE UNCHANGED <<entries, rowErrors>>
  /\ reqs' = reqs \ {q}
  /\ UNCHANGED <<shown, crontab, jobs, mounted, loaded, form, deleteIndex, runningIndex>>

DeleteDone(q) ==
  /\ q.op = "delete" /\ q.st \in {"ok", "failed"}
  /\ IF q.mine
     THEN /\ IF q.st = "ok" THEN DeleteCron(q.i)
             ELSE Failed(q) /\ UNCHANGED entries
          /\ Slip(Held, "held")
     ELSE UNCHANGED <<entries, rowErrors>>
  /\ reqs' = reqs \ {q}
  /\ UNCHANGED <<shown, crontab, jobs, mounted, loaded, form, deleteIndex, runningIndex>>

RunDone(q) ==
  /\ q.op = "run" /\ q.st \in {"ok", "failed"}
  /\ IF q.mine
     THEN /\ runningIndex' = 0
          /\ IF q.st = "failed" THEN Failed(q) ELSE UNCHANGED rowErrors
     ELSE UNCHANGED <<runningIndex, rowErrors>>
  /\ reqs' = reqs \ {q}
  /\ UNCHANGED <<shown, crontab, jobs, mounted, loaded, entries, form, deleteIndex>>

\* CRON_CREATED: in the place of the entry being edited, or at the end.
SaveDone(q) ==
  /\ q.op \in {"edit", "create"} /\ q.st \in {"ok", "failed"}
  /\ IF q.mine /\ q.st = "ok"
     THEN /\ IF editIndex # 0 THEN Put(editIndex, q.new)
             ELSE entries' = Append(entries, q.new)
          /\ CloseForm
     ELSE UNCHANGED <<entries, form>>
  /\ reqs' = reqs \ {q}
  /\ UNCHANGED <<shown, crontab, jobs, mounted, loaded, rowErrors, deleteIndex,
                 runningIndex>>

----------------------------------------------------------------------------
UserStep ==
  \/ AnswerDelete \/ OpenAdd \/ CloseDialog \/ SetField \/ HandleSave
  \/ \E i \in DOMAIN entries :
       HandleToggle(i) \/ HandleRun(i) \/ OpenDelete(i) \/ OpenEdit(i)

Handled(q) == Read(q) \/ Write(q)

Answered(q) == ListDone(q) \/ ToggleDone(q) \/ DeleteDone(q) \/ RunDone(q) \/ SaveDone(q)

RequestStep == \E q \in reqs : Handled(q) \/ Answered(q)

Next ==
  \/ Mount \/ Unmount \/ UserStep \/ RequestStep \/ OtherWrites
  \/ \E s \in Servers : Navigate(s)

Spec == Init /\ [][Next]_vars

----------------------------------------------------------------------------
\* Every variable keeps its type (CronState in useCrons.ts).
TypeOK ==
  /\ shown \in Servers /\ crontab \in [Servers -> Seq(Entry)] /\ jobs \in Jobs
  /\ mounted \in BOOLEAN /\ loaded \in BOOLEAN /\ entries \in Seq(Entry)
  /\ \A i \in DOMAIN rowErrors : i \in Nat /\ rowErrors[i] \in Jobs
  /\ dialog \in BOOLEAN /\ editIndex \in Nat /\ editEntry \in Entry
  /\ text \in Texts \cup {Blank}
  /\ deleteIndex \in Nat /\ runningIndex \in Nat
  /\ reqs \subseteq Request

\* With nothing in flight the table is the crontab, entry for entry, through
\* optimistic toggles and their reverts, edits in place, deletions and failures.
PageMatchesCrontab ==
  (loaded /\ ~\E q \in reqs : q.op \in Writers) => entries = crontab[shown]

\* An error stays with the row whose operation failed while other rows are
\* deleted around it (the renumbering of DELETE_CRON).
ErrorsStayWithTheirRow ==
  \A i \in DOMAIN rowErrors : i \in DOMAIN entries /\ entries[i].job = rowErrors[i]

Entries == UNION {{crontab[s][k] : k \in DOMAIN crontab[s]} : s \in Servers}

\* What reaches the crontab is the change the user asked for, to the entry the
\* user picked and to no other; a run runs the entry picked.
OperationsHitTheirEntry ==
  [][\A q \in reqs : Handled(q) =>
       /\ crontab' # crontab =>
            Entries' = CASE q.op = "create" -> Entries \cup {q.new}
                         [] q.op = "delete" -> {e \in Entries : e.job # q.was.job}
                         [] OTHER -> {IF e.job = q.was.job THEN q.new ELSE e : e \in Entries}
       /\ (q.op = "run" /\ q.i \in DOMAIN crontab[q.server]) =>
            crontab[q.server][q.i].job = q.was.job]_vars

\* A row acts on the server its entry was read from.
RowsActOnTheirServer ==
  \A q \in reqs : q.op \in {"toggle", "edit", "delete", "run"} => q.server = q.was.home
=============================================================================
