----------------------------- MODULE ServerForm -----------------------------
(* The add and edit server dialogs: web/src/hooks/useServerForm.ts and its  *)
(* two owners AddServerDialog.tsx and EditServerDialog.tsx, the form they   *)
(* show (ServerForm.tsx), the pages that mount them, and the three requests *)
(* they make (test, create, update).                                        *)
(*                                                                          *)
(* kind says which dialog the page has: "add"; "card", the edit dialog the  *)
(* dashboard mounts afresh for every edit; "page", the edit dialog          *)
(* ServerDetail mounts once and then only shows and hides.                  *)
(*                                                                          *)
(* host stands for all that says where and as whom to connect (host, port,  *)
(* user, authentication type) and secret for a password typed or a key      *)
(* uploaded.  The fingerprint of a host's key is written as the host.       *)
EXTENDS FiniteSets, Naturals

CONSTANTS Names, Hosts, Groups,     \* what the fields may hold
          Kinds,                    \* the dialogs to explore
          Blank, NoGroup, NoKey,    \* an empty field, no group, no fingerprint
          Absent,                   \* a member left out of a request body
          MaxTests, MaxSaves,       \* bounds: requests in flight
          MaxServers,               \* bound: servers added
          Slips                     \* bound: what may happen of "late", ...

ASSUME FormAssumption ==
  /\ Kinds \subseteq {"add", "card", "page"}
  /\ Blank \notin Names \cup Hosts
  /\ NoKey \notin Hosts
  /\ Absent \notin Groups \cup {NoGroup}
  /\ NoGroup \notin Groups
  /\ MaxTests \in Nat /\ MaxSaves \in Nat /\ MaxServers \in Nat

VARIABLES
  kind,         \* the dialog of this page
  open,         \* is it shown
  form,         \* the values of its fields
  original,     \* originalForm: what the edit dialog compares with
  testing, fingerprint, trusted, saving,       \* useServerForm
  uploading,    \* is the upload of a key file in flight
  tests,        \* connection tests in flight: the hosts they contact
  saves,        \* saves in flight
  store,        \* the server records
  shown,        \* history: the group in the form when the dialog last opened
  slips         \* history: what happened that the guards do not cover

dialog == <<open, form, original, testing, fingerprint, trusted, saving>>
vars == <<kind, dialog, uploading, tests, saves, store, shown, slips>>

GroupIds == Groups \cup {NoGroup}
Form == [name: Names \cup {Blank}, host: Hosts \cup {Blank},
         group: GroupIds, secret: BOOLEAN]
Server == [name: Names, host: Hosts, group: GroupIds, fp: Hosts \cup {NoKey}]
Body == [name: Names \cup {Blank}, host: Hosts \cup {Blank},
         group: GroupIds \cup {Absent}, fp: Hosts \cup {NoKey}]
Save == [body: Body, mine: BOOLEAN, st: {"sent", "read", "ok", "failed"},
         base: Server \cup {Absent}, touched: BOOLEAN]

----------------------------------------------------------------------------
\* The add dialog's default group is taken as none.
InitFormData == [name |-> Blank, host |-> Blank, group |-> NoGroup, secret |-> FALSE]

ServerToForm(s) ==
  [name |-> s.name, host |-> s.host, group |-> s.group, secret |-> FALSE]

ConnectionChanged == form.secret \/ form.host # original.host

NameOnlyChanged ==
  /\ form.name # original.name \/ form.group # original.group
  /\ ~ConnectionChanged

IsFormValid == form.name # Blank /\ form.host # Blank

TestPassed == fingerprint # NoKey /\ trusted

CanTest ==
  /\ IsFormValid
  /\ ~testing
  /\ kind # "add" => ConnectionChanged

CanSave ==
  /\ ~saving
  /\ IF kind = "add" THEN TestPassed
     ELSE IsFormValid /\ (NameOnlyChanged \/ (ConnectionChanged /\ TestPassed))

\* Mutant: an edit always sends the group it was opened with.
BodyGroup_Always ==
  IF kind = "add" /\ form.group = NoGroup THEN Absent ELSE form.group

\* buildServerBody (add) and buildUpdateBody (edit) with the extras of handleSave.
BodyGroup ==
  IF kind = "add"
  THEN IF form.group = NoGroup THEN Absent ELSE form.group
  ELSE IF form.group = original.group THEN Absent ELSE form.group

RequestBody ==
  [name |-> form.name, host |-> form.host, group |-> BodyGroup, fp |-> fingerprint]

\* A fresh dialog: the add dialog after a reset, or no edit dialog mounted.
Cleared ==
  /\ form' = InitFormData
  /\ testing' = FALSE /\ fingerprint' = NoKey /\ trusted' = FALSE
  /\ saving' = FALSE

ResetTestState == fingerprint' = NoKey /\ trusted' = FALSE

Slip(cond, what) ==
  /\ cond => what \in Slips
  /\ slips' = IF cond THEN slips \cup {what} ELSE slips

Init ==
  /\ kind \in Kinds
  /\ open = FALSE /\ form = InitFormData /\ original = InitFormData
  /\ testing = FALSE /\ fingerprint = NoKey /\ trusted = FALSE /\ saving = FALSE
  /\ uploading = FALSE
  /\ tests = {} /\ saves = {}
  /\ shown = NoGroup /\ slips = {}
  /\ \/ kind = "add" /\ store = {}
     \/ /\ kind # "add"
        /\ \E n \in Names, h \in Hosts, g \in GroupIds :
             store = {[name |-> n, host |-> h, group |-> g, fp |-> h]}

----------------------------------------------------------------------------
\* Opening and closing

\* The trigger of the add dialog: the form is what the last reset left.
OpenAdd ==
  /\ kind = "add" /\ ~open
  /\ open' = TRUE /\ shown' = form.group
  /\ UNCHANGED <<kind, form, original, testing, fingerprint, trusted, saving,
                 uploading, tests, saves, store, slips>>

\* The edit button fetches the record and shows it.  The dashboard mounts a new
\* dialog; ServerDetail sets the server of the one it has, whose effect resets
\* the form alone.
OpenEdit ==
  /\ kind # "add" /\ ~open
  /\ open' = TRUE
  /\ \E s \in store :
       /\ form' = ServerToForm(s)
       /\ shown' = s.group
       /\ IF kind = "card" \/ original = InitFormData
          THEN original' = ServerToForm(s) /\ UNCHANGED slips
          ELSE UNCHANGED original /\ Slip(TRUE, "kept")
  /\ UNCHANGED <<kind, testing, fingerprint, trusted, saving, uploading,
                 tests, saves, store>>

\* What is left of the dialog when it closes, by the user or by a save.
Dismissed ==
  /\ open' = FALSE
  /\ CASE kind = "add"  -> Cleared /\ UNCHANGED <<original, uploading, tests>>
       [] kind = "card" -> /\ Cleared
                           /\ original' = InitFormData
                           /\ uploading' = FALSE /\ tests' = {}
       [] kind = "page" -> UNCHANGED <<form, original, testing, fingerprint,
                                       trusted, uploading, tests>>

Orphaned(pending) ==
  IF kind = "card" THEN {[sv EXCEPT !.mine = FALSE] : sv \in pending} ELSE pending

HandleClose ==
  /\ open
  /\ Dismissed
  /\ kind = "page" => UNCHANGED saving
  /\ saves' = Orphaned(saves)
  /\ Slip(tests # {} \/ saves # {}, "late")
  /\ UNCHANGED <<kind, store, shown>>

----------------------------------------------------------------------------
\* The fields

\* Mutant: the edit dialog never takes a test result back.
UpdateField_KeepTest(new, isConnection) ==
  /\ form' = new
  /\ IF kind = "add" THEN ResetTestState ELSE UNCHANGED <<fingerprint, trusted>>

\* updateField of either dialog.  The edit dialog keeps the test result when
\* the field is not a connection field.
UpdateField(new, isConnection) ==
  /\ form' = new
  /\ IF kind = "add" \/ isConnection
     THEN ResetTestState
     ELSE UNCHANGED <<fingerprint, trusted>>

EditField ==
  /\ open
  /\ \/ \E n \in Names \ {form.name} :
          UpdateField([form EXCEPT !.name = n], FALSE)
     \/ \E g \in GroupIds \ {form.group} :
          UpdateField([form EXCEPT !.group = g], FALSE)
     \/ \E h \in Hosts \ {form.host} :
          UpdateField([form EXCEPT !.host = h], TRUE)
     \/ /\ UpdateField([form EXCEPT !.secret = ~form.secret], TRUE)
  /\ Slip(tests # {}, "late")
  /\ UNCHANGED <<kind, open, original, testing, saving, uploading, tests,
                 saves, store, shown>>

\* handleFileChange: the file goes to the server, the answer to updateField.
StartUpload ==
  /\ open /\ ~uploading
  /\ uploading' = TRUE
  /\ UNCHANGED <<kind, open, form, original, testing, fingerprint, trusted,
                 saving, tests, saves, store, shown, slips>>

\* The answer finds the dialog open, closed or opened again.
UploadDone ==
  /\ uploading
  /\ uploading' = FALSE
  /\ \/ UpdateField([form EXCEPT !.secret = TRUE], TRUE)
     \/ UNCHANGED <<form, fingerprint, trusted>>             \* upload failed
  /\ UNCHANGED <<kind, open, original, testing, saving, tests, saves, store,
                 shown, slips>>

----------------------------------------------------------------------------
\* Test, trust, save

RunTest ==
  /\ open /\ CanTest
  /\ Cardinality(tests) < MaxTests
  /\ testing' = TRUE
  /\ ResetTestState
  /\ tests' = tests \cup {form.host}
  /\ UNCHANGED <<kind, open, form, original, saving, uploading, saves,
                 store, shown, slips>>

\* The result goes into the dialog, whatever its fields hold by now.
TestDone(h) ==
  /\ h \in tests
  /\ tests' = tests \ {h}
  /\ testing' = FALSE
  /\ fingerprint' \in {h, fingerprint}
  /\ UNCHANGED <<kind, open, form, original, trusted, saving, uploading,
                 saves, store, shown, slips>>

Trust ==
  /\ open /\ fingerprint # NoKey /\ ~trusted
  /\ trusted' = TRUE
  /\ UNCHANGED <<kind, open, form, original, testing, fingerprint, saving,
                 uploading, tests, saves, store, shown, slips>>

HandleSave ==
  /\ open /\ CanSave
  /\ Cardinality(saves) < MaxSaves
  /\ kind = "add" => Cardinality(store) + Cardinality(saves) < MaxServers
  /\ saving' = TRUE
  /\ saves' = saves \cup {[body |-> RequestBody, mine |-> TRUE, st |-> "sent", base |-> Absent,
                           touched |-> form.group # shown]}
  /\ UNCHANGED <<kind, open, form, original, testing, fingerprint, trusted,
                 uploading, tests, store, shown, slips>>

\* The store's insert, and mergeServerFields with the store's update.
Created(b) ==
  [name |-> b.name, host |-> b.host, fp |-> b.fp,
   group |-> IF b.group = Absent THEN NoGroup ELSE b.group]

Merged(s, b) ==
  [name |-> b.name, host |-> b.host,
   group |-> IF b.group = Absent THEN s.group ELSE b.group,
   fp |-> IF b.fp = NoKey THEN s.fp ELSE b.fp]

Become(sv, next) == saves' = (saves \ {sv}) \cup {next}
To(sv, st) == [sv EXCEPT !.st = st]
ReadFrom(sv, s) == [sv EXCEPT !.st = "read", !.base = s]

\* The request handlers; a record that is not valid is refused, as any request
\* may be.  An update merges the body into a copy of the record it read.
SaveHandled(sv) ==
  /\ sv \in saves
  /\ \/ /\ sv.st = "sent" /\ kind # "add"
        /\ \E s \in store : Become(sv, ReadFrom(sv, s))
        /\ UNCHANGED store
     \/ /\ sv.st = IF kind = "add" THEN "sent" ELSE "read"
        /\ sv.body.name # Blank /\ sv.body.host # Blank
        /\ store' = IF kind = "add" THEN store \cup {Created(sv.body)}
                    ELSE {Merged(sv.base, sv.body)}
        /\ Become(sv, To(sv, "ok"))
     \/ /\ sv.st \in {"sent", "read"}
        /\ Become(sv, To(sv, "failed"))
        /\ UNCHANGED store
  /\ UNCHANGED <<kind, dialog, uploading, tests, shown, slips>>

\* The rest of handleSave: on success the owner closes the dialog it shows now,
\* which need not be the one that was saved.
SaveDone(sv) ==
  /\ sv \in saves
  /\ \/ /\ sv.st = "ok"
        /\ Dismissed
        /\ kind = "page" => saving' = FALSE
        /\ saves' = Orphaned(saves \ {sv})
     \/ /\ sv.st = "failed"
        /\ saving' = IF sv.mine THEN FALSE ELSE saving
        /\ saves' = saves \ {sv}
        /\ UNCHANGED <<open, form, original, testing, fingerprint, trusted,
                       uploading, tests>>
  /\ UNCHANGED <<kind, store, shown, slips>>

----------------------------------------------------------------------------
\* Another page

\* The move dialog of another page sends the group alone.  A move between the
\* two statements of an update is lost.
OtherMoves ==
  /\ kind # "add"
  /\ \E g \in GroupIds : store' = {[s EXCEPT !.group = g] : s \in store}
  /\ Slip(\E sv \in saves : sv.st = "read", "torn")
  /\ UNCHANGED <<kind, dialog, uploading, tests, saves, shown>>

\* The edit dialog of another page sends a tested host and its fingerprint.
OtherEdits ==
  /\ kind # "add"
  /\ \E h \in Hosts : store' = {[s EXCEPT !.host = h, !.fp = h] : s \in store}
  /\ Slip(open \/ saves # {}, "rival")
  /\ UNCHANGED <<kind, dialog, uploading, tests, saves, shown>>

UserStep == OpenAdd \/ OpenEdit \/ HandleClose \/ EditField \/ StartUpload
            \/ RunTest \/ Trust \/ HandleSave

ServerStep == \/ UploadDone
              \/ \E h \in tests : TestDone(h)
              \/ \E sv \in saves : SaveHandled(sv) \/ SaveDone(sv)

OtherStep == OtherMoves \/ OtherEdits

Next == UserStep \/ ServerStep \/ OtherStep

Spec == Init /\ [][Next]_vars

----------------------------------------------------------------------------
\* Every variable keeps its type (useServerForm.ts, EditServerDialog.tsx).
TypeOK ==
  /\ kind \in Kinds /\ open \in BOOLEAN
  /\ form \in Form /\ original \in Form /\ shown \in GroupIds
  /\ testing \in BOOLEAN /\ trusted \in BOOLEAN /\ saving \in BOOLEAN
  /\ fingerprint \in Hosts \cup {NoKey}
  /\ uploading \in BOOLEAN
  /\ tests \subseteq Hosts /\ saves \subseteq Save
  /\ store \subseteq Server
  /\ slips \subseteq {"late", "kept", "rival", "torn"}

\* A server record holds the key of the host it names, so the pool never dials
\* one host and checks another's key: as long as nobody edited or closed a
\* dialog with a request in flight, reopened the detail page's dialog, or
\* changed the host on another page while the dialog showed the old one.
KeyBelongsToHost ==
  slips = {} => \A s \in store : s.fp = s.host

\* A save whose user left the group alone does not undo the move another page
\* made meanwhile (buildUpdateBody sends group_id only when it differs), but
\* for one that comes between the statements of its handler.
UntouchedGroupIsKept ==
  [][\A sv \in saves :
       (SaveHandled(sv) /\ kind # "add" /\ ~sv.touched /\ slips \cap {"kept", "torn"} = {})
         => {s.group : s \in store'} = {s.group : s \in store}]_vars
=============================================================================
