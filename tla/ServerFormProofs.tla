-------------------------- MODULE ServerFormProofs --------------------------
(* Theorems about ServerForm for every set of names, hosts and groups, every *)
(* dialog and every number of requests in flight.                           *)
EXTENDS ServerForm, TLAPS

----------------------------------------------------------------------------
(* Types                                                                    *)

\* An update that is merged has the record it read.
Typed == TypeOK /\ \A sv \in saves : sv.st = "read" => sv.base \in Server

LEMMA FormTyped ==
    /\ InitFormData \in Form
    /\ \A s \in Server : ServerToForm(s) \in Form
BY DEF InitFormData, ServerToForm, Form, Server, GroupIds

LEMMA ToFields ==
    ASSUME NEW sv \in Save, NEW st \in {"ok", "failed"}
    PROVE  /\ To(sv, st) \in Save /\ To(sv, st).st = st /\ To(sv, st).mine = sv.mine
           /\ To(sv, st).body = sv.body /\ To(sv, st).touched = sv.touched
BY DEF Save, To

LEMMA ReadFields ==
    ASSUME NEW sv \in Save, NEW s \in Server
    PROVE  LET r == ReadFrom(sv, s)
           IN  /\ r \in Save /\ r.st = "read" /\ r.base = s /\ r.mine = sv.mine
               /\ r.body = sv.body /\ r.touched = sv.touched
BY DEF Save, ReadFrom

LEMMA InitTyped == Init => Typed
<1> SUFFICES ASSUME Init PROVE Typed
  OBVIOUS
<1>1. store \subseteq Server
  BY DEF Init, Server
<1> QED BY <1>1, FormTyped DEF Init, Typed, TypeOK, GroupIds

LEMMA SlipTyped ==
    ASSUME slips \subseteq {"late", "kept", "rival", "torn"}, NEW cond,
           NEW what \in {"late", "kept", "rival", "torn"}, Slip(cond, what)
    PROVE  slips' \subseteq {"late", "kept", "rival", "torn"}
BY DEF Slip

\* What is left of the dialog.
LEMMA DismissedTyped ==
    ASSUME Typed, Dismissed, kind = "page" => saving' \in BOOLEAN
    PROVE  /\ open' = FALSE /\ form' \in Form /\ original' \in Form
           /\ testing' \in BOOLEAN /\ trusted' \in BOOLEAN /\ saving' \in BOOLEAN
           /\ fingerprint' \in Hosts \cup {NoKey} /\ uploading' \in BOOLEAN
           /\ tests' \subseteq Hosts
<1>1. kind \in {"add", "card", "page"}
  BY FormAssumption DEF Typed, TypeOK
<1>2. CASE kind = "add"
  BY <1>2, FormTyped DEF Dismissed, Cleared, Typed, TypeOK
<1>3. CASE kind = "card"
  BY <1>3, FormTyped DEF Dismissed, Cleared, Typed, TypeOK
<1>4. CASE kind = "page"
  BY <1>4 DEF Dismissed, Typed, TypeOK
<1> QED BY <1>1, <1>2, <1>3, <1>4

LEMMA OrphanedTyped ==
    ASSUME Typed, NEW pending \in SUBSET saves
    PROVE  /\ Orphaned(pending) \subseteq Save
           /\ \A sv \in Orphaned(pending) : sv.st = "read" => sv.base \in Server
<1>1. ASSUME NEW sv \in pending
      PROVE  /\ [sv EXCEPT !.mine = FALSE] \in Save
             /\ [sv EXCEPT !.mine = FALSE].st = sv.st
             /\ [sv EXCEPT !.mine = FALSE].base = sv.base
  <2>1. sv \in Save
    BY DEF Typed, TypeOK
  <2> QED BY <2>1 DEF Save
<1>2. CASE kind = "card"
  <2> SUFFICES ASSUME NEW e \in Orphaned(pending)
               PROVE  e \in Save /\ (e.st = "read" => e.base \in Server)
    OBVIOUS
  <2>1. PICK sv \in pending : e = [sv EXCEPT !.mine = FALSE]
    BY <1>2, Zenon DEF Orphaned
  <2> QED BY <1>1, <2>1 DEF Typed
<1>3. CASE kind # "card"
  BY <1>3 DEF Orphaned, Typed, TypeOK
<1> QED BY <1>2, <1>3

LEMMA UserTyped == ASSUME Typed, UserStep PROVE Typed'
<1>1. CASE OpenAdd
  BY <1>1 DEF OpenAdd, Typed, TypeOK, Form
<1>2. CASE OpenEdit
  <2>1. PICK s \in store : /\ form' = ServerToForm(s) /\ shown' = s.group
                           /\ original' \in {original, ServerToForm(s)}
    BY <1>2 DEF OpenEdit
  <2>2. s \in Server /\ s.group \in GroupIds
    BY DEF Typed, TypeOK, Server
  <2>3. slips' \subseteq {"late", "kept", "rival", "torn"}
    BY <1>2, SlipTyped DEF OpenEdit, Typed, TypeOK
  <2> QED BY <1>2, <2>1, <2>2, <2>3, FormTyped DEF OpenEdit, Typed, TypeOK
<1>3. CASE HandleClose
  <2>1. slips' \subseteq {"late", "kept", "rival", "torn"}
    BY <1>3, SlipTyped DEF HandleClose, Typed, TypeOK
  <2>2. kind = "page" => saving' \in BOOLEAN
    BY <1>3 DEF HandleClose, Typed, TypeOK
  <2> QED BY <1>3, <2>1, <2>2, DismissedTyped, OrphanedTyped DEF HandleClose, Typed, TypeOK
<1>4. CASE EditField
  <2>1. slips' \subseteq {"late", "kept", "rival", "torn"}
    BY <1>4, SlipTyped DEF EditField, Typed, TypeOK
  <2>2. form' \in Form
    BY <1>4 DEF EditField, UpdateField, Typed, TypeOK, Form
  <2>3. fingerprint' \in Hosts \cup {NoKey} /\ trusted' \in BOOLEAN
    BY <1>4 DEF EditField, UpdateField, ResetTestState, Typed, TypeOK
  <2> QED BY <1>4, <2>1, <2>2, <2>3 DEF EditField, Typed, TypeOK
<1>5. CASE StartUpload
  BY <1>5 DEF StartUpload, Typed, TypeOK
<1>6. CASE RunTest
  <2>1. form.host \in Hosts
    BY <1>6 DEF RunTest, CanTest, IsFormValid, Typed, TypeOK, Form
  <2> QED BY <1>6, <2>1 DEF RunTest, ResetTestState, Typed, TypeOK
<1>7. CASE Trust
  BY <1>7 DEF Trust, Typed, TypeOK
<1>8. CASE HandleSave
  <2> DEFINE new == [body |-> RequestBody, mine |-> TRUE, st |-> "sent", base |-> Absent,
                     touched |-> form.group # shown]
  <2>1. RequestBody \in Body
    BY DEF RequestBody, BodyGroup, Body, Typed, TypeOK, Form
  <2>2. new \in Save /\ new.st = "sent"
    BY <2>1 DEF Save
  <2> HIDE DEF new
  <2>3. saves' = saves \cup {new}
    BY <1>8, Zenon DEF HandleSave, new
  <2> QED BY <1>8, <2>2, <2>3 DEF HandleSave, Typed, TypeOK
<1> QED BY <1>1, <1>2, <1>3, <1>4, <1>5, <1>6, <1>7, <1>8 DEF UserStep

LEMMA StoreTyped ==
    /\ \A b \in Body : (b.name # Blank /\ b.host # Blank) => Created(b) \in Server
    /\ \A s \in Server, b \in Body :
         (b.name # Blank /\ b.host # Blank) => Merged(s, b) \in Server
BY DEF Body, Server, Created, Merged, GroupIds

LEMMA SaveHandledTyped == ASSUME Typed, NEW sv \in saves, SaveHandled(sv) PROVE Typed'
<1>0. sv \in Save /\ sv.body \in Body
  BY DEF Typed, TypeOK, Save
<1>1. CASE sv.st = "sent" /\ kind # "add" /\ UNCHANGED store
           /\ \E s \in store : Become(sv, ReadFrom(sv, s))
  <2>1. PICK s \in store : Become(sv, ReadFrom(sv, s))
    BY <1>1
  <2>2. s \in Server
    BY DEF Typed, TypeOK
  <2> QED
    BY <1>0, <1>1, <2>1, <2>2, ReadFields DEF SaveHandled, Become, Typed, TypeOK, dialog
<1>2. CASE /\ sv.body.name # Blank /\ sv.body.host # Blank
           /\ sv.st = IF kind = "add" THEN "sent" ELSE "read"
           /\ store' = IF kind = "add" THEN store \cup {Created(sv.body)}
                       ELSE {Merged(sv.base, sv.body)}
           /\ Become(sv, To(sv, "ok"))
  <2>1. store' \subseteq Server
    BY <1>0, <1>2, StoreTyped DEF Typed, TypeOK
  <2>2. /\ saves' \subseteq Save
        /\ \A e \in saves' : e.st = "read" => e.base \in Server
    BY <1>0, <1>2, ToFields DEF Become, Typed, TypeOK
  <2> QED BY <2>1, <2>2 DEF SaveHandled, Typed, TypeOK, dialog
<1>3. CASE Become(sv, To(sv, "failed")) /\ UNCHANGED store
  <2>1. /\ saves' \subseteq Save
        /\ \A e \in saves' : e.st = "read" => e.base \in Server
    BY <1>0, <1>3, ToFields DEF Become, Typed, TypeOK
  <2> QED BY <1>3, <2>1 DEF SaveHandled, Typed, TypeOK, dialog
<1> QED BY <1>1, <1>2, <1>3, Zenon DEF SaveHandled

LEMMA ServerTyped == ASSUME Typed, ServerStep PROVE Typed'
<1>1. CASE UploadDone
  <2>1. form' \in Form
    BY <1>1 DEF UploadDone, UpdateField, Typed, TypeOK, Form
  <2>2. fingerprint' \in Hosts \cup {NoKey} /\ trusted' \in BOOLEAN
    BY <1>1 DEF UploadDone, UpdateField, ResetTestState, Typed, TypeOK
  <2> QED BY <1>1, <2>1, <2>2 DEF UploadDone, Typed, TypeOK
<1>2. ASSUME NEW h \in tests, TestDone(h) PROVE Typed'
  BY <1>2 DEF TestDone, Typed, TypeOK
<1>3. ASSUME NEW sv \in saves, SaveDone(sv) PROVE Typed'
  <2>1. CASE sv.st = "ok" /\ Dismissed
    <3>1. kind = "page" => saving' \in BOOLEAN
      BY <1>3, <2>1 DEF SaveDone
    <3>2. saves' = Orphaned(saves \ {sv})
      BY <1>3, <2>1 DEF SaveDone
    <3> QED BY <1>3, <2>1, <3>1, <3>2, DismissedTyped, OrphanedTyped DEF SaveDone, Typed, TypeOK
  <2>2. CASE sv.st = "failed"
    BY <1>3, <2>2 DEF SaveDone, Typed, TypeOK
  <2> QED BY <1>3, <2>1, <2>2 DEF SaveDone
<1> QED BY <1>1, <1>2, <1>3, SaveHandledTyped DEF ServerStep

LEMMA OtherTyped == ASSUME Typed, OtherStep PROVE Typed'
<1>1. CASE OtherMoves
  <2>1. slips' \subseteq {"late", "kept", "rival", "torn"}
    BY <1>1, SlipTyped DEF OtherMoves, Typed, TypeOK
  <2>2. store' \subseteq Server
    BY <1>1 DEF OtherMoves, Typed, TypeOK, Server
  <2> QED BY <1>1, <2>1, <2>2 DEF OtherMoves, Typed, TypeOK, dialog
<1>2. CASE OtherEdits
  <2>1. slips' \subseteq {"late", "kept", "rival", "torn"}
    BY <1>2, SlipTyped DEF OtherEdits, Typed, TypeOK
  <2>2. store' \subseteq Server
    BY <1>2 DEF OtherEdits, Typed, TypeOK, Server
  <2> QED BY <1>2, <2>1, <2>2 DEF OtherEdits, Typed, TypeOK, dialog
<1> QED BY <1>1, <1>2 DEF OtherStep

LEMMA TypedStep == ASSUME Typed, [Next]_vars PROVE Typed'
<1>1. CASE UNCHANGED vars
  BY <1>1 DEF vars, dialog, Typed, TypeOK
<1> QED BY <1>1, UserTyped, ServerTyped, OtherTyped DEF Next

\* The dialogs, their requests and the records keep their types
\* (useServerForm.ts, EditServerDialog.tsx).
THEOREM TypeCorrect == Spec => []TypeOK
<1>1. Typed => TypeOK
  BY DEF Typed
<1> QED BY <1>1, InitTyped, TypedStep, PTL DEF Spec

----------------------------------------------------------------------------
(* One save at a time                                                       *)

LEMMA SlipsGrow ==
    ASSUME Next PROVE slips \subseteq slips' /\ slips' \subseteq slips \cup Slips /\ kind' = kind
<1>1. ASSUME UserStep PROVE slips \subseteq slips' /\ slips' \subseteq slips \cup Slips /\ kind' = kind
  BY <1>1 DEF UserStep, OpenAdd, OpenEdit, HandleClose, EditField, StartUpload, RunTest, Trust,
              HandleSave, Slip
<1>2. ASSUME ServerStep PROVE UNCHANGED <<slips, kind>>
  BY <1>2 DEF ServerStep, UploadDone, TestDone, SaveHandled, SaveDone
<1>3. ASSUME OtherStep PROVE slips \subseteq slips' /\ slips' \subseteq slips \cup Slips /\ kind' = kind
  BY <1>3 DEF OtherStep, OtherMoves, OtherEdits, Slip
<1> QED BY <1>1, <1>2, <1>3 DEF Next

\* A dialog that is not left while it saves has one save in flight.
OneSave ==
  "late" \notin slips =>
    /\ saves # {} => open /\ saving
    /\ \A sv1, sv2 \in saves : sv1 = sv2
    /\ \A sv \in saves : sv.mine

\* An edit dialog is for one record.
OneRecord == kind # "add" => \E s : store = {s}

LEMMA HandledSaves ==
    ASSUME Typed, NEW sv \in saves, SaveHandled(sv)
    PROVE  \E next : /\ Become(sv, next) /\ next.mine = sv.mine
                     /\ next.body = sv.body /\ next.touched = sv.touched
                     /\ \/ next.st \in {"ok", "failed"}
                        \/ next.st = "read" /\ next.base \in store /\ sv.st = "sent"
<1>1. sv \in Save
  BY DEF Typed, TypeOK
<1>2. CASE sv.st = "sent" /\ \E s \in store : Become(sv, ReadFrom(sv, s))
  BY <1>1, <1>2, ReadFields DEF Typed, TypeOK
<1>3. CASE \E st \in {"ok", "failed"} : Become(sv, To(sv, st))
  BY <1>1, <1>3, ToFields
<1> QED BY <1>2, <1>3, Zenon DEF SaveHandled

LEMMA OneSaveStep == ASSUME Typed, OneSave, Next PROVE OneSave'
<1>0. SUFFICES ASSUME "late" \notin slips'
               PROVE  /\ saves' # {} => open' /\ saving'
                      /\ \A sv1, sv2 \in saves' : sv1 = sv2
                      /\ \A sv \in saves' : sv.mine
  BY DEF OneSave
<1>1. /\ "late" \notin slips
      /\ saves # {} => open /\ saving
      /\ \A sv1, sv2 \in saves : sv1 = sv2
      /\ \A sv \in saves : sv.mine
  BY <1>0, SlipsGrow DEF OneSave
<1>2. CASE HandleClose
  <2>1. saves = {}
    BY <1>0, <1>2 DEF HandleClose, Slip
  <2>2. saves' = {}
    BY <1>2, <2>1 DEF HandleClose, Orphaned
  <2> QED BY <2>2
<1>3. CASE HandleSave
  <2>1. saves = {} /\ open' /\ saving'
    BY <1>1, <1>3 DEF HandleSave, CanSave
  <2>2. PICK new : saves' = {new} /\ new.mine
    <3> DEFINE r == [body |-> RequestBody, mine |-> TRUE, st |-> "sent", base |-> Absent,
                     touched |-> form.group # shown]
    <3>1. r.mine
      OBVIOUS
    <3>2. saves' = saves \cup {r}
      BY <1>3, Zenon DEF HandleSave
    <3> HIDE DEF r
    <3> QED BY <2>1, <3>1, <3>2
  <2> QED BY <2>1, <2>2
<1>4. ASSUME NEW sv \in saves, SaveHandled(sv)
      PROVE  /\ open' /\ saving' /\ \A sv1, sv2 \in saves' : sv1 = sv2
             /\ \A e \in saves' : e.mine
  <2>1. PICK next : Become(sv, next) /\ next.mine = sv.mine
    BY <1>4, HandledSaves
  <2>2. saves' = {next}
    BY <1>1, <2>1 DEF Become
  <2> QED BY <1>1, <1>4, <2>1, <2>2 DEF SaveHandled, dialog
<1>5. ASSUME NEW sv \in saves, SaveDone(sv) PROVE saves' = {}
  <2>1. saves \ {sv} = {}
    BY <1>1
  <2> QED BY <1>5, <2>1 DEF SaveDone, Orphaned
<1>6. CASE /\ UNCHANGED <<saves, saving>> /\ (open => open')
  BY <1>1, <1>6
<1>7. \/ HandleClose \/ HandleSave \/ \E sv \in saves : SaveHandled(sv) \/ SaveDone(sv)
      \/ (UNCHANGED <<saves, saving>> /\ (open => open'))
  BY DEF Next, UserStep, OpenAdd, OpenEdit, EditField, StartUpload, RunTest, Trust,
         ServerStep, UploadDone, TestDone, OtherStep, OtherMoves, OtherEdits, dialog
<1> QED BY <1>2, <1>3, <1>4, <1>5, <1>6, <1>7

LEMMA OneRecordStep == ASSUME OneRecord, Next PROVE OneRecord'
<1>1. kind' = kind
  BY SlipsGrow
<1>2. ASSUME NEW sv \in saves, SaveHandled(sv), kind # "add"
      PROVE  UNCHANGED store \/ \E s : store' = {s}
  BY <1>2 DEF SaveHandled
<1>3. ASSUME OtherStep, kind # "add" PROVE \E s : store' = {s}
  <2>1. PICK r : store = {r}
    BY <1>3 DEF OneRecord
  <2>2. ASSUME NEW g, store' = {[s EXCEPT !.group = g] : s \in store} PROVE \E s : store' = {s}
    <3> WITNESS [r EXCEPT !.group = g]
    <3> QED BY <2>1, <2>2
  <2>3. ASSUME NEW h, store' = {[s EXCEPT !.host = h, !.fp = h] : s \in store}
        PROVE  \E s : store' = {s}
    <3> WITNESS [r EXCEPT !.host = h, !.fp = h]
    <3> QED BY <2>1, <2>3, Zenon
  <2> QED BY <1>3, <2>2, <2>3, Zenon DEF OtherStep, OtherMoves, OtherEdits
<1>4. \/ UNCHANGED store \/ OtherStep \/ \E sv \in saves : SaveHandled(sv)
  BY DEF Next, UserStep, OpenAdd, OpenEdit, HandleClose, EditField, StartUpload, RunTest, Trust,
         HandleSave, ServerStep, UploadDone, TestDone, SaveDone
<1> QED BY <1>1, <1>2, <1>3, <1>4 DEF OneRecord

----------------------------------------------------------------------------
(* Moves that a save leaves alone                                           *)

\* The group the dialog compares with is the one it opened with, a save that
\* left it alone has none, and an update holds the group of its record.
GroupHeld ==
  (kind # "add" /\ slips \cap {"late", "kept", "torn"} = {}) =>
    /\ open => original.group = shown
    /\ \A sv \in saves : ~sv.touched => sv.body.group = Absent
    /\ \A sv \in saves : sv.st = "read" => \A s \in store : s.group = sv.base.group

LEMMA GroupHeldStep ==
    ASSUME Typed, OneSave, OneRecord, GroupHeld, Next PROVE GroupHeld'
<1>0. SUFFICES ASSUME kind # "add", slips' \cap {"late", "kept", "torn"} = {}
               PROVE  /\ open' => original'.group = shown'
                      /\ \A sv \in saves' : ~sv.touched => sv.body.group = Absent
                      /\ \A sv \in saves' : sv.st = "read" =>
                           \A s \in store' : s.group = sv.base.group
  BY SlipsGrow DEF GroupHeld
<1>1. /\ slips \cap {"late", "kept", "torn"} = {}
      /\ open => original.group = shown
      /\ \A sv \in saves : ~sv.touched => sv.body.group = Absent
      /\ \A sv \in saves : sv.st = "read" => \A s \in store : s.group = sv.base.group
      /\ saves # {} => open /\ saving
      /\ \A sv1, sv2 \in saves : sv1 = sv2
  BY <1>0, SlipsGrow DEF GroupHeld, OneSave
<1>2. CASE OpenEdit
  <2>1. PICK s \in store : /\ shown' = s.group
                           /\ original' = ServerToForm(s) \/ Slip(TRUE, "kept")
    BY <1>2 DEF OpenEdit
  <2>2. original' = ServerToForm(s)
    BY <1>0, <2>1 DEF Slip
  <2>3. saves = {} /\ saves' = {}
    BY <1>1, <1>2 DEF OpenEdit
  <2> QED BY <2>1, <2>2, <2>3 DEF ServerToForm
<1>3. CASE HandleClose
  <2>1. saves = {} /\ open' = FALSE
    BY <1>0, <1>3 DEF HandleClose, Dismissed, Slip
  <2>2. saves' = {}
    BY <1>3, <2>1 DEF HandleClose, Orphaned
  <2> QED BY <2>1, <2>2
<1>4. CASE HandleSave
  <2> DEFINE r == [body |-> RequestBody, mine |-> TRUE, st |-> "sent", base |-> Absent,
                   touched |-> form.group # shown]
  <2>1. saves = {} /\ open /\ UNCHANGED <<open, original, shown, store>>
    BY <1>1, <1>4 DEF HandleSave, CanSave
  <2>2. /\ r.st = "sent" /\ r.body = RequestBody
        /\ r.touched \/ form.group = shown
    OBVIOUS
  <2>3. form.group = shown => RequestBody.group = Absent
    BY <1>0, <1>1, <2>1 DEF RequestBody, BodyGroup
  <2>4. saves' = saves \cup {r}
    BY <1>4, Zenon DEF HandleSave
  <2> HIDE DEF r
  <2>5. saves' = {r}
    BY <2>1, <2>4
  <2> QED BY <1>1, <2>1, <2>2, <2>3, <2>5
<1>5. ASSUME NEW sv \in saves, SaveHandled(sv)
      PROVE  /\ open' => original'.group = shown'
             /\ \A e \in saves' : ~e.touched => e.body.group = Absent
             /\ \A e \in saves' : e.st = "read" => \A s \in store' : s.group = e.base.group
  <2>1. PICK next : /\ Become(sv, next) /\ next.body = sv.body /\ next.touched = sv.touched
                    /\ \/ next.st \in {"ok", "failed"}
                       \/ next.st = "read" /\ next.base \in store /\ sv.st = "sent"
    BY <1>5, HandledSaves
  <2>2. saves' = {next} /\ UNCHANGED <<open, original, shown>>
    BY <1>1, <1>5, <2>1 DEF Become, SaveHandled, dialog
  <2>3. sv.st = "sent" => UNCHANGED store
    BY <1>0, <1>5 DEF SaveHandled
  <2>4. next.st = "read" => \A s \in store' : s.group = next.base.group
    BY <1>0, <2>1, <2>3 DEF OneRecord
  <2> QED BY <1>1, <2>1, <2>2, <2>4
<1>6. ASSUME NEW sv \in saves, SaveDone(sv)
      PROVE  saves' = {} /\ (open' => original'.group = shown')
  <2>1. saves \ {sv} = {}
    BY <1>1
  <2>2. saves' = {}
    BY <1>6, <2>1 DEF SaveDone, Orphaned
  <2>3. open' = FALSE \/ UNCHANGED <<open, original, shown>>
    BY <1>6 DEF SaveDone, Dismissed
  <2> QED BY <1>1, <2>2, <2>3
<1>7. CASE OtherMoves
  <2>1. \A sv \in saves : sv.st # "read"
    BY <1>0, <1>7 DEF OtherMoves, Slip
  <2> QED BY <1>1, <1>7, <2>1 DEF OtherMoves, dialog
<1>8. CASE OtherEdits
  <2>1. PICK h : store' = {[s EXCEPT !.host = h, !.fp = h] : s \in store}
    BY <1>8, Zenon DEF OtherEdits
  <2>2. \A s \in store : [s EXCEPT !.host = h, !.fp = h].group = s.group
    BY DEF Typed, TypeOK, Server
  <2>3. ASSUME NEW t \in store' PROVE \E s \in store : t.group = s.group
    <3>1. PICK s \in store : t = [s EXCEPT !.host = h, !.fp = h]
      BY <2>1, Zenon
    <3>2. t.group = s.group
      BY <2>2, <3>1, Zenon
    <3> QED BY <3>2
  <2>4. UNCHANGED <<open, original, shown, saves>>
    BY <1>8 DEF OtherEdits, dialog
  <2> QED BY <1>1, <2>3, <2>4
<1>9. CASE UNCHANGED <<open, original, shown, saves, store>>
  BY <1>1, <1>9
<1>10. ~OpenAdd
  BY <1>0 DEF OpenAdd
<1>11. \/ OpenEdit \/ HandleClose \/ HandleSave \/ OtherMoves \/ OtherEdits
       \/ \E sv \in saves : SaveHandled(sv) \/ SaveDone(sv)
       \/ UNCHANGED <<open, original, shown, saves, store>>
  BY <1>10 DEF Next, UserStep, EditField, StartUpload, RunTest, Trust, ServerStep, UploadDone,
         TestDone, OtherStep
<1> QED BY <1>2, <1>3, <1>4, <1>5, <1>6, <1>7, <1>8, <1>9, <1>11

\* However another page's moves and edits fall between a save and its handling,
\* a save that did not touch the group does not undo them (buildUpdateBody),
\* unless its dialog is left with a request in flight.
THEOREM MovesAreKept == ASSUME "late" \notin Slips PROVE Spec => UntouchedGroupIsKept
<1> DEFINE Inv == Typed /\ OneSave /\ OneRecord /\ GroupHeld /\ slips \subseteq Slips
<1>1. Init => Inv
  <2> SUFFICES ASSUME Init PROVE Inv
    OBVIOUS
  <2>1. OneRecord
    BY DEF Init, OneRecord
  <2> QED BY <2>1, InitTyped DEF Init, OneSave, GroupHeld
<1>2. Inv /\ [Next]_vars => Inv'
  <2>1. CASE UNCHANGED vars
    BY <2>1, TypedStep DEF vars, dialog, OneSave, OneRecord, GroupHeld
  <2> QED BY <2>1, TypedStep, OneSaveStep, OneRecordStep, GroupHeldStep, SlipsGrow
<1>3. Inv /\ [Next]_vars =>
        [\A sv \in saves :
           (SaveHandled(sv) /\ kind # "add" /\ ~sv.touched /\ slips \cap {"kept", "torn"} = {})
             => {s.group : s \in store'} = {s.group : s \in store}]_vars
  <2> SUFFICES ASSUME Inv, NEW sv \in saves, SaveHandled(sv), kind # "add", ~sv.touched,
                      slips \cap {"kept", "torn"} = {}
               PROVE  {s.group : s \in store'} = {s.group : s \in store}
    OBVIOUS
  <2>1. /\ sv.body.group = Absent
        /\ sv.st = "read" => \A s \in store : s.group = sv.base.group
    BY DEF GroupHeld
  <2>2. CASE store' = {Merged(sv.base, sv.body)} /\ sv.st = "read"
    <3>1. Merged(sv.base, sv.body).group = sv.base.group
      BY <2>1 DEF Merged
    <3>2. PICK r : store = {r}
      BY DEF OneRecord
    <3>3. r.group = sv.base.group
      BY <2>1, <2>2, <3>2
    <3> QED BY <2>2, <3>1, <3>2, <3>3
  <2> QED BY <2>2 DEF SaveHandled
<1> QED BY <1>1, <1>2, <1>3, PTL DEF Spec, UntouchedGroupIsKept

----------------------------------------------------------------------------
(* The key of the host                                                      *)

\* The tests in flight and the fingerprint shown are of the host in the form,
\* or the form was cleared; a dialog that was never shown has neither.
FormKeyed ==
  /\ \A h \in tests : form.host \in {h, Blank}
  /\ fingerprint = NoKey \/ form.host \in {fingerprint, Blank}
  /\ (kind # "add" /\ ~open /\ (kind = "card" \/ original = InitFormData)) =>
       tests = {} /\ fingerprint = NoKey
  /\ (kind # "add" /\ open) => original # InitFormData

\* A save has the key of its host, or edits a record whose host it leaves.
BodyKeyed(b) ==
  b.host = Blank \/ b.fp = b.host \/ (kind # "add" /\ b.fp = NoKey /\ b.host = original.host)

SavesKeyed ==
  /\ \A s \in store : s.fp = s.host
  /\ \A sv \in saves : BodyKeyed(sv.body)
  /\ \A sv \in saves : sv.st = "read" =>
       sv.base.fp = sv.base.host /\ sv.base.host = original.host
  /\ (kind # "add" /\ open /\ \A sv \in saves : sv.st # "ok") =>
       \A s \in store : s.host = original.host

Keyed == slips = {} => FormKeyed /\ SavesKeyed

LEMMA UpdateKeyed ==
    ASSUME FormKeyed, NEW new, NEW isConnection, UpdateField(new, isConnection),
           new.host = form.host \/ (isConnection = TRUE /\ tests = {}),
           UNCHANGED <<kind, open, original, tests>>
    PROVE  FormKeyed'
BY DEF FormKeyed, UpdateField, ResetTestState

LEMMA FormKeyedStep ==
    ASSUME Typed, OneSave, FormKeyed, Next, slips' = {} PROVE FormKeyed'
<1>0. slips = {} /\ kind' = kind
  BY SlipsGrow
<1>1. CASE OpenEdit
  <2>1. PICK s \in store : form' = ServerToForm(s) /\ original' = ServerToForm(s)
    BY <1>1, slips' = {} DEF OpenEdit, Slip
  <2>2. kind # "add" /\ ~open /\ (kind = "card" \/ original = InitFormData)
    BY <1>1 DEF OpenEdit, Slip
  <2>3. ServerToForm(s) # InitFormData
    <3>1. s.name \in Names
      BY DEF Typed, TypeOK, Server
    <3>2. ServerToForm(s).name # InitFormData.name
      BY <3>1, FormAssumption DEF ServerToForm, InitFormData
    <3> QED BY <3>2
  <2> QED BY <1>1, <2>1, <2>2, <2>3 DEF OpenEdit, FormKeyed
<1>2. CASE EditField
  <2>1. tests = {} /\ UNCHANGED <<kind, open, original, tests>>
    BY <1>2 DEF EditField, Slip
  <2>2. /\ \A n : [form EXCEPT !.name = n].host = form.host
        /\ \A g : [form EXCEPT !.group = g].host = form.host
    BY DEF Typed, TypeOK, Form
  <2>3. ASSUME NEW n, UpdateField([form EXCEPT !.name = n], FALSE) PROVE FormKeyed'
    BY <2>1, <2>2, <2>3, UpdateKeyed
  <2>4. ASSUME NEW g, UpdateField([form EXCEPT !.group = g], FALSE) PROVE FormKeyed'
    BY <2>1, <2>2, <2>4, UpdateKeyed
  <2>5. ASSUME NEW new, UpdateField(new, TRUE) PROVE FormKeyed'
    BY <2>1, <2>5, UpdateKeyed
  <2> QED BY <1>2, <2>3, <2>4, <2>5 DEF EditField
<1>3. CASE UploadDone
  <2>1. UNCHANGED <<kind, open, original, tests>>
    BY <1>3 DEF UploadDone
  <2>2. CASE UNCHANGED <<form, fingerprint>>
    BY <2>1, <2>2 DEF FormKeyed
  <2>3. CASE UpdateField([form EXCEPT !.secret = TRUE], TRUE)
    <3>1. [form EXCEPT !.secret = TRUE].host = form.host
      BY DEF Typed, TypeOK, Form
    <3> QED BY <2>1, <2>3, <3>1, UpdateKeyed
  <2> QED BY <1>3, <2>2, <2>3 DEF UploadDone
<1>4. CASE RunTest
  BY <1>4 DEF RunTest, ResetTestState, FormKeyed
<1>5. ASSUME NEW h \in tests, TestDone(h) PROVE FormKeyed'
  BY <1>5 DEF TestDone, FormKeyed
\* What closes the dialog clears the form, but for the page's dialog, which was
\* shown before.
<1>6. ASSUME Dismissed, open PROVE FormKeyed'
  <2>1. CASE kind = "add"
    BY <1>0, <1>6, <2>1 DEF Dismissed, Cleared, FormKeyed, InitFormData
  <2>2. CASE kind = "card"
    BY <1>0, <1>6, <2>2 DEF Dismissed, Cleared, FormKeyed, InitFormData
  <2>3. CASE kind = "page"
    BY <1>0, <1>6, <2>3 DEF Dismissed, FormKeyed
  <2> QED BY <2>1, <2>2, <2>3, FormAssumption DEF Typed, TypeOK
<1>7. CASE HandleClose
  BY <1>6, <1>7 DEF HandleClose
<1>8. ASSUME NEW sv \in saves, SaveDone(sv) PROVE FormKeyed'
  <2>1. open
    BY <1>0 DEF OneSave
  <2>2. CASE UNCHANGED <<form, fingerprint, open, original, tests>>
    BY <1>0, <2>2 DEF FormKeyed
  <2> QED BY <1>6, <1>8, <2>1, <2>2 DEF SaveDone
<1>9. CASE UNCHANGED <<form, fingerprint, open, original, tests>>
  BY <1>0, <1>9 DEF FormKeyed
<1>10. CASE OpenAdd
  BY <1>0, <1>10 DEF OpenAdd, FormKeyed
<1>11. \/ OpenAdd \/ OpenEdit \/ EditField \/ UploadDone \/ RunTest \/ HandleClose
       \/ (\E h \in tests : TestDone(h)) \/ (\E sv \in saves : SaveDone(sv))
       \/ UNCHANGED <<form, fingerprint, open, original, tests>>
  BY DEF Next, UserStep, StartUpload, Trust, HandleSave, ServerStep, SaveHandled, OtherStep,
         OtherMoves, OtherEdits, dialog
<1> QED BY <1>1, <1>2, <1>3, <1>4, <1>5, <1>7, <1>8, <1>9, <1>10, <1>11

\* CanSave: a form is saved with the key of its host, or without one and with
\* the host it was opened with.
LEMMA RequestKeyed ==
    ASSUME Typed, FormKeyed, CanSave PROVE BodyKeyed(RequestBody)
<1>1. RequestBody.host = form.host /\ RequestBody.fp = fingerprint
  BY DEF RequestBody
<1>2. CASE TestPassed
  BY <1>1, <1>2 DEF TestPassed, FormKeyed, BodyKeyed
<1>3. CASE kind # "add" /\ ~ConnectionChanged
  BY <1>1, <1>3 DEF ConnectionChanged, FormKeyed, BodyKeyed
<1> QED BY <1>2, <1>3 DEF CanSave, NameOnlyChanged

LEMMA SavesKeyedStep ==
    ASSUME Typed, OneSave, OneRecord, FormKeyed, SavesKeyed, Next, slips' = {}
    PROVE  SavesKeyed'
<1>0. /\ slips = {} /\ kind' = kind
      /\ saves # {} => open /\ saving
      /\ \A sv1, sv2 \in saves : sv1 = sv2
  BY SlipsGrow DEF OneSave
<1>1. CASE OpenEdit
  <2>1. PICK s \in store : original' = ServerToForm(s)
    BY <1>1, slips' = {} DEF OpenEdit, Slip
  <2>2. saves' = {} /\ store' = store /\ \A t \in store : t = s
    BY <1>0, <1>1 DEF OpenEdit, OneRecord
  <2> QED BY <2>1, <2>2 DEF SavesKeyed, ServerToForm
<1>2. CASE HandleClose
  <2>1. saves = {} /\ saves' = {} /\ open' = FALSE /\ store' = store
    BY <1>2 DEF HandleClose, Dismissed, Orphaned, Slip
  <2> QED BY <2>1 DEF SavesKeyed
<1>3. CASE HandleSave
  <2> DEFINE r == [body |-> RequestBody, mine |-> TRUE, st |-> "sent", base |-> Absent,
                   touched |-> form.group # shown]
  <2>1. saves = {} /\ UNCHANGED <<open, original, store>>
    BY <1>0, <1>3 DEF HandleSave, CanSave
  <2>2. r.st = "sent" /\ BodyKeyed(r.body)
    BY <1>3, RequestKeyed DEF HandleSave
  <2>3. saves' = saves \cup {r}
    BY <1>3, Zenon DEF HandleSave
  <2> HIDE DEF r
  <2>4. saves' = {r}
    BY <2>1, <2>3
  <2> QED BY <1>0, <2>1, <2>2, <2>4 DEF SavesKeyed, BodyKeyed
<1>4. ASSUME NEW sv \in saves, SaveHandled(sv) PROVE SavesKeyed'
  <2>0. /\ sv \in Save /\ sv.body \in Body /\ saves = {sv} /\ open
        /\ UNCHANGED <<open, original>>
    BY <1>0, <1>4 DEF Typed, TypeOK, Save, SaveHandled, dialog
  <2>1. BodyKeyed(sv.body)
    BY DEF SavesKeyed
  <2>2. CASE sv.st = "sent" /\ kind # "add" /\ UNCHANGED store
             /\ \E s \in store : Become(sv, ReadFrom(sv, s))
    <3>1. PICK s \in store : Become(sv, ReadFrom(sv, s))
      BY <2>2
    <3>2. s \in Server /\ s.fp = s.host /\ s.host = original.host
      BY <2>0, <2>2 DEF Typed, TypeOK, SavesKeyed
    <3>3. saves' = {ReadFrom(sv, s)}
      BY <2>0, <3>1 DEF Become
    <3>4. /\ ReadFrom(sv, s).st = "read" /\ ReadFrom(sv, s).base = s
          /\ ReadFrom(sv, s).body = sv.body
      BY <2>0, <3>2, ReadFields
    <3>5. \A t \in store : t.host = original.host
      BY <2>0, <2>2 DEF SavesKeyed
    <3> QED BY <1>0, <2>0, <2>1, <2>2, <3>2, <3>3, <3>4, <3>5 DEF SavesKeyed, BodyKeyed
  <2>3. CASE /\ sv.body.name # Blank /\ sv.body.host # Blank
             /\ sv.st = IF kind = "add" THEN "sent" ELSE "read"
             /\ store' = IF kind = "add" THEN store \cup {Created(sv.body)}
                         ELSE {Merged(sv.base, sv.body)}
             /\ Become(sv, To(sv, "ok"))
    <3>1. saves' = {To(sv, "ok")} /\ To(sv, "ok").st = "ok" /\ To(sv, "ok").body = sv.body
      BY <2>0, <2>3, ToFields DEF Become
    <3>2. sv.body.host \in Hosts /\ NoKey \notin Hosts
      BY <2>0, <2>3, FormAssumption DEF Body
    <3>3. CASE kind = "add"
      <4>1. Created(sv.body).fp = Created(sv.body).host
        BY <2>1, <2>3, <3>3 DEF BodyKeyed, Created
      <4> QED BY <1>0, <2>0, <2>1, <2>3, <3>1, <3>3, <4>1 DEF SavesKeyed, BodyKeyed
    <3>4. CASE kind # "add"
      <4>1. sv.base.fp = sv.base.host /\ sv.base.host = original.host
        BY <2>3, <3>4 DEF SavesKeyed
      <4>2. Merged(sv.base, sv.body).fp = Merged(sv.base, sv.body).host
        BY <2>1, <2>3, <3>2, <3>4, <4>1 DEF BodyKeyed, Merged
      <4> QED BY <1>0, <2>0, <2>1, <2>3, <3>1, <3>4, <4>2 DEF SavesKeyed, BodyKeyed
    <3> QED BY <3>3, <3>4
  <2>4. CASE Become(sv, To(sv, "failed")) /\ UNCHANGED store /\ sv.st \in {"sent", "read"}
    <3>1. saves' = {To(sv, "failed")} /\ To(sv, "failed").st = "failed"
          /\ To(sv, "failed").body = sv.body
      BY <2>0, <2>4, ToFields DEF Become
    <3>2. kind # "add" => \A s \in store : s.host = original.host
      BY <2>0, <2>4 DEF SavesKeyed
    <3> QED BY <1>0, <2>0, <2>1, <2>4, <3>1, <3>2 DEF SavesKeyed, BodyKeyed
  <2> QED BY <1>4, <2>2, <2>3, <2>4, Zenon DEF SaveHandled
<1>5. ASSUME NEW sv \in saves, SaveDone(sv) PROVE SavesKeyed'
  <2>1. saves = {sv} /\ open
    BY <1>0
  <2>2. saves' = {} /\ store' = store
    BY <1>5, <2>1 DEF SaveDone, Orphaned
  <2>3. open' = FALSE \/ (sv.st = "failed" /\ UNCHANGED <<open, original>>)
    BY <1>5 DEF SaveDone, Dismissed
  <2> QED BY <1>0, <2>1, <2>2, <2>3 DEF SavesKeyed
<1>6. CASE OtherMoves
  <2>1. PICK g : store' = {[s EXCEPT !.group = g] : s \in store}
    BY <1>6, Zenon DEF OtherMoves
  <2>2. ASSUME NEW t \in store' PROVE \E s \in store : t.host = s.host /\ t.fp = s.fp
    <3>1. PICK s \in store : t = [s EXCEPT !.group = g]
      BY <2>1, Zenon
    <3>2. s \in Server
      BY DEF Typed, TypeOK
    <3> QED BY <3>1, <3>2 DEF Server
  <2>3. UNCHANGED <<open, original, saves>>
    BY <1>6 DEF OtherMoves, dialog
  <2> QED BY <1>0, <2>2, <2>3 DEF SavesKeyed, BodyKeyed
<1>7. CASE OtherEdits
  <2>1. PICK h : store' = {[s EXCEPT !.host = h, !.fp = h] : s \in store}
    BY <1>7, Zenon DEF OtherEdits
  <2>2. ASSUME NEW t \in store' PROVE t.fp = t.host
    <3>1. PICK s \in store : t = [s EXCEPT !.host = h, !.fp = h]
      BY <2>1, Zenon
    <3>2. s \in Server
      BY DEF Typed, TypeOK
    <3> QED BY <3>1, <3>2 DEF Server
  <2>3. ~open' /\ saves' = {}
    BY <1>7 DEF OtherEdits, Slip, dialog
  <2> QED BY <2>2, <2>3 DEF SavesKeyed
<1>8. CASE UNCHANGED <<open, original, saves, store>>
  BY <1>0, <1>8 DEF SavesKeyed, BodyKeyed
<1>9. CASE OpenAdd
  BY <1>0, <1>9 DEF OpenAdd, SavesKeyed, BodyKeyed
<1>10. \/ OpenAdd \/ OpenEdit \/ HandleClose \/ HandleSave \/ OtherMoves \/ OtherEdits
       \/ (\E sv \in saves : SaveHandled(sv) \/ SaveDone(sv))
       \/ UNCHANGED <<open, original, saves, store>>
  BY DEF Next, UserStep, EditField, StartUpload, RunTest, Trust, ServerStep, UploadDone,
         TestDone, OtherStep
<1> QED BY <1>1, <1>2, <1>3, <1>4, <1>5, <1>6, <1>7, <1>8, <1>9, <1>10

\* Through tests, failed saves, retries and moves by others, a record has the key
\* of its host, until one of the slips happens (useServerForm.ts,
\* EditServerDialog.tsx).
THEOREM RecordsKeepTheirKey == Spec => []KeyBelongsToHost
<1> DEFINE Inv == Typed /\ OneSave /\ OneRecord /\ Keyed
<1>1. Init => Inv
  <2> SUFFICES ASSUME Init PROVE Inv
    OBVIOUS
  <2>1. OneRecord
    BY DEF Init, OneRecord
  <2>2. \A s \in store : s.fp = s.host
    BY DEF Init
  <2> QED BY <2>1, <2>2, InitTyped DEF Init, OneSave, Keyed, FormKeyed, SavesKeyed
<1>2. Inv /\ [Next]_vars => Inv'
  <2>1. CASE UNCHANGED vars
    BY <2>1, TypedStep
       DEF vars, dialog, OneSave, OneRecord, Keyed, FormKeyed, SavesKeyed, BodyKeyed
  <2>2. ASSUME Inv, Next PROVE Keyed'
    BY <2>2, FormKeyedStep, SavesKeyedStep, SlipsGrow DEF Keyed
  <2> QED BY <2>1, <2>2, TypedStep, OneSaveStep, OneRecordStep
<1>3. Inv => KeyBelongsToHost
  BY DEF Keyed, SavesKeyed, KeyBelongsToHost
<1> QED BY <1>1, <1>2, <1>3, PTL DEF Spec
=============================================================================
