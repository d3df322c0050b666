----------------------------- MODULE BatchClient -----------------------------
(* The Batch Command dialog: web/src/hooks/useBatchRun.ts (reducer, socket, *)
(* retry timer, resync) and BatchCommandDialog.tsx (what the user can click *)
(* and when), against the batch engine seen from outside: REST requests and *)
(* the event stream of a run, which the server closes when the run is over. *)
(*                                                                          *)
(* One Run Result stands for all of a run's: its output is counted in       *)
(* chunks and its status is running or final.  A dispatch to the reducer    *)
(* and the effects it triggers are one step.                                *)
EXTENDS Integers, Sequences, FiniteSets, SequencesExt

CONSTANTS Servers,      \* the servers of the selection tree
          Members,      \* those of them in a group
          Slots,        \* bound: sockets alive at a time
          NoSocket,     \* wsRef.current = null
          MaxRuns, MaxOut, MaxReqs,     \* bounds: runs, chunks, requests of a kind
          Followed      \* bound: the slips past which behaviours are followed

ASSUME ClientAssumption ==
  /\ Members \subseteq Servers
  /\ NoSocket \notin Slots
  /\ MaxRuns \in Nat /\ MaxOut \in Nat /\ MaxReqs \in Nat

VARIABLES
  cur, done,            \* the server: the current run (0: none), is it over
  outs, saved, fins,    \* per run: chunks produced, chunks stored, final status
  mounted, mode, selected, dispatching,     \* the dialog
  run, out, fin,        \* the run it shows, its output, its result's status
  wsRef, timer,         \* the socket in wsRef, is the retry timer set
  sockets,              \* slot -> a WebSocket of this page
  reqs,                 \* requests in flight
  slips                 \* history: what happened that the code does not handle

server == <<cur, done, outs, saved, fins>>
view == <<mounted, mode, dispatching, run, out, fin>>
vars == <<server, selected, view, wsRef, timer, sockets, reqs, slips>>

Runs == 1..MaxRuns
NoRun == [id |-> 0, st |-> "done"]
RunInfo == [id : 0..MaxRuns, st : {"running", "done"}]
NoSnapshot == [run |-> NoRun, out |-> <<>>, fin |-> FALSE]
Snapshot == [run : RunInfo, out : Seq(1..MaxOut), fin : BOOLEAN]
Frames == 0..MaxOut               \* a chunk by number; 0 is the final status
Free == [run |-> 0, st |-> "free", queue |-> <<>>]

Chunks(n) == [i \in 1..n |-> i]
IsRunning(r) == r.id # 0 /\ r.st = "running"

Few(op) == Cardinality({q \in reqs : q.op = op}) < MaxReqs

Slip(cond, what) == slips' = IF cond THEN slips \cup {what} ELSE slips

\* Service.Current read by the current handler.
CurrentRun ==
  [run |-> IF cur = 0 THEN NoRun
           ELSE [id |-> cur, st |-> IF done THEN "done" ELSE "running"],
   out |-> IF cur = 0 THEN <<>> ELSE Chunks(saved[cur]),
   fin |-> cur # 0 /\ fins[cur]]

Init ==
  /\ cur = 0 /\ done = TRUE
  /\ outs = [r \in Runs |-> 0] /\ saved = [r \in Runs |-> 0]
  /\ fins = [r \in Runs |-> FALSE]
  /\ mounted = FALSE /\ mode = "compose" /\ selected = {}
  /\ dispatching = FALSE /\ run = NoRun /\ out = <<>> /\ fin = FALSE
  /\ wsRef = NoSocket /\ timer = FALSE
  /\ sockets = [s \in Slots |-> Free]
  /\ reqs = {} /\ slips = {}

----------------------------------------------------------------------------
\* The socket

\* Mutant: the stream is asked for without naming the run.
Connected_Current(ref, socks, r) ==
  IF ref # NoSocket THEN {<<ref, socks>>}
  ELSE {<<s, [socks EXCEPT ![s] = [run |-> cur, st |-> "connecting", queue |-> <<>>]]>> :
          s \in {x \in Slots : socks[x] = Free}}

\* The value of <<wsRef, sockets>> after connect(r).
Connected(ref, socks, r) ==
  IF ref # NoSocket THEN {<<ref, socks>>}
  ELSE {<<s, [socks EXCEPT ![s] = [run |-> r.id, st |-> "connecting", queue |-> <<>>]]>> :
          s \in {x \in Slots : socks[x] = Free}}

\* Mutant: the frames a closed socket still holds are delivered.
Closed_Delivers(ref, socks) ==
  IF ref = NoSocket THEN {<<ref, socks>>}
  ELSE {<<NoSocket, [socks EXCEPT ![ref].st = "closing"]>>}

\* ... and after ws.close() with wsRef cleared: nothing more is delivered.
Closed(ref, socks) ==
  IF ref = NoSocket THEN {<<ref, socks>>}
  ELSE {<<NoSocket, [socks EXCEPT ![ref].st = "closing", ![ref].queue = <<>>]>>}

\* The effect on [mode, run]: a socket while the results view shows a running
\* run, none otherwise.
SocketEffect(m, r, ref, socks) ==
  \E c \in IF m = "results" /\ IsRunning(r) THEN Connected(ref, socks, r)
           ELSE Closed(ref, socks) :
    wsRef' = c[1] /\ sockets' = c[2]

SetState(m, r, o, f) == mode' = m /\ run' = r /\ out' = o /\ fin' = f

\* A response that takes the page back, or from under a socket of another run.
Overtaken(r) ==
  \/ r.id < run.id
  \/ r.id = run.id /\ run.st = "done" /\ r.st = "running"
  \/ r.id # run.id /\ wsRef # NoSocket

----------------------------------------------------------------------------
\* Opening and closing the dialog: it is mounted only while it is open.

Open ==
  /\ ~mounted
  /\ mounted' = TRUE
  /\ reqs' = {[op |-> "open", st |-> "sent", snap |-> NoSnapshot]}
  /\ UNCHANGED <<server, selected, mode, dispatching, run, out, fin, wsRef, timer,
                 sockets, slips>>

\* Unmounting clears the timer and closes the socket; what a late callback of
\* the unmounted hook does no longer shows.
CloseDialog ==
  /\ mounted
  /\ mounted' = FALSE
  /\ SetState("compose", NoRun, <<>>, FALSE)
  /\ dispatching' = FALSE /\ selected' = {}
  /\ wsRef' = NoSocket /\ timer' = FALSE
  /\ sockets' = [s \in Slots |-> Free]
  /\ reqs' = {}
  /\ UNCHANGED <<server, slips>>

\* OPEN with the snapshot, or with nothing when the request failed.
OpenDone(q) ==
  /\ q.op = "open" /\ q.st = "read"
  /\ \E snap \in {q.snap, NoSnapshot} :
       LET m == IF IsRunning(snap.run) THEN "results" ELSE "compose"
       IN /\ SetState(m, snap.run, snap.out, snap.fin)
          /\ SocketEffect(m, snap.run, wsRef, sockets)
          /\ Slip(Overtaken(snap.run), "stale")
  /\ selected' = {} /\ dispatching' = FALSE
  /\ reqs' = reqs \ {q}
  /\ UNCHANGED <<server, mounted, timer>>

----------------------------------------------------------------------------
\* Composing

ToggleServer(s) == selected' = IF s \in selected THEN selected \ {s}
                               ELSE selected \cup {s}

\* toggleGroupSelection and toggleAllSelection: all of them unless all are.
ToggleMany(ids) == selected' = IF ids # {} /\ ids \subseteq selected
                               THEN selected \ ids ELSE selected \cup ids

Select ==
  /\ mounted /\ mode = "compose"
  /\ \/ \E s \in Servers : ToggleServer(s)
     \/ ToggleMany(Members)
     \/ ToggleMany(Servers)
  /\ UNCHANGED <<server, view, wsRef, timer, sockets, reqs, slips>>

\* The script is text the user can always type.
CanDispatch == selected # {} /\ ~dispatching

RunScript ==
  /\ mounted /\ mode = "compose" /\ CanDispatch
  /\ Few("dispatch")
  /\ dispatching' = TRUE
  /\ reqs' = reqs \cup {[op |-> "dispatch", st |-> "sent", snap |-> NoSnapshot]}
  /\ UNCHANGED <<server, selected, mounted, mode, run, out, fin, wsRef, timer,
                 sockets, slips>>

\* DISPATCH_SUCCESS with the new run, or DISPATCH_ERROR.
DispatchDone(q) ==
  /\ q.op = "dispatch"
  /\ \/ /\ q.st = "read"
        /\ SetState("results", q.snap.run, q.snap.out, q.snap.fin)
        /\ SocketEffect("results", q.snap.run, wsRef, sockets)
        /\ Slip(Overtaken(q.snap.run), "stale")
     \/ /\ q.st = "failed"
        /\ UNCHANGED <<mode, run, out, fin, wsRef, sockets, slips>>
  /\ dispatching' = FALSE
  /\ reqs' = reqs \ {q}
  /\ UNCHANGED <<server, selected, mounted, timer>>

\* "View last result" is offered for a finished run, "New command" always.
SetMode ==
  /\ mounted
  /\ \E m \in {"compose", "results"} \ {mode} :
       /\ m = "results" => run.id # 0 /\ run.st = "done"
       /\ mode' = m
       /\ SocketEffect(m, run, wsRef, sockets)
  /\ UNCHANGED <<server, selected, mounted, dispatching, run, out, fin, timer,
                 reqs, slips>>

----------------------------------------------------------------------------
\* The socket's callbacks

\* The handshake: refused for a run that is no longer the current one.  A run
\* that is over is still current, and nothing will end its stream.
SocketOpens(s) ==
  /\ sockets[s].st = "connecting"
  /\ \/ /\ sockets[s].run = cur
        /\ sockets' = [sockets EXCEPT ![s].st = "open"]
        /\ Slip(done, "late")
     \/ /\ sockets' = [sockets EXCEPT ![s].st = "ended"]
        /\ UNCHANGED slips
  /\ UNCHANGED <<server, selected, view, wsRef, timer, reqs>>

\* WS_EVENT: output is appended, a status replaces the one shown.
OnMessage(s) ==
  /\ sockets[s].queue # <<>>
  /\ LET frame == Head(sockets[s].queue)
     IN /\ out' = IF frame = 0 THEN out ELSE Append(out, frame)
        /\ fin' = (fin \/ frame = 0)
  /\ sockets' = [sockets EXCEPT ![s].queue = Tail(@)]
  /\ UNCHANGED <<server, selected, mounted, mode, dispatching, run, wsRef, timer,
                 reqs, slips>>

Drop(s) ==
  /\ sockets[s].st = "open"
  /\ sockets' = [sockets EXCEPT ![s].st = "ended", ![s].queue = <<>>]
  /\ UNCHANGED <<server, selected, view, wsRef, timer, reqs, slips>>

\* Mutant: the timer is only set while the results are on the screen.
Retries_InResults == mode = "results" /\ IsRunning(run)

Retries == IsRunning(run)

\* onclose clears wsRef, whichever socket it holds by now, and sets the timer
\* while a run is shown running.
OnClose(s) ==
  /\ sockets[s].st \in {"ended", "closing"} /\ sockets[s].queue = <<>>
  /\ sockets' = [sockets EXCEPT ![s] = Free]
  /\ wsRef' = NoSocket
  /\ timer' = (timer \/ Retries)
  /\ Slip(wsRef \notin {s, NoSocket}, "twin")
  /\ UNCHANGED <<server, selected, view, reqs>>

\* The retry timer: resync, if the run is still shown running.
TimerFires ==
  /\ timer
  /\ timer' = FALSE
  /\ IF IsRunning(run)
     THEN /\ Few("resync")
          /\ reqs' = reqs \cup {[op |-> "resync", st |-> "sent", snap |-> NoSnapshot]}
     ELSE UNCHANGED reqs
  /\ UNCHANGED <<server, selected, view, wsRef, sockets, slips>>

\* SYNC, then connect for a run still running, then the effect; a request that
\* failed is forgotten, and nothing sets the timer again.
ResyncDone(q) ==
  /\ q.op = "resync" /\ q.st \in {"read", "failed"}
  /\ \/ /\ q.st = "read"
        /\ SetState(mode, q.snap.run, q.snap.out, q.snap.fin)
        /\ \E c \in IF IsRunning(q.snap.run)
                    THEN Connected(wsRef, sockets, q.snap.run)
                    ELSE {<<wsRef, sockets>>} :
             SocketEffect(mode, q.snap.run, c[1], c[2])
        /\ Slip(Overtaken(q.snap.run), "stale")
     \/ /\ q.st = "failed"
        /\ Slip(TRUE, "lost")
        /\ UNCHANGED <<mode, run, out, fin, wsRef, sockets>>
  /\ reqs' = reqs \ {q}
  /\ UNCHANGED <<server, selected, mounted, dispatching, timer>>

----------------------------------------------------------------------------
\* The server

\* broadcast: to every open stream, whatever run it was opened for.
Broadcast(frame) ==
  [s \in Slots |-> IF sockets[s].st = "open"
                   THEN [sockets[s] EXCEPT !.queue = Append(@, frame)]
                   ELSE sockets[s]]

NewRun ==
  /\ done /\ cur < MaxRuns
  /\ cur' = cur + 1 /\ done' = FALSE
  /\ UNCHANGED <<outs, saved, fins>>

\* A Run Result becomes final: stored with all of its output, then announced.
Finish ==
  /\ fins' = [fins EXCEPT ![cur] = TRUE]
  /\ saved' = [saved EXCEPT ![cur] = outs[cur]]
  /\ sockets' = Broadcast(0)
  /\ UNCHANGED <<cur, done, outs>>

\* The cancel button; the endpoint ends whatever run is current.
Cancel ==
  /\ mounted /\ mode = "results" /\ IsRunning(run)
  /\ ~done /\ ~fins[cur]
  /\ Finish
  /\ UNCHANGED <<selected, view, wsRef, timer, reqs, slips>>

Answered(q, st, snap) == (reqs \ {q}) \cup {[q EXCEPT !.st = st, !.snap = snap]}

Handle(q) ==
  /\ q.st = "sent"
  /\ \/ /\ q.op \in {"open", "resync"}
        /\ reqs' = Answered(q, "read", CurrentRun)
        /\ UNCHANGED <<server, sockets>>
     \/ /\ q.op = "dispatch" /\ NewRun
        /\ reqs' = Answered(q, "read", [run |-> [id |-> cur', st |-> "running"],
                                        out |-> <<>>, fin |-> FALSE])
        /\ UNCHANGED sockets
     \/ /\ q.op \in {"resync", "dispatch"}        \* conflict, or a failed request
        /\ reqs' = Answered(q, "failed", NoSnapshot)
        /\ UNCHANGED <<server, sockets>>
  /\ UNCHANGED <<selected, view, wsRef, timer, slips>>

\* The run goes on: it produces output, stores what it has, ends a result, and
\* is over, which ends the streams.
RunGoesOn ==
  /\ cur # 0 /\ ~done
  /\ \/ /\ ~fins[cur] /\ outs[cur] < MaxOut
        /\ outs' = [outs EXCEPT ![cur] = @ + 1]
        /\ sockets' = Broadcast(outs'[cur])
        /\ UNCHANGED <<cur, done, saved, fins>>
     \/ /\ saved[cur] < outs[cur]
        /\ saved' = [saved EXCEPT ![cur] = outs[cur]]
        /\ UNCHANGED <<cur, done, outs, fins, sockets>>
     \/ ~fins[cur] /\ Finish
     \/ /\ fins[cur]
        /\ done' = TRUE
        /\ sockets' = [s \in Slots |-> IF sockets[s].st = "open"
                                       THEN [sockets[s] EXCEPT !.st = "ended"]
                                       ELSE sockets[s]]
        /\ UNCHANGED <<cur, outs, saved, fins>>
  /\ UNCHANGED <<selected, view, wsRef, timer, reqs, slips>>

\* Another user's dispatch.
OtherDispatch ==
  /\ NewRun
  /\ UNCHANGED <<selected, view, wsRef, timer, sockets, reqs, slips>>

UserStep == Open \/ CloseDialog \/ Select \/ RunScript \/ SetMode \/ Cancel

Callback == \/ \E q \in reqs : OpenDone(q) \/ DispatchDone(q) \/ ResyncDone(q)
            \/ \E s \in Slots : SocketOpens(s) \/ OnMessage(s) \/ OnClose(s)
            \/ TimerFires

Step == \/ UserStep \/ Callback \/ RunGoesOn \/ OtherDispatch
        \/ \E q \in reqs : Handle(q)
        \/ \E s \in Slots : Drop(s)

\* A behaviour ends at a slip that is not followed.
Next == \/ slips \subseteq Followed /\ Step
        \/ ~(slips \subseteq Followed) /\ UNCHANGED vars

\* Callbacks are called and requests answered; a run, a user or a network has
\* no obligation.
Fairness ==
  /\ WF_vars(TimerFires)
  /\ WF_vars(\E q \in reqs : q.op = "resync" /\ Handle(q))
  /\ WF_vars(\E q \in reqs : ResyncDone(q))
  /\ \A s \in Slots : WF_vars(SocketOpens(s) \/ OnMessage(s) \/ OnClose(s))

Spec == Init /\ [][Next]_vars /\ Fairness

----------------------------------------------------------------------------
\* Every variable keeps its type (useBatchRun.ts, BatchRunState).
TypeOK ==
  /\ cur \in 0..MaxRuns /\ done \in BOOLEAN
  /\ outs \in [Runs -> 0..MaxOut] /\ saved \in [Runs -> 0..MaxOut]
  /\ fins \in [Runs -> BOOLEAN]
  /\ mounted \in BOOLEAN /\ mode \in {"compose", "results"}
  /\ selected \subseteq Servers /\ dispatching \in BOOLEAN
  /\ run \in RunInfo /\ out \in Seq(1..MaxOut) /\ fin \in BOOLEAN
  /\ wsRef \in Slots \cup {NoSocket} /\ timer \in BOOLEAN
  /\ \A s \in Slots :
       /\ sockets[s].run \in 0..MaxRuns /\ sockets[s].queue \in Seq(Frames)
       /\ sockets[s].st \in {"free", "connecting", "open", "ended", "closing"}
  /\ \A q \in reqs : q.op \in {"open", "resync", "dispatch"}
                     /\ q.st \in {"sent", "read", "failed"} /\ q.snap \in Snapshot
  /\ slips \subseteq {"stale", "late", "twin", "lost"}

\* A run shown as done is shown with exactly the output and the verdict it had,
\* whatever the stream lost or repeated on the way (the resync after onclose).
DoneIsExact ==
  (slips = {} /\ run.id # 0 /\ run.st = "done")
    => out = Chunks(outs[run.id]) /\ fin

\* The socket in wsRef, which takes the user's input to a run and brings that
\* run's frames to the results on the screen, is of the run on the screen.
SocketIsOfShownRun ==
  (slips = {} /\ wsRef # NoSocket) => sockets[wsRef].run = run.id

\* A dialog that shows a run as running learns that it is over: the closed
\* stream is the signal to resync (Service.waitForCompletion).
ShowsEndedRun == mounted /\ IsRunning(run) /\ (cur # run.id \/ done)
RunEndIsShown == ShowsEndedRun ~> (~ShowsEndedRun \/ slips # {})

=============================================================================
