------------------------------ MODULE BatchRun ------------------------------
(***************************************************************************)
(* The Batch Command engine: batchrun.Service (internal/batchrun), its two *)
(* SQLite tables (internal/store/batchrun.go) and the event channels it    *)
(* hands to the WebSocket handler (internal/api/batchrun_handler.go).      *)
(*                                                                         *)
(* An execution is a pair <<run, server>>: one runOne goroutine with its   *)
(* PTY session and read loop.  Each goroutine advances independently, and  *)
(* every point where another goroutine, a client, the remote process, the  *)
(* store or a crash can intervene is a step boundary.                      *)
(***************************************************************************)
EXTENDS Naturals, FiniteSets

CONSTANTS
    Runs,          \* run IDs (UUIDs) that dispatches may draw
    Servers,       \* target Servers
    Clients,       \* WebSocket clients, each holding at most one channel
    NoRun,         \* the absence of a run
    OutCap,        \* maxOutputBytes, in chunks
    PipeCap,       \* bound: chunks in flight between process and read loop
    MaxCrashes,    \* bound: how often the process may die
    StoreMayFail   \* whether a store call may return an error

ASSUME ConstantsAssumption ==
    /\ NoRun \notin Runs
    /\ OutCap \in Nat /\ PipeCap \in Nat /\ MaxCrashes \in Nat
    /\ StoreMayFail \in BOOLEAN

VARIABLES
    mode,       \* "up", "down", or "boot" while finalizeStaleRun loops
    crashes,    \* how often the process has died
    todo,       \* stale results finalizeStaleRun has yet to visit
    phase,      \* progress of Dispatch and waitForCompletion, per run
    current,    \* Service.current
    cancelled,  \* runs whose context is cancelled
    closing,    \* runs whose Cancel call has yet to close the sessions
    pc,         \* progress of runOne, per execution
    result,     \* the in-memory RunResult, per execution
    reader,     \* the read-loop goroutine, per execution
    sessions,   \* executions registered in runState.sessions
    proc,       \* the remote process behind the PTY session
    unread,     \* chunks the process wrote and the loop has not read
    dbRun,      \* batch_runs: ID of the most recent row
    dbStatus,   \* batch_runs: its status
    row,        \* batch_run_results, per execution
    chan,       \* the subscriber channel of each client
    last        \* last event sent to each client about each server

bootVars == <<mode, crashes, todo>>
runVars  == <<phase, current, cancelled, closing>>
execVars == <<pc, result, reader, sessions>>
procVars == <<proc, unread>>
dbVars   == <<dbRun, dbStatus, row>>
subVars  == <<chan, last>>
vars == <<mode, crashes, todo, phase, current, cancelled, closing, pc, result,
          reader, sessions, proc, unread, dbRun, dbStatus, row, chan, last>>

-----------------------------------------------------------------------------
Execs == Runs \X Servers

\* A RunResult status together with the error that explains a failure:
\* "exit", "error", "cancelled", "unpersisted" and "interrupted" are `failed`.
Unfinished == {"pending", "running"}
Finished   == {"success", "exit", "error", "cancelled", "unpersisted",
               "interrupted"}
Status     == {"none"} \cup Unfinished \cup Finished

Result == [st : Status, out : 0..OutCap, trunc : BOOLEAN]
Absent == [st |-> "none", out |-> 0, trunc |-> FALSE]
Fresh  == [Absent EXCEPT !.st = "pending"]

Phases == {"new", "checked", "stored", "live", "settled", "marked", "over",
           "dead"}
Steps  == {"none", "ready", "begun", "script", "open", "register", "check",
           "wait", "drain", "persistOutcome", "persistFailed", "emit",
           "cleanup"}
Event   == [run : Runs \cup {NoRun}, kind : Status \cup {"output"}]
NoEvent == [run |-> NoRun, kind |-> "none"]
FreeChan == [st |-> "free", run |-> NoRun]

\* Every variable of the service, the store and the clients has its type.
TypeOK ==
    /\ mode \in {"up", "down", "boot"}
    /\ crashes \in 0..MaxCrashes
    /\ todo \subseteq Execs
    /\ phase \in [Runs -> Phases]
    /\ current \in Runs \cup {NoRun}
    /\ cancelled \subseteq Runs
    /\ closing \subseteq Runs
    /\ pc \in [Execs -> Steps]
    /\ result \in [Execs -> Result]
    /\ reader \in [Execs -> {"off", "on", "eof"}]
    /\ sessions \subseteq Execs
    /\ proc \in [Execs -> {"none", "alive", "prompt", "ended", "closed"}]
    /\ unread \in [Execs -> 0..PipeCap]
    /\ dbRun \in Runs \cup {NoRun}
    /\ dbStatus \in {"none", "running", "done"}
    /\ row \in [Execs -> Result]
    /\ chan \in [Clients -> [st : {"free", "checked", "open", "closed"},
                             run : Runs \cup {NoRun}]]
    /\ last \in [Clients -> [Servers -> Event]]

Init ==
    /\ mode = "up" /\ crashes = 0 /\ todo = {}
    /\ phase = [r \in Runs |-> "new"]
    /\ current = NoRun /\ cancelled = {} /\ closing = {}
    /\ pc = [e \in Execs |-> "none"]
    /\ result = [e \in Execs |-> Absent]
    /\ reader = [e \in Execs |-> "off"]
    /\ sessions = {}
    /\ proc = [e \in Execs |-> "none"]
    /\ unread = [e \in Execs |-> 0]
    /\ dbRun = NoRun /\ dbStatus = "none"
    /\ row = [e \in Execs |-> Absent]
    /\ chan = [c \in Clients |-> FreeChan]
    /\ last = [c \in Clients |-> [s \in Servers |-> NoEvent]]

-----------------------------------------------------------------------------
(* Store primitives and the broadcast.                                     *)

\* UpdateBatchRunResult: an upsert keyed by (run_id, server_id); a failing
\* call leaves the table as it was.
Persist(e, res) == row' = [row EXCEPT ![e] = res]
PersistOrFail(e, res) ==
    \/ Persist(e, res)
    \/ StoreMayFail /\ UNCHANGED row

\* SetBatchRunDone: UPDATE ... WHERE id = r.
SetDone(r) == dbStatus' = IF dbRun = r THEN "done" ELSE dbStatus
SetDoneOrFail(r) ==
    \/ SetDone(r)
    \/ StoreMayFail /\ UNCHANGED dbStatus

\* broadcast: every channel in Service.subs gets the event or, if its buffer
\* is full, loses it.  The buffer itself is abstracted to that choice.
Broadcast(e, kind) ==
    \E served \in SUBSET {c \in Clients : chan[c].st = "open"} :
        last' = [c \in Clients |->
                    IF c \in served
                    THEN [last[c] EXCEPT ![e[2]] = [run |-> e[1], kind |-> kind]]
                    ELSE last[c]]

\* appendOutput for one chunk; once output is dropped nothing is appended.
AppendOutput(res) ==
    IF res.trunc THEN res
    ELSE IF res.out < OutCap THEN [res EXCEPT !.out = @ + 1]
    ELSE [res EXCEPT !.trunc = TRUE]

-----------------------------------------------------------------------------
(* Dispatch.                                                               *)

\* The in-memory guard: rs.done is set from phase "marked" on.
MemoryIdle ==
    current \in {NoRun} \cup {r \in Runs : phase[r] \in {"marked", "over"}}

DispatchCheck(r) ==
    /\ mode = "up"
    /\ phase[r] = "new"
    /\ MemoryIdle
    /\ phase' = [phase EXCEPT ![r] = "checked"]
    /\ UNCHANGED <<bootVars, current, cancelled, closing, execVars, procVars,
                   dbVars, subVars>>

\* Mutant: the transaction replaces a running run.
StoreAccepts_NoCheck == TRUE

\* ErrBatchRunInProgress while the most recent run is running.
StoreAccepts == dbStatus # "running"

\* newRun and the ReplaceBatchRun transaction.
Replace(r, targets) ==
    /\ phase[r] = "checked"
    /\ StoreAccepts
    /\ phase' = [phase EXCEPT ![r] = "stored"]
    /\ dbRun' = r
    /\ dbStatus' = "running"
    /\ row' = [e \in Execs |-> IF e \in {r} \X targets THEN Fresh ELSE Absent]
    /\ pc' = [e \in Execs |-> IF e \in {r} \X targets THEN "ready" ELSE pc[e]]
    /\ result' = [e \in Execs |->
                    IF e \in {r} \X targets THEN Fresh ELSE result[e]]
    /\ UNCHANGED <<bootVars, current, cancelled, closing, reader, sessions,
                   procVars, subVars>>

\* ErrBatchRunInProgress, or a store error: the drawn ID is dropped.
ReplaceRefused(r) ==
    /\ phase[r] = "checked"
    /\ ~StoreAccepts \/ StoreMayFail
    /\ phase' = [phase EXCEPT ![r] = "new"]
    /\ UNCHANGED <<bootVars, current, cancelled, closing, execVars, procVars,
                   dbVars, subVars>>

\* s.current = rs, and the goroutines are spawned.
GoLive(r) ==
    /\ phase[r] = "stored"
    /\ phase' = [phase EXCEPT ![r] = "live"]
    /\ current' = r
    /\ UNCHANGED <<bootVars, cancelled, closing, execVars, procVars, dbVars,
                   subVars>>

-----------------------------------------------------------------------------
(* runOne.                                                                 *)

At(e, step) == pc[e] = step
Goto(e, step) == pc' = [pc EXCEPT ![e] = step]

\* Status running, first persist (its error ignored).
Begin(e) ==
    /\ At(e, "ready")
    /\ phase[e[1]] = "live"
    /\ result' = [result EXCEPT ![e].st = "running"]
    /\ PersistOrFail(e, [result[e] EXCEPT !.st = "running"])
    /\ Goto(e, "begun")
    /\ UNCHANGED <<bootVars, runVars, reader, sessions, procVars, dbRun,
                   dbStatus, subVars>>

AnnounceRunning(e) ==
    /\ At(e, "begun")
    /\ Broadcast(e, result[e].st)
    /\ Goto(e, "script")
    /\ UNCHANGED <<bootVars, runVars, result, reader, sessions, procVars,
                   dbVars, chan>>

\* Mutant: the error that came first is kept.
FailureStatus_KeepError(e, why) == why

\* finalizeFailed up to its persist: a cancel takes precedence.
FailureStatus(e, why) == IF e[1] \in cancelled THEN "cancelled" ELSE why

FinalizeFailed(e, why) ==
    /\ result' = [result EXCEPT ![e].st = FailureStatus(e, why)]
    /\ Goto(e, "persistFailed")

\* writeScript; Pool.Execute does not look at the context.
WriteScript(e) ==
    /\ At(e, "script")
    /\ \/ Goto(e, "open") /\ UNCHANGED result
       \/ FinalizeFailed(e, "error")
    /\ UNCHANGED <<bootVars, runVars, reader, sessions, procVars, dbVars,
                   subVars>>

OpenCommand(e) ==
    /\ At(e, "open")
    /\ \/ /\ Goto(e, "register")
          /\ proc' = [proc EXCEPT ![e] = "alive"]
          /\ UNCHANGED result
       \/ FinalizeFailed(e, "error") /\ UNCHANGED proc
    /\ UNCHANGED <<bootVars, runVars, reader, sessions, unread, dbVars,
                   subVars>>

Register(e) ==
    /\ At(e, "register")
    /\ sessions' = sessions \cup {e}
    /\ Goto(e, "check")
    /\ UNCHANGED <<bootVars, runVars, result, reader, procVars, dbVars,
                   subVars>>

\* Closing a session ends a process that has not exited by itself.
CloseSession(p) == IF p \in {"alive", "prompt"} THEN "closed" ELSE p

\* Mutant: no test.
CancelSeen_NoTest(e) == FALSE

\* The ctx.Err() test between registration and the read loop.
CancelSeen(e) == e[1] \in cancelled

CheckCancelled(e) ==
    /\ At(e, "check")
    /\ IF CancelSeen(e)
       THEN /\ proc' = [proc EXCEPT ![e] = CloseSession(@)]
            /\ FinalizeFailed(e, "cancelled")
            /\ UNCHANGED reader
       ELSE /\ reader' = [reader EXCEPT ![e] = "on"]
            /\ Goto(e, "wait")
            /\ UNCHANGED <<proc, result>>
    /\ UNCHANGED <<bootVars, runVars, sessions, unread, dbVars, subVars>>

\* One turn of the read loop; the flush interval may or may not have passed.
ReadChunk(e) ==
    /\ reader[e] = "on"
    /\ unread[e] > 0
    /\ unread' = [unread EXCEPT ![e] = @ - 1]
    /\ result' = [result EXCEPT ![e] = AppendOutput(@)]
    /\ Broadcast(e, "output")
    /\ Persist(e, AppendOutput(result[e])) \/ UNCHANGED row
    /\ UNCHANGED <<bootVars, runVars, pc, reader, sessions, proc, dbRun,
                   dbStatus, chan>>

\* Read returns io.EOF: the process exited and the stream is drained, or the
\* session was closed under the loop.
ReadEOF(e) ==
    /\ reader[e] = "on"
    /\ proc[e] = "closed" \/ (proc[e] = "ended" /\ unread[e] = 0)
    /\ reader' = [reader EXCEPT ![e] = "eof"]
    /\ UNCHANGED <<bootVars, runVars, pc, result, sessions, procVars, dbVars,
                   subVars>>

WaitReturns(e) ==
    /\ At(e, "wait")
    /\ proc[e] \in {"ended", "closed"}
    /\ Goto(e, "drain")
    /\ UNCHANGED <<bootVars, runVars, result, reader, sessions, procVars,
                   dbVars, subVars>>

\* Mutant: the verdict does not wait for the read loop.
Drained_NoWait(e) == TRUE

\* <-readDone.
Drained(e) == reader[e] = "eof"

\* The verdict: cancelled, Wait error, non-zero exit, or success.
Decide(e) ==
    /\ At(e, "drain")
    /\ Drained(e)
    /\ IF e[1] \in cancelled \/ proc[e] = "closed"
       THEN FinalizeFailed(e, "error")
       ELSE /\ \E st \in {"success", "exit"} :
                    result' = [result EXCEPT ![e].st = st]
            /\ Goto(e, "persistOutcome")
    /\ UNCHANGED <<bootVars, runVars, reader, sessions, procVars, dbVars,
                   subVars>>

\* A verdict that cannot be stored becomes a failure of its own, persisted
\* once more by PersistFailed.
PersistOutcome(e) ==
    /\ At(e, "persistOutcome")
    /\ \/ Persist(e, result[e]) /\ Goto(e, "emit") /\ UNCHANGED result
       \/ /\ StoreMayFail
          /\ result' = [result EXCEPT ![e].st = "unpersisted"]
          /\ Goto(e, "persistFailed")
          /\ UNCHANGED row
    /\ UNCHANGED <<bootVars, runVars, reader, sessions, procVars, dbRun,
                   dbStatus, subVars>>

\* Mutant: a failure is announced without being stored.
PersistFailed_Skip(e) ==
    /\ At(e, "persistFailed")
    /\ Goto(e, "emit")
    /\ UNCHANGED <<bootVars, runVars, result, reader, sessions, procVars,
                   dbVars, subVars>>

\* finalizeFailed's persist, or the second one after PersistOutcome failed.
PersistFailed(e) ==
    /\ At(e, "persistFailed")
    /\ PersistOrFail(e, result[e])
    /\ Goto(e, "emit")
    /\ UNCHANGED <<bootVars, runVars, result, reader, sessions, procVars,
                   dbRun, dbStatus, subVars>>

EmitVerdict(e) ==
    /\ At(e, "emit")
    /\ Broadcast(e, result[e].st)
    /\ Goto(e, "cleanup")
    /\ UNCHANGED <<bootVars, runVars, result, reader, sessions, procVars,
                   dbVars, chan>>

\* The deferred unregister, Close and wg.Done; the result is then garbage.
Cleanup(e) ==
    /\ At(e, "cleanup")
    /\ Goto(e, "none")
    /\ sessions' = sessions \ {e}
    /\ proc' = [proc EXCEPT ![e] = "none"]
    /\ unread' = [unread EXCEPT ![e] = 0]
    /\ reader' = [reader EXCEPT ![e] = "off"]
    /\ result' = [result EXCEPT ![e] = Absent]
    /\ UNCHANGED <<bootVars, runVars, dbVars, subVars>>

-----------------------------------------------------------------------------
(* waitForCompletion.                                                      *)

AllGone(r) == \A s \in Servers : pc[<<r, s>>] = "none"

\* wg.Wait returns and SetBatchRunDone is tried; an error is only logged.
Settle(r) ==
    /\ phase[r] = "live"
    /\ AllGone(r)
    /\ phase' = [phase EXCEPT ![r] = "settled"]
    /\ SetDoneOrFail(r)
    /\ UNCHANGED <<bootVars, current, cancelled, closing, execVars, procVars,
                   dbRun, row, subVars>>

MarkDone(r) ==
    /\ phase[r] = "settled"
    /\ phase' = [phase EXCEPT ![r] = "marked"]
    /\ UNCHANGED <<bootVars, current, cancelled, closing, execVars, procVars,
                   dbVars, subVars>>

\* Closes every channel in Service.subs, whichever run it was opened for.
\* Nothing reads the context of the run any more.
CloseStreams(r) ==
    /\ phase[r] = "marked"
    /\ phase' = [phase EXCEPT ![r] = "over"]
    /\ cancelled' = cancelled \ {r}
    /\ chan' = [c \in Clients |-> IF chan[c].st = "open"
                                  THEN [chan[c] EXCEPT !.st = "closed"]
                                  ELSE chan[c]]
    /\ UNCHANGED <<bootVars, current, closing, execVars, procVars, dbVars,
                   last>>

-----------------------------------------------------------------------------
(* Cancel, Input, Subscribe.                                               *)

\* Cancel up to rs.cancel(): no-op unless the current run is not done.
Cancel ==
    /\ current # NoRun
    /\ phase[current] \in {"live", "settled"}
    /\ cancelled' = cancelled \cup {current}
    /\ closing' = closing \cup {current}
    /\ UNCHANGED <<bootVars, phase, current, execVars, procVars, dbVars,
                   subVars>>

\* ... and its loop over rs.sessions under smu.
CloseSessions(r) ==
    /\ r \in closing
    /\ closing' = closing \ {r}
    /\ proc' = [e \in Execs |-> IF e \in sessions /\ e[1] = r
                                THEN CloseSession(proc[e]) ELSE proc[e]]
    /\ UNCHANGED <<bootVars, phase, current, cancelled, execVars, unread,
                   dbVars, subVars>>

\* Input reaches the process of a registered session of the current run.
Input(e) ==
    /\ current = e[1]
    /\ phase[e[1]] \in {"live", "settled"}
    /\ e \in sessions
    /\ proc[e] = "prompt"
    /\ proc' = [proc EXCEPT ![e] = "alive"]
    /\ UNCHANGED <<bootVars, runVars, execVars, unread, dbVars, subVars>>

\* Subscribe compares the run ID under mu, then registers under subsMu.
SubscribeCheck(c) ==
    /\ current # NoRun
    /\ chan[c].st = "free"
    /\ chan' = [chan EXCEPT ![c] = [st |-> "checked", run |-> current]]
    /\ UNCHANGED <<bootVars, runVars, execVars, procVars, dbVars, last>>

SubscribeRegister(c) ==
    /\ chan[c].st = "checked"
    /\ chan' = [chan EXCEPT ![c].st = "open"]
    /\ UNCHANGED <<bootVars, runVars, execVars, procVars, dbVars, last>>

Unsubscribe(c) ==
    /\ chan[c].st \in {"open", "closed"}
    /\ chan' = [chan EXCEPT ![c] = FreeChan]
    /\ last' = [last EXCEPT ![c] = [s \in Servers |-> NoEvent]]
    /\ UNCHANGED <<bootVars, runVars, execVars, procVars, dbVars>>

-----------------------------------------------------------------------------
(* The remote process and the connection under it.                         *)

ProcStep(e) ==
    /\ \/ /\ proc[e] = "alive"
          /\ unread[e] < PipeCap
          /\ unread' = [unread EXCEPT ![e] = @ + 1]
          /\ UNCHANGED proc
       \/ /\ proc[e] = "alive"
          /\ \E p \in {"prompt", "ended"} : proc' = [proc EXCEPT ![e] = p]
          /\ UNCHANGED unread
       \/ /\ proc[e] \in {"alive", "prompt"}
          /\ proc' = [proc EXCEPT ![e] = "closed"]
          /\ UNCHANGED unread
    /\ UNCHANGED <<bootVars, runVars, execVars, dbVars, subVars>>

-----------------------------------------------------------------------------
(* Process death, and New with finalizeStaleRun.                           *)

Crash ==
    /\ mode # "down"
    /\ crashes < MaxCrashes
    /\ mode' = "down"
    /\ crashes' = crashes + 1
    /\ todo' = {}
    /\ phase' = [r \in Runs |-> IF phase[r] \in {"new", "checked"}
                                THEN "new" ELSE "dead"]
    /\ current' = NoRun
    /\ cancelled' = {}
    /\ closing' = {}
    /\ pc' = [e \in Execs |-> "none"]
    /\ result' = [e \in Execs |-> Absent]
    /\ reader' = [e \in Execs |-> "off"]
    /\ sessions' = {}
    /\ proc' = [e \in Execs |-> "none"]
    /\ unread' = [e \in Execs |-> 0]
    /\ chan' = [c \in Clients |-> FreeChan]
    /\ last' = [c \in Clients |-> [s \in Servers |-> NoEvent]]
    /\ UNCHANGED dbVars

\* Mutant: finished results are rewritten.
StaleRows_All == {e \in Execs : e[1] = dbRun /\ row[e].st # "none"}

\* The results finalizeStaleRun marks as interrupted.
StaleRows == {e \in Execs : e[1] = dbRun /\ row[e].st \in Unfinished}

\* Mutant: a run without unfinished results is not finalized.
RunIsStale_HasStaleRows == dbStatus = "running" /\ StaleRows # {}

\* A run left running by the process that died.
RunIsStale == dbStatus = "running"

Restart ==
    /\ mode = "down"
    /\ \/ RunIsStale /\ mode' = "boot" /\ todo' = StaleRows
       \/ ~RunIsStale /\ mode' = "up" /\ UNCHANGED todo
       \/ StoreMayFail /\ mode' = "up" /\ UNCHANGED todo
    /\ UNCHANGED <<crashes, runVars, execVars, procVars, dbVars, subVars>>

FinalizeStaleRow(e) ==
    /\ mode = "boot"
    /\ e \in todo
    /\ todo' = todo \ {e}
    /\ PersistOrFail(e, [row[e] EXCEPT !.st = "interrupted"])
    /\ UNCHANGED <<mode, crashes, runVars, execVars, procVars, dbRun, dbStatus,
                   subVars>>

FinalizeStaleRun ==
    /\ mode = "boot"
    /\ todo = {}
    /\ mode' = "up"
    /\ SetDoneOrFail(dbRun)
    /\ UNCHANGED <<crashes, todo, runVars, execVars, procVars, dbRun, row,
                   subVars>>

-----------------------------------------------------------------------------
RunStep(r) == GoLive(r) \/ Settle(r) \/ MarkDone(r) \/ CloseStreams(r)
DispatchStep(r) ==
    \/ DispatchCheck(r)
    \/ \E targets \in SUBSET Servers \ {{}} : Replace(r, targets)
    \/ ReplaceRefused(r)
ReaderStep(e) == ReadChunk(e) \/ ReadEOF(e)
ExecStep(e) ==
    \/ Begin(e) \/ AnnounceRunning(e) \/ WriteScript(e) \/ OpenCommand(e)
    \/ Register(e) \/ CheckCancelled(e) \/ WaitReturns(e) \/ Decide(e)
    \/ PersistOutcome(e) \/ PersistFailed(e) \/ EmitVerdict(e) \/ Cleanup(e)
ClientStep(c) == SubscribeCheck(c) \/ SubscribeRegister(c) \/ Unsubscribe(c)
BootStep == Restart \/ FinalizeStaleRun \/ \E e \in Execs : FinalizeStaleRow(e)

Next ==
    \/ \E r \in Runs : DispatchStep(r) \/ RunStep(r) \/ CloseSessions(r)
    \/ \E e \in Execs : ExecStep(e) \/ ReaderStep(e) \/ Input(e) \/ ProcStep(e)
    \/ \E c \in Clients : ClientStep(c)
    \/ Cancel \/ Crash \/ BootStep

Spec == Init /\ [][Next]_vars

\* The Go scheduler runs every ready goroutine, SSH requests return (a dead
\* connection is closed by the keepalive), and a dead process is started
\* again.  Nothing is assumed of users, of the remote process or of crashes.
Fairness ==
    /\ \A r \in Runs : WF_vars(RunStep(r)) /\ WF_vars(CloseSessions(r))
    /\ \A e \in Execs : WF_vars(ExecStep(e)) /\ WF_vars(ReaderStep(e))
    /\ WF_vars(BootStep)
FairSpec == Spec /\ Fairness

-----------------------------------------------------------------------------
(* The contract, seen through the tables that REST reads.                  *)

Contract == INSTANCE BatchRunContract
    WITH run <- dbRun, status <- dbStatus,
         verdict <- [e \in Execs |-> row[e].st]

\* Every behaviour of the engine, with its races, crashes and failing writes,
\* looks through the store like a behaviour of the contract.
RefinesContract == Contract!Spec

-----------------------------------------------------------------------------
(* Safety.                                                                 *)

Executing(e) == pc[e] # "none"

\* Runs are serialized: whatever dispatches, cancels, restarts and slow
\* waiters interleave, all executions alive belong to one run.
SerializedExecution ==
    \A e, f \in Execs : Executing(e) /\ Executing(f) => e[1] = f[1]

\* Only the most recent run is retained: no late write of a replaced run
\* leaves a result row behind (UpdateBatchRunResult is an upsert).
NoOrphanRow == \A e \in Execs : row[e].st # "none" => e[1] = dbRun

\* With a store that does not fail, a run recorded done has no unfinished
\* result, also when a restart finalized it.
DoneRunIsFinished ==
    ~StoreMayFail /\ dbStatus = "done" =>
        \A e \in Execs : row[e].st \notin Unfinished

\* With a store that does not fail, a service that tracks no unfinished run
\* never finds a run in the store that refuses the next dispatch.
IdleServiceAcceptsDispatch ==
    ~StoreMayFail /\ mode = "up"
        /\ (\A r \in Runs : phase[r] \notin {"stored", "live"}) =>
            StoreAccepts

\* Once Cancel has returned no runOne waits on a session left open, however
\* the cancel raced with the registration of the session.
NoStrandedSession ==
    \A e \in Execs : pc[e] = "wait" /\ e[1] \in cancelled \ closing =>
        proc[e] \in {"ended", "closed"}

\* A verdict taken from the exit of the process is recorded with all the
\* output the process wrote.
CompleteOutput ==
    \A e \in Execs : pc[e] = "persistOutcome" => unread[e] = 0

\* With a store that does not fail, a verdict a client was told is the one
\* the REST resync reads: events never run ahead of the store.
VerdictStoredBeforeSent ==
    ~StoreMayFail =>
        \A c \in Clients, s \in Servers :
            LET ev == last[c][s] IN
            ev.kind \in Finished /\ ev.run = dbRun =>
                row[<<ev.run, s>>].st = ev.kind

(* Action properties.                                                      *)

\* A stored verdict is never revised while its run is the retained one.
VerdictIsFinal ==
    [][\A e \in Execs : row[e].st \in Finished =>
            row'[e] = row[e] \/ dbRun' # dbRun]_vars

\* A result undecided when its run is cancelled ends as cancelled, whichever
\* of the script write, the open, the exit or the close comes first.
CancelTakesPrecedence ==
    [][\A e \in Execs :
            /\ result[e].st \in Unfinished
            /\ result'[e].st \in Finished
            /\ e[1] \in cancelled
            => result'[e].st = "cancelled"]_vars

\* A client hears nothing more of an execution after its verdict.
VerdictIsLastEvent ==
    [][\A c \in Clients, s \in Servers :
            /\ last[c][s].kind \in Finished
            /\ last'[c][s].run = last[c][s].run
            => last'[c][s] = last[c][s]]_vars

(* Liveness.                                                               *)

\* A cancelled run always comes to its end: no cancel is lost to the race
\* with a session being opened, or to a process waiting for input.
CancelEndsRun ==
    \A r \in Runs : r \in cancelled ~> phase[r] \in {"over", "dead"}

\* With a store that does not fail, a run left running by a dead process is
\* finalized.
StaleRunIsFinalized ==
    ~StoreMayFail =>
        (mode = "down" /\ dbStatus = "running" ~> dbStatus = "done")

-----------------------------------------------------------------------------
(* The inductive invariant behind the safety properties.                   *)

Undecided == {"ready", "begun", "script", "open", "register", "check", "wait",
              "drain"}
Unrecorded == Undecided \cup {"persistOutcome", "persistFailed"}

\* Whoever executes does so for the run the store calls running.
SerialInv ==
    /\ \A r \in Runs : phase[r] \in {"stored", "live"} =>
            dbRun = r /\ dbStatus = "running"
    /\ \A r \in Runs : mode # "up" =>
            phase[r] \notin {"checked", "stored", "live"}
    /\ \A r \in Runs : phase[r] \in {"new", "checked"} => dbRun # r
    /\ \A e \in Execs : Executing(e) => phase[e[1]] \in {"stored", "live"}
    /\ \A e \in Execs : reader[e] = "on" => pc[e] \in {"wait", "drain"}
    /\ NoOrphanRow

\* finalizeStaleRun works on the stale run only.
BootInv ==
    /\ \A e \in todo : e[1] = dbRun /\ row[e].st \in Unfinished
    /\ todo # {} => mode = "boot"
    /\ mode = "boot" => dbStatus = "running"

\* Memory decides, the store follows.
VerdictInv ==
    \A e \in Execs :
        /\ pc[e] \in Undecided => result[e].st \in Unfinished
        /\ pc[e] \in Undecided \ {"ready"} => result[e].st = "running"
        /\ pc[e] \in Unrecorded => row[e].st \in Unfinished
        /\ pc[e] \in {"persistOutcome", "persistFailed"} =>
                result[e].st \in Finished

\* With a reliable store an unfinished result has somebody to finish it.
ReliableInv ==
    ~StoreMayFail =>
        \A e \in Execs : row[e].st \in Unfinished =>
            /\ mode = "up" => pc[e] \in Unrecorded
            /\ mode = "boot" => e \in todo
            /\ dbStatus = "running"

\* The session, its process and its read loop, as runOne relies on them.
SessionInv ==
    \A e \in Execs :
        /\ pc[e] \in {"check", "wait"} => e \in sessions
        /\ pc[e] \in {"register", "check", "wait"} => proc[e] # "none"
        /\ pc[e] = "drain" => proc[e] \in {"ended", "closed"}
        /\ reader[e] # "off" => pc[e] \in {"wait", "drain", "persistOutcome",
                                           "persistFailed", "emit", "cleanup"}
        /\ reader[e] = "eof" =>
                proc[e] = "closed" \/ (proc[e] = "ended" /\ unread[e] = 0)
        /\ pc[e] = "persistOutcome" => proc[e] = "ended" /\ reader[e] = "eof"

\* All parts together: inductive, and enough for the safety properties above.
IInv == SerialInv /\ BootInv /\ VerdictInv /\ ReliableInv /\ SessionInv
            /\ NoStrandedSession

=============================================================================
