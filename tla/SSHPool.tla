------------------------------ MODULE SSHPool -------------------------------
(***************************************************************************)
(* One managedConn of ssh.Pool (internal/ssh/pool.go) with its Reconnector *)
(* and keepalive (internal/ssh/reconnect.go): the runConnection goroutines *)
(* that share it, and the Remove, TriggerReconnect and Reconnect calls     *)
(* other goroutines make on it.                                            *)
(*                                                                         *)
(* A loop is one runConnection goroutine with its own context; loop 1 is   *)
(* the one Add starts.  A caller is a goroutine inside one Pool method.    *)
(* Each critical section of p.mu, mc.mu and r.mu is one step.              *)
(***************************************************************************)
EXTENDS Naturals, FiniteSets

CONSTANTS
    Callers,       \* goroutines that call Remove, TriggerReconnect, Reconnect
    MaxLoops,      \* bound: runConnection goroutines ever started
    Conns,         \* transports, reused once closed
    None,          \* no transport, no loop
    MaxAttempts,   \* maxReconnectAttempts
    Threshold      \* KeepaliveFailureThreshold

Loops == 1..MaxLoops

ASSUME PoolAssumption ==
    /\ MaxLoops \in Nat \ {0}
    /\ MaxAttempts \in Nat \ {0} /\ Threshold \in Nat \ {0}
    /\ None \notin Conns \cup Loops

VARIABLES
    inPool,     \* p.conns[serverID] is this managedConn
    state,      \* Reconnector.state
    attempts,   \* Reconnector.attempts
    lastError,  \* Reconnector.lastError, by its IsRetryable class
    client,     \* mc.client
    open,       \* transports dialled and not closed
    broken,     \* open transports whose peer is gone
    kaCancel,   \* mc.kaCancel, by the loop whose keepalive it cancels
    cancel,     \* mc.cancel, by the loop whose context it cancels
    pc,         \* progress of each loop
    ctxDone,    \* loops whose context is cancelled
    kaDone,     \* loops whose keepalive context is cancelled
    failures,   \* consecutiveFailures of each loop's keepalive
    pinged,     \* the transport each loop's keepalive is pinging
    call,       \* progress of each caller
    fresh       \* the loop each Reconnect call is about to start

reconVars  == <<state, attempts, lastError>>
connVars   == <<client, open, broken>>
cancelVars == <<kaCancel, cancel, ctxDone, kaDone>>
loopVars   == <<pc, failures, pinged>>
callVars   == <<call, fresh>>
vars == <<inPool, state, attempts, lastError, client, open, broken, kaCancel,
          cancel, pc, ctxDone, kaDone, failures, pinged, call, fresh>>

-----------------------------------------------------------------------------
Errors    == {"retryable", "fatal"}
LoopSteps == {"off", "new", "top", "run", "fetch", "dial", "retryable",
              "fatal", "giveUp", "sleep", "dialled", "status",
              "arm", "keepalive", "ping", "failed", "fire", "lost", "reset",
              "exit"}
CallSteps == {"idle", "trigger", "drop", "close", "cancel", "renew", "spawn",
              "stop", "hangUp"}

TypeOK ==
    /\ inPool \in BOOLEAN
    /\ state \in {"reconnecting", "connected", "failed"}
    /\ attempts \in Nat
    /\ lastError \in Errors \cup {"none"}
    /\ client \in Conns \cup {None}
    /\ open \subseteq Conns /\ broken \subseteq open
    /\ kaCancel \in Loops \cup {None} /\ cancel \in Loops
    /\ pc \in [Loops -> LoopSteps]
    /\ ctxDone \subseteq Loops /\ kaDone \subseteq Loops
    /\ failures \in [Loops -> 0..Threshold]
    /\ pinged \in [Loops -> Conns \cup {None}]
    /\ call \in [Callers -> CallSteps]
    /\ fresh \in [Callers -> Loops \cup {None}]

\* Add: the managedConn enters the pool and loop 1 starts.
Init ==
    /\ inPool = TRUE
    /\ state = "reconnecting" /\ attempts = 0 /\ lastError = "none"
    /\ client = None /\ open = {} /\ broken = {}
    /\ kaCancel = None /\ cancel = 1
    /\ pc = [l \in Loops |-> IF l = 1 THEN "top" ELSE "off"]
    /\ ctxDone = {} /\ kaDone = {}
    /\ failures = [l \in Loops |-> 0]
    /\ pinged = [l \in Loops |-> None]
    /\ call = [c \in Callers |-> "idle"]
    /\ fresh = [c \in Callers |-> None]

-----------------------------------------------------------------------------
(* Helpers *)

Goto(l, from, to) == pc[l] = from /\ pc' = [pc EXCEPT ![l] = to]
Move(c, from, to) == call[c] = from /\ call' = [call EXCEPT ![c] = to]

\* Mutant: the pointer is cleared and the transport left open.
CloseClient_Forget ==
    /\ UNCHANGED <<open, broken>>
    /\ client' = None

\* `if mc.client != nil { mc.client.Close(); mc.client = nil }`
CloseClient ==
    /\ open' = open \ {client}
    /\ broken' = broken \ {client}
    /\ client' = None

\* Reconnector.Reset.
Reset ==
    /\ state' = "reconnecting"
    /\ attempts' = 0
    /\ lastError' = "none"

-----------------------------------------------------------------------------
(* runConnection and Reconnector.Run *)

\* The loop's own `ctx.Err() != nil` test.
LoopTop(l) ==
    /\ Goto(l, "top", IF l \in ctxDone THEN "exit" ELSE "run")
    /\ UNCHANGED <<inPool, reconVars, connVars, cancelVars, failures, pinged,
                   callVars>>

\* Mutant: every attempt starts the count again.
StartAttempt_Recount(l) ==
    /\ \/ /\ l \in ctxDone
          /\ Goto(l, "run", "status")
          /\ UNCHANGED <<state, attempts>>
       \/ /\ l \notin ctxDone
          /\ Goto(l, "run", "fetch")
          /\ state' = "reconnecting" /\ attempts' = 0
    /\ UNCHANGED <<inPool, lastError, connVars, cancelVars, failures, pinged,
                   callVars>>

\* Reconnector.Run starts an attempt, or returns because of the context.
StartAttempt(l) ==
    /\ \/ /\ l \in ctxDone
          /\ Goto(l, "run", "status")
          /\ UNCHANGED state
       \/ /\ l \notin ctxDone
          /\ Goto(l, "run", "fetch")
          /\ state' = "reconnecting"
    /\ UNCHANGED <<inPool, attempts, lastError, connVars, cancelVars, failures,
                   pinged, callVars>>

\* connectFn reads the server from the store under the loop's context.  An
\* error there is a ConnectionError of kind ErrNetwork.
FetchServer(l) ==
    /\ \/ l \notin ctxDone /\ Goto(l, "fetch", "dial")
       \/ Goto(l, "fetch", "retryable")
    /\ UNCHANGED <<inPool, reconVars, connVars, cancelVars, failures, pinged,
                   callVars>>

\* gossh.Dial succeeds: the transport becomes mc.client, whatever was there.
DialSucceeds(l) ==
    /\ Goto(l, "dial", "dialled")
    /\ \E k \in Conns \ (open \cup {client} \cup {pinged[m] : m \in Loops}) :
          client' = k /\ open' = open \cup {k}
    /\ UNCHANGED <<inPool, reconVars, broken, cancelVars, failures, pinged,
                   callVars>>

\* gossh.Dial or buildAuth fails: a network or timeout error is retryable,
\* an auth, host key or passphrase error is not.
DialFails(l) ==
    /\ \E e \in Errors : Goto(l, "dial", e)
    /\ UNCHANGED <<inPool, reconVars, connVars, cancelVars, failures, pinged,
                   callVars>>

Connected(l) ==
    /\ Goto(l, "dialled", "status")
    /\ state' = "connected" /\ attempts' = 0 /\ lastError' = "none"
    /\ UNCHANGED <<inPool, connVars, cancelVars, failures, pinged, callVars>>

\* A fatal error, or the last attempt allowed.
GivesUp(e, n) == e = "fatal" \/ n >= MaxAttempts

\* The attempt is counted, then judged by the count just read.
CountFailure(l) ==
    /\ \E e \in Errors :
          /\ Goto(l, e, IF GivesUp(e, attempts + 1) THEN "giveUp" ELSE "sleep")
          /\ lastError' = e
    /\ attempts' = attempts + 1
    /\ UNCHANGED <<inPool, state, connVars, cancelVars, failures, pinged,
                   callVars>>

GiveUp(l) ==
    /\ Goto(l, "giveUp", "status")
    /\ state' = "failed"
    /\ UNCHANGED <<inPool, attempts, lastError, connVars, cancelVars, failures,
                   pinged, callVars>>

\* clock.Sleep: the backoff elapses, or the context ends it and Run returns.
Backoff(l) ==
    /\ \/ Goto(l, "sleep", "run")
       \/ l \in ctxDone /\ Goto(l, "sleep", "status")
    /\ UNCHANGED <<inPool, reconVars, connVars, cancelVars, failures, pinged,
                   callVars>>

\* Mutant: no status leads on to the keepalive.
ArmsKeepalive_Never == FALSE

\* Run has returned: only a connected status leads on to the keepalive.
ArmsKeepalive == state = "connected"

ReadStatus(l) ==
    /\ Goto(l, "status", IF ArmsKeepalive THEN "arm" ELSE "exit")
    /\ UNCHANGED <<inPool, reconVars, connVars, cancelVars, failures, pinged,
                   callVars>>

\* A new keepalive context, derived from the loop's, replaces mc.kaCancel.
ArmKeepalive(l) ==
    /\ Goto(l, "arm", "keepalive")
    /\ kaCancel' = l
    /\ kaDone' = kaDone \ {l}
    /\ failures' = [failures EXCEPT ![l] = 0]
    /\ UNCHANGED <<inPool, reconVars, connVars, cancel, ctxDone, pinged,
                   callVars>>

-----------------------------------------------------------------------------
(* Keepalive.Run *)

\* A tick reads mc.client and sends a request on it; without one the ping
\* fails at once.
Tick(l) ==
    /\ Goto(l, "keepalive", IF client = None THEN "failed" ELSE "ping")
    /\ pinged' = [pinged EXCEPT ![l] = client]
    /\ UNCHANGED <<inPool, reconVars, connVars, cancelVars, failures, callVars>>

\* The request is answered, or fails because the transport is closed or dead.
PingReturns(l) ==
    /\ \/ /\ pinged[l] \in open \ broken
          /\ Goto(l, "ping", "keepalive")
          /\ failures' = [failures EXCEPT ![l] = 0]
       \/ /\ pinged[l] \notin open \ broken
          /\ Goto(l, "ping", "failed")
          /\ UNCHANGED failures
    /\ pinged' = [pinged EXCEPT ![l] = None]
    /\ UNCHANGED <<inPool, reconVars, connVars, cancelVars, callVars>>

\* A failed ping is counted; the Threshold-th one in a row fires onReconnect.
Unresponsive(n) == n >= Threshold

CountPingFailure(l) ==
    /\ Goto(l, "failed",
            IF Unresponsive(failures[l] + 1) THEN "fire" ELSE "keepalive")
    /\ failures' = [failures EXCEPT ![l] = @ + 1]
    /\ UNCHANGED <<inPool, reconVars, connVars, cancelVars, pinged, callVars>>

\* Mutant: onReconnect leaves the keepalive running.
EndKeepalive_Not(l) == kaDone' = kaDone

\* onReconnect closes the client and cancels this loop's keepalive.
EndKeepalive(l) == kaDone' = kaDone \cup {l}

FireReconnect(l) ==
    /\ Goto(l, "fire", "keepalive")
    /\ CloseClient
    /\ EndKeepalive(l)
    /\ failures' = [failures EXCEPT ![l] = 0]
    /\ UNCHANGED <<inPool, reconVars, kaCancel, cancel, ctxDone, pinged,
                   callVars>>

\* Mutant: the keepalive context is not derived from the loop's.
KeepaliveOver_Orphan(l) == l \in kaDone

\* `case <-ctx.Done()`: the keepalive context or its parent is cancelled.
KeepaliveOver(l) == l \in kaDone \cup ctxDone

KeepaliveEnds(l) ==
    /\ KeepaliveOver(l)
    /\ Goto(l, "keepalive", "lost")
    /\ UNCHANGED <<inPool, reconVars, connVars, cancelVars, failures, pinged,
                   callVars>>

\* After the keepalive: stop if the context is cancelled, else start over.
Lost(l) ==
    /\ Goto(l, "lost", IF l \in ctxDone THEN "exit" ELSE "reset")
    /\ UNCHANGED <<inPool, reconVars, connVars, cancelVars, failures, pinged,
                   callVars>>

ResetLoop(l) ==
    /\ Goto(l, "reset", "top")
    /\ Reset
    /\ UNCHANGED <<inPool, connVars, cancelVars, failures, pinged, callVars>>

-----------------------------------------------------------------------------
(* Remove and CloseAll *)

BeginRemove(c) ==
    /\ inPool
    /\ Move(c, "idle", "stop")
    /\ inPool' = FALSE
    /\ UNCHANGED <<reconVars, connVars, cancelVars, loopVars, fresh>>

\* Mutant: Remove ends the keepalive and not the loop.
StopLoop_Keepalive(c) ==
    /\ Move(c, "stop", "hangUp")
    /\ kaDone' = kaDone \cup ({kaCancel} \ {None})
    /\ UNCHANGED <<inPool, reconVars, connVars, kaCancel, cancel, ctxDone,
                   loopVars, fresh>>

StopLoop(c) ==
    /\ Move(c, "stop", "hangUp")
    /\ ctxDone' = ctxDone \cup {cancel}
    /\ UNCHANGED <<inPool, reconVars, connVars, kaCancel, cancel, kaDone,
                   loopVars, fresh>>

\* Remove closes mc.client but keeps the pointer.
HangUp(c) ==
    /\ Move(c, "hangUp", "idle")
    /\ open' = open \ {client} /\ broken' = broken \ {client}
    /\ UNCHANGED <<inPool, reconVars, client, cancelVars, loopVars, fresh>>

-----------------------------------------------------------------------------
(* TriggerReconnect, called by a collector after repeated failures *)

BeginTrigger(c) ==
    /\ inPool
    /\ Move(c, "idle", "trigger")
    /\ UNCHANGED <<inPool, reconVars, connVars, cancelVars, loopVars, fresh>>

\* `status.State != StateConnected` returns early.
TestStatus(c) ==
    /\ Move(c, "trigger", IF state = "connected" THEN "drop" ELSE "idle")
    /\ UNCHANGED <<inPool, reconVars, connVars, cancelVars, loopVars, fresh>>

\* Under mc.mu: close the client and cancel the keepalive in mc.kaCancel.
DropClient(c) ==
    /\ \/ Move(c, "drop", "idle")      \* TriggerReconnect ends here
       \/ Move(c, "close", "cancel")   \* Reconnect goes on
    /\ CloseClient
    /\ kaDone' = kaDone \cup ({kaCancel} \ {None})
    /\ UNCHANGED <<inPool, reconVars, kaCancel, cancel, ctxDone, loopVars,
                   fresh>>

-----------------------------------------------------------------------------
(* Reconnect, called by the REST handler *)

BeginReconnect(c) ==
    /\ inPool
    /\ Move(c, "idle", "close")
    /\ \E l \in Loops :
          /\ Goto(l, "off", "new")
          /\ \A m \in 1..(l - 1) : pc[m] # "off"
          /\ fresh' = [fresh EXCEPT ![c] = l]
    /\ UNCHANGED <<inPool, reconVars, connVars, cancelVars, failures, pinged>>

\* Mutant: the old connection context is not cancelled.
StopOldLoop_Not == ctxDone' = ctxDone

\* mc.cancel() stops the loop that mc.cancel belongs to.
StopOldLoop == ctxDone' = ctxDone \cup {cancel}

CancelOldLoop(c) ==
    /\ Move(c, "cancel", "renew")
    /\ StopOldLoop
    /\ UNCHANGED <<inPool, reconVars, connVars, kaCancel, cancel, kaDone,
                   loopVars, fresh>>

RenewContext(c) ==
    /\ Move(c, "renew", "spawn")
    /\ cancel' = fresh[c]
    /\ UNCHANGED <<inPool, reconVars, connVars, kaCancel, ctxDone, kaDone,
                   loopVars, fresh>>

SpawnLoop(c) ==
    /\ Move(c, "spawn", "idle")
    /\ Reset
    /\ Goto(fresh[c], "new", "top")
    /\ fresh' = [fresh EXCEPT ![c] = None]
    /\ UNCHANGED <<inPool, connVars, cancelVars, failures, pinged>>

-----------------------------------------------------------------------------
\* The network or the server drops an open transport.
Break ==
    /\ \E k \in open \ broken : broken' = broken \cup {k}
    /\ UNCHANGED <<inPool, reconVars, client, open, cancelVars, loopVars,
                   callVars>>

RunStep(l) ==
    \/ LoopTop(l) \/ StartAttempt(l) \/ FetchServer(l) \/ DialSucceeds(l)
    \/ DialFails(l) \/ Connected(l) \/ CountFailure(l) \/ GiveUp(l)
    \/ Backoff(l) \/ ReadStatus(l) \/ ArmKeepalive(l) \/ Lost(l)
    \/ ResetLoop(l)

PingStep(l) ==
    Tick(l) \/ PingReturns(l) \/ CountPingFailure(l) \/ FireReconnect(l)

CallStep(c) ==
    \/ StopLoop(c) \/ HangUp(c) \/ TestStatus(c) \/ DropClient(c)
    \/ CancelOldLoop(c) \/ RenewContext(c) \/ SpawnLoop(c)

CallBegins(c) == BeginRemove(c) \/ BeginTrigger(c) \/ BeginReconnect(c)

Next ==
    \/ \E l \in Loops : RunStep(l) \/ PingStep(l) \/ KeepaliveEnds(l)
    \/ \E c \in Callers : CallStep(c) \/ CallBegins(c)
    \/ Break

Spec == Init /\ [][Next]_vars

\* Goroutines are scheduled and timers fire; `select` picks among ready cases
\* at random, so a cancelled context is seen in the end.  That a dial and a
\* ping return is the network stack's promise.  Nobody has to call anything.
LoopFairness(l) ==
    WF_vars(RunStep(l)) /\ WF_vars(PingStep(l)) /\ SF_vars(KeepaliveEnds(l))

CallFairness(c) == WF_vars(CallStep(c))

Fairness ==
    /\ \A l \in Loops : LoopFairness(l)
    /\ \A c \in Callers : CallFairness(c)

FairSpec == Spec /\ Fairness

-----------------------------------------------------------------------------
(* Safety *)

\* No call is in progress; loop l runs and nothing has stopped it.
Quiet == \A c \in Callers : call[c] = "idle"
Alive(l) == pc[l] \notin {"off", "new", "exit"} /\ l \notin ctxDone

\* A transport is closed before another is dialled: whatever the keepalive
\* and TriggerReconnect do to mc.client between two dials of the only loop,
\* no transport but mc.client is open.
ReplacedTransportIsClosed == open \subseteq {client}

\* The dashboard shows `failed` only after MaxAttempts failures in a row or
\* an error that is not retryable; a reset or a success in between counts.
FailedForCause ==
    state = "failed" => lastError = "fatal" \/ attempts = MaxAttempts

\* The connection is tried MaxAttempts times in a row, never more.
RetriesBounded == attempts <= MaxAttempts

\* One loop at most tends the connection, at every moment, and it is the one
\* the next Remove or Reconnect stops: Reconnect stops the loop that was
\* there before it starts its own, however far that one had got.
OneLiveLoop ==
    \A l, m \in Loops : Alive(l) /\ Alive(m) => l = m /\ cancel = l

\* Once Remove has returned, no loop is left to dial the server again.
RemovedMeansStopped == Quiet /\ ~inPool => \A l \in Loops : ~Alive(l)

\* "connected" is claimed only while a loop watches the transport.
ConnectedIsTended ==
    Quiet /\ inPool /\ state = "connected" => \E l \in Loops : Alive(l)

-----------------------------------------------------------------------------
(* The inductive invariants behind the theorems of SSHPoolProofs *)

Starting == {"close", "cancel", "renew", "spawn"}

LocalInv ==
    /\ \A l \in Loops :
          pc[l] \in {"keepalive", "ping", "failed"} => failures[l] < Threshold
    /\ \A c \in Callers : call[c] \in Starting => fresh[c] \in Loops

\* With any number of callers: who stops the loop that is alive, and what becomes
\* of each loop that a Reconnect is about to start.
OwnerInv ==
    /\ \A l \in Loops : Alive(l) => cancel = l
    /\ \A c \in Callers : call[c] \in Starting => pc[fresh[c]] = "new"
    /\ \A c, d \in Callers :
          call[c] \in Starting /\ call[d] \in Starting /\ fresh[c] = fresh[d] => c = d
    /\ \A c \in Callers :
          call[c] = "spawn" => cancel = fresh[c] \/ fresh[c] \in ctxDone

\* After a removal the context in mc.cancel is cancelled, or is about to be.
RemovalInv == ~inPool => cancel \in ctxDone \/ \E c \in Callers : call[c] = "stop"

\* With one caller at a time: who can be alive while a call is in progress.
TenderInv ==
    /\ \A l \in Loops : Alive(l) => cancel = l
    /\ \A l \in Loops : pc[l] = "off" => l \notin ctxDone /\ cancel # l
    /\ \A l \in Loops : pc[l] = "new" =>
           /\ l \notin ctxDone
           /\ \E c \in Callers :
                 /\ fresh[c] = l
                 /\ call[c] \in Starting
                 /\ cancel = l => call[c] = "spawn"
    /\ \A c \in Callers :
           /\ call[c] \in Starting => pc[fresh[c]] = "new"
           /\ call[c] \in {"renew", "spawn"} => \A l \in Loops : ~Alive(l)
           /\ call[c] = "spawn" => cancel = fresh[c]
           /\ call[c] \in {"stop", "hangUp"} => ~inPool
           /\ ~inPool => call[c] \in {"idle", "stop", "hangUp"}
           /\ ~inPool /\ call[c] # "stop" => \A l \in Loops : ~Alive(l)

Dialling == {"top", "run", "fetch", "dial", "retryable", "fatal", "sleep"}

\* With one loop: the transport, the contexts and the count at each step.
SoloInv ==
    /\ pc[1] \notin {"off", "new"}
    /\ \A c \in Callers : call[c] \notin Starting
    /\ open \subseteq {client}
    /\ pc[1] \in Dialling \cup {"giveUp", "reset"} => open = {}
    /\ pc[1] = "lost" /\ 1 \notin ctxDone => open = {}
    /\ pc[1] \in {"keepalive", "ping", "failed", "fire"} /\ 1 \in kaDone
           => open = {}
    /\ inPool => ctxDone = {} /\ \A c \in Callers : call[c] # "stop"
    /\ inPool /\ pc[1] = "exit" => state # "connected"
    /\ attempts <= MaxAttempts
    /\ pc[1] \in Dialling => attempts < MaxAttempts
    /\ pc[1] = "giveUp" => lastError = "fatal" \/ attempts = MaxAttempts
    /\ state = "failed" =>
           /\ pc[1] \in {"status", "exit"}
           /\ lastError = "fatal" \/ attempts = MaxAttempts

-----------------------------------------------------------------------------
(* Action properties *)

\* Only the user's Reconnect leads out of `failed`.
FailedIsFinal ==
    [][state = "failed" /\ state' # "failed" =>
           \E c \in Callers : call[c] = "spawn" /\ call'[c] = "idle"]_vars

(* Liveness *)

\* A connection whose transport is gone does not stay "connected": the
\* keepalive or the trigger starts a new attempt, unless the server goes.
LostConnectionHeals ==
    (state = "connected" /\ client \notin open \ broken) ~>
        (state # "connected" \/ ~inPool)

\* Reconnecting is bounded: it ends connected or failed.
ReconnectingResolves ==
    (state = "reconnecting") ~> (state # "reconnecting" \/ ~inPool)

\* A loop whose context is cancelled ends, wherever it stands.
CancelledLoopEnds ==
    \A l \in Loops : (l \in ctxDone) ~> (pc[l] = "exit")
=============================================================================
