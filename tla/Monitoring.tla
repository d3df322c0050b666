----------------------------- MODULE Monitoring -----------------------------
(***************************************************************************)
(* How the set of monitored servers follows the servers table:             *)
(* app.ServerSynchronizer (internal/app/synchronizer.go), run by every     *)
(* request that changes a server, the membership of ssh.Pool, and          *)
(* monitor.Manager with its Collector goroutines                           *)
(* (internal/monitor/collector.go).                                        *)
(*                                                                         *)
(* A syncer is a goroutine that runs Sync: Start's, then one per request.  *)
(* The connections themselves are abstract here; SSHPool details them.     *)
(***************************************************************************)
EXTENDS Naturals, FiniteSets

CONSTANTS
    Servers,      \* server IDs; an ID is never used again
    Syncers,      \* goroutines that change the table and run Sync
    Collectors,   \* bound: Collectors ever created
    None,         \* no server, no collector
    Threshold,    \* consecutive failures that trigger a reconnection
    ListMayFail   \* whether the store may fail to list the servers

ASSUME MonitoringAssumption ==
    /\ Threshold \in Nat \ {0}
    /\ ListMayFail \in BOOLEAN
    /\ None \notin Servers \cup Collectors

VARIABLES
    started,    \* Start has run its own Sync: requests are accepted
    table,      \* servers: "unborn", "stored" or "deleted"
    sync,       \* where each Sync is
    list,       \* the servers it read
    todo,       \* the IDs its current loop has yet to visit
    cur,        \* the ID its current loop visits
    met,        \* history: running Syncs that another one has overlapped
    pool,       \* keys of Pool.conns
    up,         \* servers whose connection has a client
    managed,    \* Manager.collectors
    target,     \* the server of each Collector
    step,       \* where each Collector goroutine is
    stopped,    \* Collectors whose context is cancelled
    failures,   \* Collector.failures, counted to Threshold + 1
    fired       \* Collectors whose thresholdFired is set

syncVars == <<sync, list, todo, cur, met>>
collVars == <<target, step, stopped, failures, fired>>
vars == <<started, table, sync, list, todo, cur, met, pool, up, managed,
          target, step, stopped, failures, fired>>

-----------------------------------------------------------------------------
SyncSteps == {"idle", "list", "add", "addCollector", "ids", "remove",
              "removeConn"}
CollSteps == {"off", "begin", "exec", "failed", "fire", "wait", "end"}

TypeOK ==
    /\ started \in BOOLEAN
    /\ table \in [Servers -> {"unborn", "stored", "deleted"}]
    /\ sync \in [Syncers -> SyncSteps]
    /\ list \in [Syncers -> SUBSET Servers]
    /\ todo \in [Syncers -> SUBSET Servers]
    /\ cur \in [Syncers -> Servers \cup {None}]
    /\ met \subseteq Syncers
    /\ pool \subseteq Servers /\ up \subseteq pool
    /\ managed \in [Servers -> Collectors \cup {None}]
    /\ target \in [Collectors -> Servers \cup {None}]
    /\ step \in [Collectors -> CollSteps]
    /\ stopped \subseteq Collectors
    /\ failures \in [Collectors -> 0..(Threshold + 1)]
    /\ fired \subseteq Collectors

\* The servers a restarted process finds in its table; nothing runs yet.
Init ==
    /\ started = FALSE
    /\ table \in [Servers -> {"unborn", "stored"}]
    /\ sync = [y \in Syncers |-> "idle"]
    /\ list = [y \in Syncers |-> {}] /\ todo = [y \in Syncers |-> {}]
    /\ cur = [y \in Syncers |-> None]
    /\ met = {}
    /\ pool = {} /\ up = {}
    /\ managed = [s \in Servers |-> None]
    /\ target = [c \in Collectors |-> None]
    /\ step = [c \in Collectors |-> "off"]
    /\ stopped = {}
    /\ failures = [c \in Collectors |-> 0]
    /\ fired = {}

-----------------------------------------------------------------------------
(* Helpers *)

Stored  == {s \in Servers : table[s] = "stored"}
Managed == {s \in Servers : managed[s] # None}
Running == {y \in Syncers : sync[y] # "idle"}

\* Sync y starts; whoever runs already has met it, and it them.
Enter(y) ==
    /\ sync' = [sync EXCEPT ![y] = "list"]
    /\ met' = IF Running = {} THEN met \ {y} ELSE met \cup Running \cup {y}

\* Sync y goes on with its next loop iteration, or to the step after the loop.
Visit(y, ids, inLoop, after) ==
    \/ /\ ids = {}
       /\ sync' = [sync EXCEPT ![y] = after]
       /\ todo' = [todo EXCEPT ![y] = {}]
       /\ cur' = [cur EXCEPT ![y] = None]
    \/ \E s \in ids :
          /\ sync' = [sync EXCEPT ![y] = inLoop]
          /\ todo' = [todo EXCEPT ![y] = ids \ {s}]
          /\ cur' = [cur EXCEPT ![y] = s]

-----------------------------------------------------------------------------
(* What runs a Sync *)

\* Start synchronizes before it opens the listener.
Start(y) ==
    /\ ~started /\ Running = {}
    /\ Enter(y)
    /\ UNCHANGED <<started, table, list, todo, cur, pool, up, managed, collVars>>

\* The create handler inserts a server, then calls onServerChange.
CreateServer(y) ==
    /\ started /\ sync[y] = "idle"
    /\ \E s \in Servers : /\ table[s] = "unborn"
                          /\ table' = [table EXCEPT ![s] = "stored"]
    /\ Enter(y)
    /\ UNCHANGED <<started, list, todo, cur, pool, up, managed, collVars>>

DeleteServer(y) ==
    /\ started /\ sync[y] = "idle"
    /\ \E s \in Stored : table' = [table EXCEPT ![s] = "deleted"]
    /\ Enter(y)
    /\ UNCHANGED <<started, list, todo, cur, pool, up, managed, collVars>>

\* An update changes no ID; it synchronizes all the same.
UpdateServer(y) ==
    /\ started /\ sync[y] = "idle" /\ Stored # {}
    /\ Enter(y)
    /\ UNCHANGED <<started, table, list, todo, cur, pool, up, managed, collVars>>

-----------------------------------------------------------------------------
(* ServerSynchronizer.Sync *)

ListServers(y) ==
    /\ sync[y] = "list"
    /\ list' = [list EXCEPT ![y] = Stored]
    /\ Visit(y, Stored, "add", "ids")
    /\ UNCHANGED <<started, table, met, pool, up, managed, collVars>>

\* The list fails: Sync returns the error, SyncAndLog drops it.
ListFails(y) ==
    /\ ListMayFail /\ sync[y] = "list"
    /\ sync' = [sync EXCEPT ![y] = "idle"]
    /\ started' = TRUE
    /\ UNCHANGED <<table, list, todo, cur, met, pool, up, managed, collVars>>

\* pool.Add: a no-op when the server is there.
AddConn(y) ==
    /\ sync[y] = "add"
    /\ sync' = [sync EXCEPT ![y] = "addCollector"]
    /\ pool' = pool \cup {cur[y]}
    /\ UNCHANGED <<started, table, list, todo, cur, met, up, managed, collVars>>

\* The manager has a Collector for s.
HasCollector(s) == managed[s] # None

\* Manager.Add: a no-op when there is one, else it starts a Collector.
AddCollector(y) ==
    /\ sync[y] = "addCollector"
    /\ \/ /\ HasCollector(cur[y])
          /\ UNCHANGED <<managed, target, step>>
       \/ /\ ~HasCollector(cur[y])
          /\ \E c \in Collectors :
                /\ step[c] = "off"
                /\ managed' = [managed EXCEPT ![cur[y]] = c]
                /\ target' = [target EXCEPT ![c] = cur[y]]
                /\ step' = [step EXCEPT ![c] = "begin"]
    /\ Visit(y, todo[y], "add", "ids")
    /\ UNCHANGED <<started, table, list, met, pool, up, stopped, failures,
                   fired>>

\* The last loop is over when Sync returns; the first to return is Start's.
Leave(y) ==
    /\ started' = TRUE
    /\ list' = [list EXCEPT ![y] = IF sync'[y] = "idle" THEN {} ELSE @]

\* Mutant: nothing is ever removed.
Surplus_None(y) == {}

\* collector.ServerIDs, without the ones just listed.
Surplus(y) == Managed \ list[y]

ReadIDs(y) ==
    /\ sync[y] = "ids"
    /\ Visit(y, Surplus(y), "remove", "idle")
    /\ Leave(y)
    /\ UNCHANGED <<table, met, pool, up, managed, collVars>>

\* The Collector of s is told to stop.
StopCollector(s) == stopped' = stopped \cup ({managed[s]} \ {None})

\* Manager.Remove: a no-op when another Sync was faster.
RemoveCollector(y) ==
    /\ sync[y] = "remove"
    /\ sync' = [sync EXCEPT ![y] = "removeConn"]
    /\ StopCollector(cur[y])
    /\ managed' = [managed EXCEPT ![cur[y]] = None]
    /\ UNCHANGED <<started, table, list, todo, cur, met, pool, up, target, step,
                   failures, fired>>

\* Pool.Remove.
Disconnect(s) == pool' = pool \ {s} /\ up' = up \ {s}

RemoveConn(y) ==
    /\ sync[y] = "removeConn"
    /\ Disconnect(cur[y])
    /\ Visit(y, todo[y], "remove", "idle")
    /\ Leave(y)
    /\ UNCHANGED <<table, met, managed, collVars>>

-----------------------------------------------------------------------------
(* The connections: any that is in the pool may come and go. *)

Connects == /\ \E s \in pool \ up : up' = up \cup {s}
            /\ UNCHANGED <<started, table, syncVars, pool, managed, collVars>>

Drops == /\ \E s \in up : up' = up \ {s}
         /\ UNCHANGED <<started, table, syncVars, pool, managed, collVars>>

-----------------------------------------------------------------------------
(* Collector *)

\* A cycle asks the pool for the server's client.
BeginCycle(c) ==
    /\ step[c] = "begin"
    /\ step' = [step EXCEPT ![c] = IF target[c] \in up THEN "exec" ELSE "failed"]
    /\ UNCHANGED <<started, table, syncVars, pool, up, managed, target, stopped,
                   failures, fired>>

\* Mutant: the one-shot flag is not reset.
Collected_Fired(c) ==
    /\ step[c] = "exec"
    /\ step' = [step EXCEPT ![c] = "wait"]
    /\ failures' = [failures EXCEPT ![c] = 0]
    /\ UNCHANGED <<started, table, syncVars, pool, up, managed, target, stopped, fired>>

\* The command ran and its output was parsed.
Collected(c) ==
    /\ step[c] = "exec"
    /\ step' = [step EXCEPT ![c] = "wait"]
    /\ failures' = [failures EXCEPT ![c] = 0]
    /\ fired' = fired \ {c}
    /\ UNCHANGED <<started, table, syncVars, pool, up, managed, target, stopped>>

\* The command failed, or its output could not be parsed.
CycleFails(c) ==
    /\ step[c] = "exec"
    /\ step' = [step EXCEPT ![c] = "failed"]
    /\ UNCHANGED <<started, table, syncVars, pool, up, managed, target, stopped,
                   failures, fired>>

ShouldFire(c, n) == n = Threshold /\ c \notin fired

\* recordFailure counts under the lock and calls back after it.
RecordFailure(c) ==
    /\ step[c] = "failed"
    /\ \E n \in {failures[c] + 1} :
          /\ step' = [step EXCEPT ![c] =
                         IF ShouldFire(c, n) THEN "fire" ELSE "wait"]
          /\ failures' = [failures EXCEPT ![c] =
                             IF n > Threshold THEN Threshold + 1 ELSE n]
          /\ fired' = IF n >= Threshold THEN fired \cup {c} ELSE fired
    /\ UNCHANGED <<started, table, syncVars, pool, up, managed, target, stopped>>

\* pool.TriggerReconnect drops the client of a connected server.
Fire(c) ==
    /\ step[c] = "fire"
    /\ step' = [step EXCEPT ![c] = "wait"]
    /\ up' = up \ {target[c]}
    /\ UNCHANGED <<started, table, syncVars, pool, managed, target, stopped,
                   failures, fired>>

\* `select`: the ticker, or the cancelled context; both when both are ready.
NextTick(c) ==
    /\ step[c] = "wait"
    /\ step' = [step EXCEPT ![c] = "begin"]
    /\ UNCHANGED <<started, table, syncVars, pool, up, managed, target, stopped,
                   failures, fired>>

EndCollector(c) ==
    /\ step[c] = "wait" /\ c \in stopped
    /\ step' = [step EXCEPT ![c] = "end"]
    /\ UNCHANGED <<started, table, syncVars, pool, up, managed, target, stopped,
                   failures, fired>>

-----------------------------------------------------------------------------
SyncStep(y) ==
    \/ ListServers(y) \/ ListFails(y) \/ AddConn(y) \/ AddCollector(y)
    \/ ReadIDs(y) \/ RemoveCollector(y) \/ RemoveConn(y)

Request(y) == CreateServer(y) \/ DeleteServer(y) \/ UpdateServer(y)

Cycle(c) ==
    \/ BeginCycle(c) \/ Collected(c) \/ CycleFails(c) \/ RecordFailure(c)
    \/ Fire(c) \/ NextTick(c)

Next ==
    \/ \E y \in Syncers : Start(y) \/ Request(y) \/ SyncStep(y)
    \/ \E c \in Collectors : Cycle(c) \/ EndCollector(c)
    \/ Connects \/ Drops

Spec == Init /\ [][Next]_vars

-----------------------------------------------------------------------------
(* Safety *)

\* Sync looks for surplus servers among the collectors only.  However Syncs
\* overlap, no connection is left that has no collector and is in nobody's
\* hands: nothing would ever remove it.
NoForgottenConnection ==
    \A s \in pool \ Managed :
        \E y \in Syncers :
            sync[y] \in {"addCollector", "removeConn"} /\ cur[y] = s

\* A server has the one Collector the manager knows; no other goroutine keeps
\* polling it.
OneCollectorPerServer ==
    \A c \in Collectors :
        step[c] # "off" /\ c \notin stopped <=>
            \E s \in Servers : managed[s] = c

\* A Sync that no other one overlapped leaves the pool and the manager with
\* exactly the servers it listed, whatever overlapping ones left behind.
SyncIsExact ==
    [][\A y \in Syncers :
          /\ sync[y] \in {"ids", "remove", "removeConn"} /\ sync'[y] = "idle"
          /\ y \notin met
          => pool' = list[y] /\ Managed' = list[y]]_vars

\* An outage asks for a reconnection once, and no outage is passed over: a Collector
\* triggers at the failure that reaches the threshold, and at no other, however
\* many came before (the one-shot flag of recordFailure).
OneTriggerPerOutage ==
    [][\A c \in Collectors :
          (step[c] # "fire" /\ step'[c] = "fire")
            <=> (failures[c] = Threshold - 1 /\ failures'[c] = Threshold)]_vars

-----------------------------------------------------------------------------
(* The inductive invariant behind the theorems of MonitoringProofs *)

SyncInv ==
    /\ NoForgottenConnection
    /\ \A y \in Syncers :
          /\ sync[y] \in {"add", "addCollector", "remove", "removeConn"} =>
                cur[y] \in Servers
          /\ sync[y] \in {"add", "addCollector"} => cur[y] \in list[y]
          /\ sync[y] \in {"add", "addCollector"} => todo[y] \subseteq list[y]

CollectorInv ==
    /\ OneCollectorPerServer
    /\ \A s \in Managed : target[managed[s]] = s
    /\ \A c \in stopped : step[c] # "off"
    /\ \A c \in fired : failures[c] >= Threshold

\* How far a Sync that runs alone has got.
AloneInv ==
    /\ \A y, z \in Running : y # z => y \in met
    /\ \A y \in Running \ met :
          /\ sync[y] \in {"add", "addCollector"} =>
                list[y] \ (todo[y] \cup {cur[y]}) \subseteq pool \cap Managed
          /\ sync[y] = "addCollector" => cur[y] \in pool
          /\ sync[y] \in {"ids", "remove", "removeConn"} =>
                list[y] \subseteq pool \cap Managed
          /\ sync[y] = "remove" => Managed \subseteq list[y] \cup todo[y] \cup {cur[y]}
          /\ sync[y] = "removeConn" => Managed \subseteq list[y] \cup todo[y]
          /\ sync[y] \in {"remove", "removeConn"} =>
                (todo[y] \cup {cur[y]}) \cap list[y] = {}

IInv == SyncInv /\ CollectorInv /\ AloneInv
=============================================================================
