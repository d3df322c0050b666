-------------------------- MODULE MonitoringProofs --------------------------
(***************************************************************************)
(* Theorems about Monitoring for every number of servers, Syncs and        *)
(* Collectors and every threshold.                                         *)
(***************************************************************************)
EXTENDS Monitoring, TLAPS

-----------------------------------------------------------------------------
(* Typing, and the locals of a Sync.                                        *)

LEMMA InitTyped == Init => TypeOK
<1> SUFFICES ASSUME Init PROVE TypeOK
  OBVIOUS
<1>1. table \in [Servers -> {"unborn", "stored", "deleted"}]
  BY DEF Init
<1>2. failures \in [Collectors -> 0..(Threshold + 1)]
  BY MonitoringAssumption DEF Init
<1> QED BY <1>1, <1>2 DEF Init, TypeOK, SyncSteps, CollSteps

LEMMA VisitTyped ==
    ASSUME TypeOK, SyncInv, NEW y \in Syncers, NEW ids \in SUBSET Servers,
           NEW inLoop \in SyncSteps, NEW after \in SyncSteps,
           Visit(y, ids, inLoop, after)
    PROVE  /\ sync' \in [Syncers -> SyncSteps]
           /\ todo' \in [Syncers -> SUBSET Servers]
           /\ cur' \in [Syncers -> Servers \cup {None}]
BY DEF TypeOK, Visit

LEMMA TypeStep ==
    ASSUME TypeOK, SyncInv, [Next]_vars
    PROVE  TypeOK'
<1>1. ASSUME NEW y \in Syncers, Start(y) PROVE TypeOK'
  BY <1>1 DEF Start, Enter, Running, Stored, TypeOK, SyncSteps, collVars
<1>2. ASSUME NEW y \in Syncers, CreateServer(y) PROVE TypeOK'
  BY <1>2 DEF CreateServer, Enter, Running, Stored, TypeOK, SyncSteps, collVars
<1>3. ASSUME NEW y \in Syncers, DeleteServer(y) PROVE TypeOK'
  BY <1>3 DEF DeleteServer, Enter, Running, Stored, TypeOK, SyncSteps, collVars
<1>4. ASSUME NEW y \in Syncers, UpdateServer(y) PROVE TypeOK'
  BY <1>4 DEF UpdateServer, Enter, Running, Stored, TypeOK, SyncSteps, collVars
<1>5. ASSUME NEW y \in Syncers, ListServers(y) PROVE TypeOK'
  <2>1. Stored \in SUBSET Servers
    BY DEF TypeOK, Stored, Surplus, Managed
  <2>2. /\ sync' \in [Syncers -> SyncSteps]
        /\ todo' \in [Syncers -> SUBSET Servers]
        /\ cur' \in [Syncers -> Servers \cup {None}]
    <3>1. Visit(y, Stored, "add", "ids")
      BY <1>5 DEF ListServers
    <3> QED BY <2>1, <3>1, VisitTyped DEF SyncSteps
  <2> QED BY <1>5, <2>1, <2>2 DEF ListServers, TypeOK, collVars, Leave, Disconnect
<1>6. ASSUME NEW y \in Syncers, ListFails(y) PROVE TypeOK'
  BY <1>6 DEF ListFails, TypeOK, SyncInv, SyncSteps, collVars, StopCollector
<1>7. ASSUME NEW y \in Syncers, AddConn(y) PROVE TypeOK'
  BY <1>7 DEF AddConn, TypeOK, SyncInv, SyncSteps, collVars, StopCollector
<1>8. ASSUME NEW y \in Syncers, AddCollector(y) PROVE TypeOK'
  <2>1. todo[y] \in SUBSET Servers
    BY DEF TypeOK, Stored, Surplus, Managed
  <2>2. /\ sync' \in [Syncers -> SyncSteps]
        /\ todo' \in [Syncers -> SUBSET Servers]
        /\ cur' \in [Syncers -> Servers \cup {None}]
    <3>1. Visit(y, todo[y], "add", "ids")
      BY <1>8 DEF AddCollector
    <3> QED BY <2>1, <3>1, VisitTyped DEF SyncSteps
  <2>3. cur[y] \in Servers
    BY <1>8 DEF AddCollector, SyncInv
  <2> QED BY <1>8, <2>2, <2>3 DEF AddCollector, TypeOK, CollSteps
<1>9. ASSUME NEW y \in Syncers, ReadIDs(y) PROVE TypeOK'
  <2>1. Surplus(y) \in SUBSET Servers
    BY DEF TypeOK, Stored, Surplus, Managed
  <2>2. /\ sync' \in [Syncers -> SyncSteps]
        /\ todo' \in [Syncers -> SUBSET Servers]
        /\ cur' \in [Syncers -> Servers \cup {None}]
    <3>1. Visit(y, Surplus(y), "remove", "idle")
      BY <1>9 DEF ReadIDs
    <3> QED BY <2>1, <3>1, VisitTyped DEF SyncSteps
  <2> QED BY <1>9, <2>1, <2>2 DEF ReadIDs, TypeOK, collVars, Leave, Disconnect
<1>10. ASSUME NEW y \in Syncers, RemoveCollector(y) PROVE TypeOK'
  BY <1>10 DEF RemoveCollector, TypeOK, SyncInv, SyncSteps, collVars, StopCollector
<1>11. ASSUME NEW y \in Syncers, RemoveConn(y) PROVE TypeOK'
  <2>1. todo[y] \in SUBSET Servers
    BY DEF TypeOK, Stored, Surplus, Managed
  <2>2. /\ sync' \in [Syncers -> SyncSteps]
        /\ todo' \in [Syncers -> SUBSET Servers]
        /\ cur' \in [Syncers -> Servers \cup {None}]
    <3>1. Visit(y, todo[y], "remove", "idle")
      BY <1>11 DEF RemoveConn
    <3> QED BY <2>1, <3>1, VisitTyped DEF SyncSteps
  <2> QED BY <1>11, <2>1, <2>2 DEF RemoveConn, TypeOK, collVars, Leave, Disconnect
<1>12. ASSUME NEW c \in Collectors, BeginCycle(c) PROVE TypeOK'
  BY <1>12, MonitoringAssumption DEF BeginCycle, TypeOK, syncVars, CollSteps
<1>13. ASSUME NEW c \in Collectors, Collected(c) PROVE TypeOK'
  BY <1>13, MonitoringAssumption DEF Collected, TypeOK, syncVars, CollSteps
<1>14. ASSUME NEW c \in Collectors, CycleFails(c) PROVE TypeOK'
  BY <1>14, MonitoringAssumption DEF CycleFails, TypeOK, syncVars, CollSteps
<1>15. ASSUME NEW c \in Collectors, RecordFailure(c) PROVE TypeOK'
  <2>1. failures[c] + 1 > Threshold \/ failures[c] + 1 \in 0..(Threshold + 1)
    BY MonitoringAssumption DEF TypeOK
  <2> QED BY <1>15, <2>1, MonitoringAssumption DEF RecordFailure, TypeOK, syncVars, CollSteps
<1>16. ASSUME NEW c \in Collectors, Fire(c) PROVE TypeOK'
  BY <1>16, MonitoringAssumption DEF Fire, TypeOK, syncVars, CollSteps
<1>17. ASSUME NEW c \in Collectors, NextTick(c) PROVE TypeOK'
  BY <1>17, MonitoringAssumption DEF NextTick, TypeOK, syncVars, CollSteps
<1>18. ASSUME NEW c \in Collectors, EndCollector(c) PROVE TypeOK'
  BY <1>18, MonitoringAssumption DEF EndCollector, TypeOK, syncVars, CollSteps
<1>19. ASSUME Connects \/ Drops PROVE TypeOK'
  BY <1>19 DEF Connects, Drops, TypeOK, syncVars, collVars
<1>20. ASSUME UNCHANGED vars PROVE TypeOK'
  BY <1>20 DEF vars, TypeOK
<1> QED BY <1>1, <1>2, <1>3, <1>4, <1>5, <1>6, <1>7, <1>8, <1>9, <1>10, <1>11, <1>12, <1>13, <1>14, <1>15, <1>16, <1>17, <1>18, <1>19, <1>20
  DEF Next, SyncStep, Request, Cycle

-----------------------------------------------------------------------------
(* What a Collector and a connection do is invisible to Syncs.              *)

LEMMA CycleFrame ==
    ASSUME TypeOK, NEW c \in Collectors, Cycle(c) \/ EndCollector(c)
    PROVE  /\ UNCHANGED <<started, table, syncVars, pool, managed, target, stopped>>
           /\ \A d \in Collectors : step'[d] = "off" <=> step[d] = "off"
<1> USE DEF TypeOK, CollSteps
<1>1. CASE BeginCycle(c)
  BY <1>1 DEF BeginCycle
<1>2. CASE Collected(c)
  BY <1>2 DEF Collected
<1>3. CASE CycleFails(c)
  BY <1>3 DEF CycleFails
<1>4. CASE RecordFailure(c)
  BY <1>4 DEF RecordFailure
<1>5. CASE Fire(c)
  BY <1>5 DEF Fire
<1>6. CASE NextTick(c)
  BY <1>6 DEF NextTick
<1>7. CASE EndCollector(c)
  BY <1>7 DEF EndCollector
<1> QED BY <1>1, <1>2, <1>3, <1>4, <1>5, <1>6, <1>7 DEF Cycle

LEMMA ConnFrame ==
    ASSUME Connects \/ Drops
    PROVE  UNCHANGED <<started, table, syncVars, pool, managed, collVars>>
BY DEF Connects, Drops

LEMMA RequestFrame ==
    ASSUME TypeOK, NEW y \in Syncers, Start(y) \/ Request(y)
    PROVE  /\ UNCHANGED <<started, list, todo, cur, pool, up, managed, collVars>>
           /\ sync[y] = "idle" /\ Enter(y)
BY DEF TypeOK, Start, Request, CreateServer, DeleteServer, UpdateServer, Running

-----------------------------------------------------------------------------
(* No connection is forgotten.                                              *)

LEMMA InitSync == Init => SyncInv
BY DEF Init, SyncInv, NoForgottenConnection, Managed

LEMMA SyncInvStep ==
    ASSUME TypeOK, SyncInv, [Next]_vars
    PROVE  SyncInv'
<1> USE DEF TypeOK, SyncInv, NoForgottenConnection, Managed
<1>1. ASSUME NEW y \in Syncers, Start(y) \/ Request(y) PROVE SyncInv'
  <2>1. /\ UNCHANGED <<list, todo, cur, pool, managed>>
        /\ sync[y] = "idle" /\ sync' = [sync EXCEPT ![y] = "list"]
    BY <1>1, RequestFrame DEF Enter
  <2> QED BY <2>1
<1>2. ASSUME NEW y \in Syncers, ListServers(y) PROVE SyncInv'
  BY <1>2 DEF ListServers, Visit, Stored
<1>3. ASSUME NEW y \in Syncers, ListFails(y) PROVE SyncInv'
  BY <1>3 DEF ListFails
<1>4. ASSUME NEW y \in Syncers, AddConn(y) PROVE SyncInv'
  BY <1>4 DEF AddConn
<1>5. ASSUME NEW y \in Syncers, AddCollector(y) PROVE SyncInv'
  <2>1. cur[y] \in Servers /\ managed'[cur[y]] # None
    BY <1>5, MonitoringAssumption DEF AddCollector, HasCollector
  <2>2. \A s \in Servers : managed[s] # None => managed'[s] # None
    BY <1>5, MonitoringAssumption DEF AddCollector
  <2>3. /\ pool' = pool /\ list' = list
        /\ sync[y] = "addCollector"
        /\ Visit(y, todo[y], "add", "ids")
    BY <1>5 DEF AddCollector
  <2> QED BY <2>1, <2>2, <2>3 DEF Visit
<1>6. ASSUME NEW y \in Syncers, ReadIDs(y) PROVE SyncInv'
  BY <1>6 DEF ReadIDs, Visit, Surplus, Leave
<1>7. ASSUME NEW y \in Syncers, RemoveCollector(y) PROVE SyncInv'
  BY <1>7 DEF RemoveCollector
<1>8. ASSUME NEW y \in Syncers, RemoveConn(y) PROVE SyncInv'
  BY <1>8 DEF RemoveConn, Disconnect, Visit, Leave
<1>9. ASSUME UNCHANGED <<syncVars, pool, managed>> PROVE SyncInv'
  BY <1>9 DEF syncVars
<1>10. ASSUME NEW c \in Collectors, Cycle(c) \/ EndCollector(c)
       PROVE SyncInv'
  <2>1. UNCHANGED <<syncVars, pool, managed>>
    BY <1>10, CycleFrame
  <2> QED BY <1>9, <2>1
<1>11. ASSUME Connects \/ Drops PROVE SyncInv'
  BY <1>9, <1>11, ConnFrame
<1>12. ASSUME UNCHANGED vars PROVE SyncInv'
  BY <1>9, <1>12 DEF vars, syncVars
<1> QED BY <1>1, <1>2, <1>3, <1>4, <1>5, <1>6, <1>7, <1>8, <1>10, <1>11, <1>12
  DEF Next, SyncStep

-----------------------------------------------------------------------------
(* One Collector per server.                                                *)

LEMMA InitCollectors == Init => CollectorInv
BY MonitoringAssumption
DEF Init, CollectorInv, OneCollectorPerServer, Managed

LEMMA CollectorStep ==
    ASSUME TypeOK, SyncInv, CollectorInv, [Next]_vars
    PROVE  CollectorInv'
<1> USE DEF TypeOK, CollectorInv, OneCollectorPerServer, Managed
<1>1. ASSUME UNCHANGED <<managed, target, stopped, failures, fired, step>>
      PROVE  CollectorInv'
  BY <1>1
<1>2. ASSUME NEW y \in Syncers, Start(y) \/ Request(y) PROVE CollectorInv'
  BY <1>1, <1>2, RequestFrame DEF collVars
<1>3. ASSUME NEW y \in Syncers,
             ListServers(y) \/ ListFails(y) \/ AddConn(y) \/ ReadIDs(y)
             \/ RemoveConn(y)
      PROVE  CollectorInv'
  BY <1>1, <1>3
  DEF ListServers, ListFails, AddConn, ReadIDs, RemoveConn, collVars
<1>4. ASSUME NEW y \in Syncers, AddCollector(y) PROVE CollectorInv'
  <2>1. CASE HasCollector(cur[y])
    BY <1>1, <1>4, <2>1 DEF AddCollector
  <2>2. CASE ~HasCollector(cur[y])
    <3>1. PICK c \in Collectors :
              /\ step[c] = "off"
              /\ managed' = [managed EXCEPT ![cur[y]] = c]
              /\ target' = [target EXCEPT ![c] = cur[y]]
              /\ step' = [step EXCEPT ![c] = "begin"]
      BY <1>4, <2>2 DEF AddCollector
    <3>2. cur[y] \in Servers /\ managed[cur[y]] = None
      BY <1>4, <2>2 DEF AddCollector, SyncInv, HasCollector
    <3>3. UNCHANGED <<stopped, failures, fired>>
      BY <1>4 DEF AddCollector
    <3>4. c \notin stopped /\ \A s \in Servers : managed[s] # c
      BY <3>1, MonitoringAssumption
    <3> QED BY <3>1, <3>2, <3>3, <3>4, MonitoringAssumption
  <2> QED BY <2>1, <2>2
<1>5. ASSUME NEW y \in Syncers, RemoveCollector(y) PROVE CollectorInv'
  <2>1. cur[y] \in Servers
    BY <1>5 DEF RemoveCollector, SyncInv
  <2>2. /\ stopped' = stopped \cup ({managed[cur[y]]} \ {None})
        /\ managed' = [managed EXCEPT ![cur[y]] = None]
        /\ UNCHANGED <<target, step, failures, fired>>
    BY <1>5 DEF RemoveCollector, StopCollector
  <2>3. \A s, t \in Managed : managed[s] = managed[t] => s = t
    OBVIOUS
  <2> QED BY <2>1, <2>2, <2>3, MonitoringAssumption
<1>6. ASSUME NEW c \in Collectors, Cycle(c) \/ EndCollector(c)
      PROVE  CollectorInv'
  <2>1. /\ UNCHANGED <<managed, target, stopped>>
        /\ \A d \in Collectors : step'[d] = "off" <=> step[d] = "off"
    BY <1>6, CycleFrame
  <2>2. \A d \in fired' : failures'[d] >= Threshold
    <3>1. CASE RecordFailure(c)
      BY <3>1, MonitoringAssumption DEF RecordFailure
    <3>2. CASE Collected(c)
      BY <3>2 DEF Collected
    <3>3. CASE UNCHANGED <<failures, fired>>
      BY <3>3
    <3> QED BY <1>6, <3>1, <3>2, <3>3
      DEF Cycle, BeginCycle, CycleFails, Fire, NextTick, EndCollector
  <2> QED BY <2>1, <2>2
<1>7. ASSUME Connects \/ Drops PROVE CollectorInv'
  BY <1>1, <1>7, ConnFrame DEF collVars
<1>8. ASSUME UNCHANGED vars PROVE CollectorInv'
  BY <1>1, <1>8 DEF vars
<1> QED BY <1>2, <1>3, <1>4, <1>5, <1>6, <1>7, <1>8 DEF Next, SyncStep

-----------------------------------------------------------------------------
(* A Sync that runs alone.                                                  *)

LEMMA InitAlone == Init => AloneInv
BY DEF Init, AloneInv, Running

\* Only the one Sync that runs can disturb a Sync that nobody met.
LEMMA AloneStep ==
    ASSUME TypeOK, SyncInv, AloneInv, [Next]_vars
    PROVE  AloneInv'
<1> USE DEF TypeOK, AloneInv, Running, Managed
<1>1. ASSUME NEW y \in Syncers, Start(y) \/ Request(y) PROVE AloneInv'
  <2>1. /\ UNCHANGED <<list, todo, cur, pool, managed>>
        /\ sync[y] = "idle" /\ sync' = [sync EXCEPT ![y] = "list"]
        /\ met' = IF Running = {} THEN met \ {y} ELSE met \cup Running \cup {y}
    BY <1>1, RequestFrame DEF Enter
  <2> QED BY <2>1
<1>2. ASSUME NEW y \in Syncers, SyncStep(y) PROVE AloneInv'
  <2>1. /\ met' = met
        /\ sync[y] # "idle"
        /\ \A z \in Syncers \ {y} : sync'[z] = sync[z]
    BY <1>2 DEF SyncStep, ListServers, ListFails, AddConn, AddCollector,
        ReadIDs, RemoveCollector, RemoveConn, Visit
  <2>2. Running' \subseteq Running
    BY <2>1
  <2>3. \A x, z \in Running' : x # z => x \in met'
    BY <2>1, <2>2
  <2>4. CASE y \in met
    <3>1. Running' \ met' = {}
      BY <2>1, <2>2, <2>4
    <3> QED BY <2>3, <3>1
  <2>5. CASE y \notin met
    <3>1. Running' \ met' \subseteq {y}
      BY <2>1, <2>2
    <3>2. /\ y \in Running
          /\ sync'[y] \in {"add", "addCollector"} =>
                list'[y] \ (todo'[y] \cup {cur'[y]})
                    \subseteq pool' \cap Managed'
          /\ sync'[y] = "addCollector" => cur'[y] \in pool'
          /\ sync'[y] \in {"ids", "remove", "removeConn"} =>
                list'[y] \subseteq pool' \cap Managed'
          /\ sync'[y] = "remove" =>
                Managed' \subseteq list'[y] \cup todo'[y] \cup {cur'[y]}
          /\ sync'[y] = "removeConn" => Managed' \subseteq list'[y] \cup todo'[y]
          /\ sync'[y] \in {"remove", "removeConn"} =>
                (todo'[y] \cup {cur'[y]}) \cap list'[y] = {}
      <4>1. y \in Running
        BY <2>1
      <4>2. CASE ListServers(y)
        BY <2>5, <4>1, <4>2 DEF ListServers, Visit, Stored
      <4>3. CASE ListFails(y)
        BY <2>5, <4>1, <4>3 DEF ListFails
      <4>4. CASE AddConn(y)
        BY <2>5, <4>1, <4>4 DEF AddConn
      <4>5. CASE AddCollector(y)
        <5>1. /\ cur[y] \in Servers /\ managed'[cur[y]] # None
              /\ \A s \in Servers : managed[s] # None => managed'[s] # None
              /\ managed' \in [Servers -> Collectors \cup {None}]
          BY <4>5, MonitoringAssumption DEF AddCollector, HasCollector, SyncInv
        <5>2. /\ pool' = pool /\ list' = list
              /\ sync[y] = "addCollector"
              /\ Visit(y, todo[y], "add", "ids")
          BY <4>5 DEF AddCollector
        <5>3. cur[y] \in pool
          BY <2>5, <4>1, <5>2
        <5> QED BY <2>5, <4>1, <5>1, <5>2, <5>3 DEF Visit, SyncInv
      <4>6. CASE ReadIDs(y)
        BY <2>5, <4>1, <4>6 DEF ReadIDs, Visit, Surplus, Leave
      <4>7. CASE RemoveCollector(y)
        BY <2>5, <4>1, <4>7 DEF RemoveCollector, SyncInv
      <4>8. CASE RemoveConn(y)
        BY <2>5, <4>1, <4>8 DEF RemoveConn, Disconnect, Visit, Leave
      <4> QED BY <1>2, <4>2, <4>3, <4>4, <4>5, <4>6, <4>7, <4>8 DEF SyncStep
    <3> QED BY <2>3, <3>1, <3>2
  <2> QED BY <2>4, <2>5
<1>3. ASSUME UNCHANGED <<syncVars, pool, managed>> PROVE AloneInv'
  BY <1>3 DEF syncVars
<1>4. ASSUME NEW c \in Collectors, Cycle(c) \/ EndCollector(c)
      PROVE AloneInv'
  <2>1. UNCHANGED <<syncVars, pool, managed>>
    BY <1>4, CycleFrame
  <2> QED BY <1>3, <2>1
<1>5. ASSUME Connects \/ Drops PROVE AloneInv'
  BY <1>3, <1>5, ConnFrame
<1>6. ASSUME UNCHANGED vars PROVE AloneInv'
  BY <1>3, <1>6 DEF vars, syncVars
<1> QED BY <1>1, <1>2, <1>4, <1>5, <1>6 DEF Next

-----------------------------------------------------------------------------
(* Theorems                                                                 *)

\* The inductive invariant: who holds a connection that has no Collector,
\* which Collectors live, and how far a Sync that runs alone has got.
THEOREM Invariance == Spec => []IInv
<1>1. Init => TypeOK /\ IInv
  BY InitTyped, InitSync, InitCollectors, InitAlone DEF IInv
<1>2. TypeOK /\ IInv /\ [Next]_vars => (TypeOK /\ IInv)'
  BY TypeStep, SyncInvStep, CollectorStep, AloneStep DEF IInv
<1> QED BY <1>1, <1>2, PTL DEF Spec

\* Every variable of the synchronizer, the pool, the manager and the
\* Collectors keeps its type.
THEOREM TypeCorrect == Spec => []TypeOK
<1>1. TypeOK /\ IInv /\ [Next]_vars => TypeOK'
  BY TypeStep DEF IInv
<1> QED BY <1>1, InitTyped, Invariance, PTL DEF Spec

\* However the Syncs of concurrent requests overlap, no connection stays in
\* the pool without a Collector unless a running Sync is about to deal with it.
THEOREM NothingForgotten == Spec => []NoForgottenConnection
BY Invariance, PTL DEF IInv, SyncInv

\* The Collectors that run and are not cancelled are those the manager knows.
THEOREM SingleCollector == Spec => []OneCollectorPerServer
BY Invariance, PTL DEF IInv, CollectorInv

\* A Sync that no other one overlapped repairs whatever was left behind: the
\* pool and the manager end up with exactly the servers it listed.
THEOREM SoloSyncExact == Spec => SyncIsExact
<1>1. ASSUME TypeOK, IInv, [Next]_vars
      PROVE  [\A y \in Syncers :
                /\ sync[y] \in {"ids", "remove", "removeConn"} /\ sync'[y] = "idle"
                /\ y \notin met
                => pool' = list[y] /\ Managed' = list[y]]_vars
  <2> SUFFICES ASSUME Next, NEW y \in Syncers,
                      sync[y] \in {"ids", "remove", "removeConn"},
                      sync'[y] = "idle", y \notin met
               PROVE  pool' = list[y] /\ Managed' = list[y]
    BY <1>1
  <2> USE <1>1 DEF TypeOK
  <2>1. ReadIDs(y) \/ RemoveConn(y)
    <3>1. ASSUME NEW z \in Syncers, Start(z) \/ Request(z) PROVE FALSE
      BY <3>1, RequestFrame DEF Enter
    <3>2. ASSUME NEW z \in Syncers, SyncStep(z) PROVE ReadIDs(y) \/ RemoveConn(y)
      BY <3>2 DEF SyncStep, ListServers, ListFails, AddConn, AddCollector,
          ReadIDs, RemoveCollector, RemoveConn, Visit
    <3>3. ASSUME UNCHANGED syncVars PROVE FALSE
      BY <3>3 DEF syncVars
    <3> QED BY <3>1, <3>2, <3>3, CycleFrame, ConnFrame DEF Next
  <2>2. /\ list[y] \subseteq pool \cap Managed
        /\ \A z \in Syncers : z # y => sync[z] = "idle"
        /\ sync[y] = "removeConn" =>
              /\ Managed \subseteq list[y] \cup todo[y]
              /\ cur[y] \notin list[y]
    BY DEF IInv, AloneInv, Running
  <2>3. \A s \in pool \ Managed : sync[y] = "removeConn" /\ cur[y] = s
    BY <2>2 DEF IInv, SyncInv, NoForgottenConnection
  <2>4. CASE ReadIDs(y)
    <3>1. Managed \subseteq list[y] /\ pool' = pool /\ managed' = managed
      BY <2>4 DEF ReadIDs, Visit, Surplus, Managed
    <3>2. Managed' = list[y]
      BY <2>2, <3>1 DEF Managed
    <3>3. sync[y] = "ids"
      BY <2>4 DEF ReadIDs
    <3>4. pool \subseteq Managed
      BY <2>3, <3>3
    <3> QED BY <2>2, <3>1, <3>2, <3>4
  <2>5. CASE RemoveConn(y)
    <3>1. /\ todo[y] = {} /\ pool' = pool \ {cur[y]} /\ managed' = managed
          /\ sync[y] = "removeConn"
      BY <2>5 DEF RemoveConn, Disconnect, Visit
    <3>2. Managed' = list[y]
      BY <2>2, <3>1 DEF Managed
    <3>3. pool \ {cur[y]} \subseteq Managed
      BY <2>3
    <3>4. Managed' = Managed
      BY <3>1 DEF Managed
    <3> QED BY <2>2, <3>1, <3>2, <3>3, <3>4
  <2> QED BY <2>1, <2>4, <2>5
<1> QED BY <1>1, TypeCorrect, Invariance, PTL DEF Spec, SyncIsExact

\* Each outage that reaches the threshold asks for one reconnection: the one-shot
\* flag of recordFailure is never left set from an earlier outage.
THEOREM OutagesTriggerOnce == Spec => OneTriggerPerOutage
<1> DEFINE Triggers(c) == step[c] # "fire" /\ step'[c] = "fire"
           Reaches(c) == failures[c] = Threshold - 1 /\ failures'[c] = Threshold
<1>1. ASSUME TypeOK, IInv, [Next]_vars, NEW c \in Collectors
      PROVE  Triggers(c) <=> Reaches(c)
  <2> USE <1>1 DEF TypeOK
  <2>1. ASSUME UNCHANGED <<step, failures>> PROVE Triggers(c) <=> Reaches(c)
    BY <2>1, MonitoringAssumption
  <2>2. ASSUME NEW d \in Collectors, RecordFailure(d) PROVE Triggers(c) <=> Reaches(c)
    <3>1. CASE d # c
      BY <2>2, <3>1, MonitoringAssumption DEF RecordFailure
    <3>2. CASE d = c
      <4>1. failures[c] + 1 = Threshold => c \notin fired
        BY MonitoringAssumption DEF IInv, CollectorInv
      <4>2. step'[c] = "fire" <=> ShouldFire(c, failures[c] + 1)
        BY <2>2, <3>2 DEF RecordFailure
      <4>3. failures'[c] = IF failures[c] + 1 > Threshold THEN Threshold + 1
                                                          ELSE failures[c] + 1
        BY <2>2, <3>2 DEF RecordFailure
      <4>4. step[c] = "failed"
        BY <2>2, <3>2 DEF RecordFailure
      <4> QED BY <4>1, <4>2, <4>3, <4>4, MonitoringAssumption DEF ShouldFire
    <3> QED BY <3>1, <3>2
  <2>3. ASSUME NEW d \in Collectors, Cycle(d) \/ EndCollector(d), ~RecordFailure(d)
        PROVE  Triggers(c) <=> Reaches(c)
    <3>1. /\ step'[c] = step[c] \/ step'[c] # "fire"
          /\ failures'[c] = failures[c] \/ failures'[c] = 0
      BY <2>3 DEF Cycle, BeginCycle, Collected, CycleFails, Fire, NextTick, EndCollector
    <3> QED BY <3>1, MonitoringAssumption
  <2>4. ASSUME NEW y \in Syncers, AddCollector(y) PROVE Triggers(c) <=> Reaches(c)
    <3>1. failures' = failures /\ (step'[c] = step[c] \/ step'[c] # "fire")
      BY <2>4 DEF AddCollector
    <3> QED BY <3>1, MonitoringAssumption
  <2>5. ASSUME NEW y \in Syncers,
               \/ ListServers(y) \/ ListFails(y) \/ AddConn(y) \/ ReadIDs(y)
               \/ RemoveCollector(y) \/ RemoveConn(y)
        PROVE  UNCHANGED <<step, failures>>
    BY <2>5 DEF ListServers, ListFails, AddConn, ReadIDs, RemoveCollector, RemoveConn, collVars
  <2>6. ASSUME NEW y \in Syncers, Start(y) \/ Request(y) PROVE UNCHANGED <<step, failures>>
    BY <2>6, RequestFrame DEF collVars
  <2>7. Connects \/ Drops \/ UNCHANGED vars => UNCHANGED <<step, failures>>
    BY DEF Connects, Drops, collVars, vars
  <2> QED BY <2>1, <2>2, <2>3, <2>4, <2>5, <2>6, <2>7 DEF Next, SyncStep
<1>2. TypeOK /\ IInv /\ [Next]_vars => [\A c \in Collectors : Triggers(c) <=> Reaches(c)]_vars
  BY <1>1
<1> QED BY <1>2, TypeCorrect, Invariance, PTL DEF Spec, OneTriggerPerOutage
=============================================================================
