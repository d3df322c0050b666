--------------------------- MODULE SSHPoolProofs ----------------------------
(***************************************************************************)
(* Theorems about SSHPool for every number of loops, transports, attempts  *)
(* and pings.                                                              *)
(***************************************************************************)
EXTENDS SSHPool, TLAPS

-----------------------------------------------------------------------------
(* Typing, and the locals of loops and calls.                               *)

LEMMA InitTyped == Init => TypeOK /\ LocalInv
BY PoolAssumption DEF Init, TypeOK, LocalInv, Starting, LoopSteps, CallSteps, Errors, Loops

LEMMA TypeStep ==
    ASSUME TypeOK, LocalInv, [Next]_vars
    PROVE  TypeOK'
<1> USE DEF TypeOK, LoopSteps, CallSteps, Errors
<1>1. ASSUME NEW l \in Loops, LoopTop(l) PROVE TypeOK'
  BY <1>1, PoolAssumption DEF LoopTop, reconVars, connVars, cancelVars,
      callVars, Goto
<1>2. ASSUME NEW l \in Loops, StartAttempt(l) PROVE TypeOK'
  BY <1>2, PoolAssumption DEF StartAttempt, connVars, cancelVars, callVars,
      Goto
<1>3. ASSUME NEW l \in Loops, FetchServer(l) PROVE TypeOK'
  BY <1>3, PoolAssumption DEF FetchServer, reconVars, connVars, cancelVars,
      callVars, Goto
<1>4. ASSUME NEW l \in Loops, DialSucceeds(l) PROVE TypeOK'
  BY <1>4, PoolAssumption DEF DialSucceeds, reconVars, cancelVars, callVars,
      Goto
<1>5. ASSUME NEW l \in Loops, DialFails(l) PROVE TypeOK'
  BY <1>5, PoolAssumption DEF DialFails, reconVars, connVars, cancelVars,
      callVars, Goto, Errors
<1>6. ASSUME NEW l \in Loops, Connected(l) PROVE TypeOK'
  BY <1>6, PoolAssumption DEF Connected, connVars, cancelVars, callVars, Goto
<1>7. ASSUME NEW l \in Loops, CountFailure(l) PROVE TypeOK'
  BY <1>7, PoolAssumption DEF CountFailure, connVars, cancelVars, callVars,
      Goto, GivesUp, Errors
<1>8. ASSUME NEW l \in Loops, GiveUp(l) PROVE TypeOK'
  BY <1>8, PoolAssumption DEF GiveUp, connVars, cancelVars, callVars, Goto
<1>9. ASSUME NEW l \in Loops, Backoff(l) PROVE TypeOK'
  BY <1>9, PoolAssumption DEF Backoff, reconVars, connVars, cancelVars,
      callVars, Goto
<1>10. ASSUME NEW l \in Loops, ReadStatus(l) PROVE TypeOK'
  BY <1>10, PoolAssumption DEF ReadStatus, reconVars, connVars, cancelVars,
      callVars, Goto, ArmsKeepalive
<1>11. ASSUME NEW l \in Loops, ArmKeepalive(l) PROVE TypeOK'
  BY <1>11, PoolAssumption DEF ArmKeepalive, reconVars, connVars, callVars,
      Goto
<1>12. ASSUME NEW l \in Loops, Lost(l) PROVE TypeOK'
  BY <1>12, PoolAssumption DEF Lost, reconVars, connVars, cancelVars,
      callVars, Goto
<1>13. ASSUME NEW l \in Loops, ResetLoop(l) PROVE TypeOK'
  BY <1>13, PoolAssumption DEF ResetLoop, connVars, cancelVars, callVars,
      Goto, Reset
<1>14. ASSUME NEW l \in Loops, Tick(l) PROVE TypeOK'
  BY <1>14, PoolAssumption DEF Tick, reconVars, connVars, cancelVars,
      callVars, Goto
<1>15. ASSUME NEW l \in Loops, PingReturns(l) PROVE TypeOK'
  BY <1>15, PoolAssumption DEF PingReturns, reconVars, connVars, cancelVars,
      callVars, Goto
<1>16. ASSUME NEW l \in Loops, CountPingFailure(l) PROVE TypeOK'
  <2>1. failures[l] + 1 \in 0..Threshold
    BY <1>16, PoolAssumption DEF CountPingFailure, Goto, LocalInv
  <2> QED BY <1>16, <2>1
    DEF CountPingFailure, Goto, reconVars, connVars, cancelVars, callVars
<1>17. ASSUME NEW l \in Loops, FireReconnect(l) PROVE TypeOK'
  BY <1>17, PoolAssumption DEF FireReconnect, reconVars, callVars, Goto,
      CloseClient, EndKeepalive
<1>18. ASSUME NEW l \in Loops, KeepaliveEnds(l) PROVE TypeOK'
  BY <1>18, PoolAssumption DEF KeepaliveEnds, reconVars, connVars, cancelVars,
      callVars, Goto, KeepaliveOver
<1>19. ASSUME NEW c \in Callers, BeginRemove(c) PROVE TypeOK'
  BY <1>19, PoolAssumption DEF BeginRemove, reconVars, connVars, cancelVars,
      loopVars, Move
<1>20. ASSUME NEW c \in Callers, StopLoop(c) PROVE TypeOK'
  BY <1>20, PoolAssumption DEF StopLoop, reconVars, connVars, loopVars, Move
<1>21. ASSUME NEW c \in Callers, HangUp(c) PROVE TypeOK'
  BY <1>21, PoolAssumption DEF HangUp, reconVars, cancelVars, loopVars, Move
<1>22. ASSUME NEW c \in Callers, BeginTrigger(c) PROVE TypeOK'
  BY <1>22, PoolAssumption DEF BeginTrigger, reconVars, connVars, cancelVars,
      loopVars, Move
<1>23. ASSUME NEW c \in Callers, TestStatus(c) PROVE TypeOK'
  BY <1>23, PoolAssumption DEF TestStatus, reconVars, connVars, cancelVars,
      loopVars, Move
<1>24. ASSUME NEW c \in Callers, DropClient(c) PROVE TypeOK'
  BY <1>24, PoolAssumption DEF DropClient, reconVars, loopVars, Move,
      CloseClient
<1>25. ASSUME NEW c \in Callers, BeginReconnect(c) PROVE TypeOK'
  <2>1. PICK m \in Loops : Goto(m, "off", "new") /\ fresh' = [fresh EXCEPT ![c] = m]
    BY <1>25 DEF BeginReconnect
  <2> QED BY <1>25, <2>1
    DEF BeginReconnect, Goto, Move, reconVars, connVars, cancelVars
<1>26. ASSUME NEW c \in Callers, CancelOldLoop(c) PROVE TypeOK'
  BY <1>26, PoolAssumption DEF CancelOldLoop, reconVars, connVars, loopVars,
      Move, StopOldLoop
<1>27. ASSUME NEW c \in Callers, RenewContext(c) PROVE TypeOK'
  <2>1. fresh[c] \in Loops
    BY <1>27 DEF RenewContext, Move, LocalInv, Starting
  <2> QED BY <1>27, <2>1
    DEF RenewContext, Move, reconVars, connVars, loopVars
<1>28. ASSUME NEW c \in Callers, SpawnLoop(c) PROVE TypeOK'
  BY <1>28, PoolAssumption DEF SpawnLoop, connVars, cancelVars, Goto, Move,
      Reset
<1>29. CASE Break
  BY <1>29, PoolAssumption DEF Break, reconVars, cancelVars, loopVars,
      callVars
<1>30. CASE UNCHANGED vars
  BY <1>30 DEF vars
<1> QED BY <1>1, <1>2, <1>3, <1>4, <1>5, <1>6, <1>7, <1>8, <1>9, <1>10, <1>11,
  <1>12, <1>13, <1>14, <1>15, <1>16, <1>17, <1>18, <1>19, <1>20, <1>21, <1>22,
  <1>23, <1>24, <1>25, <1>26, <1>27, <1>28, <1>29, <1>30
  DEF Next, RunStep, PingStep, CallStep, CallBegins

LEMMA LocalStep ==
    ASSUME TypeOK, LocalInv, [Next]_vars
    PROVE  LocalInv'
<1> USE DEF TypeOK, LocalInv, Starting
<1>1. ASSUME NEW l \in Loops, LoopTop(l) PROVE LocalInv'
  BY <1>1, PoolAssumption DEF LoopTop, reconVars, connVars, cancelVars,
      callVars, Goto
<1>2. ASSUME NEW l \in Loops, StartAttempt(l) PROVE LocalInv'
  BY <1>2, PoolAssumption DEF StartAttempt, connVars, cancelVars, callVars,
      Goto
<1>3. ASSUME NEW l \in Loops, FetchServer(l) PROVE LocalInv'
  BY <1>3, PoolAssumption DEF FetchServer, reconVars, connVars, cancelVars,
      callVars, Goto
<1>4. ASSUME NEW l \in Loops, DialSucceeds(l) PROVE LocalInv'
  BY <1>4, PoolAssumption DEF DialSucceeds, reconVars, cancelVars, callVars,
      Goto
<1>5. ASSUME NEW l \in Loops, DialFails(l) PROVE LocalInv'
  BY <1>5, PoolAssumption DEF DialFails, reconVars, connVars, cancelVars,
      callVars, Goto, Errors
<1>6. ASSUME NEW l \in Loops, Connected(l) PROVE LocalInv'
  BY <1>6, PoolAssumption DEF Connected, connVars, cancelVars, callVars, Goto
<1>7. ASSUME NEW l \in Loops, CountFailure(l) PROVE LocalInv'
  BY <1>7, PoolAssumption DEF CountFailure, connVars, cancelVars, callVars,
      Goto, GivesUp, Errors
<1>8. ASSUME NEW l \in Loops, GiveUp(l) PROVE LocalInv'
  BY <1>8, PoolAssumption DEF GiveUp, connVars, cancelVars, callVars, Goto
<1>9. ASSUME NEW l \in Loops, Backoff(l) PROVE LocalInv'
  BY <1>9, PoolAssumption DEF Backoff, reconVars, connVars, cancelVars,
      callVars, Goto
<1>10. ASSUME NEW l \in Loops, ReadStatus(l) PROVE LocalInv'
  BY <1>10, PoolAssumption DEF ReadStatus, reconVars, connVars, cancelVars,
      callVars, Goto, ArmsKeepalive
<1>11. ASSUME NEW l \in Loops, ArmKeepalive(l) PROVE LocalInv'
  BY <1>11, PoolAssumption DEF ArmKeepalive, reconVars, connVars, callVars,
      Goto
<1>12. ASSUME NEW l \in Loops, Lost(l) PROVE LocalInv'
  BY <1>12, PoolAssumption DEF Lost, reconVars, connVars, cancelVars,
      callVars, Goto
<1>13. ASSUME NEW l \in Loops, ResetLoop(l) PROVE LocalInv'
  BY <1>13, PoolAssumption DEF ResetLoop, connVars, cancelVars, callVars,
      Goto, Reset
<1>14. ASSUME NEW l \in Loops, Tick(l) PROVE LocalInv'
  BY <1>14, PoolAssumption DEF Tick, reconVars, connVars, cancelVars,
      callVars, Goto
<1>15. ASSUME NEW l \in Loops, PingReturns(l) PROVE LocalInv'
  BY <1>15, PoolAssumption DEF PingReturns, reconVars, connVars, cancelVars,
      callVars, Goto
<1>16. ASSUME NEW l \in Loops, CountPingFailure(l) PROVE LocalInv'
  BY <1>16, PoolAssumption DEF CountPingFailure, reconVars, connVars,
      cancelVars, callVars, Goto, Unresponsive
<1>17. ASSUME NEW l \in Loops, FireReconnect(l) PROVE LocalInv'
  BY <1>17, PoolAssumption DEF FireReconnect, reconVars, callVars, Goto,
      CloseClient, EndKeepalive
<1>18. ASSUME NEW l \in Loops, KeepaliveEnds(l) PROVE LocalInv'
  BY <1>18, PoolAssumption DEF KeepaliveEnds, reconVars, connVars, cancelVars,
      callVars, Goto, KeepaliveOver
<1>19. ASSUME NEW c \in Callers, BeginRemove(c) PROVE LocalInv'
  BY <1>19, PoolAssumption DEF BeginRemove, reconVars, connVars, cancelVars,
      loopVars, Move
<1>20. ASSUME NEW c \in Callers, StopLoop(c) PROVE LocalInv'
  BY <1>20, PoolAssumption DEF StopLoop, reconVars, connVars, loopVars, Move
<1>21. ASSUME NEW c \in Callers, HangUp(c) PROVE LocalInv'
  BY <1>21, PoolAssumption DEF HangUp, reconVars, cancelVars, loopVars, Move
<1>22. ASSUME NEW c \in Callers, BeginTrigger(c) PROVE LocalInv'
  BY <1>22, PoolAssumption DEF BeginTrigger, reconVars, connVars, cancelVars,
      loopVars, Move
<1>23. ASSUME NEW c \in Callers, TestStatus(c) PROVE LocalInv'
  BY <1>23, PoolAssumption DEF TestStatus, reconVars, connVars, cancelVars,
      loopVars, Move
<1>24. ASSUME NEW c \in Callers, DropClient(c) PROVE LocalInv'
  BY <1>24, PoolAssumption DEF DropClient, reconVars, loopVars, Move,
      CloseClient
<1>25. ASSUME NEW c \in Callers, BeginReconnect(c) PROVE LocalInv'
  BY <1>25, PoolAssumption DEF BeginReconnect, reconVars, connVars,
      cancelVars, Goto, Move
<1>26. ASSUME NEW c \in Callers, CancelOldLoop(c) PROVE LocalInv'
  BY <1>26, PoolAssumption DEF CancelOldLoop, reconVars, connVars, loopVars,
      Move, StopOldLoop
<1>27. ASSUME NEW c \in Callers, RenewContext(c) PROVE LocalInv'
  BY <1>27, PoolAssumption DEF RenewContext, reconVars, connVars, loopVars,
      Move
<1>28. ASSUME NEW c \in Callers, SpawnLoop(c) PROVE LocalInv'
  BY <1>28, PoolAssumption DEF SpawnLoop, connVars, cancelVars, Goto, Move,
      Reset
<1>29. CASE Break
  BY <1>29, PoolAssumption DEF Break, reconVars, cancelVars, loopVars,
      callVars
<1>30. CASE UNCHANGED vars
  BY <1>30 DEF vars
<1> QED BY <1>1, <1>2, <1>3, <1>4, <1>5, <1>6, <1>7, <1>8, <1>9, <1>10, <1>11,
  <1>12, <1>13, <1>14, <1>15, <1>16, <1>17, <1>18, <1>19, <1>20, <1>21, <1>22,
  <1>23, <1>24, <1>25, <1>26, <1>27, <1>28, <1>29, <1>30
  DEF Next, RunStep, PingStep, CallStep, CallBegins

\* TypeOK: every variable keeps its type.
THEOREM TypeCorrect == Spec => []TypeOK
<1>1. TypeOK /\ LocalInv /\ [Next]_vars => TypeOK' /\ LocalInv'
  BY TypeStep, LocalStep
<1> QED BY InitTyped, <1>1, PTL DEF Spec

\* LocalInv: the keepalive fires at the Threshold-th failure in a row; it never
\* pings on with the threshold reached.
THEOREM PingsBounded == Spec => []LocalInv
<1>1. TypeOK /\ LocalInv /\ [Next]_vars => TypeOK' /\ LocalInv'
  BY TypeStep, LocalStep
<1> QED BY InitTyped, <1>1, PTL DEF Spec

-----------------------------------------------------------------------------
(* Any number of callers: nothing in pool.go makes one call wait for another.  *)

\* A loop moves itself alone, and stops nothing.
LEMMA LoopMoves ==
    ASSUME TypeOK, NEW l \in Loops, RunStep(l) \/ PingStep(l) \/ KeepaliveEnds(l)
    PROVE  /\ UNCHANGED <<inPool, ctxDone, cancel, call, fresh>>
           /\ pc[l] \notin {"off", "new", "exit"}
           /\ pc' = [pc EXCEPT ![l] = pc'[l]] /\ pc'[l] \notin {"off", "new"}
           /\ \A m \in Loops : m # l => pc'[m] = pc[m] /\ Alive(m)' = Alive(m)
<1>1. UNCHANGED <<inPool, ctxDone, cancel, call, fresh>>
  BY DEF RunStep, PingStep, LoopTop, StartAttempt, FetchServer, DialSucceeds, DialFails,
         Connected, CountFailure, GiveUp, Backoff, ReadStatus, ArmKeepalive, Lost, ResetLoop,
         Tick, PingReturns, CountPingFailure, FireReconnect, KeepaliveEnds, cancelVars, callVars
<1>2. \E from \in LoopSteps \ {"off", "new", "exit"}, to \in LoopSteps \ {"off", "new"} :
          Goto(l, from, to)
  BY DEF RunStep, PingStep, LoopTop, StartAttempt, FetchServer, DialSucceeds, DialFails,
         Connected, CountFailure, GiveUp, Backoff, ReadStatus, ArmKeepalive, Lost, ResetLoop,
         Tick, PingReturns, CountPingFailure, FireReconnect, KeepaliveEnds, LoopSteps, Errors
<1>3. PICK from \in LoopSteps \ {"off", "new", "exit"}, to \in LoopSteps \ {"off", "new"} :
          Goto(l, from, to)
  BY <1>2
<1> QED BY <1>1, <1>3 DEF Goto, TypeOK, Alive

\* Reconnect puts its context into mc.cancel over one that nobody has cancelled:
\* another Reconnect's, installed since this one called mc.cancel().
Overwrites == \E c \in Callers : RenewContext(c) /\ cancel \notin ctxDone

\* Reconnect goes on with a connection that has left the pool meanwhile.
LateRenewal == \E c \in Callers : RenewContext(c) /\ ~inPool

LEMMA OwnerInit == Init => OwnerInv /\ RemovalInv
BY PoolAssumption DEF Init, OwnerInv, RemovalInv, Alive, Loops, Starting

\* A loop that moves stays as alive as it was, or ends.
LEMMA LoopsKeepOwner ==
    ASSUME TypeOK, LocalInv, OwnerInv, NEW l \in Loops,
           RunStep(l) \/ PingStep(l) \/ KeepaliveEnds(l)
    PROVE  OwnerInv' /\ (RemovalInv => RemovalInv')
<1>1. /\ UNCHANGED <<inPool, ctxDone, cancel, call, fresh>>
      /\ pc[l] \notin {"off", "new", "exit"}
      /\ \A m \in Loops : m # l => pc'[m] = pc[m] /\ Alive(m)' = Alive(m)
  BY LoopMoves
<1>2. \A m \in Loops : Alive(m)' => Alive(m)
  BY <1>1 DEF Alive
<1>3. ASSUME NEW c \in Callers, call[c] \in Starting PROVE pc'[fresh[c]] = "new"
  BY <1>1, <1>3 DEF OwnerInv, LocalInv
<1> QED BY <1>1, <1>2, <1>3 DEF OwnerInv, RemovalInv

\* The steps of a call but for the three that choose, install and start a loop.
LEMMA CallsKeepOwner ==
    ASSUME TypeOK, LocalInv, OwnerInv, NEW c \in Callers, CallStep(c) \/ CallBegins(c),
           ~BeginReconnect(c), ~RenewContext(c), ~SpawnLoop(c)
    PROVE  OwnerInv' /\ (RemovalInv => RemovalInv')
<1>1. UNCHANGED <<pc, cancel, fresh>> /\ ctxDone \subseteq ctxDone'
  BY DEF CallStep, CallBegins, StopLoop, HangUp, TestStatus, DropClient, CancelOldLoop,
         StopOldLoop, BeginRemove, BeginTrigger, loopVars, cancelVars
<1>2. \A d \in Callers : d # c => call'[d] = call[d]
  BY DEF CallStep, CallBegins, StopLoop, HangUp, TestStatus, DropClient, CancelOldLoop,
         BeginRemove, BeginTrigger, Move, TypeOK
<1>3. (call'[c] \in Starting => call[c] \in Starting) /\ call'[c] # "spawn"
  BY DEF CallStep, CallBegins, StopLoop, HangUp, TestStatus, DropClient, CancelOldLoop,
         BeginRemove, BeginTrigger, Move, TypeOK, Starting
<1>4. \A l \in Loops : Alive(l)' => Alive(l)
  BY <1>1 DEF Alive
<1>5. OwnerInv'
  <2>1. \A d \in Callers : call'[d] \in Starting => call[d] \in Starting
    BY <1>2, <1>3
  <2>2. \A d \in Callers : call'[d] = "spawn" => call[d] = "spawn"
    BY <1>2, <1>3
  <2> QED BY <1>1, <1>4, <2>1, <2>2 DEF OwnerInv
<1>6. ASSUME RemovalInv PROVE RemovalInv'
  <2>1. CASE BeginRemove(c)
    BY <2>1 DEF BeginRemove, Move, RemovalInv, TypeOK
  <2>2. CASE StopLoop(c)
    BY <1>1, <2>2 DEF StopLoop, RemovalInv
  <2>3. CASE ~BeginRemove(c) /\ ~StopLoop(c)
    <3>1. UNCHANGED inPool /\ call[c] # "stop"
      BY <2>3
      DEF CallStep, CallBegins, HangUp, TestStatus, DropClient, CancelOldLoop, BeginTrigger, Move
    <3> QED BY <1>1, <1>2, <1>6, <3>1 DEF RemovalInv
  <2> QED BY <2>1, <2>2, <2>3
<1> QED BY <1>5, <1>6

\* The loop chosen is one that no call has chosen before.
LEMMA ChoiceKeepsOwner ==
    ASSUME TypeOK, LocalInv, OwnerInv, NEW c \in Callers, BeginReconnect(c)
    PROVE  OwnerInv' /\ (RemovalInv => RemovalInv')
<1>1. PICK m \in Loops : Goto(m, "off", "new") /\ fresh' = [fresh EXCEPT ![c] = m]
  BY DEF BeginReconnect
<1>2. /\ inPool /\ UNCHANGED <<inPool, cancel, ctxDone>>
      /\ call[c] = "idle" /\ call' = [call EXCEPT ![c] = "close"]
  BY DEF BeginReconnect, Move, cancelVars
<1>3. /\ pc[m] = "off" /\ pc'[m] = "new" /\ fresh'[c] = m /\ call'[c] = "close"
      /\ \A l \in Loops : l # m => pc'[l] = pc[l]
      /\ \A d \in Callers : d # c => call'[d] = call[d] /\ fresh'[d] = fresh[d]
  BY <1>1, <1>2 DEF Goto, TypeOK
<1>4. \A l \in Loops : Alive(l)' => Alive(l)
  BY <1>2, <1>3 DEF Alive
<1>5. \A d \in Callers \ {c} : call[d] \in Starting => fresh[d] # m /\ fresh[d] \in Loops
  BY <1>3 DEF OwnerInv, LocalInv
<1>6. \A d \in Callers : call'[d] \in Starting => pc'[fresh'[d]] = "new"
  BY <1>3, <1>5 DEF OwnerInv
<1>7. \A d, e \in Callers :
        call'[d] \in Starting /\ call'[e] \in Starting /\ fresh'[d] = fresh'[e] => d = e
  BY <1>3, <1>5 DEF OwnerInv
<1>8. \A d \in Callers : call'[d] = "spawn" => cancel' = fresh'[d] \/ fresh'[d] \in ctxDone'
  BY <1>2, <1>3 DEF OwnerInv
<1> QED BY <1>2, <1>4, <1>6, <1>7, <1>8 DEF OwnerInv, RemovalInv

\* What is replaced in mc.cancel has been cancelled, be it the context of the last
\* loop or that of a loop which another call is still to start.
LEMMA RenewalKeepsOwner ==
    ASSUME TypeOK, LocalInv, OwnerInv, NEW c \in Callers, RenewContext(c), cancel \in ctxDone
    PROVE  OwnerInv' /\ (inPool /\ RemovalInv => RemovalInv')
<1>1. /\ UNCHANGED <<inPool, pc, ctxDone, fresh>> /\ cancel' = fresh[c]
      /\ call[c] = "renew" /\ call' = [call EXCEPT ![c] = "spawn"]
  BY DEF RenewContext, Move, loopVars
<1>2. call'[c] = "spawn" /\ \A d \in Callers : d # c => call'[d] = call[d]
  BY <1>1 DEF TypeOK
<1>3. \A l \in Loops : ~Alive(l)'
  BY <1>1 DEF Alive, OwnerInv
<1>4. \A d \in Callers : call'[d] \in Starting => call[d] \in Starting
  BY <1>1, <1>2 DEF Starting
<1>5. \A d \in Callers : call'[d] = "spawn" => cancel' = fresh'[d] \/ fresh'[d] \in ctxDone'
  BY <1>1, <1>2 DEF OwnerInv
<1> QED BY <1>1, <1>3, <1>4, <1>5 DEF OwnerInv, RemovalInv

\* The loop that starts is the one mc.cancel stops, or it is stopped already.
LEMMA SpawnKeepsOwner ==
    ASSUME TypeOK, LocalInv, OwnerInv, NEW c \in Callers, SpawnLoop(c)
    PROVE  OwnerInv' /\ (RemovalInv => RemovalInv')
<1> DEFINE m == fresh[c]
<1>1. /\ UNCHANGED <<inPool, ctxDone, cancel>> /\ pc' = [pc EXCEPT ![m] = "top"]
      /\ call[c] = "spawn" /\ call' = [call EXCEPT ![c] = "idle"]
      /\ fresh' = [fresh EXCEPT ![c] = None]
  BY DEF SpawnLoop, Move, Goto, cancelVars
<1>2. m \in Loops /\ (cancel = m \/ m \in ctxDone)
  BY <1>1 DEF LocalInv, OwnerInv, Starting
<1>3. /\ call'[c] = "idle" /\ \A l \in Loops : l # m => pc'[l] = pc[l]
      /\ \A d \in Callers : d # c => call'[d] = call[d] /\ fresh'[d] = fresh[d]
  BY <1>1, <1>2 DEF TypeOK
<1>4. \A l \in Loops : Alive(l)' => cancel' = l
  BY <1>1, <1>2, <1>3 DEF Alive, OwnerInv
<1>5. \A d \in Callers : call'[d] \in Starting => d # c /\ call[d] \in Starting
  BY <1>3 DEF Starting
<1>6. \A d \in Callers : call'[d] \in Starting => fresh[d] # m /\ fresh[d] \in Loops
  BY <1>1, <1>5 DEF OwnerInv, LocalInv, Starting
<1>7. \A d \in Callers : call'[d] \in Starting => pc'[fresh'[d]] = "new"
  BY <1>3, <1>5, <1>6 DEF OwnerInv
<1>8. \A d, e \in Callers :
        call'[d] \in Starting /\ call'[e] \in Starting /\ fresh'[d] = fresh'[e] => d = e
  BY <1>3, <1>5 DEF OwnerInv
<1>9. \A d \in Callers : call'[d] = "spawn" => cancel' = fresh'[d] \/ fresh'[d] \in ctxDone'
  BY <1>1, <1>3 DEF OwnerInv
<1>10. RemovalInv => RemovalInv'
  BY <1>1, <1>3 DEF RemovalInv
<1> QED BY <1>4, <1>7, <1>8, <1>9, <1>10 DEF OwnerInv

LEMMA OwnerStep ==
    ASSUME TypeOK, LocalInv, OwnerInv, [Next]_vars, [~Overwrites]_vars
    PROVE  OwnerInv' /\ (RemovalInv /\ [~LateRenewal]_vars => RemovalInv')
<1>1. CASE UNCHANGED vars
  BY <1>1 DEF vars, OwnerInv, RemovalInv, Alive
<1>2. CASE Break
  BY <1>2 DEF Break, cancelVars, loopVars, callVars, OwnerInv, RemovalInv, Alive
<1>3. ASSUME NEW l \in Loops, RunStep(l) \/ PingStep(l) \/ KeepaliveEnds(l)
      PROVE  OwnerInv' /\ (RemovalInv => RemovalInv')
  BY <1>3, LoopsKeepOwner
<1>4. ASSUME NEW c \in Callers, CallStep(c) \/ CallBegins(c)
      PROVE  OwnerInv' /\ (RemovalInv /\ [~LateRenewal]_vars => RemovalInv')
  <2>1. CASE RenewContext(c)
    <3>1. ~UNCHANGED vars
      BY <2>1 DEF RenewContext, Move, vars, TypeOK
    <3>2. cancel \in ctxDone /\ ([~LateRenewal]_vars => inPool)
      BY <2>1, <3>1 DEF Overwrites, LateRenewal
    <3> QED BY <2>1, <3>2, RenewalKeepsOwner
  <2> QED BY <1>4, <2>1, CallsKeepOwner, ChoiceKeepsOwner, SpawnKeepsOwner
<1> QED BY <1>1, <1>2, <1>3, <1>4 DEF Next

\* OneLiveLoop: whatever calls of Reconnect, TriggerReconnect and Remove overlap,
\* one loop at most is alive and mc.cancel is the one that stops it, unless one
\* Reconnect replaces in mc.cancel the context that another has just put there.
THEOREM OnlyOverwritesMultiply == Spec /\ [][~Overwrites]_vars => []OneLiveLoop
<1>1. OwnerInv => OneLiveLoop
  BY DEF OwnerInv, OneLiveLoop
<1>2. TypeOK /\ LocalInv /\ OwnerInv /\ [Next]_vars /\ [~Overwrites]_vars => OwnerInv'
  BY OwnerStep
<1> QED BY <1>1, <1>2, OwnerInit, TypeCorrect, PingsBounded, PTL DEF Spec

\* RemovedMeansStopped: whatever calls overlap, nothing survives Remove but the loop
\* of a Reconnect that found the connection in the pool and installs its context
\* after Remove has taken it out.
THEOREM OnlyLateRenewalsSurvive ==
    Spec /\ [][~Overwrites]_vars /\ [][~LateRenewal]_vars => []RemovedMeansStopped
<1>1. OwnerInv /\ RemovalInv => RemovedMeansStopped
  BY DEF OwnerInv, RemovalInv, RemovedMeansStopped, Quiet, Alive
<1>2. /\ TypeOK /\ LocalInv /\ OwnerInv /\ RemovalInv
      /\ [Next]_vars /\ [~Overwrites]_vars /\ [~LateRenewal]_vars
      => OwnerInv' /\ RemovalInv'
  BY OwnerStep
<1> QED BY <1>1, <1>2, OwnerInit, TypeCorrect, PingsBounded, PTL DEF Spec

-----------------------------------------------------------------------------
(* One caller at a time: one loop at most is alive.                        *)

OneCaller == \A c, d \in Callers : c = d

LEMMA TenderInit == Init => TenderInv
BY PoolAssumption DEF Init, TenderInv, Alive, Loops, Starting

LEMMA TenderStep ==
    ASSUME OneCaller, TypeOK, LocalInv, TenderInv, [Next]_vars
    PROVE  TenderInv'
<1> USE DEF TypeOK, LocalInv, TenderInv, Alive, Starting
<1>1. ASSUME NEW l \in Loops, LoopTop(l) PROVE TenderInv'
  BY <1>1, PoolAssumption DEF LoopTop, reconVars, connVars, cancelVars,
      callVars, Goto
<1>2. ASSUME NEW l \in Loops, StartAttempt(l) PROVE TenderInv'
  BY <1>2, PoolAssumption DEF StartAttempt, connVars, cancelVars, callVars,
      Goto
<1>3. ASSUME NEW l \in Loops, FetchServer(l) PROVE TenderInv'
  BY <1>3, PoolAssumption DEF FetchServer, reconVars, connVars, cancelVars,
      callVars, Goto
<1>4. ASSUME NEW l \in Loops, DialSucceeds(l) PROVE TenderInv'
  BY <1>4, PoolAssumption DEF DialSucceeds, reconVars, cancelVars, callVars,
      Goto
<1>5. ASSUME NEW l \in Loops, DialFails(l) PROVE TenderInv'
  BY <1>5, PoolAssumption DEF DialFails, reconVars, connVars, cancelVars,
      callVars, Goto, Errors
<1>6. ASSUME NEW l \in Loops, Connected(l) PROVE TenderInv'
  BY <1>6, PoolAssumption DEF Connected, connVars, cancelVars, callVars, Goto
<1>7. ASSUME NEW l \in Loops, CountFailure(l) PROVE TenderInv'
  BY <1>7, PoolAssumption DEF CountFailure, connVars, cancelVars, callVars,
      Goto, GivesUp, Errors
<1>8. ASSUME NEW l \in Loops, GiveUp(l) PROVE TenderInv'
  BY <1>8, PoolAssumption DEF GiveUp, connVars, cancelVars, callVars, Goto
<1>9. ASSUME NEW l \in Loops, Backoff(l) PROVE TenderInv'
  BY <1>9, PoolAssumption DEF Backoff, reconVars, connVars, cancelVars,
      callVars, Goto
<1>10. ASSUME NEW l \in Loops, ReadStatus(l) PROVE TenderInv'
  BY <1>10, PoolAssumption DEF ReadStatus, reconVars, connVars, cancelVars,
      callVars, Goto, ArmsKeepalive
<1>11. ASSUME NEW l \in Loops, ArmKeepalive(l) PROVE TenderInv'
  BY <1>11, PoolAssumption DEF ArmKeepalive, reconVars, connVars, callVars,
      Goto
<1>12. ASSUME NEW l \in Loops, Lost(l) PROVE TenderInv'
  BY <1>12, PoolAssumption DEF Lost, reconVars, connVars, cancelVars,
      callVars, Goto
<1>13. ASSUME NEW l \in Loops, ResetLoop(l) PROVE TenderInv'
  BY <1>13, PoolAssumption DEF ResetLoop, connVars, cancelVars, callVars,
      Goto, Reset
<1>14. ASSUME NEW l \in Loops, Tick(l) PROVE TenderInv'
  BY <1>14, PoolAssumption DEF Tick, reconVars, connVars, cancelVars,
      callVars, Goto
<1>15. ASSUME NEW l \in Loops, PingReturns(l) PROVE TenderInv'
  BY <1>15, PoolAssumption DEF PingReturns, reconVars, connVars, cancelVars,
      callVars, Goto
<1>16. ASSUME NEW l \in Loops, CountPingFailure(l) PROVE TenderInv'
  BY <1>16, PoolAssumption DEF CountPingFailure, reconVars, connVars,
      cancelVars, callVars, Goto, Unresponsive
<1>17. ASSUME NEW l \in Loops, FireReconnect(l) PROVE TenderInv'
  BY <1>17, PoolAssumption DEF FireReconnect, reconVars, callVars, Goto,
      CloseClient, EndKeepalive
<1>18. ASSUME NEW l \in Loops, KeepaliveEnds(l) PROVE TenderInv'
  BY <1>18, PoolAssumption DEF KeepaliveEnds, reconVars, connVars, cancelVars,
      callVars, Goto, KeepaliveOver
<1>19. ASSUME NEW c \in Callers, BeginRemove(c) PROVE TenderInv'
  <2>1. \A d \in Callers : d = c
    BY OneCaller DEF OneCaller
  <2> QED BY <1>19, <2>1, PoolAssumption
    DEF BeginRemove, reconVars, connVars, cancelVars, loopVars, Move
<1>20. ASSUME NEW c \in Callers, StopLoop(c) PROVE TenderInv'
  BY <1>20, PoolAssumption DEF StopLoop, reconVars, connVars, loopVars, Move
<1>21. ASSUME NEW c \in Callers, HangUp(c) PROVE TenderInv'
  BY <1>21, PoolAssumption DEF HangUp, reconVars, cancelVars, loopVars, Move
<1>22. ASSUME NEW c \in Callers, BeginTrigger(c) PROVE TenderInv'
  BY <1>22, PoolAssumption DEF BeginTrigger, reconVars, connVars, cancelVars,
      loopVars, Move
<1>23. ASSUME NEW c \in Callers, TestStatus(c) PROVE TenderInv'
  BY <1>23, PoolAssumption DEF TestStatus, reconVars, connVars, cancelVars,
      loopVars, Move
<1>24. ASSUME NEW c \in Callers, DropClient(c) PROVE TenderInv'
  BY <1>24, PoolAssumption DEF DropClient, reconVars, loopVars, Move,
      CloseClient
<1>25. ASSUME NEW c \in Callers, BeginReconnect(c) PROVE TenderInv'
  BY <1>25, PoolAssumption DEF BeginReconnect, reconVars, connVars,
      cancelVars, Goto, Move
<1>26. ASSUME NEW c \in Callers, CancelOldLoop(c) PROVE TenderInv'
  <2>1. \A d \in Callers : d = c
    BY OneCaller DEF OneCaller
  <2> QED BY <1>26, <2>1, PoolAssumption
    DEF CancelOldLoop, reconVars, connVars, loopVars, Move, StopOldLoop
<1>27. ASSUME NEW c \in Callers, RenewContext(c) PROVE TenderInv'
  <2>1. \A d \in Callers : d = c
    BY OneCaller DEF OneCaller
  <2> QED BY <1>27, <2>1, PoolAssumption
    DEF RenewContext, reconVars, connVars, loopVars, Move
<1>28. ASSUME NEW c \in Callers, SpawnLoop(c) PROVE TenderInv'
  <2>1. \A d \in Callers : d = c
    BY OneCaller DEF OneCaller
  <2> QED BY <1>28, <2>1, PoolAssumption
    DEF SpawnLoop, connVars, cancelVars, Goto, Move, Reset
<1>29. CASE Break
  BY <1>29, PoolAssumption DEF Break, reconVars, cancelVars, loopVars,
      callVars
<1>30. CASE UNCHANGED vars
  BY <1>30 DEF vars
<1> QED BY <1>1, <1>2, <1>3, <1>4, <1>5, <1>6, <1>7, <1>8, <1>9, <1>10, <1>11,
  <1>12, <1>13, <1>14, <1>15, <1>16, <1>17, <1>18, <1>19, <1>20, <1>21, <1>22,
  <1>23, <1>24, <1>25, <1>26, <1>27, <1>28, <1>29, <1>30
  DEF Next, RunStep, PingStep, CallStep, CallBegins

LEMMA Tended ==
    ASSUME OneCaller
    PROVE  Spec => [](TypeOK /\ TenderInv)
<1>1. /\ TypeOK /\ LocalInv /\ TenderInv /\ [Next]_vars
      => TypeOK' /\ LocalInv' /\ TenderInv'
  BY TypeStep, LocalStep, TenderStep
<1> QED BY InitTyped, TenderInit, <1>1, PTL DEF Spec

\* The steps that the theorems on overlapping calls except need an overlap.
LEMMA CallsInTurn ==
    ASSUME OneCaller, Callers # {}
    PROVE  Spec => [](OneLiveLoop /\ RemovedMeansStopped)
<1>1. TypeOK /\ TenderInv => OneLiveLoop
  BY DEF TenderInv, OneLiveLoop, TypeOK
<1>2. TypeOK /\ TenderInv => RemovedMeansStopped
  BY DEF TenderInv, RemovedMeansStopped, Quiet
<1> QED BY Tended, <1>1, <1>2, PTL

-----------------------------------------------------------------------------
(* The only loop: its transports and its attempts.                         *)

LEMMA SoloInit == Init => SoloInv
BY PoolAssumption DEF Init, SoloInv, Dialling, Loops, Starting

LEMMA SoloStep ==
    ASSUME MaxLoops = 1, TypeOK, SoloInv, [Next]_vars
    PROVE  SoloInv'
<1>0. Loops = {1}
  BY DEF Loops
<1> USE <1>0 DEF TypeOK, SoloInv, Dialling, Starting
<1>1. ASSUME NEW l \in Loops, LoopTop(l) PROVE SoloInv'
  BY <1>1, PoolAssumption DEF LoopTop, reconVars, connVars, cancelVars,
      callVars, Goto
<1>2. ASSUME NEW l \in Loops, StartAttempt(l) PROVE SoloInv'
  BY <1>2, PoolAssumption DEF StartAttempt, connVars, cancelVars, callVars,
      Goto
<1>3. ASSUME NEW l \in Loops, FetchServer(l) PROVE SoloInv'
  BY <1>3, PoolAssumption DEF FetchServer, reconVars, connVars, cancelVars,
      callVars, Goto
<1>4. ASSUME NEW l \in Loops, DialSucceeds(l) PROVE SoloInv'
  BY <1>4, PoolAssumption DEF DialSucceeds, reconVars, cancelVars, callVars,
      Goto
<1>5. ASSUME NEW l \in Loops, DialFails(l) PROVE SoloInv'
  BY <1>5, PoolAssumption DEF DialFails, reconVars, connVars, cancelVars,
      callVars, Goto, Errors
<1>6. ASSUME NEW l \in Loops, Connected(l) PROVE SoloInv'
  BY <1>6, PoolAssumption DEF Connected, connVars, cancelVars, callVars, Goto
<1>7. ASSUME NEW l \in Loops, CountFailure(l) PROVE SoloInv'
  BY <1>7, PoolAssumption DEF CountFailure, connVars, cancelVars, callVars,
      Goto, GivesUp, Errors
<1>8. ASSUME NEW l \in Loops, GiveUp(l) PROVE SoloInv'
  BY <1>8, PoolAssumption DEF GiveUp, connVars, cancelVars, callVars, Goto
<1>9. ASSUME NEW l \in Loops, Backoff(l) PROVE SoloInv'
  BY <1>9, PoolAssumption DEF Backoff, reconVars, connVars, cancelVars,
      callVars, Goto
<1>10. ASSUME NEW l \in Loops, ReadStatus(l) PROVE SoloInv'
  BY <1>10, PoolAssumption DEF ReadStatus, reconVars, connVars, cancelVars,
      callVars, Goto, ArmsKeepalive
<1>11. ASSUME NEW l \in Loops, ArmKeepalive(l) PROVE SoloInv'
  BY <1>11, PoolAssumption DEF ArmKeepalive, reconVars, connVars, callVars,
      Goto
<1>12. ASSUME NEW l \in Loops, Lost(l) PROVE SoloInv'
  BY <1>12, PoolAssumption DEF Lost, reconVars, connVars, cancelVars,
      callVars, Goto
<1>13. ASSUME NEW l \in Loops, ResetLoop(l) PROVE SoloInv'
  BY <1>13, PoolAssumption DEF ResetLoop, connVars, cancelVars, callVars,
      Goto, Reset
<1>14. ASSUME NEW l \in Loops, Tick(l) PROVE SoloInv'
  BY <1>14, PoolAssumption DEF Tick, reconVars, connVars, cancelVars,
      callVars, Goto
<1>15. ASSUME NEW l \in Loops, PingReturns(l) PROVE SoloInv'
  BY <1>15, PoolAssumption DEF PingReturns, reconVars, connVars, cancelVars,
      callVars, Goto
<1>16. ASSUME NEW l \in Loops, CountPingFailure(l) PROVE SoloInv'
  BY <1>16, PoolAssumption DEF CountPingFailure, reconVars, connVars,
      cancelVars, callVars, Goto, Unresponsive
<1>17. ASSUME NEW l \in Loops, FireReconnect(l) PROVE SoloInv'
  BY <1>17, PoolAssumption DEF FireReconnect, reconVars, callVars, Goto,
      CloseClient, EndKeepalive
<1>18. ASSUME NEW l \in Loops, KeepaliveEnds(l) PROVE SoloInv'
  BY <1>18, PoolAssumption DEF KeepaliveEnds, reconVars, connVars, cancelVars,
      callVars, Goto, KeepaliveOver
<1>19. ASSUME NEW c \in Callers, BeginRemove(c) PROVE SoloInv'
  BY <1>19, PoolAssumption DEF BeginRemove, reconVars, connVars, cancelVars,
      loopVars, Move
<1>20. ASSUME NEW c \in Callers, StopLoop(c) PROVE SoloInv'
  BY <1>20, PoolAssumption DEF StopLoop, reconVars, connVars, loopVars, Move
<1>21. ASSUME NEW c \in Callers, HangUp(c) PROVE SoloInv'
  BY <1>21, PoolAssumption DEF HangUp, reconVars, cancelVars, loopVars, Move
<1>22. ASSUME NEW c \in Callers, BeginTrigger(c) PROVE SoloInv'
  BY <1>22, PoolAssumption DEF BeginTrigger, reconVars, connVars, cancelVars,
      loopVars, Move
<1>23. ASSUME NEW c \in Callers, TestStatus(c) PROVE SoloInv'
  BY <1>23, PoolAssumption DEF TestStatus, reconVars, connVars, cancelVars,
      loopVars, Move
<1>24. ASSUME NEW c \in Callers, DropClient(c) PROVE SoloInv'
  BY <1>24, PoolAssumption DEF DropClient, reconVars, loopVars, Move,
      CloseClient
<1>25. ASSUME NEW c \in Callers, BeginReconnect(c) PROVE SoloInv'
  BY <1>25, PoolAssumption DEF BeginReconnect, reconVars, connVars,
      cancelVars, Goto, Move
<1>26. ASSUME NEW c \in Callers, CancelOldLoop(c) PROVE SoloInv'
  BY <1>26, PoolAssumption DEF CancelOldLoop, reconVars, connVars, loopVars,
      Move, StopOldLoop
<1>27. ASSUME NEW c \in Callers, RenewContext(c) PROVE SoloInv'
  BY <1>27, PoolAssumption DEF RenewContext, reconVars, connVars, loopVars,
      Move
<1>28. ASSUME NEW c \in Callers, SpawnLoop(c) PROVE SoloInv'
  BY <1>28, PoolAssumption DEF SpawnLoop, connVars, cancelVars, Goto, Move,
      Reset
<1>29. CASE Break
  BY <1>29, PoolAssumption DEF Break, reconVars, cancelVars, loopVars,
      callVars
<1>30. CASE UNCHANGED vars
  BY <1>30 DEF vars
<1> QED BY <1>1, <1>2, <1>3, <1>4, <1>5, <1>6, <1>7, <1>8, <1>9, <1>10, <1>11,
  <1>12, <1>13, <1>14, <1>15, <1>16, <1>17, <1>18, <1>19, <1>20, <1>21, <1>22,
  <1>23, <1>24, <1>25, <1>26, <1>27, <1>28, <1>29, <1>30
  DEF Next, RunStep, PingStep, CallStep, CallBegins

LEMMA Solo ==
    ASSUME MaxLoops = 1
    PROVE  Spec => [](TypeOK /\ SoloInv)
<1>1. /\ TypeOK /\ LocalInv /\ SoloInv /\ [Next]_vars
      => TypeOK' /\ LocalInv' /\ SoloInv'
  BY TypeStep, LocalStep, SoloStep
<1> QED BY InitTyped, SoloInit, <1>1, PTL DEF Spec

\* ReplacedTransportIsClosed: without Reconnect no transport is leaked.
THEOREM NoLeak ==
    ASSUME MaxLoops = 1
    PROVE  Spec => []ReplacedTransportIsClosed
<1>1. SoloInv => ReplacedTransportIsClosed
  BY DEF SoloInv, ReplacedTransportIsClosed
<1> QED BY Solo, <1>1, PTL

\* FailedForCause: without Reconnect `failed` has its cause on record.
THEOREM FailureHasCause ==
    ASSUME MaxLoops = 1
    PROVE  Spec => []FailedForCause
<1>1. SoloInv => FailedForCause
  BY DEF SoloInv, FailedForCause
<1> QED BY Solo, <1>1, PTL

\* RetriesBounded: without Reconnect attempts never exceed the maximum.
THEOREM AttemptsBounded ==
    ASSUME MaxLoops = 1
    PROVE  Spec => []RetriesBounded
<1>1. SoloInv => RetriesBounded
  BY DEF SoloInv, RetriesBounded
<1> QED BY Solo, <1>1, PTL

\* ConnectedIsTended: without Reconnect a loop watches every connection.
THEOREM ConnectionTended ==
    ASSUME MaxLoops = 1
    PROVE  Spec => []ConnectedIsTended
<1>1. 1 \in Loops
  BY PoolAssumption DEF Loops
<1>2. SoloInv => ConnectedIsTended
  BY <1>1 DEF SoloInv, ConnectedIsTended, Alive
<1> QED BY Solo, <1>2, PTL

\* FailedIsFinal: without Reconnect nothing leads out of `failed`.
THEOREM FailureIsFinal ==
    ASSUME MaxLoops = 1
    PROVE  Spec => FailedIsFinal
<1>1. ASSUME TypeOK, SoloInv, [Next]_vars
      PROVE  state = "failed" => state' = state
  <2>1. Loops = {1}
    BY DEF Loops
  <2>2. ASSUME NEW l \in Loops, RunStep(l) \/ PingStep(l) \/ KeepaliveEnds(l)
        PROVE  state = "failed" => state' = state
    BY <1>1, <2>1, <2>2
    DEF TypeOK, SoloInv, RunStep, PingStep, LoopTop, StartAttempt, FetchServer,
        DialSucceeds, DialFails, Connected, CountFailure, GiveUp, Backoff,
        ReadStatus, ArmKeepalive, Lost, ResetLoop, Tick, PingReturns,
        CountPingFailure, FireReconnect, KeepaliveEnds, Goto, Errors, reconVars
  <2>3. ASSUME NEW c \in Callers, CallStep(c) \/ CallBegins(c)
        PROVE  state' = state
    BY <1>1, <2>3
    DEF SoloInv, Starting, CallStep, CallBegins, StopLoop, HangUp, TestStatus, DropClient,
        CancelOldLoop, RenewContext, SpawnLoop, BeginRemove, BeginTrigger,
        BeginReconnect, Move, reconVars
  <2> QED BY <1>1, <2>2, <2>3 DEF Next, Break, vars, reconVars
<1>2. ASSUME TypeOK, SoloInv, [Next]_vars
      PROVE  [state = "failed" /\ state' # "failed" =>
                  \E c \in Callers : call[c] = "spawn" /\ call'[c] = "idle"]_vars
  BY <1>1, <1>2
<1> QED BY Solo, <1>2, PTL DEF Spec, FailedIsFinal

-----------------------------------------------------------------------------
(* With Reconnect: one caller at a time, any number of loops.  What a loop    *)
(* does once its context is cancelled is late, and each promise needs only    *)
(* that one kind of late step stays away.                                     *)

\* gossh.Dial returns a transport after Reconnect has closed mc.client: to a
\* loop that is stopped, or about to be.
LateDial ==
    \E l \in Loops :
        /\ l \in ctxDone \/ \E c \in Callers : call[c] = "cancel"
        /\ DialSucceeds(l)

\* A stopped loop that was in its dial writes the Reconnector, which by then
\* belongs to the loop after it: the success, the failure, the verdict, the
\* reset after the keepalive.
LateConnect == \E l \in ctxDone : Connected(l)
LateCount   == \E l \in ctxDone : CountFailure(l)
LateVerdict == \E l \in ctxDone : GiveUp(l) \/ ResetLoop(l)

\* What is open at each step of the live loop and of Reconnect.
TransportInv ==
    /\ open \subseteq {client}
    /\ \A l \in Loops :
          /\ Alive(l)
          /\ \/ pc[l] \in Dialling \cup {"giveUp", "lost", "reset"}
             \/ l \in kaDone /\ pc[l] \in {"keepalive", "ping", "failed", "fire"}
          => open = {}
    /\ \A c \in Callers : call[c] \in {"cancel", "renew", "spawn"} => open = {}

\* "connected" has its loop, but while Reconnect changes loops.
WatchInv ==
    /\ state = "connected" /\ inPool
    /\ \A c \in Callers : call[c] \notin {"renew", "spawn"}
    => \E l \in Loops : Alive(l)

\* The live loop dials only with an attempt left.
CountInv ==
    /\ attempts <= MaxAttempts
    /\ \A l \in Loops : Alive(l) /\ pc[l] \in Dialling => attempts < MaxAttempts

\* The live loop gives up for a cause, and has then nothing left to do.
Cause == lastError = "fatal" \/ attempts = MaxAttempts

CauseInv ==
    /\ \A l \in Loops : Alive(l) /\ pc[l] = "giveUp" => Cause
    /\ state = "failed" => Cause /\ \A l \in Loops : Alive(l) => pc[l] = "status"

\* A call leaves a live loop where it is, or stops it; only SpawnLoop brings one
\* to life.
LEMMA CallMoves ==
    ASSUME OneCaller, TypeOK, TenderInv, NEW c \in Callers, CallStep(c) \/ CallBegins(c)
    PROVE  /\ \A d \in Callers : d = c
           /\ ctxDone \subseteq ctxDone'
           /\ \A l \in Loops : Alive(l)' /\ ~SpawnLoop(c) => Alive(l) /\ pc'[l] = pc[l]
           /\ SpawnLoop(c) => \A l \in Loops : ~Alive(l)
           /\ \A l \in Loops : SpawnLoop(c) /\ Alive(l)' => pc'[l] = "top"
<1>1. \A d \in Callers : d = c
  BY DEF OneCaller
<1>2. ctxDone \subseteq ctxDone'
  BY DEF CallStep, CallBegins, StopLoop, HangUp, TestStatus, DropClient, CancelOldLoop,
         StopOldLoop, RenewContext, SpawnLoop, BeginRemove, BeginTrigger, BeginReconnect,
         cancelVars
<1>3. CASE BeginReconnect(c)
  <2>1. ~SpawnLoop(c)
    BY <1>3 DEF BeginReconnect, SpawnLoop, Move
  <2>2. PICK m \in Loops : Goto(m, "off", "new")
    BY <1>3 DEF BeginReconnect
  <2>3. \A l \in Loops : l # m => pc'[l] = pc[l]
    BY <2>2 DEF Goto, TypeOK
  <2>4. pc'[m] = "new"
    BY <2>2 DEF Goto, TypeOK
  <2> QED BY <1>1, <1>2, <2>1, <2>3, <2>4 DEF Alive
<1>4. CASE SpawnLoop(c)
  <2>1. /\ call[c] = "spawn" /\ fresh[c] \in Loops \cup {None}
        /\ pc[fresh[c]] = "new" /\ pc' = [pc EXCEPT ![fresh[c]] = "top"]
        /\ UNCHANGED ctxDone
    BY <1>4 DEF SpawnLoop, Move, Goto, cancelVars, TypeOK
  <2>2. \A l \in Loops : ~Alive(l)
    BY <2>1 DEF TenderInv
  <2>3. \A l \in Loops : pc'[l] = pc[l] \/ pc'[l] = "top"
    BY <2>1 DEF TypeOK
  <2>4. \A l \in Loops : Alive(l)' => pc'[l] = "top"
    BY <2>1, <2>2, <2>3 DEF Alive
  <2> QED BY <1>1, <1>2, <1>4, <2>2, <2>4
<1>5. CASE ~BeginReconnect(c) /\ ~SpawnLoop(c)
  <2>1. UNCHANGED pc
    BY <1>5 DEF CallStep, CallBegins, StopLoop, HangUp, TestStatus, DropClient, CancelOldLoop,
                RenewContext, BeginRemove, BeginTrigger, loopVars
  <2> QED BY <1>1, <1>2, <1>5, <2>1 DEF Alive
<1> QED BY <1>3, <1>4, <1>5

LEMMA WatchStep ==
    ASSUME OneCaller, TypeOK, TenderInv, WatchInv, [Next]_vars, ~LateConnect
    PROVE  WatchInv'
<1>1. ASSUME NEW l \in Loops, RunStep(l) \/ PingStep(l) \/ KeepaliveEnds(l) PROVE WatchInv'
  <2>1. /\ UNCHANGED <<inPool, ctxDone, call>>
        /\ \A m \in Loops : m # l => Alive(m)' = Alive(m)
    BY <1>1, LoopMoves
  <2>2. CASE Connected(l)
    <3>1. l \notin ctxDone /\ pc'[l] = "status"
      BY <2>2 DEF LateConnect, Connected, Goto, TypeOK
    <3> QED BY <2>1, <3>1 DEF WatchInv, Alive
  <2>3. CASE ~Connected(l)
    <3>1. state' = "connected" => state = "connected"
      BY <1>1, <2>3
      DEF RunStep, PingStep, LoopTop, StartAttempt, FetchServer, DialSucceeds, DialFails,
          CountFailure, GiveUp, Backoff, ReadStatus, ArmKeepalive, Lost, ResetLoop, Reset, Tick,
          PingReturns, CountPingFailure, FireReconnect, KeepaliveEnds, reconVars
    <3>2. state = "connected" /\ Alive(l) => pc'[l] # "exit"
      BY <1>1
      DEF RunStep, PingStep, LoopTop, StartAttempt, FetchServer, DialSucceeds, DialFails,
          Connected, CountFailure, GiveUp, Backoff, ReadStatus, ArmsKeepalive, ArmKeepalive, Lost,
          ResetLoop, Tick, PingReturns, CountPingFailure, FireReconnect, KeepaliveEnds,
          Goto, TypeOK, Alive, Errors
    <3>3. pc'[l] \notin {"off", "new"}
      BY <1>1, LoopMoves
    <3>4. state = "connected" /\ Alive(l) => Alive(l)'
      BY <2>1, <3>2, <3>3 DEF Alive
    <3> QED BY <2>1, <3>1, <3>4 DEF WatchInv
  <2> QED BY <2>2, <2>3
<1>2. ASSUME NEW c \in Callers, CallStep(c) \/ CallBegins(c) PROVE WatchInv'
  <2>1. \A d \in Callers : d = c
    BY OneCaller DEF OneCaller
  <2>2. CASE BeginRemove(c) \/ StopLoop(c) \/ HangUp(c)
    <3>1. ~inPool'
      BY <2>2 DEF BeginRemove, StopLoop, HangUp, Move, TenderInv, TypeOK
    <3> QED BY <3>1 DEF WatchInv
  <2>3. CASE BeginReconnect(c)
    <3>1. PICK m \in Loops : Goto(m, "off", "new")
      BY <2>3 DEF BeginReconnect
    <3>2. \A l \in Loops : Alive(l) => pc'[l] = pc[l]
      BY <3>1 DEF Goto, TypeOK, Alive
    <3>3. call[c] = "idle" /\ UNCHANGED <<state, inPool, ctxDone>>
      BY <2>3 DEF BeginReconnect, Move, reconVars, cancelVars
    <3> QED BY <2>1, <3>2, <3>3 DEF WatchInv, Alive
  <2>4. CASE CancelOldLoop(c) \/ RenewContext(c)
    <3>1. call'[c] \in {"renew", "spawn"}
      BY <2>4 DEF CancelOldLoop, RenewContext, Move, TypeOK
    <3> QED BY <3>1 DEF WatchInv
  <2>5. CASE SpawnLoop(c)
    BY <2>5 DEF SpawnLoop, Reset, WatchInv
  <2>6. CASE BeginTrigger(c) \/ TestStatus(c) \/ DropClient(c)
    <3>1. call[c] \notin {"renew", "spawn"} /\ UNCHANGED <<state, inPool, pc, ctxDone>>
      BY <2>6 DEF BeginTrigger, TestStatus, DropClient, Move, reconVars, cancelVars, loopVars
    <3> QED BY <2>1, <3>1 DEF WatchInv, Alive
  <2> QED BY <1>2, <2>2, <2>3, <2>4, <2>5, <2>6 DEF CallStep, CallBegins
<1>3. CASE Break \/ UNCHANGED vars
  BY <1>3 DEF Break, vars, reconVars, cancelVars, loopVars, callVars, WatchInv, Alive
<1> QED BY <1>1, <1>2, <1>3 DEF Next

LEMMA CountStep ==
    ASSUME OneCaller, TypeOK, TenderInv, CountInv, [Next]_vars, ~LateCount
    PROVE  CountInv'
<1>0. /\ MaxAttempts \in Nat \ {0} /\ attempts \in Nat
      /\ \A l, m \in Loops : Alive(l) /\ Alive(m) => l = m
  BY PoolAssumption DEF TypeOK, TenderInv
<1>1. ASSUME NEW l \in Loops, RunStep(l) \/ PingStep(l) \/ KeepaliveEnds(l) PROVE CountInv'
  <2>1. UNCHANGED ctxDone /\ pc' = [pc EXCEPT ![l] = pc'[l]]
        /\ \A m \in Loops : m # l => pc'[m] = pc[m] /\ Alive(m)' = Alive(m)
    BY <1>1, LoopMoves
  <2>2. CASE CountFailure(l)
    <3>0. PICK e \in Errors :
              Goto(l, e, IF GivesUp(e, attempts + 1) THEN "giveUp" ELSE "sleep")
      BY <2>2 DEF CountFailure
    <3>1. /\ l \notin ctxDone /\ pc[l] \in Errors /\ attempts' = attempts + 1
          /\ pc'[l] = IF GivesUp(e, attempts + 1) THEN "giveUp" ELSE "sleep"
      BY <2>2, <3>0 DEF LateCount, CountFailure, Goto, TypeOK
    <3>2. Alive(l) /\ attempts < MaxAttempts
      BY <3>1 DEF Alive, Errors, Dialling, CountInv
    <3>3. \A m \in Loops : m # l => ~Alive(m)'
      BY <1>0, <2>1, <3>2
    <3>4. pc'[l] \in Dialling => attempts + 1 < MaxAttempts
      BY <1>0, <3>1 DEF GivesUp, Dialling
    <3> QED BY <1>0, <3>1, <3>2, <3>3, <3>4 DEF CountInv
  <2>3. CASE Connected(l) \/ ResetLoop(l)
    BY <1>0, <2>3 DEF Connected, ResetLoop, Reset, CountInv
  <2>4. CASE ~CountFailure(l) /\ ~Connected(l) /\ ~ResetLoop(l)
    <3>1. attempts' = attempts
      BY <1>1, <2>4
      DEF RunStep, PingStep, LoopTop, StartAttempt, FetchServer, DialSucceeds, DialFails,
          GiveUp, Backoff, ReadStatus, ArmKeepalive, Lost, Tick, PingReturns, CountPingFailure,
          FireReconnect, KeepaliveEnds, reconVars
    <3>2. pc'[l] \in Dialling => pc[l] \in Dialling
      BY <1>1, <2>4
      DEF RunStep, PingStep, LoopTop, StartAttempt, FetchServer, DialSucceeds, DialFails,
          GiveUp, Backoff, ReadStatus, ArmKeepalive, Lost, Tick, PingReturns, CountPingFailure,
          FireReconnect, KeepaliveEnds, Goto, TypeOK, Dialling, Errors
    <3>3. Alive(l)' /\ pc'[l] \in Dialling => Alive(l)
      BY <2>1, <3>2 DEF Alive, Dialling
    <3> QED BY <2>1, <3>1, <3>2, <3>3 DEF CountInv
  <2> QED BY <2>2, <2>3, <2>4
<1>2. ASSUME NEW c \in Callers, CallStep(c) \/ CallBegins(c) PROVE CountInv'
  <2>1. CASE SpawnLoop(c)
    BY <1>0, <2>1 DEF SpawnLoop, Reset, CountInv
  <2>2. CASE ~SpawnLoop(c)
    <3>1. attempts' = attempts
      BY <1>2, <2>2
      DEF CallStep, CallBegins, StopLoop, HangUp, TestStatus, DropClient, CancelOldLoop,
          RenewContext, BeginRemove, BeginTrigger, BeginReconnect, reconVars
    <3> QED BY <1>2, <2>2, <3>1, CallMoves DEF CountInv
  <2> QED BY <2>1, <2>2
<1>3. CASE Break \/ UNCHANGED vars
  BY <1>3 DEF Break, vars, reconVars, cancelVars, loopVars, CountInv, Alive
<1> QED BY <1>1, <1>2, <1>3 DEF Next

LEMMA TransportStep ==
    ASSUME OneCaller, TypeOK, TenderInv, TransportInv, [Next]_vars, ~LateDial
    PROVE  TransportInv'
<1>0. /\ open \subseteq {client} /\ None \notin Conns
      /\ \A l, m \in Loops : Alive(l) /\ Alive(m) => l = m
  BY PoolAssumption DEF TransportInv, TenderInv
<1>1. ASSUME NEW l \in Loops, RunStep(l) \/ PingStep(l) \/ KeepaliveEnds(l) PROVE TransportInv'
  <2>1. /\ UNCHANGED <<ctxDone, call>> /\ pc[l] \notin {"off", "new", "exit"}
        /\ \A m \in Loops : m # l => pc'[m] = pc[m] /\ Alive(m)' = Alive(m)
    BY <1>1, LoopMoves
  <2>2. CASE DialSucceeds(l)
    <3>1. l \notin ctxDone /\ \A c \in Callers : call[c] # "cancel"
      BY <2>2 DEF LateDial
    <3>2. pc[l] = "dial" /\ pc'[l] = "dialled" /\ UNCHANGED kaDone
      BY <2>2 DEF DialSucceeds, Goto, TypeOK, cancelVars
    <3>3. Alive(l) /\ open = {}
      BY <3>1, <3>2 DEF Alive, TransportInv, Dialling
    <3>4. open' = {client'}
      BY <2>2, <3>3 DEF DialSucceeds
    <3>5. \A c \in Callers : call[c] \notin {"cancel", "renew", "spawn"}
      BY <3>1, <3>3 DEF TenderInv
    <3>6. \A m \in Loops : m # l => ~Alive(m)'
      BY <1>0, <2>1, <3>3
    <3> QED BY <2>1, <3>2, <3>4, <3>5, <3>6 DEF TransportInv, Dialling
  <2>3. CASE FireReconnect(l)
    <3>1. open' = {}
      BY <1>0, <2>3 DEF FireReconnect, CloseClient
    <3> QED BY <3>1 DEF TransportInv
  <2>4. CASE ~DialSucceeds(l) /\ ~FireReconnect(l)
    <3>1. UNCHANGED <<open, client>> /\ kaDone' \subseteq kaDone
      BY <1>1, <2>4
      DEF RunStep, PingStep, LoopTop, StartAttempt, FetchServer, DialFails, Connected,
          CountFailure, GiveUp, Backoff, ReadStatus, ArmKeepalive, Lost, ResetLoop, Tick,
          PingReturns, CountPingFailure, KeepaliveEnds, connVars, cancelVars
    <3> DEFINE Shut == \/ pc[l] \in Dialling \cup {"giveUp", "lost", "reset"}
                       \/ l \in kaDone /\ pc[l] \in {"keepalive", "ping", "failed", "fire"}
    <3>2. Alive(l) /\ Alive(l)' /\ Shut' => Shut
      BY <1>1, <2>4
      DEF RunStep, PingStep, LoopTop, StartAttempt, FetchServer, DialFails, Connected,
          CountFailure, GiveUp, Backoff, ReadStatus, ArmKeepalive, Lost, ResetLoop, Tick,
          PingReturns, CountPingFailure, KeepaliveEnds, KeepaliveOver, Goto, TypeOK, Dialling,
          Errors, Alive, cancelVars
    <3>3. Alive(l)' => Alive(l)
      BY <2>1 DEF Alive
    <3>4. Alive(l)' /\ Shut' => open' = {}
      BY <3>1, <3>2, <3>3 DEF TransportInv
    <3>5. \A m \in Loops :
             m # l /\ Alive(m)' /\ (\/ pc'[m] \in Dialling \cup {"giveUp", "lost", "reset"}
                                    \/ /\ m \in kaDone'
                                       /\ pc'[m] \in {"keepalive", "ping", "failed", "fire"})
             => open' = {}
      BY <2>1, <3>1 DEF TransportInv
    <3> QED BY <1>0, <2>1, <3>1, <3>4, <3>5 DEF TransportInv
  <2> QED BY <2>2, <2>3, <2>4
<1>2. ASSUME NEW c \in Callers, CallStep(c) \/ CallBegins(c) PROVE TransportInv'
  <2>1. CASE DropClient(c)
    <3>1. open' = {}
      BY <1>0, <2>1 DEF DropClient, CloseClient
    <3> QED BY <3>1 DEF TransportInv
  <2>2. CASE SpawnLoop(c)
    <3>1. open = {} /\ open' = open
      BY <2>2 DEF SpawnLoop, Move, connVars, TransportInv
    <3> QED BY <3>1 DEF TransportInv
  <2>3. CASE ~DropClient(c) /\ ~SpawnLoop(c)
    <3>1. UNCHANGED <<client, kaDone>> /\ open' \subseteq open
      BY <1>2, <2>3
      DEF CallStep, CallBegins, StopLoop, HangUp, TestStatus, CancelOldLoop, RenewContext,
          BeginRemove, BeginTrigger, BeginReconnect, connVars, cancelVars
    <3>2. \A d \in Callers : d = c
      BY OneCaller DEF OneCaller
    <3>3. \A d \in Callers : call'[d] \in {"cancel", "renew", "spawn"}
                                => call[d] \in {"cancel", "renew", "spawn"}
      BY <1>2, <2>3, <3>2
      DEF CallStep, CallBegins, StopLoop, HangUp, TestStatus, CancelOldLoop, RenewContext,
          BeginRemove, BeginTrigger, BeginReconnect, Move, TypeOK
    <3>4. \A l \in Loops : Alive(l)' => Alive(l) /\ pc'[l] = pc[l]
      BY <1>2, <2>3, CallMoves
    <3> QED BY <1>0, <3>1, <3>3, <3>4 DEF TransportInv
  <2> QED BY <2>1, <2>2, <2>3
<1>3. CASE Break \/ UNCHANGED vars
  BY <1>3 DEF Break, vars, cancelVars, loopVars, callVars, TransportInv, Alive
<1> QED BY <1>1, <1>2, <1>3 DEF Next

LEMMA CauseStep ==
    ASSUME OneCaller, TypeOK, TenderInv, CountInv, CauseInv, [Next]_vars,
           ~LateConnect, ~LateCount, ~LateVerdict
    PROVE  CauseInv'
<1>0. /\ MaxAttempts \in Nat \ {0} /\ attempts \in Nat
      /\ \A l, m \in Loops : Alive(l) /\ Alive(m) => l = m
  BY PoolAssumption DEF TypeOK, TenderInv
<1>1. ASSUME NEW l \in Loops, RunStep(l) \/ PingStep(l) \/ KeepaliveEnds(l) PROVE CauseInv'
  <2>1. /\ UNCHANGED ctxDone /\ pc[l] \notin {"off", "new", "exit"}
        /\ \A m \in Loops : m # l => pc'[m] = pc[m] /\ Alive(m)' = Alive(m)
    BY <1>1, LoopMoves
  <2>2. ASSUME Connected(l) \/ CountFailure(l) \/ GiveUp(l) \/ ResetLoop(l)
        PROVE  Alive(l) /\ \A m \in Loops : m # l => ~Alive(m)'
    <3>1. l \notin ctxDone
      BY <2>2 DEF LateConnect, LateCount, LateVerdict
    <3> QED BY <1>0, <2>1, <3>1 DEF Alive
  <2>3. CASE CountFailure(l)
    <3>1. PICK e \in Errors :
              /\ Goto(l, e, IF GivesUp(e, attempts + 1) THEN "giveUp" ELSE "sleep")
              /\ lastError' = e
      BY <2>3 DEF CountFailure
    <3>2. /\ pc[l] = e /\ pc'[l] = IF GivesUp(e, attempts + 1) THEN "giveUp" ELSE "sleep"
          /\ attempts' = attempts + 1 /\ state' = state
      BY <2>3, <3>1 DEF CountFailure, Goto, TypeOK
    <3>3. state # "failed" /\ attempts < MaxAttempts
      BY <2>2, <2>3, <3>2 DEF CauseInv, CountInv, Errors, Dialling
    <3>4. pc'[l] = "giveUp" => Cause'
      BY <1>0, <3>1, <3>2, <3>3 DEF Cause, GivesUp
    <3> QED BY <2>2, <2>3, <3>2, <3>3, <3>4 DEF CauseInv
  <2>4. CASE GiveUp(l)
    <3>1. pc[l] = "giveUp" /\ pc'[l] = "status" /\ UNCHANGED <<attempts, lastError>>
      BY <2>4 DEF GiveUp, Goto, TypeOK
    <3>2. Cause'
      BY <2>2, <2>4, <3>1 DEF CauseInv, Cause
    <3> QED BY <2>2, <2>4, <3>1, <3>2 DEF CauseInv
  <2>5. CASE Connected(l) \/ ResetLoop(l)
    <3>1. state' # "failed" /\ pc'[l] # "giveUp"
      BY <2>5 DEF Connected, ResetLoop, Reset, Goto, TypeOK
    <3> QED BY <2>2, <2>5, <3>1 DEF CauseInv
  <2>6. CASE ~CountFailure(l) /\ ~GiveUp(l) /\ ~Connected(l) /\ ~ResetLoop(l)
    <3>1. UNCHANGED <<attempts, lastError>> /\ (state' = "failed" => state = "failed")
      BY <1>1, <2>6
      DEF RunStep, PingStep, LoopTop, StartAttempt, FetchServer, DialSucceeds, DialFails,
          Backoff, ReadStatus, ArmKeepalive, Lost, Tick, PingReturns, CountPingFailure,
          FireReconnect, KeepaliveEnds, reconVars
    <3>2. pc'[l] # "giveUp" /\ (pc[l] = "status" /\ state = "failed" => pc'[l] = "exit")
      BY <1>1, <2>6
      DEF RunStep, PingStep, LoopTop, StartAttempt, FetchServer, DialSucceeds, DialFails,
          Backoff, ReadStatus, ArmsKeepalive, ArmKeepalive, Lost, Tick, PingReturns,
          CountPingFailure, FireReconnect, KeepaliveEnds, Goto, TypeOK, Errors
    <3>3. Alive(l)' => Alive(l) /\ pc'[l] # "exit"
      BY <2>1 DEF Alive
    <3> QED BY <2>1, <3>1, <3>2, <3>3 DEF CauseInv, Cause
  <2> QED BY <2>3, <2>4, <2>5, <2>6
<1>2. ASSUME NEW c \in Callers, CallStep(c) \/ CallBegins(c) PROVE CauseInv'
  <2>1. CASE SpawnLoop(c)
    <3>1. state' # "failed" /\ \A l \in Loops : Alive(l)' => pc'[l] = "top"
      BY <1>2, <2>1, CallMoves DEF SpawnLoop, Reset
    <3> QED BY <3>1 DEF CauseInv
  <2>2. CASE ~SpawnLoop(c)
    <3>1. UNCHANGED reconVars
      BY <1>2, <2>2
      DEF CallStep, CallBegins, StopLoop, HangUp, TestStatus, DropClient, CancelOldLoop,
          RenewContext, BeginRemove, BeginTrigger, BeginReconnect
    <3>2. \A l \in Loops : Alive(l)' => Alive(l) /\ pc'[l] = pc[l]
      BY <1>2, <2>2, CallMoves
    <3> QED BY <3>1, <3>2 DEF CauseInv, Cause, reconVars
  <2> QED BY <2>1, <2>2
<1>3. CASE Break \/ UNCHANGED vars
  BY <1>3 DEF Break, vars, reconVars, cancelVars, loopVars, CauseInv, Cause, Alive
<1> QED BY <1>1, <1>2, <1>3 DEF Next

LEMMA ReconnectInit == Init => TransportInv /\ WatchInv /\ CountInv /\ CauseInv
BY PoolAssumption DEF Init, TransportInv, WatchInv, CountInv, CauseInv

\* ReplacedTransportIsClosed: any number of reconnects leaks no transport, but
\* for a dial that succeeds when its loop is stopped or about to be.
THEOREM OnlyLateDialsLeak ==
    ASSUME OneCaller
    PROVE  Spec /\ [][~LateDial]_vars => []ReplacedTransportIsClosed
<1>1. TypeOK /\ TenderInv /\ TransportInv /\ [Next]_vars /\ [~LateDial]_vars => TransportInv'
  <2>1. CASE UNCHANGED vars
    BY <2>1 DEF vars, TransportInv, Alive
  <2> QED BY <2>1, TransportStep
<1>2. TransportInv => ReplacedTransportIsClosed
  BY DEF TransportInv, ReplacedTransportIsClosed
<1> QED BY <1>1, <1>2, ReconnectInit, Tended, PTL DEF Spec

\* ConnectedIsTended: however often it is reconnected, a connection shown as
\* connected has its loop, unless a stopped one reports that it connected.
THEOREM OnlyLateConnectsAreUntended ==
    ASSUME OneCaller
    PROVE  Spec /\ [][~LateConnect]_vars => []ConnectedIsTended
<1>1. TypeOK /\ TenderInv /\ WatchInv /\ [Next]_vars /\ [~LateConnect]_vars => WatchInv'
  <2>1. CASE UNCHANGED vars
    BY <2>1 DEF vars, WatchInv, Alive
  <2> QED BY <2>1, WatchStep
<1>2. WatchInv => ConnectedIsTended
  BY DEF WatchInv, ConnectedIsTended, Quiet
<1> QED BY <1>1, <1>2, ReconnectInit, Tended, PTL DEF Spec

\* The bookkeeping of attempts, as long as no stopped loop counts a failure.
LEMMA Counted ==
    ASSUME OneCaller
    PROVE  Spec /\ [][~LateCount]_vars => []CountInv
<1>1. TypeOK /\ TenderInv /\ CountInv /\ [Next]_vars /\ [~LateCount]_vars => CountInv'
  <2>1. CASE UNCHANGED vars
    BY <2>1 DEF vars, CountInv, Alive
  <2> QED BY <2>1, CountStep
<1> QED BY <1>1, ReconnectInit, Tended, PTL DEF Spec

\* RetriesBounded: each loop has its MaxAttempts and no more, unless a stopped one
\* counts a failure against it.
THEOREM OnlyLateFailuresOvercount ==
    ASSUME OneCaller
    PROVE  Spec /\ [][~LateCount]_vars => []RetriesBounded
<1>1. CountInv => RetriesBounded
  BY DEF CountInv, RetriesBounded
<1> QED BY <1>1, Counted, PTL

\* Stopped loops leave the Reconnector alone.
NoLateReport == ~LateConnect /\ ~LateCount /\ ~LateVerdict

LEMMA Caused ==
    ASSUME OneCaller
    PROVE  Spec /\ [][NoLateReport]_vars => [](TypeOK /\ TenderInv /\ CauseInv)
<1>1. /\ TypeOK /\ TenderInv /\ CountInv /\ CauseInv /\ [Next]_vars /\ [NoLateReport]_vars
      => CauseInv'
  <2>1. CASE UNCHANGED vars
    BY <2>1 DEF vars, CauseInv, Cause, Alive
  <2> QED BY <2>1, CauseStep DEF NoLateReport
<1>2. [NoLateReport]_vars => [~LateCount]_vars
  BY DEF NoLateReport
<1> QED BY <1>1, <1>2, Counted, ReconnectInit, Tended, PTL DEF Spec

\* FailedForCause: however often it is reconnected, `failed` has its cause on
\* record, if stopped loops leave the Reconnector alone.
THEOREM OnlyLateReportsFailWithoutCause ==
    ASSUME OneCaller
    PROVE  Spec /\ [][NoLateReport]_vars => []FailedForCause
<1>1. CauseInv => FailedForCause
  BY DEF CauseInv, Cause, FailedForCause
<1> QED BY <1>1, Caused, PTL

\* FailedIsFinal: under the same condition only Reconnect leads out of `failed`.
THEOREM OnlyReconnectLeavesFailed ==
    ASSUME OneCaller
    PROVE  Spec /\ [][NoLateReport]_vars => FailedIsFinal
<1>1. ASSUME TypeOK, TenderInv, CauseInv, Next, NoLateReport, state = "failed",
             state' # "failed"
      PROVE  \E c \in Callers : call[c] = "spawn" /\ call'[c] = "idle"
  <2>1. ASSUME NEW l \in Loops, RunStep(l) \/ PingStep(l) \/ KeepaliveEnds(l) PROVE FALSE
    <3>1. l \notin ctxDone /\ pc[l] \in {"run", "dialled", "reset"}
      BY <1>1, <2>1
      DEF RunStep, PingStep, LoopTop, StartAttempt, FetchServer, DialSucceeds, DialFails,
          Connected, CountFailure, GiveUp, Backoff, ReadStatus, ArmKeepalive, Lost, ResetLoop,
          Tick, PingReturns, CountPingFailure, FireReconnect, KeepaliveEnds, Goto, reconVars,
          NoLateReport, LateConnect, LateVerdict
    <3> QED BY <1>1, <3>1 DEF CauseInv, Alive
  <2>2. ASSUME NEW c \in Callers, CallStep(c) \/ CallBegins(c)
        PROVE  call[c] = "spawn" /\ call'[c] = "idle"
    BY <1>1, <2>2
    DEF CallStep, CallBegins, StopLoop, HangUp, TestStatus, DropClient, CancelOldLoop,
        RenewContext, SpawnLoop, BeginRemove, BeginTrigger, BeginReconnect, Move, reconVars, TypeOK
  <2> QED BY <1>1, <2>1, <2>2 DEF Next, Break, reconVars
<1>2. /\ TypeOK /\ TenderInv /\ CauseInv /\ [Next]_vars /\ [NoLateReport]_vars
      => [state = "failed" /\ state' # "failed" =>
              \E c \in Callers : call[c] = "spawn" /\ call'[c] = "idle"]_vars
  BY <1>1
<1> QED BY <1>2, Caused, PTL DEF Spec, FailedIsFinal

-----------------------------------------------------------------------------
(* Liveness: a stopped loop ends.  Fairness is stated by the guard of each     *)
(* action, since ENABLED is not for the provers: what else an action of these  *)
(* says only gives its primed variables their values.                          *)

PingSteps == {"keepalive", "ping", "failed", "fire"}
RunSteps  == LoopSteps \ (PingSteps \cup {"off", "new", "exit"})

\* LoopFairness(l): a goroutine that stands at a step takes it, and `select` picks
\* the end of the keepalive if it is there to be picked again and again.
Scheduled(l) ==
    /\ []<>(pc[l] \notin RunSteps) \/ []<><<RunStep(l)>>_vars
    /\ []<>(pc[l] \notin PingSteps) \/ []<><<PingStep(l)>>_vars
    /\ <>[]~(pc[l] = "keepalive" /\ KeepaliveOver(l)) \/ []<><<KeepaliveEnds(l)>>_vars

Schedule == \A l \in Loops : Scheduled(l)

\* Loop l is stopped and stands at one of the steps S.
Stopped(l, S) == l \in ctxDone /\ pc[l] \in S

\* Where a stopped loop goes from each of its steps, and a keepalive from each
\* of its own until it ends.
Hops == {"top", "lost"} \X {"exit"}
        \cup {"reset"} \X {"top"} \cup {"arm"} \X {"keepalive"}
        \cup {"status"} \X {"arm", "exit"} \cup {"run", "giveUp", "dialled"} \X {"status"}
        \cup {"sleep"} \X {"run", "status"} \cup Errors \X {"giveUp", "sleep"}
        \cup {"fetch", "dial"} \X (Errors \cup {"dialled"})

PingHops == {"keepalive"} \X {"ping", "failed"} \cup {"ping"} \X {"keepalive", "failed"}
            \cup {"failed"} \X {"keepalive", "fire"} \cup {"fire"} \X {"keepalive"}

LEMMA RunMoves ==
    ASSUME TypeOK, NEW l \in Loops, l \in ctxDone, RunStep(l)
    PROVE  <<pc[l], pc'[l]>> \in Hops
BY DEF RunStep, LoopTop, StartAttempt, FetchServer, DialSucceeds, DialFails, Connected,
       CountFailure, GiveUp, Backoff, ReadStatus, ArmKeepalive, Lost, ResetLoop, Goto, TypeOK,
       Errors, Hops

LEMMA PingMoves ==
    ASSUME TypeOK, NEW l \in Loops, PingStep(l)
    PROVE  <<pc[l], pc'[l]>> \in PingHops
BY DEF PingStep, Tick, PingReturns, CountPingFailure, FireReconnect, Goto, TypeOK, PingHops

\* Nobody else moves a loop that has started, nor takes its cancellation back.
LEMMA StoppedMoves ==
    ASSUME TypeOK, LocalInv, NEW l \in Loops, l \in ctxDone, pc[l] \notin {"off", "new"},
           [Next]_vars
    PROVE  /\ l \in ctxDone'
           /\ \/ pc'[l] = pc[l]
              \/ <<pc[l], pc'[l]>> \in Hops \cup PingHops
              \/ pc[l] = "keepalive" /\ pc'[l] = "lost"
<1>1. ASSUME NEW m \in Loops, RunStep(m) \/ PingStep(m) \/ KeepaliveEnds(m)
      PROVE  /\ l \in ctxDone'
             /\ \/ pc'[l] = pc[l]
                \/ <<pc[l], pc'[l]>> \in Hops \cup PingHops
                \/ pc[l] = "keepalive" /\ pc'[l] = "lost"
  <2>1. UNCHANGED ctxDone /\ (m # l => pc'[l] = pc[l])
    BY <1>1, LoopMoves
  <2>2. KeepaliveEnds(l) => pc[l] = "keepalive" /\ pc'[l] = "lost"
    BY DEF KeepaliveEnds, Goto, TypeOK
  <2> QED BY <1>1, <2>1, <2>2, RunMoves, PingMoves
<1>2. ASSUME NEW c \in Callers, CallStep(c) \/ CallBegins(c)
      PROVE  l \in ctxDone' /\ pc'[l] = pc[l]
  <2>1. ctxDone \subseteq ctxDone'
    BY <1>2
    DEF CallStep, CallBegins, StopLoop, HangUp, TestStatus, DropClient, CancelOldLoop,
        StopOldLoop, RenewContext, SpawnLoop, BeginRemove, BeginTrigger, BeginReconnect, cancelVars
  <2>2. \/ UNCHANGED pc
        \/ \E m \in Loops \cup {None} : pc[m] \in {"off", "new"} /\ \E to \in {"new", "top"} :
              pc' = [pc EXCEPT ![m] = to]
    BY <1>2
    DEF CallStep, CallBegins, StopLoop, HangUp, TestStatus, DropClient, CancelOldLoop,
        RenewContext, SpawnLoop, BeginRemove, BeginTrigger, BeginReconnect, loopVars, Goto, TypeOK
  <2> QED BY <2>1, <2>2 DEF TypeOK
<1>3. CASE Break \/ UNCHANGED vars
  BY <1>3 DEF Break, vars, cancelVars, loopVars
<1> QED BY <1>1, <1>2, <1>3 DEF Next

\* A loop that is stopped at one of From is in the end at one of To.
Leads(l, From, To) == Stopped(l, From) ~> Stopped(l, To)

\* What a loop is promised.
Runs(l) == [][Next]_vars /\ [](TypeOK /\ LocalInv) /\ Scheduled(l)

\* If every hop from the steps From leads to one of To, the loop gets there.
LEMMA StoppedHops ==
    ASSUME NEW l \in Loops, NEW From \in SUBSET RunSteps, NEW To,
           \A a \in From : \A b : <<a, b>> \in Hops => b \in To
    PROVE  Runs(l) => Leads(l, From, To)
<1>1. TypeOK /\ LocalInv /\ Stopped(l, From) /\ [Next]_vars
      => Stopped(l, From)' \/ Stopped(l, To)'
  BY StoppedMoves DEF Stopped, RunSteps, PingSteps, PingHops
<1>2. TypeOK /\ Stopped(l, From) /\ <<RunStep(l)>>_vars => Stopped(l, To)'
  BY RunMoves, LoopMoves DEF Stopped
<1>3. Stopped(l, From) => ~(pc[l] \notin RunSteps)
  BY DEF Stopped
<1> QED BY <1>1, <1>2, <1>3, PTL DEF Runs, Scheduled, Leads

\* The same for its keepalive, which may end meanwhile.
LEMMA PingingHops ==
    ASSUME NEW l \in Loops, NEW From \in SUBSET PingSteps, NEW To,
           \A a \in From : \A b : <<a, b>> \in PingHops => b \in To
    PROVE  Runs(l) => Leads(l, From, To \cup {"lost"})
<1>1. TypeOK /\ LocalInv /\ Stopped(l, From) /\ [Next]_vars
      => Stopped(l, From)' \/ Stopped(l, To \cup {"lost"})'
  BY StoppedMoves DEF Stopped, PingSteps, Hops, Errors
<1>2. TypeOK /\ Stopped(l, From) /\ <<PingStep(l)>>_vars => Stopped(l, To \cup {"lost"})'
  BY PingMoves, LoopMoves DEF Stopped
<1>3. Stopped(l, From) => ~(pc[l] \notin PingSteps)
  BY DEF Stopped
<1> QED BY <1>1, <1>2, <1>3, PTL DEF Runs, Scheduled, Leads

\* A keepalive comes back to its select from wherever it stands, and each time it
\* may see that the context is cancelled: in the end it does.
LEMMA KeepaliveGivesWay ==
    ASSUME NEW l \in Loops
    PROVE  Runs(l) => Leads(l, PingSteps, {"lost"})
<1>1. Runs(l) => Leads(l, {"fire"}, {"keepalive"} \cup {"lost"})
  BY PingingHops DEF PingSteps, PingHops
<1>2. Runs(l) => Leads(l, {"failed"}, {"keepalive", "fire"} \cup {"lost"})
  BY PingingHops DEF PingSteps, PingHops
<1>3. Runs(l) => Leads(l, {"ping"}, {"keepalive", "failed"} \cup {"lost"})
  BY PingingHops DEF PingSteps, PingHops
<1>4. /\ Stopped(l, {"keepalive"} \cup {"lost"})
         => Stopped(l, {"keepalive"}) \/ Stopped(l, {"lost"})
      /\ Stopped(l, {"keepalive", "fire"} \cup {"lost"})
         => Stopped(l, {"keepalive"}) \/ Stopped(l, {"fire"}) \/ Stopped(l, {"lost"})
      /\ Stopped(l, {"keepalive", "failed"} \cup {"lost"})
         => Stopped(l, {"keepalive"}) \/ Stopped(l, {"failed"}) \/ Stopped(l, {"lost"})
      /\ Stopped(l, PingSteps)
         => \/ Stopped(l, {"keepalive"}) \/ Stopped(l, {"ping"})
            \/ Stopped(l, {"failed"}) \/ Stopped(l, {"fire"})
      /\ Stopped(l, {"keepalive"}) => Stopped(l, PingSteps)
  BY DEF Stopped, PingSteps
<1>5. Runs(l) => (Stopped(l, PingSteps) ~> (Stopped(l, {"keepalive"}) \/ Stopped(l, {"lost"})))
  BY <1>1, <1>2, <1>3, <1>4, PTL DEF Leads
<1>6. TypeOK /\ LocalInv /\ Stopped(l, PingSteps) /\ [Next]_vars
      => Stopped(l, PingSteps)' \/ Stopped(l, {"lost"})'
  BY StoppedMoves DEF Stopped, PingSteps, PingHops, Hops, Errors
<1>7. TypeOK /\ Stopped(l, PingSteps) /\ <<KeepaliveEnds(l)>>_vars => Stopped(l, {"lost"})'
  BY LoopMoves DEF KeepaliveEnds, Goto, Stopped, TypeOK
<1>8. Stopped(l, {"keepalive"}) => pc[l] = "keepalive" /\ KeepaliveOver(l)
  BY DEF Stopped, KeepaliveOver
<1> QED BY <1>4, <1>5, <1>6, <1>7, <1>8, PTL DEF Runs, Scheduled, Leads

\* A loop that has been started and is stopped ends, wherever it stands and
\* however many callers work on the connection.
LEMMA StartedLoopEnds ==
    ASSUME NEW l \in Loops
    PROVE  Runs(l) => Leads(l, LoopSteps \ {"off", "new"}, {"exit"})
<1> USE DEF Hops, RunSteps, PingSteps, LoopSteps, Errors
<1>1. Runs(l) => Leads(l, {"top", "lost"}, {"exit"})
  BY StoppedHops
<1>2. Runs(l) => Leads(l, {"reset"}, {"top"})
  BY StoppedHops
<1>3. Runs(l) => Leads(l, {"arm"}, {"keepalive"})
  BY StoppedHops
<1>4. Runs(l) => Leads(l, {"status"}, {"arm", "exit"})
  BY StoppedHops
<1>5. Runs(l) => Leads(l, {"run", "giveUp", "dialled"}, {"status"})
  BY StoppedHops
<1>6. Runs(l) => Leads(l, {"sleep"}, {"run", "status"})
  BY StoppedHops
<1>7. Runs(l) => Leads(l, Errors, {"giveUp", "sleep"})
  BY StoppedHops
<1>8. Runs(l) => Leads(l, {"fetch", "dial"}, Errors \cup {"dialled"})
  BY StoppedHops
<1>9. /\ Stopped(l, {"top"}) => Stopped(l, {"top", "lost"})
      /\ Stopped(l, {"lost"}) => Stopped(l, {"top", "lost"})
      /\ Stopped(l, {"keepalive"}) => Stopped(l, PingSteps)
      /\ Stopped(l, {"arm", "exit"}) => Stopped(l, {"arm"}) \/ Stopped(l, {"exit"})
      /\ Stopped(l, {"run", "status"})
         => Stopped(l, {"run", "giveUp", "dialled"}) \/ Stopped(l, {"status"})
      /\ Stopped(l, {"giveUp", "sleep"})
         => Stopped(l, {"run", "giveUp", "dialled"}) \/ Stopped(l, {"sleep"})
      /\ Stopped(l, Errors \cup {"dialled"})
         => Stopped(l, {"run", "giveUp", "dialled"}) \/ Stopped(l, Errors)
  BY DEF Stopped
<1>10. Stopped(l, LoopSteps \ {"off", "new"})
       => \/ Stopped(l, {"top", "lost"}) \/ Stopped(l, {"reset"}) \/ Stopped(l, {"arm"})
          \/ Stopped(l, {"status"}) \/ Stopped(l, {"run", "giveUp", "dialled"})
          \/ Stopped(l, {"sleep"}) \/ Stopped(l, Errors) \/ Stopped(l, {"fetch", "dial"})
          \/ Stopped(l, PingSteps) \/ Stopped(l, {"exit"})
  BY DEF Stopped
<1> QED BY <1>1, <1>2, <1>3, <1>4, <1>5, <1>6, <1>7, <1>8, <1>9, <1>10, KeepaliveGivesWay, PTL
   DEF Leads

LEMMA FairRuns == ASSUME NEW l \in Loops PROVE Spec /\ Schedule => Runs(l)
<1>1. Schedule => Scheduled(l)
  BY DEF Schedule
<1> QED BY <1>1, TypeCorrect, PingsBounded, PTL DEF Spec, Runs

\* A loop that was started and is stopped ends, wherever it stands, for any number
\* of overlapping calls.
THEOREM StoppedLoopEnds ==
    Spec /\ Schedule
    => \A l \in Loops : (l \in ctxDone /\ pc[l] \notin {"off", "new"}) ~> (pc[l] = "exit")
<1> SUFFICES ASSUME NEW l \in Loops
             PROVE  Spec /\ Schedule
                    => ((l \in ctxDone /\ pc[l] \notin {"off", "new"}) ~> (pc[l] = "exit"))
  OBVIOUS
<1>1. /\ TypeOK /\ l \in ctxDone /\ pc[l] \notin {"off", "new"}
         => Stopped(l, LoopSteps \ {"off", "new"})
      /\ Stopped(l, {"exit"}) => pc[l] = "exit"
  BY DEF Stopped, TypeOK
<1> QED BY <1>1, FairRuns, StartedLoopEnds, TypeCorrect, PTL DEF Leads

\* CancelledLoopEnds: with calls made one at a time, no loop is stopped before it
\* has started, and each one that is stopped ends.
THEOREM CancelledEnds ==
    ASSUME OneCaller
    PROVE  Spec /\ Schedule => CancelledLoopEnds
<1> SUFFICES ASSUME NEW l \in Loops
             PROVE  Spec /\ Schedule => ((l \in ctxDone) ~> (pc[l] = "exit"))
  BY DEF CancelledLoopEnds
<1>1. /\ TypeOK /\ TenderInv /\ l \in ctxDone => Stopped(l, LoopSteps \ {"off", "new"})
      /\ Stopped(l, {"exit"}) => pc[l] = "exit"
  BY DEF Stopped, TypeOK, TenderInv
<1> QED BY <1>1, FairRuns, StartedLoopEnds, Tended, PTL DEF Leads

=============================================================================
