--------------------------- MODULE BatchRunProofs ---------------------------
(* Theorems about BatchRun for every value of its constants.               *)
EXTENDS BatchRun, TLAPS

-----------------------------------------------------------------------------
(* Operators.                                                              *)

LEMMA StatusTyped ==
    ASSUME NEW res \in Result, NEW st \in Status
    PROVE  /\ [res EXCEPT !.st = st] \in Result
           /\ [res EXCEPT !.st = st].st = st
           /\ res.st \in Status
BY DEF Result

LEMMA ConstantResults ==
    /\ Absent \in Result /\ Fresh \in Result
    /\ Absent.st = "none" /\ Fresh.st = "pending"
<1>1. Absent \in Result /\ Absent.st = "none"
  <2>1. 0 \in 0..OutCap
    BY ConstantsAssumption
  <2> QED BY <2>1 DEF Result, Absent, Status
<1>2. "pending" \in Status
  BY DEF Status, Unfinished
<1> QED BY <1>1, <1>2, StatusTyped DEF Fresh

LEMMA AppendTyped ==
    ASSUME NEW res \in Result
    PROVE  /\ AppendOutput(res) \in Result
           /\ AppendOutput(res).st = res.st
<1>1. CASE res.trunc
  BY <1>1 DEF AppendOutput
<1>2. CASE ~res.trunc /\ res.out < OutCap
  <2>1. AppendOutput(res) = [res EXCEPT !.out = @ + 1]
    BY <1>2 DEF AppendOutput
  <2>2. res.out + 1 \in 0..OutCap
    BY <1>2, ConstantsAssumption DEF Result
  <2> QED BY <2>1, <2>2 DEF Result
<1>3. CASE ~res.trunc /\ ~(res.out < OutCap)
  <2>1. AppendOutput(res) = [res EXCEPT !.trunc = TRUE]
    BY <1>3 DEF AppendOutput
  <2> QED BY <2>1 DEF Result
<1> QED BY <1>1, <1>2, <1>3

LEMMA BroadcastTyped ==
    ASSUME TypeOK, NEW e \in Execs, NEW kind \in Status \cup {"output"},
           Broadcast(e, kind)
    PROVE  last' \in [Clients -> [Servers -> Event]]
BY DEF TypeOK, Broadcast, Event, Execs

LEMMA PersistTyped ==
    ASSUME TypeOK, NEW e \in Execs, NEW res \in Result, PersistOrFail(e, res)
    PROVE  row' \in [Execs -> Result]
BY DEF TypeOK, PersistOrFail, Persist

-----------------------------------------------------------------------------
(* Typing.                                                                 *)

Channel == [st : {"free", "checked", "open", "closed"},
            run : Runs \cup {NoRun}]

LEMMA EventTyped == NoEvent \in Event
BY DEF NoEvent, Event, Status

LEMMA FailureTyped ==
    ASSUME TypeOK, NEW e \in Execs, NEW why \in {"error", "cancelled"},
           FinalizeFailed(e, why)
    PROVE  result' \in [Execs -> Result]
<1>1. FailureStatus(e, why) \in Status
  BY DEF FailureStatus, Status, Finished
<1>2. [result[e] EXCEPT !.st = FailureStatus(e, why)] \in Result
  BY <1>1, StatusTyped DEF TypeOK
<1> QED BY <1>2 DEF FinalizeFailed, TypeOK

LEMMA TypeInductive == TypeOK /\ [Next]_vars => TypeOK'
<1> SUFFICES ASSUME TypeOK, [Next]_vars
             PROVE  TypeOK'
  OBVIOUS
<1> USE DEF Phases, Steps, Goto, At
<1>1. ASSUME NEW r \in Runs, DispatchCheck(r)
      PROVE  TypeOK'
  BY <1>1 DEF DispatchCheck, TypeOK, bootVars, runVars, execVars, procVars, dbVars, subVars
<1>2. ASSUME NEW r \in Runs, NEW targets \in SUBSET Servers, Replace(r, targets)
      PROVE  TypeOK'
  <2>1. row' \in [Execs -> Result] /\ result' \in [Execs -> Result]
    BY <1>2, ConstantResults DEF TypeOK, Replace
  <2> QED BY <1>2, <2>1
    DEF Replace, TypeOK, bootVars, runVars, execVars, procVars, dbVars, subVars
<1>3. ASSUME NEW r \in Runs, ReplaceRefused(r)
      PROVE  TypeOK'
  BY <1>3 DEF ReplaceRefused, TypeOK, bootVars, runVars, execVars, procVars, dbVars, subVars
<1>4. ASSUME NEW r \in Runs, GoLive(r)
      PROVE  TypeOK'
  BY <1>4 DEF GoLive, TypeOK, bootVars, runVars, execVars, procVars, dbVars, subVars
<1>5. ASSUME NEW r \in Runs, Settle(r)
      PROVE  TypeOK'
  BY <1>5 DEF Settle, TypeOK, bootVars, runVars, execVars, procVars, dbVars, subVars, SetDone,
     SetDoneOrFail
<1>6. ASSUME NEW r \in Runs, MarkDone(r)
      PROVE  TypeOK'
  BY <1>6 DEF MarkDone, TypeOK, bootVars, runVars, execVars, procVars, dbVars, subVars
<1>7. ASSUME NEW r \in Runs, CloseStreams(r)
      PROVE  TypeOK'
  <2>1. chan' \in [Clients -> Channel]
    BY <1>7, ZenonT(30) DEF TypeOK, CloseStreams, Channel
  <2> QED BY <1>7, <2>1
    DEF CloseStreams, TypeOK, bootVars, runVars, execVars, procVars, dbVars, subVars, Channel
<1>8. ASSUME NEW r \in Runs, CloseSessions(r)
      PROVE  TypeOK'
  BY <1>8 DEF CloseSessions, TypeOK, bootVars, runVars, execVars, procVars, dbVars, subVars,
     CloseSession
<1>9. ASSUME NEW e \in Execs, Begin(e)
      PROVE  TypeOK'
  <2>1. [result[e] EXCEPT !.st = "running"] \in Result
    BY <1>9, StatusTyped DEF TypeOK, Status, Unfinished
  <2>2. row' \in [Execs -> Result]
    BY <1>9, PersistTyped, <2>1 DEF TypeOK, Begin
  <2>3. result' \in [Execs -> Result]
    BY <1>9, <2>1 DEF TypeOK, Begin
  <2> QED BY <1>9, <2>1, <2>2, <2>3
    DEF Begin, TypeOK, bootVars, runVars, execVars, procVars, dbVars, subVars
<1>10. ASSUME NEW e \in Execs, AnnounceRunning(e)
      PROVE  TypeOK'
  <2>1. result[e] \in Result /\ result[e].st \in Status
    BY <1>10 DEF TypeOK, Result
  <2>2. last' \in [Clients -> [Servers -> Event]]
    BY <1>10, <2>1, BroadcastTyped DEF TypeOK, AnnounceRunning
  <2> QED BY <1>10, <2>1, <2>2
    DEF AnnounceRunning, TypeOK, bootVars, runVars, execVars, procVars, dbVars, subVars
<1>11. ASSUME NEW e \in Execs, WriteScript(e)
      PROVE  TypeOK'
  <2>1. result' \in [Execs -> Result]
    BY <1>11, FailureTyped DEF TypeOK, WriteScript
  <2> QED BY <1>11, <2>1
    DEF WriteScript, TypeOK, bootVars, runVars, execVars, procVars, dbVars, subVars, FinalizeFailed
<1>12. ASSUME NEW e \in Execs, OpenCommand(e)
      PROVE  TypeOK'
  <2>1. result' \in [Execs -> Result]
    BY <1>12, FailureTyped DEF TypeOK, OpenCommand
  <2> QED BY <1>12, <2>1
    DEF OpenCommand, TypeOK, bootVars, runVars, execVars, procVars, dbVars, subVars, FinalizeFailed
<1>13. ASSUME NEW e \in Execs, Register(e)
      PROVE  TypeOK'
  BY <1>13 DEF Register, TypeOK, bootVars, runVars, execVars, procVars, dbVars, subVars
<1>14. ASSUME NEW e \in Execs, CheckCancelled(e)
      PROVE  TypeOK'
  <2>1. result' \in [Execs -> Result]
    BY <1>14, FailureTyped DEF TypeOK, CheckCancelled
  <2>2. reader' \in [Execs -> {"off", "on", "eof"}]
    BY <1>14 DEF TypeOK, CheckCancelled
  <2> QED BY <1>14, <2>1, <2>2
    DEF CheckCancelled, TypeOK, bootVars, runVars, execVars, procVars, dbVars, subVars,
        FinalizeFailed, CloseSession
<1>15. ASSUME NEW e \in Execs, WaitReturns(e)
      PROVE  TypeOK'
  BY <1>15 DEF WaitReturns, TypeOK, bootVars, runVars, execVars, procVars, dbVars, subVars
<1>16. ASSUME NEW e \in Execs, Decide(e)
      PROVE  TypeOK'
  <2>1. \A st \in {"success", "exit"} : [result[e] EXCEPT !.st = st] \in Result
    BY <1>16, StatusTyped DEF TypeOK, Status, Finished
  <2>2. result' \in [Execs -> Result]
    <3>1. CASE e[1] \in cancelled \/ proc[e] = "closed"
      BY <1>16, <3>1, FailureTyped DEF Decide
    <3>2. CASE ~(e[1] \in cancelled \/ proc[e] = "closed")
      BY <1>16, <3>2, <2>1 DEF Decide, TypeOK
    <3> QED BY <3>1, <3>2
  <2> QED BY <1>16, <2>1, <2>2
    DEF Decide, TypeOK, bootVars, runVars, execVars, procVars, dbVars, subVars, FinalizeFailed
<1>17. ASSUME NEW e \in Execs, PersistOutcome(e)
      PROVE  TypeOK'
  <2>1. [result[e] EXCEPT !.st = "unpersisted"] \in Result
    BY <1>17, StatusTyped, ZenonT(30) DEF TypeOK, Status, Finished
  <2>2. result' \in [Execs -> Result]
    BY <1>17, <2>1 DEF TypeOK, PersistOutcome
  <2>3. row' \in [Execs -> Result]
    BY <1>17 DEF TypeOK, PersistOutcome, Persist
  <2> QED BY <1>17, <2>1, <2>2, <2>3
    DEF PersistOutcome, TypeOK, bootVars, runVars, execVars, procVars, dbVars, subVars
<1>18. ASSUME NEW e \in Execs, PersistFailed(e)
      PROVE  TypeOK'
  <2>1. row' \in [Execs -> Result]
    BY <1>18, PersistTyped DEF TypeOK, PersistFailed
  <2> QED BY <1>18, <2>1
    DEF PersistFailed, TypeOK, bootVars, runVars, execVars, procVars, dbVars, subVars
<1>19. ASSUME NEW e \in Execs, EmitVerdict(e)
      PROVE  TypeOK'
  <2>1. result[e] \in Result /\ result[e].st \in Status
    BY <1>19 DEF TypeOK, Result
  <2>2. last' \in [Clients -> [Servers -> Event]]
    BY <1>19, <2>1, BroadcastTyped DEF TypeOK, EmitVerdict
  <2> QED BY <1>19, <2>1, <2>2
    DEF EmitVerdict, TypeOK, bootVars, runVars, execVars, procVars, dbVars, subVars
<1>20. ASSUME NEW e \in Execs, Cleanup(e)
      PROVE  TypeOK'
  <2>1. unread' \in [Execs -> 0..PipeCap]
    BY <1>20, ConstantsAssumption DEF TypeOK, Cleanup
  <2>2. result' \in [Execs -> Result]
    BY <1>20, ConstantResults DEF TypeOK, Cleanup
  <2> QED BY <1>20, <2>1, <2>2
    DEF Cleanup, TypeOK, bootVars, runVars, execVars, procVars, dbVars, subVars
<1>21. ASSUME NEW e \in Execs, ReadChunk(e)
      PROVE  TypeOK'
  <2>1. unread' \in [Execs -> 0..PipeCap]
    BY <1>21, ConstantsAssumption DEF TypeOK, ReadChunk
  <2>2. result[e] \in Result /\ AppendOutput(result[e]) \in Result
    BY <1>21, AppendTyped DEF TypeOK
  <2>3. row' \in [Execs -> Result] /\ result' \in [Execs -> Result]
    BY <1>21, <2>2 DEF TypeOK, ReadChunk, Persist
  <2>4. last' \in [Clients -> [Servers -> Event]]
    BY <1>21, BroadcastTyped DEF TypeOK, ReadChunk
  <2> QED BY <1>21, <2>1, <2>2, <2>3, <2>4
    DEF ReadChunk, TypeOK, bootVars, runVars, execVars, procVars, dbVars, subVars
<1>22. ASSUME NEW e \in Execs, ReadEOF(e)
      PROVE  TypeOK'
  BY <1>22 DEF ReadEOF, TypeOK, bootVars, runVars, execVars, procVars, dbVars, subVars
<1>23. ASSUME NEW e \in Execs, Input(e)
      PROVE  TypeOK'
  BY <1>23 DEF Input, TypeOK, bootVars, runVars, execVars, procVars, dbVars, subVars
<1>24. ASSUME NEW e \in Execs, ProcStep(e)
      PROVE  TypeOK'
  <2>1. unread' \in [Execs -> 0..PipeCap]
    BY <1>24, ConstantsAssumption DEF TypeOK, ProcStep
  <2> QED BY <1>24, <2>1
    DEF ProcStep, TypeOK, bootVars, runVars, execVars, procVars, dbVars, subVars
<1>25. ASSUME NEW e \in Execs, FinalizeStaleRow(e)
      PROVE  TypeOK'
  <2>1. e \in Execs /\ [row[e] EXCEPT !.st = "interrupted"] \in Result
    BY <1>25, StatusTyped DEF TypeOK, Status, Finished
  <2>2. row' \in [Execs -> Result]
    BY <1>25, PersistTyped, <2>1 DEF TypeOK, FinalizeStaleRow
  <2> QED BY <1>25, <2>1, <2>2
    DEF FinalizeStaleRow, TypeOK, bootVars, runVars, execVars, procVars, dbVars, subVars
<1>26. ASSUME NEW c \in Clients, SubscribeCheck(c)
      PROVE  TypeOK'
  <2>1. chan' \in [Clients -> Channel]
    BY <1>26 DEF TypeOK, SubscribeCheck, Channel
  <2> QED BY <1>26, <2>1
    DEF SubscribeCheck, TypeOK, bootVars, runVars, execVars, procVars, dbVars, subVars, Channel
<1>27. ASSUME NEW c \in Clients, SubscribeRegister(c)
      PROVE  TypeOK'
  <2>1. chan' \in [Clients -> Channel]
    BY <1>27 DEF TypeOK, SubscribeRegister, Channel
  <2> QED BY <1>27, <2>1
    DEF SubscribeRegister, TypeOK, bootVars, runVars, execVars, procVars, dbVars, subVars, Channel
<1>28. ASSUME NEW c \in Clients, Unsubscribe(c)
      PROVE  TypeOK'
  <2>1. chan' \in [Clients -> Channel]
    BY <1>28 DEF TypeOK, Unsubscribe, Channel, FreeChan
  <2>2. last' \in [Clients -> [Servers -> Event]]
    BY <1>28, EventTyped DEF TypeOK, Unsubscribe
  <2> QED BY <1>28, <2>1, <2>2
    DEF Unsubscribe, TypeOK, bootVars, runVars, execVars, procVars, dbVars, subVars, Channel
<1>29. ASSUME Cancel
      PROVE  TypeOK'
  BY <1>29 DEF Cancel, TypeOK, bootVars, runVars, execVars, procVars, dbVars, subVars
<1>30. ASSUME Crash
      PROVE  TypeOK'
  <2>1. unread' \in [Execs -> 0..PipeCap] /\ crashes' \in 0..MaxCrashes
    BY <1>30, ConstantsAssumption DEF TypeOK, Crash
  <2>2. chan' \in [Clients -> Channel]
    BY <1>30 DEF TypeOK, Crash, Channel, FreeChan
  <2>3. last' \in [Clients -> [Servers -> Event]]
    BY <1>30, EventTyped DEF TypeOK, Crash
  <2>4. result' \in [Execs -> Result]
    BY <1>30, ConstantResults DEF TypeOK, Crash
  <2> QED BY <1>30, <2>1, <2>2, <2>3, <2>4
    DEF Crash, TypeOK, bootVars, runVars, execVars, procVars, dbVars, subVars, Channel
<1>31. ASSUME Restart
      PROVE  TypeOK'
  BY <1>31 DEF Restart, TypeOK, bootVars, runVars, execVars, procVars, dbVars, subVars, StaleRows
<1>32. ASSUME FinalizeStaleRun
      PROVE  TypeOK'
  BY <1>32 DEF FinalizeStaleRun, TypeOK, bootVars, runVars, execVars, procVars, dbVars, subVars,
     SetDone, SetDoneOrFail
<1>33. CASE UNCHANGED vars
  BY <1>33 DEF vars, TypeOK
<1> QED
  BY <1>1, <1>2, <1>3, <1>4, <1>5, <1>6, <1>7, <1>8, <1>9, <1>10, <1>11, <1>12, <1>13, <1>14, <1>15,
     <1>16, <1>17, <1>18, <1>19, <1>20, <1>21, <1>22, <1>23, <1>24, <1>25, <1>26, <1>27, <1>28,
     <1>29, <1>30, <1>31, <1>32, <1>33
  DEF Next, DispatchStep, RunStep, ExecStep, ReaderStep, ClientStep, BootStep

\* TypeOK: every variable keeps the shape of the Go value it stands for.
THEOREM TypeCorrect == Spec => []TypeOK
<1>1. Init => TypeOK
  BY ConstantsAssumption, ConstantResults, EventTyped
  DEF Init, TypeOK, Phases, Steps, FreeChan
<1> QED BY <1>1, TypeInductive, PTL DEF Spec

-----------------------------------------------------------------------------
(* Serialization.                                                          *)

LEMMA ExecPair ==
    ASSUME NEW e \in Execs
    PROVE  e[1] \in Runs /\ e[2] \in Servers /\ e = <<e[1], e[2]>>
BY DEF Execs

\* A row written for an execution of the retained run is no orphan.
LEMMA PersistKeepsRows ==
    ASSUME TypeOK, NoOrphanRow, NEW e \in Execs, NEW res, e[1] = dbRun,
           row' = row \/ Persist(e, res), dbRun' = dbRun
    PROVE  NoOrphanRow'
BY DEF TypeOK, NoOrphanRow, Persist

\* Whoever executes does so for the retained, running run.
LEMMA ExecutingRun ==
    ASSUME TypeOK, SerialInv, NEW e \in Execs, Executing(e)
    PROVE  /\ e[1] = dbRun /\ dbStatus = "running" /\ mode = "up"
           /\ phase[e[1]] \in {"stored", "live"}
BY ExecPair DEF SerialInv, TypeOK

LEMMA SerialInductive ==
    ASSUME TypeOK, SerialInv, BootInv, [Next]_vars
    PROVE  SerialInv'
<1> USE DEF TypeOK, Goto, At, Executing, bootVars, runVars, execVars, procVars,
            dbVars, subVars
<1>1. ASSUME NEW r \in Runs, DispatchCheck(r)
      PROVE  SerialInv'
  BY <1>1
  DEF DispatchCheck, SerialInv, NoOrphanRow
<1>2. ASSUME NEW r \in Runs, NEW targets \in SUBSET Servers, Replace(r, targets)
      PROVE  SerialInv'
  BY <1>2, ConstantResults
  DEF Replace, StoreAccepts, SerialInv, NoOrphanRow, Execs
<1>3. ASSUME NEW r \in Runs, ReplaceRefused(r)
      PROVE  SerialInv'
  BY <1>3
  DEF ReplaceRefused, SerialInv, NoOrphanRow
<1>4. ASSUME NEW r \in Runs, GoLive(r)
      PROVE  SerialInv'
  BY <1>4
  DEF GoLive, SerialInv, NoOrphanRow
<1>5. ASSUME NEW r \in Runs, Settle(r)
      PROVE  SerialInv'
  <2>1. \A e \in Execs : e[1] = r => pc[e] = "none"
    BY <1>5, ExecPair DEF Settle, AllGone
  <2>2. dbRun = r
    BY <1>5 DEF Settle, SerialInv
  <2> QED BY <1>5, <2>1, <2>2, ExecPair DEF Settle, SerialInv, NoOrphanRow
<1>6. ASSUME NEW r \in Runs, MarkDone(r)
      PROVE  SerialInv'
  BY <1>6
  DEF MarkDone, SerialInv, NoOrphanRow
<1>7. ASSUME NEW r \in Runs, CloseStreams(r)
      PROVE  SerialInv'
  BY <1>7
  DEF CloseStreams, SerialInv, NoOrphanRow
<1>8. ASSUME NEW r \in Runs, CloseSessions(r)
      PROVE  SerialInv'
  BY <1>8
  DEF CloseSessions, CloseSession, SerialInv, NoOrphanRow
<1>9. ASSUME NEW e \in Execs, Begin(e)
      PROVE  SerialInv'
  <2>1. e[1] = dbRun
    BY <1>9, ExecutingRun DEF Begin, Executing, At, SerialInv
  <2>2. NoOrphanRow'
    BY <1>9, <2>1, PersistKeepsRows DEF SerialInv, Begin, PersistOrFail
  <2> QED BY <1>9, <2>2 DEF SerialInv, Begin
<1>10. ASSUME NEW e \in Execs, AnnounceRunning(e)
      PROVE  SerialInv'
  BY <1>10
  DEF AnnounceRunning, SerialInv, NoOrphanRow
<1>11. ASSUME NEW e \in Execs, WriteScript(e)
      PROVE  SerialInv'
  BY <1>11
  DEF WriteScript, FinalizeFailed, SerialInv, NoOrphanRow
<1>12. ASSUME NEW e \in Execs, OpenCommand(e)
      PROVE  SerialInv'
  BY <1>12
  DEF OpenCommand, FinalizeFailed, SerialInv, NoOrphanRow
<1>13. ASSUME NEW e \in Execs, Register(e)
      PROVE  SerialInv'
  BY <1>13
  DEF Register, SerialInv, NoOrphanRow
<1>14. ASSUME NEW e \in Execs, CheckCancelled(e)
      PROVE  SerialInv'
  <2>1. \/ /\ pc' = [pc EXCEPT ![e] = "persistFailed"]
           /\ reader' = reader
        \/ /\ pc' = [pc EXCEPT ![e] = "wait"]
           /\ reader' = [reader EXCEPT ![e] = "on"]
    BY <1>14 DEF CheckCancelled, FinalizeFailed
  <2> QED BY <1>14, <2>1 DEF CheckCancelled, SerialInv, NoOrphanRow
<1>15. ASSUME NEW e \in Execs, WaitReturns(e)
      PROVE  SerialInv'
  BY <1>15
  DEF WaitReturns, SerialInv, NoOrphanRow
<1>16. ASSUME NEW e \in Execs, Decide(e)
      PROVE  SerialInv'
  <2>1. \E step \in {"persistOutcome", "persistFailed"} : Goto(e, step)
    BY <1>16 DEF Decide, FinalizeFailed
  <2> QED BY <1>16, <2>1 DEF Decide, Drained, SerialInv, NoOrphanRow
<1>17. ASSUME NEW e \in Execs, PersistOutcome(e)
      PROVE  SerialInv'
  <2>1. e[1] = dbRun
    BY <1>17, ExecutingRun DEF PersistOutcome, Executing, At, SerialInv
  <2>2. NoOrphanRow'
    BY <1>17, <2>1, PersistKeepsRows DEF SerialInv, PersistOutcome
  <2> QED BY <1>17, <2>2 DEF SerialInv, PersistOutcome
<1>18. ASSUME NEW e \in Execs, PersistFailed(e)
      PROVE  SerialInv'
  <2>1. e[1] = dbRun
    BY <1>18, ExecutingRun DEF PersistFailed, Executing, At, SerialInv
  <2>2. NoOrphanRow'
    BY <1>18, <2>1, PersistKeepsRows DEF SerialInv, PersistFailed, PersistOrFail
  <2> QED BY <1>18, <2>2 DEF SerialInv, PersistFailed
<1>19. ASSUME NEW e \in Execs, EmitVerdict(e)
      PROVE  SerialInv'
  BY <1>19
  DEF EmitVerdict, SerialInv, NoOrphanRow
<1>20. ASSUME NEW e \in Execs, Cleanup(e)
      PROVE  SerialInv'
  BY <1>20
  DEF Cleanup, SerialInv, NoOrphanRow
<1>21. ASSUME NEW e \in Execs, ReadChunk(e)
      PROVE  SerialInv'
  <2>1. e[1] = dbRun
    BY <1>21, ExecutingRun DEF ReadChunk, SerialInv
  <2>2. NoOrphanRow'
    BY <1>21, <2>1, PersistKeepsRows DEF SerialInv, ReadChunk
  <2> QED BY <1>21, <2>2 DEF SerialInv, ReadChunk
<1>22. ASSUME NEW e \in Execs, ReadEOF(e)
      PROVE  SerialInv'
  BY <1>22
  DEF ReadEOF, SerialInv, NoOrphanRow
<1>23. ASSUME NEW e \in Execs, Input(e)
      PROVE  SerialInv'
  BY <1>23
  DEF Input, SerialInv, NoOrphanRow
<1>24. ASSUME NEW e \in Execs, ProcStep(e)
      PROVE  SerialInv'
  BY <1>24
  DEF ProcStep, SerialInv, NoOrphanRow
<1>25. ASSUME NEW e \in Execs, FinalizeStaleRow(e)
      PROVE  SerialInv'
  <2>1. e \in Execs /\ e[1] = dbRun
    BY <1>25 DEF FinalizeStaleRow, BootInv
  <2>2. NoOrphanRow'
    BY <1>25, <2>1, PersistKeepsRows DEF SerialInv, FinalizeStaleRow, PersistOrFail
  <2> QED BY <1>25, <2>2 DEF SerialInv, FinalizeStaleRow
<1>26. ASSUME NEW c \in Clients, SubscribeCheck(c)
      PROVE  SerialInv'
  BY <1>26
  DEF SubscribeCheck, SerialInv, NoOrphanRow
<1>27. ASSUME NEW c \in Clients, SubscribeRegister(c)
      PROVE  SerialInv'
  BY <1>27
  DEF SubscribeRegister, SerialInv, NoOrphanRow
<1>28. ASSUME NEW c \in Clients, Unsubscribe(c)
      PROVE  SerialInv'
  BY <1>28
  DEF Unsubscribe, SerialInv, NoOrphanRow
<1>29. ASSUME Cancel
      PROVE  SerialInv'
  BY <1>29
  DEF Cancel, SerialInv, NoOrphanRow
<1>30. ASSUME Crash
      PROVE  SerialInv'
  BY <1>30
  DEF Crash, SerialInv, NoOrphanRow
<1>31. ASSUME Restart
      PROVE  SerialInv'
  BY <1>31
  DEF Restart, StaleRows, RunIsStale, SerialInv, NoOrphanRow
<1>32. ASSUME FinalizeStaleRun
      PROVE  SerialInv'
  BY <1>32
  DEF FinalizeStaleRun, SetDone, SetDoneOrFail, SerialInv, NoOrphanRow
<1>33. CASE UNCHANGED vars
  BY <1>33 DEF vars, SerialInv, NoOrphanRow
<1> QED
  BY <1>1, <1>2, <1>3, <1>4, <1>5, <1>6, <1>7, <1>8, <1>9, <1>10, <1>11, <1>12, <1>13, <1>14, <1>15,
     <1>16, <1>17, <1>18, <1>19, <1>20, <1>21, <1>22, <1>23, <1>24, <1>25, <1>26, <1>27, <1>28,
     <1>29, <1>30, <1>31, <1>32, <1>33
  DEF Next, DispatchStep, RunStep, ExecStep, ReaderStep, ClientStep, BootStep

-----------------------------------------------------------------------------
(* Restart.                                                                *)

LEMMA BootInductive ==
    ASSUME TypeOK, SerialInv, BootInv, [Next]_vars
    PROVE  BootInv'
<1> USE DEF TypeOK, Goto, At, Executing, bootVars, runVars, execVars, procVars,
            dbVars, subVars
<1>1. ASSUME NEW r \in Runs, DispatchCheck(r)
      PROVE  BootInv'
  BY <1>1
  DEF DispatchCheck, BootInv
<1>2. ASSUME NEW r \in Runs, NEW targets \in SUBSET Servers, Replace(r, targets)
      PROVE  BootInv'
  <2>1. mode = "up" /\ todo = {}
    BY <1>2 DEF Replace, SerialInv, BootInv
  <2> QED BY <1>2, <2>1 DEF Replace, BootInv
<1>3. ASSUME NEW r \in Runs, ReplaceRefused(r)
      PROVE  BootInv'
  BY <1>3
  DEF ReplaceRefused, BootInv
<1>4. ASSUME NEW r \in Runs, GoLive(r)
      PROVE  BootInv'
  BY <1>4
  DEF GoLive, BootInv
<1>5. ASSUME NEW r \in Runs, Settle(r)
      PROVE  BootInv'
  <2>1. mode = "up" /\ todo = {}
    BY <1>5 DEF Settle, SerialInv, BootInv
  <2> QED BY <1>5, <2>1 DEF Settle, BootInv
<1>6. ASSUME NEW r \in Runs, MarkDone(r)
      PROVE  BootInv'
  BY <1>6
  DEF MarkDone, BootInv
<1>7. ASSUME NEW r \in Runs, CloseStreams(r)
      PROVE  BootInv'
  BY <1>7
  DEF CloseStreams, BootInv
<1>8. ASSUME NEW r \in Runs, CloseSessions(r)
      PROVE  BootInv'
  BY <1>8
  DEF CloseSessions, CloseSession, BootInv
<1>9. ASSUME NEW e \in Execs, Begin(e)
      PROVE  BootInv'
  <2>1. mode = "up" /\ todo = {}
    BY <1>9, ExecutingRun DEF Begin, SerialInv, BootInv
  <2> QED BY <1>9, <2>1 DEF Begin, BootInv
<1>10. ASSUME NEW e \in Execs, AnnounceRunning(e)
      PROVE  BootInv'
  BY <1>10
  DEF AnnounceRunning, BootInv
<1>11. ASSUME NEW e \in Execs, WriteScript(e)
      PROVE  BootInv'
  BY <1>11
  DEF WriteScript, FinalizeFailed, BootInv
<1>12. ASSUME NEW e \in Execs, OpenCommand(e)
      PROVE  BootInv'
  BY <1>12
  DEF OpenCommand, FinalizeFailed, BootInv
<1>13. ASSUME NEW e \in Execs, Register(e)
      PROVE  BootInv'
  BY <1>13
  DEF Register, BootInv
<1>14. ASSUME NEW e \in Execs, CheckCancelled(e)
      PROVE  BootInv'
  BY <1>14
  DEF CheckCancelled, FinalizeFailed, CloseSession, BootInv
<1>15. ASSUME NEW e \in Execs, WaitReturns(e)
      PROVE  BootInv'
  BY <1>15
  DEF WaitReturns, BootInv
<1>16. ASSUME NEW e \in Execs, Decide(e)
      PROVE  BootInv'
  BY <1>16
  DEF Decide, FinalizeFailed, BootInv
<1>17. ASSUME NEW e \in Execs, PersistOutcome(e)
      PROVE  BootInv'
  <2>1. mode = "up" /\ todo = {}
    BY <1>17, ExecutingRun DEF PersistOutcome, SerialInv, BootInv
  <2> QED BY <1>17, <2>1 DEF PersistOutcome, BootInv
<1>18. ASSUME NEW e \in Execs, PersistFailed(e)
      PROVE  BootInv'
  <2>1. mode = "up" /\ todo = {}
    BY <1>18, ExecutingRun DEF PersistFailed, SerialInv, BootInv
  <2> QED BY <1>18, <2>1 DEF PersistFailed, BootInv
<1>19. ASSUME NEW e \in Execs, EmitVerdict(e)
      PROVE  BootInv'
  BY <1>19
  DEF EmitVerdict, BootInv
<1>20. ASSUME NEW e \in Execs, Cleanup(e)
      PROVE  BootInv'
  BY <1>20
  DEF Cleanup, BootInv
<1>21. ASSUME NEW e \in Execs, ReadChunk(e)
      PROVE  BootInv'
  <2>1. mode = "up" /\ todo = {}
    BY <1>21, ExecutingRun DEF ReadChunk, SerialInv, BootInv
  <2> QED BY <1>21, <2>1 DEF ReadChunk, BootInv
<1>22. ASSUME NEW e \in Execs, ReadEOF(e)
      PROVE  BootInv'
  BY <1>22
  DEF ReadEOF, BootInv
<1>23. ASSUME NEW e \in Execs, Input(e)
      PROVE  BootInv'
  BY <1>23
  DEF Input, BootInv
<1>24. ASSUME NEW e \in Execs, ProcStep(e)
      PROVE  BootInv'
  BY <1>24
  DEF ProcStep, BootInv
<1>25. ASSUME NEW e \in Execs, FinalizeStaleRow(e)
      PROVE  BootInv'
  <2>1. \A f \in Execs \ {e} : row'[f] = row[f]
    BY <1>25 DEF FinalizeStaleRow, PersistOrFail, Persist
  <2> QED BY <1>25, <2>1 DEF FinalizeStaleRow, BootInv
<1>26. ASSUME NEW c \in Clients, SubscribeCheck(c)
      PROVE  BootInv'
  BY <1>26
  DEF SubscribeCheck, BootInv
<1>27. ASSUME NEW c \in Clients, SubscribeRegister(c)
      PROVE  BootInv'
  BY <1>27
  DEF SubscribeRegister, BootInv
<1>28. ASSUME NEW c \in Clients, Unsubscribe(c)
      PROVE  BootInv'
  BY <1>28
  DEF Unsubscribe, BootInv
<1>29. ASSUME Cancel
      PROVE  BootInv'
  BY <1>29
  DEF Cancel, BootInv
<1>30. ASSUME Crash
      PROVE  BootInv'
  BY <1>30
  DEF Crash, BootInv
<1>31. ASSUME Restart
      PROVE  BootInv'
  BY <1>31
  DEF Restart, StaleRows, RunIsStale, BootInv
<1>32. ASSUME FinalizeStaleRun
      PROVE  BootInv'
  BY <1>32
  DEF FinalizeStaleRun, SetDone, SetDoneOrFail, BootInv
<1>33. CASE UNCHANGED vars
  BY <1>33 DEF vars, BootInv
<1> QED
  BY <1>1, <1>2, <1>3, <1>4, <1>5, <1>6, <1>7, <1>8, <1>9, <1>10, <1>11, <1>12, <1>13, <1>14, <1>15,
     <1>16, <1>17, <1>18, <1>19, <1>20, <1>21, <1>22, <1>23, <1>24, <1>25, <1>26, <1>27, <1>28,
     <1>29, <1>30, <1>31, <1>32, <1>33
  DEF Next, DispatchStep, RunStep, ExecStep, ReaderStep, ClientStep, BootStep

-----------------------------------------------------------------------------
(* Verdicts.                                                               *)

\* finalizeFailed decides one execution and leaves the others alone.
LEMMA FailedDecides ==
    ASSUME TypeOK, NEW e \in Execs, NEW why \in {"error", "cancelled"},
           FinalizeFailed(e, why)
    PROVE  /\ pc'[e] = "persistFailed" /\ result'[e].st \in Finished
           /\ \A f \in Execs \ {e} : pc'[f] = pc[f] /\ result'[f] = result[f]
<1>1. result[e] \in Result /\ FailureStatus(e, why) \in Status
  BY DEF TypeOK, FailureStatus, Status, Finished
<1>2. result'[e] = [result[e] EXCEPT !.st = FailureStatus(e, why)]
  BY DEF FinalizeFailed, TypeOK
<1>3. result'[e].st = FailureStatus(e, why)
  BY <1>1, <1>2, StatusTyped
<1> QED BY <1>3 DEF FinalizeFailed, FailureStatus, Finished, TypeOK, Goto

LEMMA PersistWrites ==
    ASSUME TypeOK, NEW e \in Execs, NEW res, row' = row \/ Persist(e, res)
    PROVE  /\ row'[e] \in {row[e], res}
           /\ \A f \in Execs \ {e} : row'[f] = row[f]
BY DEF TypeOK, Persist

LEMMA VerdictInductive ==
    ASSUME TypeOK, SerialInv, BootInv, VerdictInv, [Next]_vars
    PROVE  VerdictInv'
<1> USE DEF TypeOK, Goto, At, Executing, bootVars, runVars, execVars, procVars,
            dbVars, subVars
<1>1. ASSUME NEW r \in Runs, DispatchCheck(r)
      PROVE  VerdictInv'
  BY <1>1
  DEF DispatchCheck, VerdictInv, Undecided, Unrecorded
<1>2. ASSUME NEW r \in Runs, NEW targets \in SUBSET Servers, Replace(r, targets)
      PROVE  VerdictInv'
  <2>1. \A f \in Execs : pc[f] = "none"
    BY <1>2, ExecutingRun DEF Replace, StoreAccepts
  <2>2. \A f \in Execs :
            \/ pc'[f] = "none"
            \/ pc'[f] = "ready" /\ row'[f] = Fresh /\ result'[f] = Fresh
    BY <1>2, <2>1 DEF Replace
  <2> QED BY <2>2, ConstantResults DEF Unfinished, VerdictInv, Undecided, Unrecorded
<1>3. ASSUME NEW r \in Runs, ReplaceRefused(r)
      PROVE  VerdictInv'
  BY <1>3
  DEF ReplaceRefused, VerdictInv, Undecided, Unrecorded
<1>4. ASSUME NEW r \in Runs, GoLive(r)
      PROVE  VerdictInv'
  BY <1>4
  DEF GoLive, VerdictInv, Undecided, Unrecorded
<1>5. ASSUME NEW r \in Runs, Settle(r)
      PROVE  VerdictInv'
  BY <1>5
  DEF Settle, SetDone, SetDoneOrFail, VerdictInv, Undecided, Unrecorded
<1>6. ASSUME NEW r \in Runs, MarkDone(r)
      PROVE  VerdictInv'
  BY <1>6
  DEF MarkDone, VerdictInv, Undecided, Unrecorded
<1>7. ASSUME NEW r \in Runs, CloseStreams(r)
      PROVE  VerdictInv'
  BY <1>7
  DEF CloseStreams, VerdictInv, Undecided, Unrecorded
<1>8. ASSUME NEW r \in Runs, CloseSessions(r)
      PROVE  VerdictInv'
  BY <1>8
  DEF CloseSessions, CloseSession, VerdictInv, Undecided, Unrecorded
<1>9. ASSUME NEW e \in Execs, Begin(e)
      PROVE  VerdictInv'
  <2>1. result[e] \in Result /\ "running" \in Status
    BY DEF Status, Unfinished
  <2>2. [result[e] EXCEPT !.st = "running"].st = "running"
    BY <2>1, StatusTyped
  <2>3. /\ result'[e].st = "running"
        /\ \A f \in Execs \ {e} : result'[f] = result[f]
    BY <1>9, <2>2 DEF Begin
  <2>4. /\ row'[e] \in {row[e], [result[e] EXCEPT !.st = "running"]}
        /\ \A f \in Execs \ {e} : row'[f] = row[f]
    BY <1>9, PersistWrites DEF Begin, PersistOrFail
  <2>5. row[e].st \in Unfinished /\ row'[e].st \in Unfinished
    BY <1>9, <2>2, <2>4 DEF Begin, Unfinished, VerdictInv, Unrecorded, Undecided
  <2>6. pc'[e] = "begun" /\ \A f \in Execs \ {e} : pc'[f] = pc[f]
    BY <1>9 DEF Begin
  <2> QED BY <2>3, <2>4, <2>5, <2>6
    DEF Unfinished, VerdictInv, Undecided, Unrecorded
<1>10. ASSUME NEW e \in Execs, AnnounceRunning(e)
      PROVE  VerdictInv'
  BY <1>10
  DEF AnnounceRunning, VerdictInv, Undecided, Unrecorded
<1>11. ASSUME NEW e \in Execs, WriteScript(e)
      PROVE  VerdictInv'
  <2>1. CASE \E why \in {"error", "cancelled"} : FinalizeFailed(e, why)
    <3>1. /\ pc'[e] = "persistFailed" /\ result'[e].st \in Finished
          /\ \A f \in Execs \ {e} : pc'[f] = pc[f] /\ result'[f] = result[f]
      BY <2>1, FailedDecides
    <3> QED BY <1>11, <3>1 DEF WriteScript, VerdictInv, Undecided, Unrecorded
  <2>2. CASE ~\E why \in {"error", "cancelled"} : FinalizeFailed(e, why)
    BY <1>11, <2>2 DEF WriteScript, VerdictInv, Undecided, Unrecorded
  <2> QED BY <2>1, <2>2
<1>12. ASSUME NEW e \in Execs, OpenCommand(e)
      PROVE  VerdictInv'
  <2>1. CASE \E why \in {"error", "cancelled"} : FinalizeFailed(e, why)
    <3>1. /\ pc'[e] = "persistFailed" /\ result'[e].st \in Finished
          /\ \A f \in Execs \ {e} : pc'[f] = pc[f] /\ result'[f] = result[f]
      BY <2>1, FailedDecides
    <3> QED BY <1>12, <3>1 DEF OpenCommand, VerdictInv, Undecided, Unrecorded
  <2>2. CASE ~\E why \in {"error", "cancelled"} : FinalizeFailed(e, why)
    BY <1>12, <2>2 DEF OpenCommand, VerdictInv, Undecided, Unrecorded
  <2> QED BY <2>1, <2>2
<1>13. ASSUME NEW e \in Execs, Register(e)
      PROVE  VerdictInv'
  BY <1>13
  DEF Register, VerdictInv, Undecided, Unrecorded
<1>14. ASSUME NEW e \in Execs, CheckCancelled(e)
      PROVE  VerdictInv'
  <2>1. CASE \E why \in {"error", "cancelled"} : FinalizeFailed(e, why)
    <3>1. /\ pc'[e] = "persistFailed" /\ result'[e].st \in Finished
          /\ \A f \in Execs \ {e} : pc'[f] = pc[f] /\ result'[f] = result[f]
      BY <2>1, FailedDecides
    <3> QED BY <1>14, <3>1 DEF CheckCancelled, VerdictInv, Undecided, Unrecorded
  <2>2. CASE ~\E why \in {"error", "cancelled"} : FinalizeFailed(e, why)
    BY <1>14, <2>2 DEF CheckCancelled, VerdictInv, Undecided, Unrecorded
  <2> QED BY <2>1, <2>2
<1>15. ASSUME NEW e \in Execs, WaitReturns(e)
      PROVE  VerdictInv'
  BY <1>15
  DEF WaitReturns, VerdictInv, Undecided, Unrecorded
<1>16. ASSUME NEW e \in Execs, Decide(e)
      PROVE  VerdictInv'
  <2>1. CASE \E why \in {"error", "cancelled"} : FinalizeFailed(e, why)
    <3>1. /\ pc'[e] = "persistFailed" /\ result'[e].st \in Finished
          /\ \A f \in Execs \ {e} : pc'[f] = pc[f] /\ result'[f] = result[f]
      BY <2>1, FailedDecides
    <3> QED BY <1>16, <3>1 DEF Decide, VerdictInv, Undecided, Unrecorded
  <2>2. CASE ~\E why \in {"error", "cancelled"} : FinalizeFailed(e, why)
    <3>1. PICK st \in {"success", "exit"} :
                result' = [result EXCEPT ![e].st = st]
      BY <1>16, <2>2 DEF Decide
    <3>2. result'[e].st \in Finished
      BY <3>1 DEF Finished, Result
    <3> QED BY <1>16, <2>2, <3>1, <3>2 DEF Decide, VerdictInv, Undecided, Unrecorded
  <2> QED BY <2>1, <2>2
<1>17. ASSUME NEW e \in Execs, PersistOutcome(e)
      PROVE  VerdictInv'
  <2>1. \A f \in Execs \ {e} : row'[f] = row[f]
    BY <1>17, PersistWrites DEF PersistOutcome
  <2>2. \/ /\ pc'[e] = "emit"
           /\ result' = result
        \/ /\ pc'[e] = "persistFailed"
           /\ result'[e].st \in Finished
           /\ row' = row
           /\ \A f \in Execs \ {e} : result'[f] = result[f]
    BY <1>17 DEF PersistOutcome, Finished, Result
  <2> QED BY <1>17, <2>1, <2>2 DEF PersistOutcome, VerdictInv, Undecided, Unrecorded
<1>18. ASSUME NEW e \in Execs, PersistFailed(e)
      PROVE  VerdictInv'
  <2>1. \A f \in Execs \ {e} : row'[f] = row[f]
    BY <1>18, PersistWrites DEF PersistFailed, PersistOrFail
  <2> QED BY <1>18, <2>1 DEF PersistFailed, VerdictInv, Undecided, Unrecorded
<1>19. ASSUME NEW e \in Execs, EmitVerdict(e)
      PROVE  VerdictInv'
  BY <1>19
  DEF EmitVerdict, VerdictInv, Undecided, Unrecorded
<1>20. ASSUME NEW e \in Execs, Cleanup(e)
      PROVE  VerdictInv'
  BY <1>20
  DEF Cleanup, VerdictInv, Undecided, Unrecorded
<1>21. ASSUME NEW e \in Execs, ReadChunk(e)
      PROVE  VerdictInv'
  <2>1. pc[e] \in {"wait", "drain"} /\ result[e].st \in Unfinished
    BY <1>21 DEF ReadChunk, SerialInv, VerdictInv, Undecided, Unrecorded
  <2>2. AppendOutput(result[e]).st = result[e].st
    BY AppendTyped
  <2>3. /\ row'[e] \in {row[e], AppendOutput(result[e])}
        /\ \A f \in Execs \ {e} : row'[f] = row[f]
    BY <1>21, PersistWrites DEF ReadChunk
  <2>4. /\ result'[e] = AppendOutput(result[e])
        /\ \A f \in Execs \ {e} : result'[f] = result[f]
    BY <1>21 DEF ReadChunk
  <2> QED BY <1>21, <2>1, <2>2, <2>3, <2>4 DEF ReadChunk, VerdictInv, Undecided, Unrecorded
<1>22. ASSUME NEW e \in Execs, ReadEOF(e)
      PROVE  VerdictInv'
  BY <1>22
  DEF ReadEOF, VerdictInv, Undecided, Unrecorded
<1>23. ASSUME NEW e \in Execs, Input(e)
      PROVE  VerdictInv'
  BY <1>23
  DEF Input, VerdictInv, Undecided, Unrecorded
<1>24. ASSUME NEW e \in Execs, ProcStep(e)
      PROVE  VerdictInv'
  BY <1>24
  DEF ProcStep, VerdictInv, Undecided, Unrecorded
<1>25. ASSUME NEW e \in Execs, FinalizeStaleRow(e)
      PROVE  VerdictInv'
  <2>1. e \in Execs /\ \A f \in Execs : pc[f] = "none"
    BY <1>25, ExecutingRun DEF FinalizeStaleRow
  <2> QED BY <1>25, <2>1 DEF FinalizeStaleRow, VerdictInv, Undecided, Unrecorded
<1>26. ASSUME NEW c \in Clients, SubscribeCheck(c)
      PROVE  VerdictInv'
  BY <1>26
  DEF SubscribeCheck, VerdictInv, Undecided, Unrecorded
<1>27. ASSUME NEW c \in Clients, SubscribeRegister(c)
      PROVE  VerdictInv'
  BY <1>27
  DEF SubscribeRegister, VerdictInv, Undecided, Unrecorded
<1>28. ASSUME NEW c \in Clients, Unsubscribe(c)
      PROVE  VerdictInv'
  BY <1>28
  DEF Unsubscribe, VerdictInv, Undecided, Unrecorded
<1>29. ASSUME Cancel
      PROVE  VerdictInv'
  BY <1>29
  DEF Cancel, VerdictInv, Undecided, Unrecorded
<1>30. ASSUME Crash
      PROVE  VerdictInv'
  BY <1>30
  DEF Crash, VerdictInv, Undecided, Unrecorded
<1>31. ASSUME Restart
      PROVE  VerdictInv'
  BY <1>31
  DEF Restart, StaleRows, RunIsStale, VerdictInv, Undecided, Unrecorded
<1>32. ASSUME FinalizeStaleRun
      PROVE  VerdictInv'
  BY <1>32
  DEF FinalizeStaleRun, SetDone, SetDoneOrFail, VerdictInv, Undecided, Unrecorded
<1>33. CASE UNCHANGED vars
  BY <1>33 DEF vars, VerdictInv, Undecided, Unrecorded
<1> QED
  BY <1>1, <1>2, <1>3, <1>4, <1>5, <1>6, <1>7, <1>8, <1>9, <1>10, <1>11, <1>12, <1>13, <1>14, <1>15,
     <1>16, <1>17, <1>18, <1>19, <1>20, <1>21, <1>22, <1>23, <1>24, <1>25, <1>26, <1>27, <1>28,
     <1>29, <1>30, <1>31, <1>32, <1>33
  DEF Next, DispatchStep, RunStep, ExecStep, ReaderStep, ClientStep, BootStep

-----------------------------------------------------------------------------
(* Reliable store.                                                         *)

LEMMA ReliableInductive ==
    ASSUME TypeOK, SerialInv, BootInv, VerdictInv, ReliableInv, [Next]_vars
    PROVE  ReliableInv'
<1> USE DEF TypeOK, Goto, At, Executing, bootVars, runVars, execVars, procVars,
            dbVars, subVars
<1>1. ASSUME NEW r \in Runs, DispatchCheck(r)
      PROVE  ReliableInv'
  BY <1>1
  DEF DispatchCheck, ReliableInv, Unrecorded, Undecided
<1>2. ASSUME NEW r \in Runs, NEW targets \in SUBSET Servers, Replace(r, targets)
      PROVE  ReliableInv'
  <2>1. mode = "up"
    BY <1>2 DEF Replace, SerialInv
  <2>2. \A f \in Execs :
            row'[f].st \in Unfinished => pc'[f] = "ready"
    BY <1>2, ConstantResults DEF Replace, Unfinished
  <2> QED BY <1>2, <2>1, <2>2 DEF Replace, ReliableInv, Unrecorded, Undecided
<1>3. ASSUME NEW r \in Runs, ReplaceRefused(r)
      PROVE  ReliableInv'
  BY <1>3
  DEF ReplaceRefused, ReliableInv, Unrecorded, Undecided
<1>4. ASSUME NEW r \in Runs, GoLive(r)
      PROVE  ReliableInv'
  BY <1>4
  DEF GoLive, ReliableInv, Unrecorded, Undecided
<1>5. ASSUME NEW r \in Runs, Settle(r)
      PROVE  ReliableInv'
  <2>1. \A f \in Execs : f[1] = r => pc[f] = "none"
    BY <1>5, ExecPair DEF Settle, AllGone
  <2>2. dbRun = r /\ mode = "up"
    BY <1>5 DEF Settle, SerialInv
  <2>3. \A f \in Execs : row[f].st \in Unfinished => f[1] = dbRun
    BY DEF SerialInv, NoOrphanRow, Unfinished
  <2>4. ~StoreMayFail => \A f \in Execs : row[f].st \notin Unfinished
    BY <2>1, <2>2, <2>3 DEF ReliableInv, Unrecorded, Undecided
  <2> QED BY <1>5, <2>4 DEF Settle, ReliableInv, Unrecorded, Undecided
<1>6. ASSUME NEW r \in Runs, MarkDone(r)
      PROVE  ReliableInv'
  BY <1>6
  DEF MarkDone, ReliableInv, Unrecorded, Undecided
<1>7. ASSUME NEW r \in Runs, CloseStreams(r)
      PROVE  ReliableInv'
  BY <1>7
  DEF CloseStreams, ReliableInv, Unrecorded, Undecided
<1>8. ASSUME NEW r \in Runs, CloseSessions(r)
      PROVE  ReliableInv'
  BY <1>8
  DEF CloseSessions, CloseSession, ReliableInv, Unrecorded, Undecided
<1>9. ASSUME NEW e \in Execs, Begin(e)
      PROVE  ReliableInv'
  <2>1. mode = "up" /\ pc[e] \in Unrecorded /\ row[e].st \in Unfinished
    BY <1>9, ExecPair DEF Begin, SerialInv, VerdictInv, Unrecorded, Undecided
  <2>2. \A f \in Execs \ {e} : row'[f] = row[f]
    BY <1>9, PersistWrites DEF Begin, PersistOrFail
  <2> QED BY <1>9, <2>1, <2>2 DEF Begin, ReliableInv, Unrecorded, Undecided
<1>10. ASSUME NEW e \in Execs, AnnounceRunning(e)
      PROVE  ReliableInv'
  BY <1>10
  DEF AnnounceRunning, ReliableInv, Unrecorded, Undecided
<1>11. ASSUME NEW e \in Execs, WriteScript(e)
      PROVE  ReliableInv'
  BY <1>11
  DEF WriteScript, FinalizeFailed, ReliableInv, Unrecorded, Undecided
<1>12. ASSUME NEW e \in Execs, OpenCommand(e)
      PROVE  ReliableInv'
  BY <1>12
  DEF OpenCommand, FinalizeFailed, ReliableInv, Unrecorded, Undecided
<1>13. ASSUME NEW e \in Execs, Register(e)
      PROVE  ReliableInv'
  BY <1>13
  DEF Register, ReliableInv, Unrecorded, Undecided
<1>14. ASSUME NEW e \in Execs, CheckCancelled(e)
      PROVE  ReliableInv'
  BY <1>14
  DEF CheckCancelled, FinalizeFailed, CloseSession, ReliableInv, Unrecorded, Undecided
<1>15. ASSUME NEW e \in Execs, WaitReturns(e)
      PROVE  ReliableInv'
  BY <1>15
  DEF WaitReturns, ReliableInv, Unrecorded, Undecided
<1>16. ASSUME NEW e \in Execs, Decide(e)
      PROVE  ReliableInv'
  BY <1>16
  DEF Decide, FinalizeFailed, ReliableInv, Unrecorded, Undecided
<1>17. ASSUME NEW e \in Execs, PersistOutcome(e)
      PROVE  ReliableInv'
  <2>1. mode = "up" /\ pc[e] \in Unrecorded /\ row[e].st \in Unfinished
    BY <1>17, ExecPair DEF PersistOutcome, SerialInv, VerdictInv, Unrecorded, Undecided
  <2>2. \A f \in Execs \ {e} : row'[f] = row[f]
    BY <1>17, PersistWrites DEF PersistOutcome
  <2>3. ~StoreMayFail => row'[e].st \notin Unfinished
    BY <1>17 DEF PersistOutcome, Persist, VerdictInv, Unfinished, Finished
  <2>4. \A f \in Execs \ {e} : pc'[f] = pc[f]
    BY <1>17 DEF PersistOutcome
  <2> QED BY <1>17, <2>1, <2>2, <2>3, <2>4 DEF PersistOutcome, ReliableInv, Unrecorded, Undecided
<1>18. ASSUME NEW e \in Execs, PersistFailed(e)
      PROVE  ReliableInv'
  <2>1. mode = "up" /\ pc[e] \in Unrecorded /\ row[e].st \in Unfinished
    BY <1>18, ExecPair DEF PersistFailed, SerialInv, VerdictInv, Unrecorded, Undecided
  <2>2. \A f \in Execs \ {e} : row'[f] = row[f]
    BY <1>18, PersistWrites DEF PersistFailed, PersistOrFail
  <2>3. ~StoreMayFail => row'[e].st \notin Unfinished
    BY <1>18 DEF PersistFailed, PersistOrFail, Persist, VerdictInv, Unfinished, Finished
  <2> QED BY <1>18, <2>1, <2>2, <2>3 DEF PersistFailed, ReliableInv, Unrecorded, Undecided
<1>19. ASSUME NEW e \in Execs, EmitVerdict(e)
      PROVE  ReliableInv'
  BY <1>19
  DEF EmitVerdict, ReliableInv, Unrecorded, Undecided
<1>20. ASSUME NEW e \in Execs, Cleanup(e)
      PROVE  ReliableInv'
  BY <1>20
  DEF Cleanup, ReliableInv, Unrecorded, Undecided
<1>21. ASSUME NEW e \in Execs, ReadChunk(e)
      PROVE  ReliableInv'
  <2>1. mode = "up" /\ pc[e] \in Unrecorded /\ row[e].st \in Unfinished
    BY <1>21, ExecPair DEF ReadChunk, SerialInv, VerdictInv, Unrecorded, Undecided
  <2>2. \A f \in Execs \ {e} : row'[f] = row[f]
    BY <1>21, PersistWrites DEF ReadChunk
  <2> QED BY <1>21, <2>1, <2>2 DEF ReadChunk, ReliableInv, Unrecorded, Undecided
<1>22. ASSUME NEW e \in Execs, ReadEOF(e)
      PROVE  ReliableInv'
  BY <1>22
  DEF ReadEOF, ReliableInv, Unrecorded, Undecided
<1>23. ASSUME NEW e \in Execs, Input(e)
      PROVE  ReliableInv'
  BY <1>23
  DEF Input, ReliableInv, Unrecorded, Undecided
<1>24. ASSUME NEW e \in Execs, ProcStep(e)
      PROVE  ReliableInv'
  BY <1>24
  DEF ProcStep, ReliableInv, Unrecorded, Undecided
<1>25. ASSUME NEW e \in Execs, FinalizeStaleRow(e)
      PROVE  ReliableInv'
  <2>1. row[e] \in Result /\ "interrupted" \in Status
    BY DEF Status, Finished
  <2>2. [row[e] EXCEPT !.st = "interrupted"].st = "interrupted"
    BY <2>1, StatusTyped
  <2>3. ~StoreMayFail => row'[e].st \notin Unfinished
    BY <1>25, <2>2 DEF FinalizeStaleRow, PersistOrFail, Persist, Unfinished
  <2>4. \A f \in Execs \ {e} : row'[f] = row[f]
    BY <1>25, PersistWrites DEF FinalizeStaleRow, PersistOrFail
  <2> QED BY <1>25, <2>3, <2>4 DEF FinalizeStaleRow, ReliableInv, Unrecorded, Undecided
<1>26. ASSUME NEW c \in Clients, SubscribeCheck(c)
      PROVE  ReliableInv'
  BY <1>26
  DEF SubscribeCheck, ReliableInv, Unrecorded, Undecided
<1>27. ASSUME NEW c \in Clients, SubscribeRegister(c)
      PROVE  ReliableInv'
  BY <1>27
  DEF SubscribeRegister, ReliableInv, Unrecorded, Undecided
<1>28. ASSUME NEW c \in Clients, Unsubscribe(c)
      PROVE  ReliableInv'
  BY <1>28
  DEF Unsubscribe, ReliableInv, Unrecorded, Undecided
<1>29. ASSUME Cancel
      PROVE  ReliableInv'
  BY <1>29
  DEF Cancel, ReliableInv, Unrecorded, Undecided
<1>30. ASSUME Crash
      PROVE  ReliableInv'
  BY <1>30
  DEF Crash, ReliableInv, Unrecorded, Undecided
<1>31. ASSUME Restart
      PROVE  ReliableInv'
  <2>1. \A f \in Execs : row[f].st \in Unfinished => f[1] = dbRun
    BY DEF SerialInv, NoOrphanRow, Unfinished
  <2> QED BY <1>31, <2>1 DEF Restart, StaleRows, RunIsStale, ReliableInv, Unrecorded, Undecided
<1>32. ASSUME FinalizeStaleRun
      PROVE  ReliableInv'
  BY <1>32
  DEF FinalizeStaleRun, SetDone, SetDoneOrFail, ReliableInv, Unrecorded, Undecided
<1>33. CASE UNCHANGED vars
  BY <1>33 DEF vars, ReliableInv, Unrecorded, Undecided
<1> QED
  BY <1>1, <1>2, <1>3, <1>4, <1>5, <1>6, <1>7, <1>8, <1>9, <1>10, <1>11, <1>12, <1>13, <1>14, <1>15,
     <1>16, <1>17, <1>18, <1>19, <1>20, <1>21, <1>22, <1>23, <1>24, <1>25, <1>26, <1>27, <1>28,
     <1>29, <1>30, <1>31, <1>32, <1>33
  DEF Next, DispatchStep, RunStep, ExecStep, ReaderStep, ClientStep, BootStep

-----------------------------------------------------------------------------
(* Sessions.                                                               *)

LEMMA SessionInductive ==
    ASSUME TypeOK, SerialInv, SessionInv, NoStrandedSession, [Next]_vars
    PROVE  (SessionInv /\ NoStrandedSession)'
<1> USE DEF TypeOK, Goto, At, Executing, bootVars, runVars, execVars, procVars,
            dbVars, subVars
<1>1. ASSUME NEW r \in Runs, DispatchCheck(r)
      PROVE  (SessionInv /\ NoStrandedSession)'
  BY <1>1
  DEF DispatchCheck, SessionInv, NoStrandedSession
<1>2. ASSUME NEW r \in Runs, NEW targets \in SUBSET Servers, Replace(r, targets)
      PROVE  (SessionInv /\ NoStrandedSession)'
  <2>1. \A f \in Execs : pc[f] = "none"
    BY <1>2, ExecutingRun DEF Replace, StoreAccepts
  <2>2. \A f \in Execs : pc'[f] \in {"none", "ready"} /\ reader[f] = "off"
    BY <1>2, <2>1 DEF Replace, SessionInv
  <2> QED BY <1>2, <2>2 DEF Replace, SessionInv, NoStrandedSession
<1>3. ASSUME NEW r \in Runs, ReplaceRefused(r)
      PROVE  (SessionInv /\ NoStrandedSession)'
  BY <1>3
  DEF ReplaceRefused, SessionInv, NoStrandedSession
<1>4. ASSUME NEW r \in Runs, GoLive(r)
      PROVE  (SessionInv /\ NoStrandedSession)'
  BY <1>4
  DEF GoLive, SessionInv, NoStrandedSession
<1>5. ASSUME NEW r \in Runs, Settle(r)
      PROVE  (SessionInv /\ NoStrandedSession)'
  BY <1>5
  DEF Settle, SetDone, SetDoneOrFail, SessionInv, NoStrandedSession
<1>6. ASSUME NEW r \in Runs, MarkDone(r)
      PROVE  (SessionInv /\ NoStrandedSession)'
  BY <1>6
  DEF MarkDone, SessionInv, NoStrandedSession
<1>7. ASSUME NEW r \in Runs, CloseStreams(r)
      PROVE  (SessionInv /\ NoStrandedSession)'
  BY <1>7
  DEF CloseStreams, SessionInv, NoStrandedSession
<1>8. ASSUME NEW r \in Runs, CloseSessions(r)
      PROVE  (SessionInv /\ NoStrandedSession)'
  BY <1>8
  DEF CloseSessions, CloseSession, SessionInv, NoStrandedSession
<1>9. ASSUME NEW e \in Execs, Begin(e)
      PROVE  (SessionInv /\ NoStrandedSession)'
  BY <1>9
  DEF Begin, PersistOrFail, Persist, SessionInv, NoStrandedSession
<1>10. ASSUME NEW e \in Execs, AnnounceRunning(e)
      PROVE  (SessionInv /\ NoStrandedSession)'
  BY <1>10
  DEF AnnounceRunning, SessionInv, NoStrandedSession
<1>11. ASSUME NEW e \in Execs, WriteScript(e)
      PROVE  (SessionInv /\ NoStrandedSession)'
  BY <1>11
  DEF WriteScript, FinalizeFailed, SessionInv, NoStrandedSession
<1>12. ASSUME NEW e \in Execs, OpenCommand(e)
      PROVE  (SessionInv /\ NoStrandedSession)'
  <2>1. \/ /\ pc' = [pc EXCEPT ![e] = "persistFailed"]
           /\ proc' = proc
        \/ /\ pc' = [pc EXCEPT ![e] = "register"]
           /\ proc' = [proc EXCEPT ![e] = "alive"]
    BY <1>12 DEF OpenCommand, FinalizeFailed
  <2>2. reader[e] # "eof"
    BY <1>12 DEF OpenCommand, SessionInv
  <2> QED BY <1>12, <2>1, <2>2 DEF OpenCommand, SessionInv, NoStrandedSession
<1>13. ASSUME NEW e \in Execs, Register(e)
      PROVE  (SessionInv /\ NoStrandedSession)'
  BY <1>13
  DEF Register, SessionInv, NoStrandedSession
<1>14. ASSUME NEW e \in Execs, CheckCancelled(e)
      PROVE  (SessionInv /\ NoStrandedSession)'
  <2>1. \/ /\ pc' = [pc EXCEPT ![e] = "persistFailed"]
           /\ reader' = reader
           /\ proc' = [proc EXCEPT ![e] = CloseSession(proc[e])]
        \/ /\ pc' = [pc EXCEPT ![e] = "wait"]
           /\ reader' = [reader EXCEPT ![e] = "on"]
           /\ proc' = proc
           /\ e[1] \notin cancelled
    BY <1>14 DEF CheckCancelled, FinalizeFailed, CancelSeen
  <2> QED BY <1>14, <2>1 DEF CheckCancelled, CloseSession, SessionInv, NoStrandedSession
<1>15. ASSUME NEW e \in Execs, WaitReturns(e)
      PROVE  (SessionInv /\ NoStrandedSession)'
  BY <1>15
  DEF WaitReturns, SessionInv, NoStrandedSession
<1>16. ASSUME NEW e \in Execs, Decide(e)
      PROVE  (SessionInv /\ NoStrandedSession)'
  <2>1. \/ pc' = [pc EXCEPT ![e] = "persistFailed"]
        \/ /\ pc' = [pc EXCEPT ![e] = "persistOutcome"]
           /\ proc[e] # "closed"
    BY <1>16 DEF Decide, FinalizeFailed
  <2> QED BY <1>16, <2>1 DEF Decide, Drained, SessionInv, NoStrandedSession
<1>17. ASSUME NEW e \in Execs, PersistOutcome(e)
      PROVE  (SessionInv /\ NoStrandedSession)'
  BY <1>17
  DEF PersistOutcome, Persist, SessionInv, NoStrandedSession
<1>18. ASSUME NEW e \in Execs, PersistFailed(e)
      PROVE  (SessionInv /\ NoStrandedSession)'
  BY <1>18
  DEF PersistFailed, PersistOrFail, Persist, SessionInv, NoStrandedSession
<1>19. ASSUME NEW e \in Execs, EmitVerdict(e)
      PROVE  (SessionInv /\ NoStrandedSession)'
  BY <1>19
  DEF EmitVerdict, SessionInv, NoStrandedSession
<1>20. ASSUME NEW e \in Execs, Cleanup(e)
      PROVE  (SessionInv /\ NoStrandedSession)'
  BY <1>20
  DEF Cleanup, SessionInv, NoStrandedSession
<1>21. ASSUME NEW e \in Execs, ReadChunk(e)
      PROVE  (SessionInv /\ NoStrandedSession)'
  BY <1>21
  DEF ReadChunk, Persist, SessionInv, NoStrandedSession
<1>22. ASSUME NEW e \in Execs, ReadEOF(e)
      PROVE  (SessionInv /\ NoStrandedSession)'
  BY <1>22
  DEF ReadEOF, SessionInv, NoStrandedSession
<1>23. ASSUME NEW e \in Execs, Input(e)
      PROVE  (SessionInv /\ NoStrandedSession)'
  BY <1>23
  DEF Input, SessionInv, NoStrandedSession
<1>24. ASSUME NEW e \in Execs, ProcStep(e)
      PROVE  (SessionInv /\ NoStrandedSession)'
  BY <1>24
  DEF ProcStep, SessionInv, NoStrandedSession
<1>25. ASSUME NEW e \in Execs, FinalizeStaleRow(e)
      PROVE  (SessionInv /\ NoStrandedSession)'
  BY <1>25
  DEF FinalizeStaleRow, PersistOrFail, Persist, SessionInv, NoStrandedSession
<1>26. ASSUME NEW c \in Clients, SubscribeCheck(c)
      PROVE  (SessionInv /\ NoStrandedSession)'
  BY <1>26
  DEF SubscribeCheck, SessionInv, NoStrandedSession
<1>27. ASSUME NEW c \in Clients, SubscribeRegister(c)
      PROVE  (SessionInv /\ NoStrandedSession)'
  BY <1>27
  DEF SubscribeRegister, SessionInv, NoStrandedSession
<1>28. ASSUME NEW c \in Clients, Unsubscribe(c)
      PROVE  (SessionInv /\ NoStrandedSession)'
  BY <1>28
  DEF Unsubscribe, SessionInv, NoStrandedSession
<1>29. ASSUME Cancel
      PROVE  (SessionInv /\ NoStrandedSession)'
  BY <1>29
  DEF Cancel, SessionInv, NoStrandedSession
<1>30. ASSUME Crash
      PROVE  (SessionInv /\ NoStrandedSession)'
  BY <1>30
  DEF Crash, SessionInv, NoStrandedSession
<1>31. ASSUME Restart
      PROVE  (SessionInv /\ NoStrandedSession)'
  BY <1>31
  DEF Restart, StaleRows, RunIsStale, SessionInv, NoStrandedSession
<1>32. ASSUME FinalizeStaleRun
      PROVE  (SessionInv /\ NoStrandedSession)'
  BY <1>32
  DEF FinalizeStaleRun, SetDone, SetDoneOrFail, SessionInv, NoStrandedSession
<1>33. CASE UNCHANGED vars
  BY <1>33 DEF vars, SessionInv, NoStrandedSession
<1> QED
  BY <1>1, <1>2, <1>3, <1>4, <1>5, <1>6, <1>7, <1>8, <1>9, <1>10, <1>11, <1>12, <1>13, <1>14, <1>15,
     <1>16, <1>17, <1>18, <1>19, <1>20, <1>21, <1>22, <1>23, <1>24, <1>25, <1>26, <1>27, <1>28,
     <1>29, <1>30, <1>31, <1>32, <1>33
  DEF Next, DispatchStep, RunStep, ExecStep, ReaderStep, ClientStep, BootStep

-----------------------------------------------------------------------------
(* The theorems.                                                           *)

LEMMA IInvInductive == TypeOK /\ IInv /\ [Next]_vars => IInv'
BY SerialInductive, BootInductive, VerdictInductive, ReliableInductive,
   SessionInductive DEF IInv

LEMMA IInvInit == Init => TypeOK /\ IInv
<1> SUFFICES ASSUME Init
             PROVE  TypeOK /\ IInv
  OBVIOUS
<1>1. TypeOK
  BY ConstantsAssumption, ConstantResults, EventTyped
  DEF Init, TypeOK, Phases, Steps, FreeChan
<1>2. \A e \in Execs : /\ pc[e] = "none" /\ reader[e] = "off"
                       /\ proc[e] = "none" /\ row[e].st = "none"
  BY ConstantResults DEF Init
<1>3. \A r \in Runs : phase[r] = "new" /\ dbRun # r
  BY ConstantsAssumption DEF Init
<1>4. SerialInv
  BY <1>2, <1>3 DEF Init, SerialInv, Executing, NoOrphanRow
<1>5. BootInv /\ VerdictInv /\ ReliableInv
  BY <1>2 DEF Init, BootInv, VerdictInv, ReliableInv, Undecided, Unrecorded,
              Unfinished
<1>6. SessionInv /\ NoStrandedSession
  BY <1>2 DEF SessionInv, NoStrandedSession
<1> QED BY <1>1, <1>4, <1>5, <1>6 DEF IInv

\* The invariant the other theorems rest on.
THEOREM Invariance == Spec => [](TypeOK /\ IInv)
BY IInvInit, TypeInductive, IInvInductive, PTL DEF Spec

\* SerializedExecution: executions of two runs never overlap.
THEOREM Serialization == Spec => []SerializedExecution
<1>1. TypeOK /\ IInv => SerializedExecution
  BY ExecutingRun DEF IInv, SerializedExecution
<1> QED BY <1>1, Invariance, PTL

\* NoOrphanRow: a replaced run leaves no result row.
THEOREM NoOrphan == Spec => []NoOrphanRow
<1>1. IInv => NoOrphanRow
  BY DEF IInv, SerialInv
<1> QED BY <1>1, Invariance, PTL

\* DoneRunIsFinished: with a reliable store, done means that every result
\* has its verdict, across cancels, crashes and restarts.
THEOREM DoneFinished == Spec => []DoneRunIsFinished
<1>1. IInv => DoneRunIsFinished
  BY DEF IInv, ReliableInv, DoneRunIsFinished
<1> QED BY <1>1, Invariance, PTL

\* NoStrandedSession: a cancel that races with the opening of a session
\* never leaves runOne waiting on it.
THEOREM CancelClosesSessions == Spec => []NoStrandedSession
<1>1. IInv => NoStrandedSession
  BY DEF IInv
<1> QED BY <1>1, Invariance, PTL

\* CompleteOutput: a recorded exit comes with all of the output.
THEOREM OutputComplete == Spec => []CompleteOutput
<1>1. TypeOK /\ IInv => CompleteOutput
  BY DEF IInv, SessionInv, CompleteOutput, TypeOK
<1> QED BY <1>1, Invariance, PTL

-----------------------------------------------------------------------------
(* What a step may do to the tables.                                       *)

ReplacesRun == \E r \in Runs, targets \in SUBSET Servers \ {{}} :
    Replace(r, targets)

WritesRow(e, res) ==
    /\ e[1] = dbRun /\ dbStatus = "running"
    /\ row[e].st \in Unfinished
    /\ res.st \in {"running"} \cup Finished
    /\ row' = [row EXCEPT ![e] = res]
    /\ UNCHANGED <<dbRun, dbStatus>>

FinishesRun ==
    /\ dbStatus = "running" /\ dbStatus' = "done"
    /\ ~StoreMayFail => \A e \in Execs : row[e].st \notin Unfinished
    /\ UNCHANGED <<dbRun, row>>

StoreStep ==
    \/ UNCHANGED dbVars
    \/ ReplacesRun
    \/ \E e \in Execs : \E res \in Result : WritesRow(e, res)
    \/ FinishesRun

LEMMA NextStoreStep ==
    ASSUME TypeOK, IInv, [Next]_vars
    PROVE  StoreStep
<1> USE DEF At, Executing
<1>1. ASSUME NEW r \in Runs, DispatchCheck(r)
      PROVE  StoreStep
  BY <1>1
  DEF DispatchCheck, StoreStep, dbVars
<1>2. ASSUME NEW r \in Runs, NEW targets \in SUBSET Servers \ {{}},
             Replace(r, targets)
      PROVE  StoreStep
  BY <1>2
  DEF StoreStep, ReplacesRun
<1>3. ASSUME NEW r \in Runs, ReplaceRefused(r)
      PROVE  StoreStep
  BY <1>3
  DEF ReplaceRefused, StoreStep, dbVars
<1>4. ASSUME NEW r \in Runs, GoLive(r)
      PROVE  StoreStep
  BY <1>4
  DEF GoLive, StoreStep, dbVars
<1>5. ASSUME NEW r \in Runs, Settle(r)
      PROVE  StoreStep
  <2>1. \A f \in Execs : f[1] = r => pc[f] = "none"
    BY <1>5, ExecPair DEF Settle, AllGone
  <2>2. dbRun = r /\ mode = "up" /\ dbStatus = "running"
    BY <1>5 DEF Settle, IInv, SerialInv
  <2>3. \A f \in Execs : row[f].st \in Unfinished => f[1] = dbRun
    BY DEF IInv, SerialInv, NoOrphanRow, Unfinished
  <2>4. ~StoreMayFail => \A f \in Execs : row[f].st \notin Unfinished
    BY <2>1, <2>2, <2>3 DEF IInv, ReliableInv, Unrecorded, Undecided
  <2> QED BY <1>5, <2>2, <2>4
    DEF Settle, SetDoneOrFail, SetDone, StoreStep, FinishesRun, dbVars
<1>6. ASSUME NEW r \in Runs, MarkDone(r)
      PROVE  StoreStep
  BY <1>6
  DEF MarkDone, StoreStep, dbVars
<1>7. ASSUME NEW r \in Runs, CloseStreams(r)
      PROVE  StoreStep
  BY <1>7
  DEF CloseStreams, StoreStep, dbVars
<1>8. ASSUME NEW r \in Runs, CloseSessions(r)
      PROVE  StoreStep
  BY <1>8
  DEF CloseSessions, StoreStep, dbVars
<1>9. ASSUME NEW e \in Execs, Begin(e)
      PROVE  StoreStep
  <2>1. e[1] = dbRun /\ dbStatus = "running" /\ row[e].st \in Unfinished
    BY <1>9, ExecutingRun DEF Begin, IInv, SerialInv, VerdictInv, Undecided, Unrecorded
  <2>2. [result[e] EXCEPT !.st = "running"] \in Result /\ [result[e] EXCEPT !.st = "running"].st \in {"running"} \cup Finished
    BY StatusTyped DEF TypeOK, Status, Unfinished
  <2>3. \/ row' = row
        \/ row' = [row EXCEPT ![e] = [result[e] EXCEPT !.st = "running"]]
    BY <1>9 DEF Begin, Persist, PersistOrFail
  <2>4. dbRun' = dbRun /\ dbStatus' = dbStatus
    BY <1>9 DEF Begin
  <2> QED BY <2>1, <2>2, <2>3, <2>4 DEF StoreStep, WritesRow, dbVars
<1>10. ASSUME NEW e \in Execs, AnnounceRunning(e)
      PROVE  StoreStep
  BY <1>10
  DEF AnnounceRunning, StoreStep, dbVars
<1>11. ASSUME NEW e \in Execs, WriteScript(e)
      PROVE  StoreStep
  BY <1>11
  DEF WriteScript, StoreStep, dbVars
<1>12. ASSUME NEW e \in Execs, OpenCommand(e)
      PROVE  StoreStep
  BY <1>12
  DEF OpenCommand, StoreStep, dbVars
<1>13. ASSUME NEW e \in Execs, Register(e)
      PROVE  StoreStep
  BY <1>13
  DEF Register, StoreStep, dbVars
<1>14. ASSUME NEW e \in Execs, CheckCancelled(e)
      PROVE  StoreStep
  BY <1>14
  DEF CheckCancelled, StoreStep, dbVars
<1>15. ASSUME NEW e \in Execs, WaitReturns(e)
      PROVE  StoreStep
  BY <1>15
  DEF WaitReturns, StoreStep, dbVars
<1>16. ASSUME NEW e \in Execs, Decide(e)
      PROVE  StoreStep
  BY <1>16
  DEF Decide, StoreStep, dbVars
<1>17. ASSUME NEW e \in Execs, PersistOutcome(e)
      PROVE  StoreStep
  <2>1. e[1] = dbRun /\ dbStatus = "running" /\ row[e].st \in Unfinished
    BY <1>17, ExecutingRun DEF PersistOutcome, IInv, SerialInv, VerdictInv, Undecided, Unrecorded
  <2>2. result[e] \in Result /\ result[e].st \in {"running"} \cup Finished
    BY <1>17 DEF PersistOutcome, IInv, VerdictInv, TypeOK
  <2>3. \/ row' = row
        \/ row' = [row EXCEPT ![e] = result[e]]
    BY <1>17 DEF PersistOutcome, Persist
  <2>4. dbRun' = dbRun /\ dbStatus' = dbStatus
    BY <1>17 DEF PersistOutcome
  <2> QED BY <2>1, <2>2, <2>3, <2>4 DEF StoreStep, WritesRow, dbVars
<1>18. ASSUME NEW e \in Execs, PersistFailed(e)
      PROVE  StoreStep
  <2>1. e[1] = dbRun /\ dbStatus = "running" /\ row[e].st \in Unfinished
    BY <1>18, ExecutingRun DEF PersistFailed, IInv, SerialInv, VerdictInv, Undecided, Unrecorded
  <2>2. result[e] \in Result /\ result[e].st \in {"running"} \cup Finished
    BY <1>18 DEF PersistFailed, IInv, VerdictInv, TypeOK
  <2>3. \/ row' = row
        \/ row' = [row EXCEPT ![e] = result[e]]
    BY <1>18 DEF PersistFailed, Persist, PersistOrFail
  <2>4. dbRun' = dbRun /\ dbStatus' = dbStatus
    BY <1>18 DEF PersistFailed
  <2> QED BY <2>1, <2>2, <2>3, <2>4 DEF StoreStep, WritesRow, dbVars
<1>19. ASSUME NEW e \in Execs, EmitVerdict(e)
      PROVE  StoreStep
  BY <1>19
  DEF EmitVerdict, StoreStep, dbVars
<1>20. ASSUME NEW e \in Execs, Cleanup(e)
      PROVE  StoreStep
  BY <1>20
  DEF Cleanup, StoreStep, dbVars
<1>21. ASSUME NEW e \in Execs, ReadChunk(e)
      PROVE  StoreStep
  <2>1. e[1] = dbRun /\ dbStatus = "running" /\ row[e].st \in Unfinished
    BY <1>21, ExecutingRun DEF ReadChunk, IInv, SerialInv, VerdictInv, Undecided, Unrecorded
  <2>2. AppendOutput(result[e]) \in Result /\ AppendOutput(result[e]).st \in {"running"} \cup Finished
    BY <1>21, AppendTyped DEF ReadChunk, IInv, SerialInv, VerdictInv, Undecided, TypeOK
  <2>3. \/ row' = row
        \/ row' = [row EXCEPT ![e] = AppendOutput(result[e])]
    BY <1>21 DEF ReadChunk, Persist
  <2>4. dbRun' = dbRun /\ dbStatus' = dbStatus
    BY <1>21 DEF ReadChunk
  <2> QED BY <2>1, <2>2, <2>3, <2>4 DEF StoreStep, WritesRow, dbVars
<1>22. ASSUME NEW e \in Execs, ReadEOF(e)
      PROVE  StoreStep
  BY <1>22
  DEF ReadEOF, StoreStep, dbVars
<1>23. ASSUME NEW e \in Execs, Input(e)
      PROVE  StoreStep
  BY <1>23
  DEF Input, StoreStep, dbVars
<1>24. ASSUME NEW e \in Execs, ProcStep(e)
      PROVE  StoreStep
  BY <1>24
  DEF ProcStep, StoreStep, dbVars
<1>25. ASSUME NEW e \in Execs, FinalizeStaleRow(e)
      PROVE  StoreStep
  <2>1. e[1] = dbRun /\ dbStatus = "running" /\ row[e].st \in Unfinished
    BY <1>25 DEF FinalizeStaleRow, IInv, BootInv
  <2>2. /\ [row[e] EXCEPT !.st = "interrupted"] \in Result
        /\ [row[e] EXCEPT !.st = "interrupted"].st \in Finished
    <3>1. row[e] \in Result /\ "interrupted" \in Status \cap Finished
      BY DEF TypeOK, Status, Finished
    <3> QED BY <3>1, StatusTyped
  <2>3. \/ row' = row
        \/ row' = [row EXCEPT ![e] = [row[e] EXCEPT !.st = "interrupted"]]
    BY <1>25 DEF FinalizeStaleRow, Persist, PersistOrFail
  <2>4. dbRun' = dbRun /\ dbStatus' = dbStatus
    BY <1>25 DEF FinalizeStaleRow
  <2> QED BY <2>1, <2>2, <2>3, <2>4 DEF StoreStep, WritesRow, dbVars
<1>26. ASSUME NEW c \in Clients, SubscribeCheck(c)
      PROVE  StoreStep
  BY <1>26
  DEF SubscribeCheck, StoreStep, dbVars
<1>27. ASSUME NEW c \in Clients, SubscribeRegister(c)
      PROVE  StoreStep
  BY <1>27
  DEF SubscribeRegister, StoreStep, dbVars
<1>28. ASSUME NEW c \in Clients, Unsubscribe(c)
      PROVE  StoreStep
  BY <1>28
  DEF Unsubscribe, StoreStep, dbVars
<1>29. ASSUME Cancel
      PROVE  StoreStep
  BY <1>29
  DEF Cancel, StoreStep, dbVars
<1>30. ASSUME Crash
      PROVE  StoreStep
  BY <1>30
  DEF Crash, StoreStep, dbVars
<1>31. ASSUME Restart
      PROVE  StoreStep
  BY <1>31
  DEF Restart, StoreStep, dbVars
<1>32. ASSUME FinalizeStaleRun
      PROVE  StoreStep
  <2>1. ~StoreMayFail => \A f \in Execs : row[f].st \notin Unfinished
    BY <1>32 DEF FinalizeStaleRun, IInv, ReliableInv
  <2> QED BY <1>32, <2>1
    DEF FinalizeStaleRun, SetDoneOrFail, SetDone, StoreStep, FinishesRun, dbVars,
        IInv, BootInv
<1>33. CASE UNCHANGED vars
  BY <1>33 DEF vars, StoreStep, dbVars
<1> QED
  BY <1>1, <1>2, <1>3, <1>4, <1>5, <1>6, <1>7, <1>8, <1>9, <1>10, <1>11, <1>12, <1>13, <1>14, <1>15,
     <1>16, <1>17, <1>18, <1>19, <1>20, <1>21, <1>22, <1>23, <1>24, <1>25, <1>26, <1>27, <1>28,
     <1>29, <1>30, <1>31, <1>32, <1>33
  DEF Next, DispatchStep, RunStep, ExecStep, ReaderStep, ClientStep, BootStep


\* VerdictIsFinal: a stored verdict is never revised.
THEOREM VerdictFinal == Spec => VerdictIsFinal
<1>1. ASSUME TypeOK, IInv, [Next]_vars
      PROVE  [\A e \in Execs : row[e].st \in Finished =>
                    row'[e] = row[e] \/ dbRun' # dbRun]_vars
  <2>1. StoreStep
    BY <1>1, NextStoreStep
  <2>2. CASE ReplacesRun
    BY <1>1, <2>2 DEF ReplacesRun, Replace, IInv, SerialInv
  <2>3. CASE ~ReplacesRun
    BY <1>1, <2>1, <2>3 DEF StoreStep, WritesRow, FinishesRun, dbVars,
                            Unfinished, Finished, TypeOK
  <2> QED BY <2>2, <2>3
<1> QED BY <1>1, Invariance, PTL DEF Spec, VerdictIsFinal

\* RefinesContract: seen through its tables the engine obeys the contract.
THEOREM Refinement == Spec => RefinesContract
<1>1. Init => Contract!Init
  BY ConstantResults DEF Init, Contract!Init, Execs, Contract!Execs
<1>2. ASSUME TypeOK, IInv, [Next]_vars
      PROVE  [Contract!Next]_(Contract!vars)
  <2> USE DEF Contract!vars, Contract!Execs, Contract!Unfinished,
              Contract!Finished
  <2>1. StoreStep
    BY <1>2, NextStoreStep
  <2>2. ASSUME NEW r \in Runs, NEW targets \in SUBSET Servers \ {{}},
               Replace(r, targets)
        PROVE  Contract!Replace(r, targets)
    <3>1. r # dbRun
      BY <1>2, <2>2 DEF Replace, IInv, SerialInv
    <3>2. [e \in Execs |-> row'[e].st] =
            [e \in Execs |-> IF e \in {r} \X targets THEN "pending" ELSE "none"]
      BY <2>2, ConstantResults DEF Replace
    <3> QED BY <2>2, <3>1, <3>2
      DEF Replace, StoreAccepts, Contract!Replace, Execs
  <2>3. ASSUME NEW e \in Execs, NEW res \in Result, WritesRow(e, res)
        PROVE  Contract!Advance(e)
    <3>1. [f \in Execs |-> row'[f].st] =
            [[f \in Execs |-> row[f].st] EXCEPT ![e] = res.st]
      BY <1>2, <2>3 DEF WritesRow, TypeOK
    <3> QED BY <2>3, <3>1
      DEF WritesRow, Contract!Advance, Execs, Unfinished, Finished
  <2>4. CASE FinishesRun
    BY <2>4 DEF FinishesRun, Contract!Next, Contract!Finish, Execs, Unfinished
  <2>5. CASE UNCHANGED dbVars
    BY <2>5 DEF dbVars
  <2> QED BY <2>1, <2>2, <2>3, <2>4, <2>5
    DEF StoreStep, ReplacesRun, Contract!Next, Execs
<1> QED BY <1>1, <1>2, Invariance, PTL DEF Spec, RefinesContract, Contract!Spec


-----------------------------------------------------------------------------
(* The next dispatch.                                                      *)

\* With a store that does not fail, a run recorded as running is tracked by
\* the service that is up.
TrackedInv ==
    ~StoreMayFail /\ mode = "up" /\ dbStatus = "running" =>
        dbRun \in Runs /\ phase[dbRun] \in {"stored", "live"}

LEMMA ExecStepKeeps ==
    ASSUME NEW e \in Execs, ExecStep(e) \/ ReaderStep(e) \/ Input(e) \/ ProcStep(e)
    PROVE  UNCHANGED <<mode, phase, dbRun, dbStatus>>
BY DEF ExecStep, ReaderStep, Begin, AnnounceRunning, WriteScript, OpenCommand, Register,
       CheckCancelled, WaitReturns, Decide, PersistOutcome, PersistFailed, EmitVerdict, Cleanup,
       ReadChunk, ReadEOF, Input, ProcStep, bootVars, runVars, dbVars

LEMMA TrackedInductive == TypeOK /\ IInv /\ TrackedInv /\ [Next]_vars => TrackedInv'
<1> SUFFICES ASSUME TypeOK, IInv, TrackedInv, [Next]_vars
             PROVE  TrackedInv'
  OBVIOUS
<1> USE DEF TypeOK
<1>1. ASSUME NEW r \in Runs, DispatchStep(r)
      PROVE  TrackedInv'
  <2>1. CASE \E targets \in SUBSET Servers \ {{}} : Replace(r, targets)
    BY <2>1 DEF Replace, TrackedInv
  <2>2. CASE DispatchCheck(r) \/ ReplaceRefused(r)
    BY <2>2 DEF DispatchCheck, ReplaceRefused, TrackedInv, bootVars, dbVars
  <2> QED BY <1>1, <2>1, <2>2 DEF DispatchStep
<1>2. ASSUME NEW r \in Runs, RunStep(r)
      PROVE  TrackedInv'
  <2>1. CASE Settle(r)
    BY <2>1 DEF Settle, SetDoneOrFail, SetDone, TrackedInv, IInv, SerialInv, bootVars
  <2>2. CASE GoLive(r) \/ MarkDone(r) \/ CloseStreams(r)
    BY <2>2 DEF GoLive, MarkDone, CloseStreams, TrackedInv, bootVars, dbVars
  <2> QED BY <1>2, <2>1, <2>2 DEF RunStep
<1>3. CASE BootStep
  BY <1>3 DEF BootStep, Restart, RunIsStale, FinalizeStaleRun, FinalizeStaleRow, SetDoneOrFail,
              SetDone, TrackedInv, runVars, dbVars
<1>4. CASE Crash
  BY <1>4 DEF Crash, TrackedInv
<1>5. CASE UNCHANGED <<mode, phase, dbRun, dbStatus>>
  BY <1>5 DEF TrackedInv
<1>6. ASSUME NEW r \in Runs, CloseSessions(r) PROVE UNCHANGED <<mode, phase, dbRun, dbStatus>>
  BY <1>6 DEF CloseSessions, bootVars, dbVars
<1>7. ASSUME NEW c \in Clients, ClientStep(c) PROVE UNCHANGED <<mode, phase, dbRun, dbStatus>>
  BY <1>7 DEF ClientStep, SubscribeCheck, SubscribeRegister, Unsubscribe, bootVars, runVars, dbVars
<1>8. Cancel \/ UNCHANGED vars => UNCHANGED <<mode, phase, dbRun, dbStatus>>
  BY DEF Cancel, vars, bootVars, dbVars
<1> QED BY <1>1, <1>2, <1>3, <1>4, <1>5, <1>6, <1>7, <1>8, ExecStepKeeps DEF Next

\* IdleServiceAcceptsDispatch: whatever is cancelled, crashes and restarts, a
\* reliable store never refuses a service that has nothing to finish.
THEOREM IdleAccepts == Spec => []IdleServiceAcceptsDispatch
<1>1. Init => TrackedInv
  BY DEF Init, TrackedInv
<1>2. TrackedInv => IdleServiceAcceptsDispatch
  BY DEF TrackedInv, IdleServiceAcceptsDispatch, StoreAccepts
<1> QED BY <1>1, <1>2, TrackedInductive, Invariance, PTL DEF Spec

-----------------------------------------------------------------------------
(* Cancellation.                                                           *)

\* CancelTakesPrecedence: a result that was undecided when its run was
\* cancelled becomes cancelled, whatever else befell it.
THEOREM CancelPrecedes == Spec => CancelTakesPrecedence
<1> DEFINE Precedes ==
      \A e \in Execs : /\ result[e].st \in Unfinished
                       /\ result'[e].st \in Finished
                       /\ e[1] \in cancelled
                       => result'[e].st = "cancelled"
<1>1. TypeOK /\ IInv /\ [Next]_vars => Precedes
  <2> SUFFICES ASSUME TypeOK, IInv, [Next]_vars, NEW e \in Execs, result[e].st \in Unfinished,
                      result'[e].st \in Finished, e[1] \in cancelled
               PROVE  result'[e].st = "cancelled"
    OBVIOUS
  <2>1. result' # result /\ "none" \notin Finished /\ "pending" \notin Finished
        /\ "running" \notin Finished
    BY DEF Unfinished, Finished
  <2>2. ASSUME NEW f \in Execs, NEW why, FinalizeFailed(f, why)
        PROVE  result'[e].st = "cancelled"
    <3>1. e = f
      BY <2>2, <2>1 DEF FinalizeFailed, TypeOK, Unfinished, Finished
    <3> QED BY <2>2, <3>1 DEF FinalizeFailed, FailureStatus, TypeOK, Result
  <2>3. ASSUME NEW f \in Execs, ExecStep(f)
        PROVE  result'[e].st = "cancelled"
    <3>1. CASE Begin(f)
      <4>1. result'[e].st \in {"running", result[e].st}
        BY <3>1, StatusTyped DEF Begin, TypeOK, Result
      <4> QED BY <4>1, <2>1 DEF Unfinished, Finished
    <3>2. CASE Decide(f)
      BY <3>2, <2>2 DEF Decide, TypeOK, Result, Unfinished, Finished
    <3>3. CASE PersistOutcome(f)
      <4>1. result[f].st \in Finished
        BY <3>3 DEF PersistOutcome, At, IInv, VerdictInv
      <4> QED BY <3>3, <4>1, <2>1 DEF PersistOutcome, TypeOK, Unfinished, Finished
    <3>4. CASE Cleanup(f)
      BY <3>4, <2>1, ConstantResults DEF Cleanup, TypeOK, Unfinished, Finished
    <3> QED BY <2>3, <2>1, <2>2, <3>1, <3>2, <3>3, <3>4
            DEF ExecStep, AnnounceRunning, WriteScript, OpenCommand, Register, CheckCancelled,
                WaitReturns, PersistFailed, EmitVerdict
  <2>4. ASSUME NEW f \in Execs, ReadChunk(f)
        PROVE  FALSE
    BY <2>4, <2>1, AppendTyped DEF ReadChunk, TypeOK, Unfinished, Finished
  <2>5. ASSUME NEW r \in Runs, NEW targets, Replace(r, targets)
        PROVE  FALSE
    BY <2>5, <2>1, ConstantResults DEF Replace, TypeOK, Unfinished, Finished
  <2>6. CASE Crash
    BY <2>6, <2>1, ConstantResults DEF Crash
  <2> QED
    BY <2>1, <2>3, <2>4, <2>5, <2>6
    DEF Next, DispatchStep, DispatchCheck, ReplaceRefused, RunStep, GoLive, Settle, MarkDone,
        CloseStreams, CloseSessions, ReaderStep, ReadEOF, Input, ProcStep, ClientStep,
        SubscribeCheck, SubscribeRegister, Unsubscribe, Cancel, BootStep, Restart,
        FinalizeStaleRun, FinalizeStaleRow, vars, execVars
<1> QED BY <1>1, Invariance, PTL DEF Spec, CancelTakesPrecedence

-----------------------------------------------------------------------------
(* Events.                                                                 *)

\* An event is about a run that was stored; a verdict was sent when runOne had
\* nothing left to send; a verdict about to be sent is the one stored.
EventInv ==
    /\ \A c \in Clients, s \in Servers : LET ev == last[c][s] IN
        /\ ev.run = NoRun => ev.kind = "none"
        /\ ev.run # NoRun => phase[ev.run] \notin {"new", "checked"}
        /\ ev.kind \in Finished => pc[<<ev.run, s>>] \in {"cleanup", "none"}
    /\ ~StoreMayFail =>
        \A e \in Execs : pc[e] = "emit" => row[e].st = result[e].st
    /\ VerdictStoredBeforeSent

\* Whom a broadcast reaches hears of e, the others of nothing new.
LEMMA BroadcastSends ==
    ASSUME TypeOK, NEW e \in Execs, NEW kind, Broadcast(e, kind), NEW c \in Clients, NEW s \in Servers
    PROVE  \/ last'[c][s] = last[c][s]
           \/ s = e[2] /\ last'[c][s].run = e[1] /\ last'[c][s].kind = kind
BY DEF Broadcast, TypeOK

\* A step of an execution that is not over.
LEMMA ExecEvent ==
    ASSUME TypeOK, TypeOK', IInv, EventInv, NEW e \in Execs, NEW to, NEW kind,
           pc[e] \notin {"none", "cleanup"}, pc' = [pc EXCEPT ![e] = to],
           \A f \in Execs : f # e => row'[f] = row[f] /\ result'[f] = result[f],
           row'[e] # row[e] => row[e].st \in Unfinished,
           UNCHANGED <<phase, dbRun>>,
           last' = last \/ Broadcast(e, kind),
           last' # last => kind \notin Finished \/ to = "cleanup",
           ~StoreMayFail /\ kind \in Finished /\ last' # last => row'[e].st = kind,
           ~StoreMayFail /\ to = "emit" => row'[e].st = result'[e].st
    PROVE  EventInv'
<1>1. phase[e[1]] \in {"stored", "live"} /\ e = <<e[1], e[2]>> /\ e[1] \in Runs /\ e[2] \in Servers
  BY DEF IInv, SerialInv, Executing, Execs
<1>2. "none" \notin Finished /\ Unfinished \cap Finished = {}
  BY DEF Finished, Unfinished
<1>0. \A c \in Clients, s \in Servers :
        \/ last'[c][s] = last[c][s]
        \/ s = e[2] /\ last'[c][s].run = e[1] /\ last'[c][s].kind = kind
  BY BroadcastSends
<1>3. ASSUME NEW c \in Clients, NEW s \in Servers, last'[c][s].kind \in Finished
      PROVE  pc'[<<last'[c][s].run, s>>] \in {"cleanup", "none"}
  <2>1. CASE last'[c][s] = last[c][s]
    <3>1. last[c][s].kind \in Finished
      BY <1>3, <2>1
    <3>2. last[c][s].run \in Runs
      <4>1. last[c][s] \in Event
        BY DEF TypeOK
      <4>2. last[c][s].run # NoRun
        BY <1>2, <3>1 DEF EventInv
      <4> QED BY <4>1, <4>2 DEF Event
    <3>3. <<last[c][s].run, s>> # e
      BY <3>1 DEF EventInv
    <3>4. <<last[c][s].run, s>> \in Execs
      BY <3>2 DEF Execs
    <3> QED BY <2>1, <3>1, <3>3, <3>4 DEF EventInv, TypeOK
  <2>2. CASE last'[c][s] # last[c][s]
    <3>1. s = e[2] /\ last'[c][s].run = e[1] /\ last'[c][s].kind = kind /\ last' # last
      BY <1>0, <2>2
    <3>2. to = "cleanup" /\ <<last'[c][s].run, s>> = e
      BY <1>1, <1>3, <3>1
    <3> QED BY <3>2 DEF TypeOK
  <2> QED BY <2>1, <2>2
<1>4. ASSUME NEW c \in Clients, NEW s \in Servers
      PROVE  /\ last'[c][s].run = NoRun => last'[c][s].kind = "none"
             /\ last'[c][s].run # NoRun => phase'[last'[c][s].run] \notin {"new", "checked"}
  <2>1. CASE last'[c][s] = last[c][s]
    BY <2>1, ZenonT(30) DEF EventInv
  <2>2. CASE last'[c][s] # last[c][s]
    BY <1>0, <1>1, <2>2, ConstantsAssumption
  <2> QED BY <2>1, <2>2
<1>5. ASSUME ~StoreMayFail, NEW f \in Execs, pc'[f] = "emit"
      PROVE  row'[f].st = result'[f].st
  <2>1. CASE f = e
    BY <1>5, <2>1 DEF TypeOK
  <2>2. CASE f # e
    BY <1>5, <2>2 DEF EventInv, TypeOK
  <2> QED BY <2>1, <2>2
<1>6. ASSUME ~StoreMayFail, NEW c \in Clients, NEW s \in Servers,
             last'[c][s].kind \in Finished, last'[c][s].run = dbRun'
      PROVE  row'[<<last'[c][s].run, s>>].st = last'[c][s].kind
  <2>1. CASE last'[c][s] = last[c][s]
    <3>1. last[c][s].kind \in Finished /\ last[c][s].run = dbRun
      BY <1>6, <2>1
    <3>2. row[<<dbRun, s>>].st = last[c][s].kind
      BY <1>6, <3>1 DEF EventInv, VerdictStoredBeforeSent
    <3>3. <<dbRun, s>> \in Execs
      BY <1>2, <3>1 DEF EventInv, TypeOK, Event, Execs
    <3>4. row'[<<dbRun, s>>] = row[<<dbRun, s>>]
      BY <1>2, <3>1, <3>2, <3>3
    <3> QED BY <2>1, <3>1, <3>2, <3>4
  <2>2. CASE last'[c][s] # last[c][s]
    <3>1. s = e[2] /\ last'[c][s].run = e[1] /\ last'[c][s].kind = kind /\ last' # last
      BY <1>0, <2>2
    <3> QED BY <1>1, <1>6, <3>1
  <2> QED BY <2>1, <2>2
<1> QED BY <1>3, <1>4, <1>5, <1>6 DEF EventInv, VerdictStoredBeforeSent

LEMMA ExecStepEvent ==
    ASSUME TypeOK, TypeOK', IInv, EventInv, NEW e \in Execs, ExecStep(e) \/ ReadChunk(e)
    PROVE  EventInv'
<1>1. "running" \notin Finished /\ "output" \notin Finished
  BY DEF Finished
<1>2. \A f \in Execs : f # e => row'[f] = row[f] /\ result'[f] = result[f]
  BY DEF ExecStep, ReadChunk, Begin, AnnounceRunning, WriteScript, OpenCommand, Register,
         CheckCancelled, WaitReturns, Decide, PersistOutcome, PersistFailed, EmitVerdict, Cleanup,
         FinalizeFailed, PersistOrFail, Persist, TypeOK, dbVars, execVars
<1>3. UNCHANGED <<phase, dbRun>>
  BY DEF ExecStep, ReadChunk, Begin, AnnounceRunning, WriteScript, OpenCommand, Register,
         CheckCancelled, WaitReturns, Decide, PersistOutcome, PersistFailed, EmitVerdict, Cleanup,
         dbVars, runVars
<1>4. CASE Begin(e) \/ WriteScript(e) \/ OpenCommand(e) \/ Register(e) \/ CheckCancelled(e)
           \/ WaitReturns(e) \/ Decide(e)
  <2>1. last' = last /\ pc[e] \in Undecided
    BY <1>4 DEF Begin, WriteScript, OpenCommand, Register, CheckCancelled, WaitReturns, Decide,
                At, Undecided, subVars
  <2>2. \E to \in Steps \ {"emit"} : pc' = [pc EXCEPT ![e] = to]
    BY <1>4 DEF Begin, WriteScript, OpenCommand, Register, CheckCancelled, WaitReturns, Decide,
                Goto, FinalizeFailed, Steps
  <2>3. row[e].st \in Unfinished /\ pc[e] \notin {"none", "cleanup"}
    BY <2>1 DEF IInv, VerdictInv, Undecided, Unrecorded
  <2> QED BY <1>2, <1>3, <2>1, <2>2, <2>3, ExecEvent
<1>5. CASE AnnounceRunning(e)
  <2>1. Broadcast(e, result[e].st) /\ pc[e] = "begun" /\ pc' = [pc EXCEPT ![e] = "script"]
        /\ row' = row
    BY <1>5 DEF AnnounceRunning, At, Goto, dbVars
  <2>2. result[e].st = "running"
    BY <2>1 DEF IInv, VerdictInv, Undecided
  <2> QED BY <1>1, <1>2, <1>3, <2>1, <2>2, ExecEvent
<1>6. CASE ReadChunk(e)
  <2>1. pc[e] \in {"wait", "drain"} /\ Broadcast(e, "output") /\ pc' = pc
    BY <1>6 DEF ReadChunk, IInv, SerialInv
  <2>2. row[e].st \in Unfinished /\ pc' = [pc EXCEPT ![e] = pc[e]]
    BY <2>1 DEF IInv, VerdictInv, Undecided, Unrecorded, TypeOK
  <2> QED BY <1>1, <1>2, <1>3, <2>1, <2>2, ExecEvent
<1>7. CASE PersistOutcome(e) \/ PersistFailed(e)
  <2>1. last' = last /\ pc[e] \in {"persistOutcome", "persistFailed"}
    BY <1>7 DEF PersistOutcome, PersistFailed, At, subVars
  <2>2. row[e].st \in Unfinished
    BY <2>1 DEF IInv, VerdictInv, Unrecorded
  <2>3. \E to \in Steps : /\ pc' = [pc EXCEPT ![e] = to]
                          /\ ~StoreMayFail => row'[e].st = result'[e].st
    BY <1>7 DEF PersistOutcome, PersistFailed, PersistOrFail, Persist, Goto, Steps, TypeOK
  <2> QED BY <1>2, <1>3, <2>1, <2>2, <2>3, ExecEvent
<1>8. CASE EmitVerdict(e)
  <2>1. Broadcast(e, result[e].st) /\ pc[e] = "emit" /\ pc' = [pc EXCEPT ![e] = "cleanup"]
        /\ UNCHANGED <<row, result>>
    BY <1>8 DEF EmitVerdict, At, Goto, dbVars
  <2>2. ~StoreMayFail => row'[e].st = result[e].st
    BY <2>1 DEF EventInv
  <2> QED BY <1>2, <1>3, <2>1, <2>2, ExecEvent
<1>9. CASE Cleanup(e)
  <2>1. UNCHANGED <<row, last, dbRun, phase>> /\ pc' = [pc EXCEPT ![e] = "none"]
    BY <1>9 DEF Cleanup, Goto, dbVars, subVars, runVars
  <2>2. \A f \in Execs : pc'[f] = IF f = e THEN "none" ELSE pc[f]
    BY <2>1 DEF TypeOK
  <2>3. \A f \in Execs : pc'[f] = "emit" => pc[f] = "emit" /\ result'[f] = result[f]
    BY <1>2, <2>2
  <2>4. \A f : pc[f] \in {"cleanup", "none"} => pc'[f] \in {"cleanup", "none"}
    BY <2>1 DEF TypeOK
  <2> QED BY <2>1, <2>3, <2>4 DEF EventInv, VerdictStoredBeforeSent
<1> QED BY <1>4, <1>5, <1>6, <1>7, <1>8, <1>9 DEF ExecStep

\* No event is about a run that is not yet stored.
LEMMA ReplaceEvent ==
    ASSUME TypeOK, TypeOK', IInv, EventInv, NEW r \in Runs, NEW targets \in SUBSET Servers,
           Replace(r, targets)
    PROVE  EventInv'
<1>1. last' = last /\ phase[r] = "checked" /\ dbRun' = r /\ phase' = [phase EXCEPT ![r] = "stored"]
  BY DEF Replace, subVars
<1>2. \A c \in Clients, s \in Servers : last[c][s].run # r
  BY <1>1, ConstantsAssumption DEF EventInv
<1>0. \A c \in Clients, s \in Servers : last[c][s] \in Event
  BY DEF TypeOK
<1>3. \A e \in Execs : pc[e] = "none"
  BY ExecutingRun DEF Replace, StoreAccepts, IInv, Executing
<1>4. \A e \in Execs : pc'[e] # "emit"
  BY <1>3 DEF Replace
<1>5. "none" \notin Finished
  BY DEF Finished
<1>6. ASSUME NEW c \in Clients, NEW s \in Servers, last[c][s].kind \in Finished
      PROVE  pc'[<<last[c][s].run, s>>] \in {"cleanup", "none"}
  <2>1. last[c][s] \in Event /\ last[c][s].run # NoRun
    BY <1>0, <1>5, <1>6 DEF EventInv
  <2>2. <<last[c][s].run, s>> \in Execs /\ <<last[c][s].run, s>> \notin {r} \X targets
    BY <1>2, <2>1 DEF Event, Execs
  <2> QED BY <1>3, <2>2 DEF Replace
<1>7. \A c \in Clients, s \in Servers :
        last[c][s].run # NoRun => phase'[last[c][s].run] \notin {"new", "checked"}
  <2>1. \A q \in Runs : q # r => phase'[q] = phase[q]
    BY <1>1 DEF TypeOK
  <2>2. \A c \in Clients, s \in Servers : last[c][s].run # NoRun => last[c][s].run \in Runs
    BY <1>0 DEF Event
  <2> QED BY <1>2, <2>1, <2>2 DEF EventInv
<1> QED BY <1>1, <1>2, <1>4, <1>6, <1>7 DEF EventInv, VerdictStoredBeforeSent

LEMMA EventInductive == TypeOK /\ TypeOK' /\ IInv /\ EventInv /\ [Next]_vars => EventInv'
<1> SUFFICES ASSUME TypeOK, TypeOK', IInv, EventInv, [Next]_vars
             PROVE  EventInv'
  OBVIOUS
<1>0. "none" \notin Finished /\ Unfinished \cap Finished = {}
  BY DEF Finished, Unfinished
<1>1. CASE /\ UNCHANGED <<last, pc, result, row, dbRun>>
           /\ \A r \in Runs : phase'[r] \in {"new", "checked"} => phase[r] \in {"new", "checked"}
  <2>1. \A c \in Clients, s \in Servers : last[c][s].run \in Runs \cup {NoRun}
    BY DEF TypeOK, Event
  <2> QED BY <1>1, <2>1 DEF EventInv, VerdictStoredBeforeSent
<1>2. ASSUME NEW r \in Runs, RunStep(r) \/ DispatchCheck(r) \/ ReplaceRefused(r)
      PROVE  EventInv'
  <2>1. UNCHANGED <<last, pc, result, row, dbRun>>
    BY <1>2 DEF RunStep, GoLive, Settle, MarkDone, CloseStreams, DispatchCheck, ReplaceRefused,
                execVars, dbVars, subVars
  <2>2. \A q \in Runs : phase'[q] \in {"new", "checked"} => phase[q] \in {"new", "checked"}
    BY <1>2 DEF RunStep, GoLive, Settle, MarkDone, CloseStreams, DispatchCheck, ReplaceRefused,
                TypeOK
  <2> QED BY <1>1, <2>1, <2>2
<1>3. ASSUME NEW e \in Execs, FinalizeStaleRow(e)
      PROVE  EventInv'
  <2>1. /\ UNCHANGED <<last, pc, result, dbRun, phase>> /\ e \in todo /\ mode = "boot"
        /\ \A f \in Execs : f # e => row'[f] = row[f]
    BY <1>3 DEF FinalizeStaleRow, PersistOrFail, Persist, runVars, execVars, subVars, TypeOK
  <2>2. e[1] = dbRun /\ row[e].st \in Unfinished /\ pc[e] = "none"
    BY <2>1, ExecutingRun DEF IInv, BootInv, Executing
  <2>3. \A c \in Clients, s \in Servers :
          <<last[c][s].run, s>> = e /\ last[c][s].run = dbRun /\ ~StoreMayFail
            => last[c][s].kind \notin Finished
    BY <1>0, <2>2 DEF EventInv, VerdictStoredBeforeSent
  <2>4. \A c \in Clients, s \in Servers :
          last[c][s].kind \in Finished => <<last[c][s].run, s>> \in Execs
    <3>1. \A c \in Clients, s \in Servers : last[c][s] \in Event
      BY DEF TypeOK
    <3> QED BY <1>0, <3>1 DEF EventInv, Event, Execs
  <2>5. VerdictStoredBeforeSent'
    BY <2>1, <2>3, <2>4 DEF EventInv, VerdictStoredBeforeSent
  <2>6. ~StoreMayFail => \A f \in Execs : pc'[f] = "emit" => row'[f].st = result'[f].st
    BY <2>1, <2>2 DEF EventInv
  <2> QED BY <2>1, <2>5, <2>6 DEF EventInv
<1>4. ASSUME NEW c \in Clients, Unsubscribe(c)
      PROVE  EventInv'
  <2>1. /\ UNCHANGED <<pc, result, row, dbRun, phase>>
        /\ \A d \in Clients, s \in Servers : last'[d][s] = last[d][s] \/ last'[d][s] = NoEvent
    BY <1>4 DEF Unsubscribe, runVars, execVars, dbVars, TypeOK
  <2> QED BY <1>0, <2>1 DEF EventInv, VerdictStoredBeforeSent, NoEvent
<1>5. CASE Crash
  <2>1. /\ \A c \in Clients, s \in Servers : last'[c][s] = NoEvent
        /\ \A e \in Execs : pc'[e] = "none"
    BY <1>5 DEF Crash
  <2> QED BY <1>0, <2>1 DEF EventInv, VerdictStoredBeforeSent, NoEvent
<1>6. ASSUME UNCHANGED <<last, pc, result, row, dbRun, phase>>
      PROVE  EventInv'
  BY <1>1, <1>6
<1>7. ASSUME NEW e \in Execs, ReadEOF(e) \/ Input(e) \/ ProcStep(e)
      PROVE  EventInv'
  BY <1>6, <1>7 DEF ReadEOF, Input, ProcStep, runVars, execVars, dbVars, subVars
<1>8. ASSUME NEW r \in Runs, CloseSessions(r)
      PROVE  EventInv'
  BY <1>6, <1>8 DEF CloseSessions, execVars, dbVars, subVars
<1>9. ASSUME NEW c \in Clients, SubscribeCheck(c) \/ SubscribeRegister(c)
      PROVE  EventInv'
  BY <1>6, <1>9 DEF SubscribeCheck, SubscribeRegister, runVars, execVars, dbVars
<1>10. CASE Cancel \/ Restart \/ FinalizeStaleRun \/ UNCHANGED vars
  BY <1>6, <1>10 DEF Cancel, Restart, FinalizeStaleRun, vars, runVars, execVars, dbVars, subVars
<1> QED
  BY <1>2, <1>3, <1>4, <1>5, <1>7, <1>8, <1>9, <1>10, ExecStepEvent, ReplaceEvent
  DEF Next, DispatchStep, ReaderStep, ClientStep, BootStep

LEMMA EventInit == Init => EventInv
<1> SUFFICES ASSUME Init PROVE EventInv
  OBVIOUS
<1>1. "none" \notin Finished
  BY DEF Finished
<1>2. \A c \in Clients, s \in Servers : last[c][s] = NoEvent
  BY DEF Init
<1>3. \A e \in Execs : pc[e] = "none"
  BY DEF Init
<1> QED BY <1>1, <1>2, <1>3 DEF EventInv, VerdictStoredBeforeSent, NoEvent

\* VerdictStoredBeforeSent: a verdict that a client was told is in the store,
\* for the retained run, through crashes and restarts, when the store is reliable.
THEOREM StoredBeforeSent == Spec => []VerdictStoredBeforeSent
<1>1. EventInv => VerdictStoredBeforeSent
  BY DEF EventInv
<1>2. Spec => [](TypeOK /\ IInv /\ EventInv)
  BY EventInit, EventInductive, Invariance, PTL DEF Spec
<1> QED BY <1>1, <1>2, PTL

\* VerdictIsLastEvent: after its verdict a client hears no more of a server's
\* result: no output read late, no second verdict.
THEOREM VerdictLast == Spec => VerdictIsLastEvent
<1> DEFINE IsLast ==
      \A c \in Clients, s \in Servers :
        /\ last[c][s].kind \in Finished
        /\ last'[c][s].run = last[c][s].run
        => last'[c][s] = last[c][s]
<1>1. TypeOK /\ IInv /\ EventInv /\ [Next]_vars => IsLast
  <2> SUFFICES ASSUME TypeOK, IInv, EventInv, [Next]_vars, NEW c \in Clients, NEW s \in Servers,
                      last[c][s].kind \in Finished, last'[c][s].run = last[c][s].run,
                      last'[c][s] # last[c][s]
               PROVE  FALSE
    OBVIOUS
  <2>1. last[c][s].run # NoRun /\ last' # last
    <3>1. "none" \notin Finished
      BY DEF Finished
    <3> QED BY <3>1 DEF EventInv
  <2>2. ASSUME NEW e \in Execs, NEW kind, Broadcast(e, kind), pc[e] \notin {"cleanup", "none"}
        PROVE  FALSE
    <3>1. e = <<last[c][s].run, s>>
      BY <2>2, BroadcastSends, ExecPair
    <3> QED BY <2>2, <3>1 DEF EventInv
  <2>3. ASSUME NEW e \in Execs, AnnounceRunning(e) \/ EmitVerdict(e) \/ ReadChunk(e)
        PROVE  FALSE
    BY <2>2, <2>3 DEF AnnounceRunning, EmitVerdict, ReadChunk, At, IInv, SerialInv
  <2>4. ASSUME NEW d \in Clients, Unsubscribe(d)
        PROVE  FALSE
    <3>1. last'[c][s] = last[c][s] \/ last'[c][s] = NoEvent
      BY <2>4 DEF Unsubscribe, TypeOK
    <3> QED BY <2>1, <3>1 DEF NoEvent
  <2>5. CASE Crash
    BY <2>1, <2>5 DEF Crash, NoEvent
  <2> QED
    BY <2>1, <2>3, <2>4, <2>5
    DEF Next, DispatchStep, DispatchCheck, Replace, ReplaceRefused, RunStep, GoLive, Settle,
        MarkDone, CloseStreams, CloseSessions, ExecStep, Begin, WriteScript, OpenCommand, Register,
        CheckCancelled, WaitReturns, Decide, PersistOutcome, PersistFailed, Cleanup, ReaderStep,
        ReadEOF, Input, ProcStep, ClientStep, SubscribeCheck, SubscribeRegister, Cancel, BootStep,
        Restart, FinalizeStaleRun, FinalizeStaleRow, vars, subVars
<1>2. Spec => [](TypeOK /\ IInv /\ EventInv)
  BY EventInit, EventInductive, Invariance, PTL DEF Spec
<1> QED BY <1>1, <1>2, PTL DEF Spec, VerdictIsLastEvent
=============================================================================
