---------------------------- MODULE StreamProofs ----------------------------
(* Theorems about the two streams a page follows: the events of a batch run *)
(* (BatchClient) and the dashboard's live data (Hub), for every number of    *)
(* sockets, connections, pages, runs and messages.                           *)
EXTENDS BatchClient, HubState, TLAPS

-----------------------------------------------------------------------------
(* The batch client: types                                                   *)

Socket == [run : 0..MaxRuns, st : {"free", "connecting", "open", "ended", "closing"},
           queue : Seq(Frames)]
Req == [op : {"open", "resync", "dispatch"}, st : {"sent", "read", "failed"}, snap : Snapshot]

\* The types by part: the server, the dialog, its sockets and what is kept as
\* history.  Sockets and requests are records, and there is a run that is not
\* over only if there was one at all.
ServerTyped ==
  /\ cur \in 0..MaxRuns /\ done \in BOOLEAN
  /\ outs \in [Runs -> 0..MaxOut] /\ saved \in [Runs -> 0..MaxOut]
  /\ fins \in [Runs -> BOOLEAN]
  /\ cur = 0 => done

DialogTyped ==
  /\ mounted \in BOOLEAN /\ mode \in {"compose", "results"}
  /\ selected \subseteq Servers /\ dispatching \in BOOLEAN
  /\ run \in RunInfo /\ out \in Seq(1..MaxOut) /\ fin \in BOOLEAN

SocketsTyped ==
  wsRef \in Slots \cup {NoSocket} /\ timer \in BOOLEAN /\ sockets \in [Slots -> Socket]

SlipsTyped == slips \subseteq {"stale", "late", "twin", "lost"}

Typed == ServerTyped /\ DialogTyped /\ SocketsTyped /\ reqs \subseteq Req /\ SlipsTyped

\* The values the records are made of.
LEMMA Values ==
    /\ NoRun \in RunInfo /\ NoSnapshot \in Snapshot /\ Free \in Socket
    /\ <<>> \in Seq(1..MaxOut) /\ <<>> \in Seq(Frames)
    /\ MaxRuns \in Nat /\ MaxOut \in Nat /\ NoSocket \notin Slots
<1>1. MaxRuns \in Nat /\ MaxOut \in Nat /\ NoSocket \notin Slots
  BY ClientAssumption DEF ClientAssumption
<1>2. <<>> \in Seq(1..MaxOut) /\ <<>> \in Seq(Frames)
  OBVIOUS
<1>3. NoRun \in RunInfo
  BY <1>1 DEF NoRun, RunInfo
<1>4. NoSnapshot \in Snapshot
  BY <1>2, <1>3 DEF NoSnapshot, Snapshot
<1>5. Free \in Socket
  BY <1>1, <1>2 DEF Free, Socket
<1> QED BY <1>1, <1>2, <1>3, <1>4, <1>5

\* What the server answers is a snapshot.
LEMMA ChunksTyped == ASSUME NEW n \in 0..MaxOut PROVE Chunks(n) \in Seq(1..MaxOut)
<1>1. n \in Nat /\ \A i \in 1..n : i \in 1..MaxOut
  BY Values
<1> QED BY <1>1 DEF Chunks

LEMMA CurrentTyped == ASSUME Typed PROVE CurrentRun \in Snapshot
<1>1. cur # 0 => cur \in Runs
  BY Values DEF Typed, ServerTyped, Runs
<1>2. CASE cur = 0
  <2>1. CurrentRun = [run |-> NoRun, out |-> <<>>, fin |-> FALSE]
    BY <1>2 DEF CurrentRun
  <2> QED BY <2>1, Values DEF Snapshot
<1>3. CASE cur # 0
  <2> DEFINE r == [id |-> cur, st |-> IF done THEN "done" ELSE "running"]
  <2>1. saved[cur] \in 0..MaxOut /\ fins[cur] \in BOOLEAN
    BY <1>1, <1>3 DEF Typed, ServerTyped
  <2>2. Chunks(saved[cur]) \in Seq(1..MaxOut)
    BY <2>1, ChunksTyped
  <2>3. r \in RunInfo
    BY <1>1, <1>3 DEF Typed, ServerTyped, RunInfo, Runs
  <2>4. (cur # 0 /\ fins[cur]) \in BOOLEAN
    OBVIOUS
  <2>5. CurrentRun = [run |-> r, out |-> Chunks(saved[cur]), fin |-> cur # 0 /\ fins[cur]]
    BY <1>3 DEF CurrentRun
  <2> HIDE DEF r
  <2> QED BY <2>2, <2>3, <2>4, <2>5 DEF Snapshot
<1> QED BY <1>2, <1>3

\* The sockets after connect and close.
LEMMA ConnectedTyped ==
    ASSUME NEW ref \in Slots \cup {NoSocket}, NEW socks \in [Slots -> Socket],
           NEW r \in RunInfo, NEW c \in Connected(ref, socks, r)
    PROVE  c[1] \in Slots /\ c[2] \in [Slots -> Socket]
<1>1. [run |-> r.id, st |-> "connecting", queue |-> <<>>] \in Socket
  BY Values DEF Socket, RunInfo
<1> QED BY <1>1 DEF Connected

LEMMA ClosedTyped ==
    ASSUME NEW ref \in Slots \cup {NoSocket}, NEW socks \in [Slots -> Socket],
           NEW c \in Closed(ref, socks)
    PROVE  c[1] = NoSocket /\ c[2] \in [Slots -> Socket]
<1>1. CASE ref = NoSocket
  BY <1>1 DEF Closed
<1>2. CASE ref # NoSocket
  <2>1. c[1] = NoSocket /\ c[2] = [socks EXCEPT ![ref].st = "closing", ![ref].queue = <<>>]
    BY <1>2 DEF Closed
  <2>2. socks[ref] \in Socket /\ ref \in Slots
    BY <1>2
  <2>3. [socks[ref] EXCEPT !.st = "closing", !.queue = <<>>] \in Socket
    BY <2>2, Values DEF Socket
  <2>4. c[2] = [socks EXCEPT ![ref] = [socks[ref] EXCEPT !.st = "closing", !.queue = <<>>]]
    BY <2>1, <2>2 DEF Socket
  <2> QED BY <2>1, <2>2, <2>3, <2>4
<1> QED BY <1>1, <1>2

LEMMA EffectTyped ==
    ASSUME NEW m, NEW r \in RunInfo, NEW ref \in Slots \cup {NoSocket},
           NEW socks \in [Slots -> Socket], SocketEffect(m, r, ref, socks)
    PROVE  wsRef' \in Slots \cup {NoSocket} /\ sockets' \in [Slots -> Socket]
<1>1. PICK c \in IF m = "results" /\ IsRunning(r) THEN Connected(ref, socks, r)
                 ELSE Closed(ref, socks) : wsRef' = c[1] /\ sockets' = c[2]
  BY DEF SocketEffect
<1>2. CASE c \in Connected(ref, socks, r)
  BY <1>1, <1>2, ConnectedTyped
<1>3. CASE c \in Closed(ref, socks)
  BY <1>1, <1>3, ClosedTyped
<1> QED BY <1>1, <1>2, <1>3

LEMMA SlipTyped ==
    ASSUME Typed, NEW cond, NEW what \in {"stale", "late", "twin", "lost"}, Slip(cond, what)
    PROVE  slips' \subseteq {"stale", "late", "twin", "lost"}
           /\ (slips' = {} => slips = {} /\ ~cond)
BY DEF Slip, Typed, SlipsTyped

LEMMA BroadcastTyped ==
    ASSUME Typed, NEW frame \in Frames PROVE Broadcast(frame) \in [Slots -> Socket]
<1>1. ASSUME NEW s \in Slots PROVE [sockets[s] EXCEPT !.queue = Append(@, frame)] \in Socket
  <2>1. sockets[s] \in Socket /\ sockets[s].queue \in Seq(Frames)
    BY DEF Typed, SocketsTyped, Socket
  <2>2. Append(sockets[s].queue, frame) \in Seq(Frames)
    BY <2>1
  <2> QED BY <2>1, <2>2 DEF Socket
<1>2. \A s \in Slots : sockets[s] \in Socket
  BY DEF Typed, SocketsTyped
<1> QED BY <1>1, <1>2 DEF Broadcast

LEMMA ReqTyped ==
    ASSUME Typed, NEW q \in reqs
    PROVE  /\ q \in Req /\ q.snap \in Snapshot /\ q.snap.run \in RunInfo
           /\ q.snap.out \in Seq(1..MaxOut) /\ q.snap.fin \in BOOLEAN
BY DEF Typed, Req, Snapshot

\* The user's steps keep the types.
LEMMA UserTyped == ASSUME Typed, UserStep PROVE Typed'
<1>0. /\ ServerTyped /\ DialogTyped /\ SocketsTyped /\ reqs \subseteq Req /\ SlipsTyped
  BY DEF Typed
<1>1. ASSUME ServerTyped', DialogTyped', SocketsTyped', reqs' \subseteq Req, SlipsTyped'
      PROVE Typed'
  BY <1>1 DEF Typed
<1>2. CASE Open
  <2>1. [op |-> "open", st |-> "sent", snap |-> NoSnapshot] \in Req
    BY Values DEF Req
  <2>2. reqs' \subseteq Req
    BY <1>2, <2>1 DEF Open
  <2>3. ServerTyped' /\ DialogTyped' /\ SocketsTyped' /\ SlipsTyped'
    BY <1>0, <1>2 DEF Open, server, ServerTyped, DialogTyped, SocketsTyped, SlipsTyped
  <2> QED BY <1>1, <2>2, <2>3
<1>3. CASE CloseDialog
  <2>1. [s \in Slots |-> Free] \in [Slots -> Socket]
    BY Values
  <2>2. SocketsTyped' /\ reqs' \subseteq Req
    BY <1>3, <2>1 DEF CloseDialog, SocketsTyped
  <2>3. ServerTyped' /\ DialogTyped' /\ SlipsTyped'
    BY <1>0, <1>3, Values
       DEF CloseDialog, SetState, server, ServerTyped, DialogTyped, SlipsTyped
  <2> QED BY <1>1, <2>2, <2>3
<1>4. CASE Select
  <2>1. selected' \subseteq Servers
    BY <1>0, <1>4, ClientAssumption
       DEF Select, ToggleServer, ToggleMany, DialogTyped, ClientAssumption
  <2>2. ServerTyped' /\ DialogTyped' /\ SocketsTyped' /\ reqs' \subseteq Req /\ SlipsTyped'
    BY <1>0, <1>4, <2>1
       DEF Select, server, view, ServerTyped, DialogTyped, SocketsTyped, SlipsTyped
  <2> QED BY <1>1, <2>2
<1>5. CASE RunScript
  <2>1. [op |-> "dispatch", st |-> "sent", snap |-> NoSnapshot] \in Req
    BY Values DEF Req
  <2>2. reqs' \subseteq Req
    BY <1>0, <1>5, <2>1 DEF RunScript
  <2>3. ServerTyped' /\ DialogTyped' /\ SocketsTyped' /\ SlipsTyped'
    BY <1>0, <1>5 DEF RunScript, server, ServerTyped, DialogTyped, SocketsTyped, SlipsTyped
  <2> QED BY <1>1, <2>2, <2>3
<1>6. CASE SetMode
  <2>1. PICK m \in {"compose", "results"} : mode' = m /\ SocketEffect(m, run, wsRef, sockets)
    BY <1>6 DEF SetMode
  <2>2. SocketsTyped'
    BY <1>0, <1>6, <2>1, EffectTyped DEF SetMode, SocketsTyped, DialogTyped
  <2>3. ServerTyped' /\ DialogTyped' /\ reqs' \subseteq Req /\ SlipsTyped'
    BY <1>0, <1>6, <2>1 DEF SetMode, server, ServerTyped, DialogTyped, SlipsTyped
  <2> QED BY <1>1, <2>2, <2>3
<1>7. CASE Cancel
  <2>1. cur \in Runs /\ 0 \in Frames
    BY <1>0, <1>7, Values DEF Cancel, Runs, ServerTyped, Frames
  <2>2. ServerTyped' /\ sockets' \in [Slots -> Socket]
    BY <1>0, <1>7, <2>1, BroadcastTyped DEF Cancel, Finish, ServerTyped
  <2>3. DialogTyped' /\ SocketsTyped' /\ reqs' \subseteq Req /\ SlipsTyped'
    BY <1>0, <1>7, <2>2 DEF Cancel, view, DialogTyped, SocketsTyped, SlipsTyped
  <2> QED BY <1>1, <2>2, <2>3
<1> QED BY <1>2, <1>3, <1>4, <1>5, <1>6, <1>7 DEF UserStep

\* So do the answers and the callbacks of the sockets and the timer.
LEMMA CallbackTyped == ASSUME Typed, Callback PROVE Typed'
<1>0. /\ ServerTyped /\ DialogTyped /\ SocketsTyped /\ reqs \subseteq Req /\ SlipsTyped
  BY DEF Typed
<1>1. ASSUME ServerTyped', DialogTyped', SocketsTyped', reqs' \subseteq Req, SlipsTyped'
      PROVE Typed'
  BY <1>1 DEF Typed
<1>2. ASSUME NEW q \in reqs, OpenDone(q) PROVE Typed'
  <2>1. PICK snap \in {q.snap, NoSnapshot} :
          LET m == IF IsRunning(snap.run) THEN "results" ELSE "compose"
          IN /\ SetState(m, snap.run, snap.out, snap.fin)
             /\ SocketEffect(m, snap.run, wsRef, sockets)
             /\ Slip(Overtaken(snap.run), "stale")
    BY <1>2 DEF OpenDone
  <2>2. snap.run \in RunInfo /\ snap.out \in Seq(1..MaxOut) /\ snap.fin \in BOOLEAN
    BY Values, ReqTyped DEF Snapshot
  <2> DEFINE m == IF IsRunning(snap.run) THEN "results" ELSE "compose"
  <2>3. SocketEffect(m, snap.run, wsRef, sockets) /\ SlipsTyped'
    BY <2>1, SlipTyped DEF SlipsTyped
  <2>4. SocketsTyped'
    BY <1>0, <1>2, <2>2, <2>3, EffectTyped DEF OpenDone, SocketsTyped
  <2>5. DialogTyped'
    BY <1>0, <1>2, <2>1, <2>2 DEF OpenDone, SetState, DialogTyped
  <2>6. ServerTyped' /\ reqs' \subseteq Req
    BY <1>0, <1>2 DEF OpenDone, server, ServerTyped
  <2> QED BY <1>1, <2>3, <2>4, <2>5, <2>6
<1>3. ASSUME NEW q \in reqs, DispatchDone(q) PROVE Typed'
  <2>1. ServerTyped' /\ reqs' \subseteq Req
    BY <1>0, <1>3 DEF DispatchDone, server, ServerTyped
  <2>2. SlipsTyped'
    BY <1>0, <1>3, SlipTyped DEF DispatchDone, SlipsTyped
  <2>3. SocketsTyped'
    BY <1>0, <1>3, EffectTyped, ReqTyped DEF DispatchDone, SocketsTyped
  <2>4. DialogTyped'
    BY <1>0, <1>3, ReqTyped DEF DispatchDone, SetState, DialogTyped
  <2> QED BY <1>1, <2>1, <2>2, <2>3, <2>4
<1>4. ASSUME NEW q \in reqs, ResyncDone(q) PROVE Typed'
  <2>1. ServerTyped' /\ reqs' \subseteq Req
    BY <1>0, <1>4 DEF ResyncDone, server, ServerTyped
  <2>2. SlipsTyped'
    BY <1>0, <1>4, SlipTyped DEF ResyncDone, SlipsTyped
  <2>3. DialogTyped'
    BY <1>0, <1>4, ReqTyped DEF ResyncDone, SetState, DialogTyped
  <2>4. SocketsTyped'
    <3>1. CASE UNCHANGED <<wsRef, sockets>>
      BY <1>0, <1>4, <3>1 DEF ResyncDone, SocketsTyped
    <3>2. CASE ~UNCHANGED <<wsRef, sockets>>
      <4>1. PICK c \in IF IsRunning(q.snap.run) THEN Connected(wsRef, sockets, q.snap.run)
                       ELSE {<<wsRef, sockets>>} : SocketEffect(mode, q.snap.run, c[1], c[2])
        BY <1>4, <3>2 DEF ResyncDone
      <4>2. c[1] \in Slots \cup {NoSocket} /\ c[2] \in [Slots -> Socket]
        <5>1. CASE IsRunning(q.snap.run)
          BY <1>0, <4>1, <5>1, ConnectedTyped, ReqTyped DEF SocketsTyped
        <5>2. CASE ~IsRunning(q.snap.run)
          <6>1. c = <<wsRef, sockets>>
            BY <4>1, <5>2
          <6> QED BY <1>0, <6>1 DEF SocketsTyped
        <5> QED BY <5>1, <5>2
      <4>3. wsRef' \in Slots \cup {NoSocket} /\ sockets' \in [Slots -> Socket]
        BY <4>1, <4>2, EffectTyped, ReqTyped
      <4> QED BY <1>0, <1>4, <4>3 DEF ResyncDone, SocketsTyped
    <3> QED BY <3>1, <3>2
  <2> QED BY <1>1, <2>1, <2>2, <2>3, <2>4
<1>5. ASSUME NEW s \in Slots, SocketOpens(s) PROVE Typed'
  <2>1. sockets[s] \in Socket
    BY <1>0 DEF SocketsTyped
  <2>2. [sockets[s] EXCEPT !.st = "open"] \in Socket
        /\ [sockets[s] EXCEPT !.st = "ended"] \in Socket
    BY <2>1 DEF Socket
  <2>3. sockets' \in [Slots -> Socket]
    BY <1>0, <1>5, <2>2 DEF SocketOpens, SocketsTyped
  <2>4. SlipsTyped'
    BY <1>0, <1>5, SlipTyped DEF SocketOpens, SlipsTyped
  <2>5. ServerTyped' /\ DialogTyped' /\ SocketsTyped' /\ reqs' \subseteq Req
    BY <1>0, <1>5, <2>3 DEF SocketOpens, server, view, ServerTyped, DialogTyped, SocketsTyped
  <2> QED BY <1>1, <2>4, <2>5
<1>6. ASSUME NEW s \in Slots, OnMessage(s) PROVE Typed'
  <2>1. sockets[s] \in Socket /\ sockets[s].queue \in Seq(Frames) /\ sockets[s].queue # <<>>
    BY <1>0, <1>6 DEF OnMessage, SocketsTyped, Socket
  <2>2. Head(sockets[s].queue) \in Frames /\ Tail(sockets[s].queue) \in Seq(Frames)
    BY <2>1
  <2>3. [sockets[s] EXCEPT !.queue = Tail(@)] \in Socket
    BY <2>1, <2>2 DEF Socket
  <2>4. sockets' \in [Slots -> Socket]
    BY <1>0, <1>6, <2>3 DEF OnMessage, SocketsTyped
  <2>5. out' \in Seq(1..MaxOut) /\ fin' \in BOOLEAN
    <3>1. Head(sockets[s].queue) # 0 => Head(sockets[s].queue) \in 1..MaxOut
      BY <2>2, Values DEF Frames
    <3>2. CASE Head(sockets[s].queue) = 0
      BY <1>0, <1>6, <3>2 DEF OnMessage, DialogTyped
    <3>3. CASE Head(sockets[s].queue) # 0
      <4>1. Append(out, Head(sockets[s].queue)) \in Seq(1..MaxOut)
        BY <1>0, <3>1, <3>3 DEF DialogTyped
      <4> QED BY <1>0, <1>6, <3>3, <4>1 DEF OnMessage, DialogTyped
    <3> QED BY <3>2, <3>3
  <2>6. ServerTyped' /\ DialogTyped' /\ SocketsTyped' /\ reqs' \subseteq Req /\ SlipsTyped'
    BY <1>0, <1>6, <2>4, <2>5
       DEF OnMessage, server, ServerTyped, DialogTyped, SocketsTyped, SlipsTyped
  <2> QED BY <1>1, <2>6
<1>7. ASSUME NEW s \in Slots, OnClose(s) PROVE Typed'
  <2>1. sockets' \in [Slots -> Socket]
    BY <1>0, <1>7, Values DEF OnClose, SocketsTyped
  <2>2. timer' \in BOOLEAN
    BY <1>0, <1>7 DEF OnClose, SocketsTyped, Retries, IsRunning
  <2>3. SlipsTyped'
    BY <1>0, <1>7, SlipTyped DEF OnClose, SlipsTyped
  <2>4. ServerTyped' /\ DialogTyped' /\ SocketsTyped' /\ reqs' \subseteq Req
    BY <1>0, <1>7, <2>1, <2>2 DEF OnClose, server, view, ServerTyped, DialogTyped, SocketsTyped
  <2> QED BY <1>1, <2>3, <2>4
<1>8. CASE TimerFires
  <2>1. [op |-> "resync", st |-> "sent", snap |-> NoSnapshot] \in Req
    BY Values DEF Req
  <2>2. reqs' \subseteq Req
    BY <1>0, <1>8, <2>1 DEF TimerFires
  <2>3. ServerTyped' /\ DialogTyped' /\ SocketsTyped' /\ SlipsTyped'
    BY <1>0, <1>8
       DEF TimerFires, server, view, ServerTyped, DialogTyped, SocketsTyped, SlipsTyped
  <2> QED BY <1>1, <2>2, <2>3
<1> QED BY <1>2, <1>3, <1>4, <1>5, <1>6, <1>7, <1>8 DEF Callback

\* And what happens on the server, or to the connections.
LEMMA ServerStepTyped ==
    ASSUME Typed,
           RunGoesOn \/ OtherDispatch \/ (\E q \in reqs : Handle(q)) \/ \E s \in Slots : Drop(s)
    PROVE  Typed'
<1>0. /\ ServerTyped /\ DialogTyped /\ SocketsTyped /\ reqs \subseteq Req /\ SlipsTyped
  BY DEF Typed
<1>1. ASSUME ServerTyped', DialogTyped', SocketsTyped', reqs' \subseteq Req, SlipsTyped'
      PROVE Typed'
  BY <1>1 DEF Typed
<1>2. ASSUME NewRun PROVE ServerTyped' /\ cur' \in 0..MaxRuns
  <2>1. cur \in 0..MaxRuns /\ cur < MaxRuns /\ cur' = cur + 1 /\ done' = FALSE
    BY <1>0, <1>2 DEF NewRun, ServerTyped
  <2>2. cur' \in 0..MaxRuns /\ cur' # 0
    BY <2>1, Values
  <2>3. outs' = outs /\ saved' = saved /\ fins' = fins
    BY <1>2 DEF NewRun
  <2> QED BY <1>0, <2>1, <2>2, <2>3 DEF ServerTyped
<1>3. CASE OtherDispatch
  <2>1. DialogTyped' /\ SocketsTyped' /\ reqs' \subseteq Req /\ SlipsTyped'
    BY <1>0, <1>3 DEF OtherDispatch, view, DialogTyped, SocketsTyped, SlipsTyped
  <2> QED BY <1>1, <1>2, <1>3, <2>1 DEF OtherDispatch
<1>4. ASSUME NEW s \in Slots, Drop(s) PROVE Typed'
  <2>1. sockets[s] \in Socket
    BY <1>0 DEF SocketsTyped
  <2>2. [sockets[s] EXCEPT !.st = "ended", !.queue = <<>>] \in Socket
    BY <2>1, Values DEF Socket
  <2>3. sockets' = [sockets EXCEPT ![s] = [sockets[s] EXCEPT !.st = "ended", !.queue = <<>>]]
    BY <1>0, <1>4, <2>1 DEF Drop, SocketsTyped, Socket
  <2>4. sockets' \in [Slots -> Socket]
    BY <1>0, <2>2, <2>3 DEF SocketsTyped
  <2>5. ServerTyped' /\ DialogTyped' /\ SocketsTyped' /\ reqs' \subseteq Req /\ SlipsTyped'
    BY <1>0, <1>4, <2>4
       DEF Drop, server, view, ServerTyped, DialogTyped, SocketsTyped, SlipsTyped
  <2> QED BY <1>1, <2>5
<1>5. ASSUME NEW q \in reqs, Handle(q) PROVE Typed'
  <2>0. q \in Req
    BY <1>0
  <2>1. ASSUME NEW st \in {"sent", "read", "failed"}, NEW snap \in Snapshot
        PROVE  Answered(q, st, snap) \subseteq Req
    <3>1. [q EXCEPT !.st = st, !.snap = snap] \in Req
      BY <2>0 DEF Req
    <3> QED BY <1>0, <3>1 DEF Answered
  <2>2. reqs' \subseteq Req /\ ServerTyped' /\ UNCHANGED sockets
    <3>1. CASE reqs' = Answered(q, "read", CurrentRun) /\ UNCHANGED <<server, sockets>>
      BY <1>0, <2>1, <3>1, CurrentTyped DEF server, ServerTyped
    <3>2. CASE NewRun /\ UNCHANGED sockets
               /\ reqs' = Answered(q, "read", [run |-> [id |-> cur', st |-> "running"],
                                               out |-> <<>>, fin |-> FALSE])
      <4>1. [id |-> cur', st |-> "running"] \in RunInfo
        BY <1>2, <3>2 DEF RunInfo
      <4> DEFINE r == [id |-> cur', st |-> "running"]
      <4> HIDE DEF r
      <4>2. [run |-> r, out |-> <<>>, fin |-> FALSE] \in Snapshot
        BY <4>1, Values DEF Snapshot, r
      <4> QED BY <1>2, <2>1, <3>2, <4>2 DEF r
    <3>3. CASE reqs' = Answered(q, "failed", NoSnapshot) /\ UNCHANGED <<server, sockets>>
      BY <1>0, <2>1, <3>3, Values DEF server, ServerTyped
    <3> QED BY <1>5, <3>1, <3>2, <3>3 DEF Handle
  <2>3. DialogTyped' /\ SocketsTyped' /\ SlipsTyped'
    BY <1>0, <1>5, <2>2 DEF Handle, view, DialogTyped, SocketsTyped, SlipsTyped
  <2> QED BY <1>1, <2>2, <2>3
<1>6. CASE RunGoesOn
  <2>0. cur \in Runs /\ outs[cur] \in 0..MaxOut
    BY <1>0, <1>6, Values DEF RunGoesOn, ServerTyped, Runs
  <2>1. ServerTyped' /\ sockets' \in [Slots -> Socket]
    <3>1. CASE /\ outs[cur] < MaxOut /\ outs' = [outs EXCEPT ![cur] = @ + 1]
               /\ sockets' = Broadcast(outs'[cur]) /\ UNCHANGED <<cur, done, saved, fins>>
      <4>1. outs[cur] + 1 \in 0..MaxOut /\ outs'[cur] = outs[cur] + 1
        BY <1>0, <2>0, <3>1, Values DEF ServerTyped
      <4>2. outs'[cur] \in Frames
        BY <4>1 DEF Frames
      <4>3. Broadcast(outs'[cur]) \in [Slots -> Socket]
        BY <4>2, BroadcastTyped
      <4> QED BY <1>0, <3>1, <4>1, <4>3 DEF ServerTyped
    <3>2. CASE saved' = [saved EXCEPT ![cur] = outs[cur]]
               /\ UNCHANGED <<cur, done, outs, fins, sockets>>
      BY <1>0, <2>0, <3>2 DEF ServerTyped, SocketsTyped
    <3>3. CASE Finish
      <4>1. 0 \in Frames
        BY Values DEF Frames
      <4> QED BY <1>0, <2>0, <3>3, <4>1, BroadcastTyped DEF Finish, ServerTyped
    <3>4. CASE /\ done' = TRUE /\ UNCHANGED <<cur, outs, saved, fins>>
               /\ sockets' = [s \in Slots |-> IF sockets[s].st = "open"
                                              THEN [sockets[s] EXCEPT !.st = "ended"]
                                              ELSE sockets[s]]
      <4>1. \A s \in Slots : sockets[s] \in Socket
        BY <1>0 DEF SocketsTyped
      <4>2. \A s \in Slots : [sockets[s] EXCEPT !.st = "ended"] \in Socket
        BY <4>1 DEF Socket
      <4> QED BY <1>0, <3>4, <4>1, <4>2 DEF ServerTyped
    <3> QED BY <1>6, <3>1, <3>2, <3>3, <3>4 DEF RunGoesOn
  <2>2. DialogTyped' /\ SocketsTyped' /\ reqs' \subseteq Req /\ SlipsTyped'
    BY <1>0, <1>6, <2>1 DEF RunGoesOn, view, DialogTyped, SocketsTyped, SlipsTyped
  <2> QED BY <1>1, <2>1, <2>2
<1> QED BY <1>3, <1>4, <1>5, <1>6

\* Every step keeps the types.
LEMMA TypedStep == ASSUME Typed, [Next]_vars PROVE Typed'
<1>1. CASE UNCHANGED vars
  BY <1>1 DEF vars, server, view, Typed, ServerTyped, DialogTyped, SocketsTyped, SlipsTyped
<1>2. CASE Step
  BY <1>2, UserTyped, CallbackTyped, ServerStepTyped DEF Step
<1> QED BY <1>1, <1>2 DEF Next

LEMMA InitTyped == Init => Typed
<1> SUFFICES ASSUME Init PROVE ServerTyped /\ DialogTyped /\ SocketsTyped /\ reqs \subseteq Req
                                /\ SlipsTyped
  BY DEF Typed
<1>1. [s \in Slots |-> Free] \in [Slots -> Socket]
  BY Values
<1>2. /\ [r \in Runs |-> 0] \in [Runs -> 0..MaxOut]
      /\ [r \in Runs |-> FALSE] \in [Runs -> BOOLEAN]
      /\ 0 \in 0..MaxRuns
  BY Values
<1>3. ServerTyped
  BY <1>2 DEF Init, ServerTyped
<1> QED BY <1>1, <1>3, Values DEF Init, DialogTyped, SocketsTyped, SlipsTyped

\* Every variable of the dialog, its sockets and its requests keeps its type
\* (useBatchRun.ts, BatchRunState), whatever arrives in which order.
THEOREM BatchTypeCorrect == Spec => []TypeOK
<1>1. ASSUME Typed PROVE TypeOK
  <2>1. \A s \in Slots :
          /\ sockets[s].run \in 0..MaxRuns /\ sockets[s].queue \in Seq(Frames)
          /\ sockets[s].st \in {"free", "connecting", "open", "ended", "closing"}
    BY <1>1 DEF Typed, SocketsTyped, Socket
  <2>2. \A q \in reqs : q.op \in {"open", "resync", "dispatch"}
                        /\ q.st \in {"sent", "read", "failed"} /\ q.snap \in Snapshot
    BY <1>1 DEF Typed, Req
  <2> QED BY <1>1, <2>1, <2>2
             DEF Typed, ServerTyped, DialogTyped, SocketsTyped, SlipsTyped, TypeOK
<1> QED BY <1>1, InitTyped, TypedStep, PTL DEF Spec

-----------------------------------------------------------------------------
(* The batch client: the invariant                                           *)

\* A socket from which something may still be delivered.
Live == {"connecting", "open", "ended"}

\* What was saved of a run that is over.
Final(id, o, f) == id \in Runs /\ fins[id] /\ o = Chunks(outs[id]) /\ f

\* A result that is final is stored with all its output, and a run is over
\* when its result is final.
ServerInv ==
  /\ \A r \in Runs : fins[r] => saved[r] = outs[r]
  /\ cur # 0 /\ done => fins[cur]

\* A response that says that a run is done carries all of it.
SnapInv ==
  \A q \in reqs : q.snap.run.id # 0 /\ q.snap.run.st = "done"
                    => Final(q.snap.run.id, q.snap.out, q.snap.fin)

\* The socket in ref is of run r, and no other can deliver anything.
Linked(r, ref, socks) ==
  /\ ref # NoSocket => socks[ref].run = r.id /\ socks[ref].st \in Live
  /\ \A s \in Slots : /\ socks[s].st \in Live => ref = s
                      /\ socks[s].queue # <<>> => socks[s].st \in Live

\* The page, as long as nothing happened that the code does not handle.
PageInv ==
  slips = {} =>
    /\ run.id # 0 /\ run.st = "done" => Final(run.id, out, fin)
    /\ Linked(run, wsRef, sockets)
    /\ wsRef # NoSocket => mode = "results" /\ IsRunning(run)

BatchInv == Typed /\ ServerInv /\ SnapInv /\ PageInv

----------------------------------------------------------------------------
\* In a step nothing is added to a run whose result is final.
Sealed == \A r \in Runs : fins[r] => fins'[r] /\ outs'[r] = outs[r] /\ saved'[r] = saved[r]

LEMMA UnchangedSealed == ASSUME UNCHANGED <<outs, saved, fins>> PROVE Sealed
BY DEF Sealed

LEMMA FinishServer ==
    ASSUME Typed, ServerInv, Finish, cur # 0, ~fins[cur] PROVE Sealed /\ ServerInv'
<1>1. /\ cur \in Runs /\ cur' = cur /\ done' = done /\ outs' = outs
      /\ fins' = [fins EXCEPT ![cur] = TRUE] /\ saved' = [saved EXCEPT ![cur] = outs[cur]]
  BY Values DEF Finish, Typed, ServerTyped, Runs
<1>2. ASSUME NEW r \in Runs
      PROVE  /\ r # cur => fins'[r] = fins[r] /\ saved'[r] = saved[r]
             /\ r = cur => fins'[r] /\ saved'[r] = outs[r]
  BY <1>1 DEF Typed, ServerTyped
<1>3. Sealed
  BY <1>1, <1>2 DEF Sealed
<1>4. \A r \in Runs : fins'[r] => saved'[r] = outs'[r]
  BY <1>1, <1>2 DEF ServerInv
<1>5. fins'[cur']
  BY <1>1, <1>2
<1> QED BY <1>3, <1>4, <1>5 DEF ServerInv

LEMMA NewRunServer == ASSUME Typed, ServerInv, NewRun PROVE Sealed /\ ServerInv'
<1>1. outs' = outs /\ saved' = saved /\ fins' = fins /\ done' = FALSE
  BY DEF NewRun
<1> QED BY <1>1 DEF Sealed, ServerInv

LEMMA RunServer == ASSUME Typed, ServerInv, RunGoesOn PROVE Sealed /\ ServerInv'
<1>0. cur \in Runs
  BY Values DEF RunGoesOn, Typed, ServerTyped, Runs
<1>1. CASE /\ ~fins[cur] /\ outs' = [outs EXCEPT ![cur] = @ + 1]
           /\ UNCHANGED <<cur, done, saved, fins>>
  <2>1. \A r \in Runs : r # cur => outs'[r] = outs[r]
    BY <1>1 DEF Typed, ServerTyped
  <2> QED BY <1>1, <2>1 DEF Sealed, ServerInv
<1>2. CASE /\ saved[cur] < outs[cur] /\ saved' = [saved EXCEPT ![cur] = outs[cur]]
           /\ UNCHANGED <<cur, done, outs, fins>>
  <2>1. \A r \in Runs : saved'[r] = IF r = cur THEN outs[r] ELSE saved[r]
    BY <1>0, <1>2 DEF Typed, ServerTyped
  <2> QED BY <1>2, <2>1 DEF Sealed, ServerInv
<1>3. CASE ~fins[cur] /\ Finish
  BY <1>3, FinishServer DEF RunGoesOn
<1>4. CASE fins[cur] /\ done' = TRUE /\ UNCHANGED <<cur, outs, saved, fins>>
  BY <1>4 DEF Sealed, ServerInv
<1> QED BY <1>1, <1>2, <1>3, <1>4 DEF RunGoesOn

LEMMA SealedStep == ASSUME Typed, ServerInv, [Next]_vars PROVE Sealed /\ ServerInv'
<1>1. ASSUME UNCHANGED server PROVE Sealed /\ ServerInv'
  BY <1>1 DEF server, Sealed, ServerInv
<1>2. CASE Cancel
  <2>1. ~done /\ ~fins[cur] /\ Finish /\ cur # 0
    BY <1>2 DEF Cancel, Typed, ServerTyped
  <2> QED BY <2>1, FinishServer
<1>3. CASE UserStep /\ ~Cancel
  BY <1>1, <1>3 DEF UserStep, Open, CloseDialog, Select, RunScript, SetMode
<1>4. CASE Callback
  BY <1>1, <1>4
     DEF Callback, OpenDone, DispatchDone, ResyncDone, SocketOpens, OnMessage, OnClose,
         TimerFires
<1>5. CASE RunGoesOn
  BY <1>5, RunServer
<1>6. CASE OtherDispatch
  BY <1>6, NewRunServer DEF OtherDispatch
<1>7. ASSUME NEW q \in reqs, Handle(q) PROVE Sealed /\ ServerInv'
  BY <1>1, <1>7, NewRunServer DEF Handle
<1>8. ASSUME NEW s \in Slots, Drop(s) PROVE Sealed /\ ServerInv'
  BY <1>1, <1>8 DEF Drop
<1>9. CASE UNCHANGED vars
  BY <1>1, <1>9 DEF vars
<1> QED BY <1>2, <1>3, <1>4, <1>5, <1>6, <1>7, <1>8, <1>9 DEF Next, Step

LEMMA FinalStays ==
    ASSUME Sealed, NEW id, NEW o, NEW f, Final(id, o, f)
    PROVE  id \in Runs /\ fins'[id] /\ o = Chunks(outs'[id]) /\ f
BY DEF Sealed, Final

----------------------------------------------------------------------------
\* The responses

LEMMA CurrentFinal ==
    ASSUME Typed, ServerInv, CurrentRun.run.id # 0, CurrentRun.run.st = "done"
    PROVE  Final(CurrentRun.run.id, CurrentRun.out, CurrentRun.fin)
<1>1. CurrentRun.run = IF cur = 0 THEN NoRun
                       ELSE [id |-> cur, st |-> IF done THEN "done" ELSE "running"]
  BY DEF CurrentRun
<1>2. cur # 0
  BY <1>1 DEF NoRun
<1>3. cur \in Runs /\ done /\ CurrentRun.run.id = cur
  BY <1>1, <1>2, Values DEF Typed, ServerTyped, Runs
<1>4. fins[cur] /\ saved[cur] = outs[cur]
  BY <1>2, <1>3 DEF ServerInv
<1>5. CurrentRun.out = Chunks(saved[cur]) /\ CurrentRun.fin = (cur # 0 /\ fins[cur])
  BY <1>2 DEF CurrentRun
<1> QED BY <1>2, <1>3, <1>4, <1>5 DEF Final

LEMMA SnapStep == ASSUME Typed, ServerInv, SnapInv, [Next]_vars PROVE SnapInv'
<1>0. Sealed
  BY SealedStep
<1> DEFINE Good(snap) == snap.run.id # 0 /\ snap.run.st = "done"
                           => Final(snap.run.id, snap.out, snap.fin)
           GoodNext(snap) == snap.run.id # 0 /\ snap.run.st = "done"
                           => /\ snap.run.id \in Runs /\ fins'[snap.run.id]
                              /\ snap.out = Chunks(outs'[snap.run.id]) /\ snap.fin
<1>1. ASSUME NEW snap, Good(snap) PROVE GoodNext(snap)
  BY <1>0, <1>1, FinalStays
<1>2. \A q \in reqs : Good(q.snap)
  BY DEF SnapInv
<1>3. Good(NoSnapshot)
  BY DEF NoSnapshot, NoRun
<1>4. SUFFICES \A q \in reqs' : Good(q.snap) \/ q.snap.run.id = 0 \/ q.snap.run.st # "done"
  <2>1. \A q \in reqs' : GoodNext(q.snap)
    BY <1>1, <1>4
  <2> QED BY <2>1 DEF SnapInv, Final
<1> HIDE DEF Good, GoodNext
<1>5. ASSUME reqs' \subseteq reqs PROVE \A q \in reqs' : Good(q.snap)
  BY <1>2, <1>5
<1>6. ASSUME NEW o, NEW t, reqs' \subseteq reqs \cup {[op |-> o, st |-> t, snap |-> NoSnapshot]}
      PROVE  \A q \in reqs' : Good(q.snap)
  BY <1>2, <1>3, <1>6
<1>7. CASE UserStep
  BY <1>5, <1>6, <1>7 DEF UserStep, Open, CloseDialog, Select, RunScript, SetMode, Cancel
<1>8. CASE Callback
  BY <1>5, <1>6, <1>8
     DEF Callback, OpenDone, DispatchDone, ResyncDone, SocketOpens, OnMessage, OnClose,
         TimerFires
<1>9. CASE RunGoesOn \/ OtherDispatch \/ (\E s \in Slots : Drop(s)) \/ UNCHANGED vars
  BY <1>5, <1>9 DEF RunGoesOn, OtherDispatch, Drop, vars
<1>10. ASSUME NEW q \in reqs, Handle(q)
       PROVE  \A p \in reqs' : Good(p.snap) \/ p.snap.run.id = 0 \/ p.snap.run.st # "done"
  <2>0. q \in Req
    BY DEF Typed
  <2>1. ASSUME NEW st, NEW snap, reqs' = Answered(q, st, snap), NEW p \in reqs', p \notin reqs
        PROVE  p.snap = snap
    BY <2>0, <2>1 DEF Answered, Req
  <2>2. CASE reqs' = Answered(q, "read", CurrentRun)
    <3>1. Good(CurrentRun)
      BY CurrentFinal DEF Good
    <3> QED BY <1>2, <2>1, <2>2, <3>1
  <2>3. CASE reqs' = Answered(q, "read", [run |-> [id |-> cur', st |-> "running"],
                                          out |-> <<>>, fin |-> FALSE])
    BY <1>2, <2>1, <2>3
  <2>4. CASE reqs' = Answered(q, "failed", NoSnapshot)
    BY <1>2, <1>3, <2>1, <2>4
  <2> QED BY <1>10, <2>2, <2>3, <2>4 DEF Handle
<1> QED BY <1>7, <1>8, <1>9, <1>10 DEF Next, Step

----------------------------------------------------------------------------
\* The socket

\* connect, for the run whose socket is in wsRef or with none there.
LEMMA ConnectedLinked ==
    ASSUME NEW ref \in Slots \cup {NoSocket}, NEW socks \in [Slots -> Socket],
           NEW r0 \in RunInfo, NEW r \in RunInfo, Linked(r0, ref, socks),
           ref # NoSocket => r0.id = r.id,
           NEW c \in Connected(ref, socks, r)
    PROVE  c[1] # NoSocket /\ Linked(r, c[1], c[2])
<1>1. CASE ref # NoSocket
  <2>1. c = <<ref, socks>>
    BY <1>1 DEF Connected
  <2> QED BY <1>1, <2>1 DEF Linked
<1>2. CASE ref = NoSocket
  <2>0. NoSocket \notin Slots
    BY Values
  <2> DEFINE new == [run |-> r.id, st |-> "connecting", queue |-> <<>>]
  <2>1. PICK s \in Slots : c = <<s, [socks EXCEPT ![s] = new]>> /\ socks[s] = Free
    BY <1>2 DEF Connected
  <2>2. c[1] = s /\ c[2] = [socks EXCEPT ![s] = new]
    BY <2>1
  <2>3. new.run = r.id /\ new.st = "connecting" /\ new.queue = <<>>
    OBVIOUS
  <2> HIDE DEF new
  <2>4. c[2][s] = new /\ \A x \in Slots : x # s => c[2][x] = socks[x]
    BY <2>2
  <2>5. \A x \in Slots : x # s => socks[x].st \notin Live /\ socks[x].queue = <<>>
    BY <1>2, <2>0 DEF Linked
  <2> QED BY <2>0, <2>2, <2>3, <2>4, <2>5 DEF Linked, Live
<1> QED BY <1>1, <1>2

LEMMA ClosedLinked ==
    ASSUME NEW ref \in Slots \cup {NoSocket}, NEW socks \in [Slots -> Socket],
           NEW r0 \in RunInfo, NEW r \in RunInfo, Linked(r0, ref, socks),
           NEW c \in Closed(ref, socks)
    PROVE  c[1] = NoSocket /\ Linked(r, c[1], c[2])
<1>1. CASE ref = NoSocket
  <2>1. c = <<ref, socks>>
    BY <1>1 DEF Closed
  <2> QED BY <1>1, <2>1 DEF Linked
<1>2. CASE ref # NoSocket
  <2>1. c[1] = NoSocket /\ c[2] = [socks EXCEPT ![ref].st = "closing", ![ref].queue = <<>>]
    BY <1>2 DEF Closed
  <2>2. socks[ref] \in Socket /\ ref \in Slots
    BY <1>2
  <2>3. c[2][ref].st = "closing" /\ c[2][ref].queue = <<>>
    BY <2>1, <2>2 DEF Socket
  <2>4. \A x \in Slots : x # ref => c[2][x] = socks[x]
    BY <2>1, <2>2
  <2> QED BY <2>1, <2>2, <2>3, <2>4 DEF Linked, Live
<1> QED BY <1>1, <1>2

LEMMA EffectLinked ==
    ASSUME NEW m, NEW ref \in Slots \cup {NoSocket}, NEW socks \in [Slots -> Socket],
           NEW r0 \in RunInfo, NEW r \in RunInfo, Linked(r0, ref, socks),
           ref # NoSocket => r0.id = r.id, SocketEffect(m, r, ref, socks)
    PROVE  Linked(r, wsRef', sockets') /\ (wsRef' # NoSocket => m = "results" /\ IsRunning(r))
<1>1. PICK c \in IF m = "results" /\ IsRunning(r) THEN Connected(ref, socks, r)
                 ELSE Closed(ref, socks) : wsRef' = c[1] /\ sockets' = c[2]
  BY DEF SocketEffect
<1>2. CASE m = "results" /\ IsRunning(r)
  BY <1>1, <1>2, ConnectedLinked
<1>3. CASE ~(m = "results" /\ IsRunning(r))
  BY <1>1, <1>3, ClosedLinked
<1> QED BY <1>2, <1>3

\* What a step of the server or of a connection may do to the sockets: each
\* stays of its run and where it was between open and closed, and only one that
\* can deliver holds frames.
LEMMA LinkedStays ==
    ASSUME NEW r, NEW ref, NEW socks, NEW next, Linked(r, ref, socks),
           ref \in Slots \cup {NoSocket},
           \A s \in Slots : /\ next[s].run = socks[s].run
                            /\ next[s].st \in Live <=> socks[s].st \in Live
                            /\ next[s].queue # <<>> => next[s].st \in Live
    PROVE  Linked(r, ref, next)
BY DEF Linked

LEMMA BroadcastKeeps ==
    ASSUME Typed, Linked(run, wsRef, sockets), NEW frame
    PROVE  Linked(run, wsRef, Broadcast(frame))
<1>1. ASSUME NEW s \in Slots
      PROVE  /\ Broadcast(frame)[s].run = sockets[s].run
             /\ Broadcast(frame)[s].st = sockets[s].st
             /\ Broadcast(frame)[s].queue # <<>> => sockets[s].st \in Live
  <2>1. sockets[s] \in Socket
    BY DEF Typed, SocketsTyped
  <2>2. CASE sockets[s].st = "open"
    <3>1. Broadcast(frame)[s] = [sockets[s] EXCEPT !.queue = Append(@, frame)]
      BY <2>2 DEF Broadcast
    <3> QED BY <2>1, <2>2, <3>1 DEF Socket, Live
  <2>3. CASE sockets[s].st # "open"
    <3>1. Broadcast(frame)[s] = sockets[s]
      BY <2>3 DEF Broadcast
    <3> QED BY <3>1 DEF Linked
  <2> QED BY <2>2, <2>3
<1>2. wsRef \in Slots \cup {NoSocket}
  BY DEF Typed, SocketsTyped
<1> QED BY <1>1, <1>2, LinkedStays

----------------------------------------------------------------------------
\* The page

\* The page is left as it is: only the sockets move.
LEMMA ViewStays ==
    ASSUME PageInv, Sealed, UNCHANGED <<run, out, fin, mode, wsRef>>,
           slips' = {} => slips = {},
           slips = {} /\ Linked(run, wsRef, sockets) => Linked(run, wsRef, sockets')
    PROVE  PageInv'
<1>1. SUFFICES ASSUME slips' = {}
               PROVE  /\ run.id # 0 /\ run.st = "done" => Final(run.id, out, fin)'
                      /\ Linked(run, wsRef, sockets')
                      /\ wsRef # NoSocket => mode = "results" /\ IsRunning(run)
  BY DEF PageInv
<1>2. slips = {}
  BY <1>1
<1>3. run.id # 0 /\ run.st = "done" => Final(run.id, out, fin)
  BY <1>2 DEF PageInv
<1>4. run' = run /\ out' = out /\ fin' = fin
  OBVIOUS
<1>5. run.id # 0 /\ run.st = "done" =>
        run.id \in Runs /\ fins'[run.id] /\ out = Chunks(outs'[run.id]) /\ fin
  BY <1>3, FinalStays
<1>6. run.id # 0 /\ run.st = "done" => Final(run.id, out, fin)'
  BY <1>4, <1>5 DEF Final
<1> QED BY <1>2, <1>6 DEF PageInv

\* A response is put on the screen.
LEMMA ShownPage ==
    ASSUME Typed, PageInv, Sealed, NEW m, NEW snap \in Snapshot,
           snap.run.id # 0 /\ snap.run.st = "done" => Final(snap.run.id, snap.out, snap.fin),
           SetState(m, snap.run, snap.out, snap.fin), Slip(Overtaken(snap.run), "stale"),
           \/ SocketEffect(m, snap.run, wsRef, sockets)
           \/ /\ IsRunning(snap.run)
              /\ \E c \in Connected(wsRef, sockets, snap.run) :
                   SocketEffect(m, snap.run, c[1], c[2])
    PROVE  PageInv'
<1>0. /\ snap.run \in RunInfo /\ run \in RunInfo
      /\ wsRef \in Slots \cup {NoSocket} /\ sockets \in [Slots -> Socket]
  BY DEF Snapshot, Typed, DialogTyped, SocketsTyped
<1>1. CASE slips' # {}
  BY <1>1 DEF PageInv
<1>2. CASE slips' = {}
  <2>1. slips = {} /\ ~Overtaken(snap.run)
    BY <1>2 DEF Slip
  <2>2. Linked(run, wsRef, sockets) /\ (wsRef # NoSocket => run.id = snap.run.id)
    BY <2>1 DEF PageInv, Overtaken
  <2>3. /\ Linked(snap.run, wsRef', sockets')
        /\ wsRef' # NoSocket => m = "results" /\ IsRunning(snap.run)
    <3>1. CASE SocketEffect(m, snap.run, wsRef, sockets)
      BY <1>0, <2>2, <3>1, EffectLinked
    <3>2. ASSUME NEW c \in Connected(wsRef, sockets, snap.run),
                 SocketEffect(m, snap.run, c[1], c[2])
          PROVE  <2>3
      <4>1. Linked(snap.run, c[1], c[2])
        BY <1>0, <2>2, ConnectedLinked
      <4>2. c[1] \in Slots /\ c[2] \in [Slots -> Socket]
        BY <1>0, ConnectedTyped
      <4> QED BY <1>0, <3>2, <4>1, <4>2, EffectLinked
    <3> QED BY <3>1, <3>2
  <2>4. run' = snap.run /\ out' = snap.out /\ fin' = snap.fin /\ mode' = m
    BY DEF SetState
  <2>5. snap.run.id # 0 /\ snap.run.st = "done" =>
          /\ snap.run.id \in Runs /\ fins'[snap.run.id]
          /\ snap.out = Chunks(outs'[snap.run.id]) /\ snap.fin
    BY FinalStays
  <2> QED BY <1>0, <2>3, <2>4, <2>5 DEF PageInv, Final, Linked, IsRunning
<1> QED BY <1>1, <1>2

LEMMA UserPage == ASSUME BatchInv, Sealed, UserStep PROVE PageInv'
<1>1. CASE CloseDialog
  <2>1. /\ run' = NoRun /\ wsRef' = NoSocket /\ sockets' = [s \in Slots |-> Free]
    BY <1>1 DEF CloseDialog, SetState
  <2>2. run'.id = 0 /\ Linked(run', wsRef', sockets')
    BY <2>1 DEF NoRun, Linked, Free, Live
  <2> QED BY <2>1, <2>2 DEF PageInv, Linked
<1>2. CASE SetMode
  <2>1. PICK m \in {"compose", "results"} : mode' = m /\ SocketEffect(m, run, wsRef, sockets)
    BY <1>2 DEF SetMode
  <2>2. run \in RunInfo /\ wsRef \in Slots \cup {NoSocket} /\ sockets \in [Slots -> Socket]
    BY DEF BatchInv, Typed, DialogTyped, SocketsTyped
  <2>3. UNCHANGED <<run, out, fin, slips, outs, fins>>
    BY <1>2 DEF SetMode, server
  <2>4. slips = {} => Linked(run, wsRef', sockets')
                      /\ (wsRef' # NoSocket => m = "results" /\ IsRunning(run))
    BY <2>1, <2>2, EffectLinked DEF BatchInv, PageInv
  <2>5. slips = {} => (run.id # 0 /\ run.st = "done" => Final(run.id, out, fin))
    BY DEF BatchInv, PageInv
  <2> QED BY <2>1, <2>3, <2>4, <2>5 DEF PageInv, Final, Linked, IsRunning
<1>3. CASE Open \/ Select \/ RunScript
  <2>1. UNCHANGED <<run, out, fin, mode, wsRef, slips, sockets>>
    BY <1>3 DEF Open, Select, RunScript, view
  <2> QED BY <2>1, ViewStays DEF BatchInv
<1>4. CASE Cancel
  <2>1. UNCHANGED <<run, out, fin, mode, wsRef, slips>> /\ sockets' = Broadcast(0)
    BY <1>4 DEF Cancel, view, Finish
  <2>2. Linked(run, wsRef, sockets) => Linked(run, wsRef, sockets')
    BY <2>1, BroadcastKeeps DEF BatchInv
  <2> QED BY <2>1, <2>2, ViewStays DEF BatchInv
<1> QED BY <1>1, <1>2, <1>3, <1>4 DEF UserStep

LEMMA CallbackPage == ASSUME BatchInv, Sealed, Callback PROVE PageInv'
<1>0. /\ Typed /\ PageInv /\ sockets \in [Slots -> Socket] /\ wsRef \in Slots \cup {NoSocket}
  BY DEF BatchInv, Typed, SocketsTyped
<1>1. ASSUME NEW q \in reqs
      PROVE  /\ q.snap \in Snapshot
             /\ q.snap.run.id # 0 /\ q.snap.run.st = "done"
                  => Final(q.snap.run.id, q.snap.out, q.snap.fin)
  BY <1>0, ReqTyped DEF BatchInv, SnapInv
<1>2. ASSUME NEW q \in reqs, OpenDone(q) PROVE PageInv'
  <2>1. PICK snap \in {q.snap, NoSnapshot} :
          LET m == IF IsRunning(snap.run) THEN "results" ELSE "compose"
          IN /\ SetState(m, snap.run, snap.out, snap.fin)
             /\ SocketEffect(m, snap.run, wsRef, sockets)
             /\ Slip(Overtaken(snap.run), "stale")
    BY <1>2 DEF OpenDone
  <2>2. /\ snap \in Snapshot
        /\ snap.run.id # 0 /\ snap.run.st = "done" => Final(snap.run.id, snap.out, snap.fin)
    <3>1. NoSnapshot.run.id = 0
      BY DEF NoSnapshot, NoRun
    <3> QED BY <1>1, <3>1, Values
  <2> DEFINE m == IF IsRunning(snap.run) THEN "results" ELSE "compose"
  <2>3. /\ SetState(m, snap.run, snap.out, snap.fin)
        /\ SocketEffect(m, snap.run, wsRef, sockets)
        /\ Slip(Overtaken(snap.run), "stale")
    BY <2>1
  <2> HIDE DEF m
  <2> QED BY <1>0, <2>2, <2>3, ShownPage
<1>3. ASSUME NEW q \in reqs, DispatchDone(q) PROVE PageInv'
  <2>1. CASE q.st = "read"
    BY <1>0, <1>1, <1>3, <2>1, ShownPage DEF DispatchDone
  <2>2. CASE q.st = "failed"
    BY <1>0, <1>3, <2>2, ViewStays DEF DispatchDone
  <2> QED BY <1>3, <2>1, <2>2 DEF DispatchDone
<1>4. ASSUME NEW q \in reqs, ResyncDone(q) PROVE PageInv'
  <2>1. CASE q.st = "read"
    <3>1. PICK c \in IF IsRunning(q.snap.run) THEN Connected(wsRef, sockets, q.snap.run)
                     ELSE {<<wsRef, sockets>>} : SocketEffect(mode, q.snap.run, c[1], c[2])
      BY <1>4, <2>1 DEF ResyncDone
    <3>2. /\ SetState(mode, q.snap.run, q.snap.out, q.snap.fin)
          /\ Slip(Overtaken(q.snap.run), "stale")
      BY <1>4, <2>1 DEF ResyncDone
    <3>3. CASE ~IsRunning(q.snap.run)
      <4>1. c[1] = wsRef /\ c[2] = sockets
        BY <3>1, <3>3
      <4>2. SocketEffect(mode, q.snap.run, wsRef, sockets)
        BY <3>1, <4>1
      <4> QED BY <1>0, <1>1, <3>2, <4>2, ShownPage
    <3>4. CASE IsRunning(q.snap.run)
      BY <1>0, <1>1, <3>1, <3>2, <3>4, ShownPage
    <3> QED BY <3>3, <3>4
  <2>2. CASE q.st = "failed"
    <3>1. slips' # {}
      BY <1>4, <2>2 DEF ResyncDone, Slip
    <3> QED BY <3>1 DEF PageInv
  <2> QED BY <1>4, <2>1, <2>2 DEF ResyncDone
<1>5. ASSUME NEW s \in Slots, SocketOpens(s) PROVE PageInv'
  <2>1. sockets[s] \in Socket /\ sockets[s].st = "connecting"
    BY <1>0, <1>5 DEF SocketOpens
  <2>2. \/ sockets' = [sockets EXCEPT ![s].st = "open"]
        \/ sockets' = [sockets EXCEPT ![s].st = "ended"]
    BY <1>5 DEF SocketOpens
  <2>3. /\ sockets'[s].st \in {"open", "ended"} /\ sockets'[s].run = sockets[s].run
        /\ \A x \in Slots : x # s => sockets'[x] = sockets[x]
    BY <1>0, <2>1, <2>2 DEF Socket
  <2>4. Linked(run, wsRef, sockets) => Linked(run, wsRef, sockets')
    BY <1>0, <2>1, <2>3, LinkedStays DEF Live, Linked
  <2>5. UNCHANGED <<run, out, fin, mode, wsRef>> /\ (slips' = {} => slips = {})
    BY <1>5 DEF SocketOpens, view, Slip
  <2> QED BY <1>0, <2>4, <2>5, ViewStays
<1>6. ASSUME NEW s \in Slots, OnMessage(s) PROVE PageInv'
  <2>1. CASE slips # {}
    BY <1>6, <2>1 DEF OnMessage, PageInv
  <2>2. CASE slips = {}
    <3>1. wsRef = s /\ sockets[s].st \in Live /\ sockets[s].run = run.id
      BY <1>0, <1>6, <2>2, Values DEF OnMessage, PageInv, Linked
    <3>2. mode = "results" /\ IsRunning(run)
      BY <1>0, <2>2, <3>1, Values DEF PageInv
    <3>3. /\ sockets'[s].st = sockets[s].st /\ sockets'[s].run = sockets[s].run
          /\ \A x \in Slots : x # s => sockets'[x] = sockets[x]
      BY <1>0, <1>6 DEF OnMessage, Socket
    <3>4. Linked(run, wsRef, sockets')
      BY <1>0, <2>2, <3>1, <3>3, LinkedStays DEF PageInv, Linked
    <3>5. UNCHANGED <<run, mode, wsRef, slips>>
      BY <1>6 DEF OnMessage
    <3> QED BY <3>2, <3>4, <3>5 DEF PageInv, Linked, IsRunning
  <2> QED BY <2>1, <2>2
<1>7. ASSUME NEW s \in Slots, OnClose(s) PROVE PageInv'
  <2>1. CASE slips' # {}
    BY <2>1 DEF PageInv
  <2>2. CASE slips' = {}
    <3>1. slips = {} /\ wsRef \in {s, NoSocket}
      BY <1>7, <2>2 DEF OnClose, Slip
    <3>2. /\ sockets'[s] = Free /\ \A x \in Slots : x # s => sockets'[x] = sockets[x]
      BY <1>0, <1>7 DEF OnClose
    <3>3. \A x \in Slots : x # s => sockets[x].st \notin Live /\ sockets[x].queue = <<>>
      BY <1>0, <3>1, Values DEF PageInv, Linked
    <3>4. wsRef' = NoSocket /\ UNCHANGED <<run, out, fin>>
      BY <1>7 DEF OnClose, view
    <3>5. Linked(run, wsRef', sockets')
      BY <3>2, <3>3, <3>4 DEF Linked, Free, Live
    <3>6. run.id # 0 /\ run.st = "done" =>
            run.id \in Runs /\ fins'[run.id] /\ out = Chunks(outs'[run.id]) /\ fin
      BY <1>0, <3>1, FinalStays DEF PageInv
    <3> QED BY <3>4, <3>5, <3>6 DEF PageInv, Final, Linked
  <2> QED BY <2>1, <2>2
<1>8. CASE TimerFires
  <2>1. UNCHANGED <<run, out, fin, mode, wsRef, slips, sockets>>
    BY <1>8 DEF TimerFires, view
  <2> QED BY <1>0, <2>1, ViewStays
<1> QED BY <1>2, <1>3, <1>4, <1>5, <1>6, <1>7, <1>8 DEF Callback

LEMMA ServerPage ==
    ASSUME BatchInv, Sealed,
           RunGoesOn \/ OtherDispatch \/ (\E q \in reqs : Handle(q)) \/ \E s \in Slots : Drop(s)
    PROVE  PageInv'
<1>0. /\ Typed /\ PageInv /\ sockets \in [Slots -> Socket] /\ wsRef \in Slots \cup {NoSocket}
  BY DEF BatchInv, Typed, SocketsTyped
<1>1. UNCHANGED <<run, out, fin, mode, wsRef, slips>>
  BY DEF RunGoesOn, OtherDispatch, Handle, Drop, view
<1>2. ASSUME Linked(run, wsRef, sockets) PROVE Linked(run, wsRef, sockets')
  <2>1. CASE UNCHANGED sockets
    BY <1>2, <2>1
  <2>2. ASSUME NEW frame, sockets' = Broadcast(frame) PROVE Linked(run, wsRef, sockets')
    BY <1>0, <1>2, <2>2, BroadcastKeeps
  <2>3. ASSUME NEW s \in Slots, Drop(s) PROVE Linked(run, wsRef, sockets')
    <3>1. sockets[s] \in Socket /\ sockets[s].st = "open"
      BY <1>0, <2>3 DEF Drop
    <3>2. /\ sockets'[s].st = "ended" /\ sockets'[s].run = sockets[s].run
          /\ \A x \in Slots : x # s => sockets'[x] = sockets[x]
      BY <1>0, <2>3, <3>1 DEF Drop, Socket
    <3> QED BY <1>0, <1>2, <3>1, <3>2, LinkedStays DEF Live, Linked
  <2>4. CASE sockets' = [s \in Slots |-> IF sockets[s].st = "open"
                                         THEN [sockets[s] EXCEPT !.st = "ended"]
                                         ELSE sockets[s]]
    <3>1. ASSUME NEW s \in Slots
          PROVE  /\ sockets'[s].run = sockets[s].run
                 /\ sockets'[s].st \in Live <=> sockets[s].st \in Live
                 /\ sockets'[s].queue = sockets[s].queue
      <4>1. sockets[s] \in Socket
        BY <1>0
      <4> QED BY <2>4, <4>1 DEF Socket, Live
    <3> QED BY <1>0, <1>2, <3>1, LinkedStays DEF Linked
  <2> QED BY <2>1, <2>2, <2>3, <2>4 DEF RunGoesOn, OtherDispatch, Handle, Finish
<1> QED BY <1>0, <1>1, <1>2, ViewStays

LEMMA BatchInvStep == ASSUME BatchInv, [Next]_vars PROVE BatchInv'
<1>1. Typed' /\ Sealed /\ ServerInv' /\ SnapInv'
  BY TypedStep, SealedStep, SnapStep DEF BatchInv
<1>2. CASE UNCHANGED vars
  <2>1. UNCHANGED <<run, out, fin, mode, wsRef, slips, sockets>>
    BY <1>2 DEF vars, view
  <2>2. PageInv'
    BY <1>1, <2>1, ViewStays DEF BatchInv
  <2> QED BY <1>1, <2>2 DEF BatchInv
<1>3. CASE Step
  BY <1>1, <1>3, UserPage, CallbackPage, ServerPage DEF Step, BatchInv
<1> QED BY <1>2, <1>3 DEF Next

LEMMA BatchInvInit == Init => BatchInv
<1> SUFFICES ASSUME Init PROVE BatchInv
  OBVIOUS
<1>1. ServerInv /\ SnapInv
  BY DEF Init, ServerInv, SnapInv
<1>2. PageInv
  BY DEF Init, PageInv, NoRun, Linked, Free, Live
<1> QED BY <1>1, <1>2, InitTyped DEF BatchInv

\* A run shown as done is shown with exactly the output and the verdict it had:
\* frames reach the screen only while the run is shown running, from the one
\* socket that is of this run, and what ends that is a response read after the
\* result was stored whole (the resync of useBatchRun.ts after onclose).
THEOREM DoneExact == Spec => []DoneIsExact
<1>1. BatchInv => DoneIsExact
  BY DEF BatchInv, PageInv, Final, DoneIsExact
<1> QED BY <1>1, BatchInvInit, BatchInvStep, PTL DEF Spec

\* The socket in wsRef is of the run on the screen: connect leaves a socket that
\* is there alone, and only a response that overtakes puts another run on the
\* screen under it.
THEOREM SocketOfRun == Spec => []SocketIsOfShownRun
<1>1. BatchInv => SocketIsOfShownRun
  BY DEF BatchInv, PageInv, Linked, SocketIsOfShownRun
<1> QED BY <1>1, BatchInvInit, BatchInvStep, PTL DEF Spec

-----------------------------------------------------------------------------
(* The dashboard's live data: Hub                                            *)

H == INSTANCE Hub

\* What ClientsAreServed rests on.
Served ==
  /\ \A c \in clients : /\ c \notin closed /\ reader[c] # "off"
                        /\ writer[c] = "off" => link[c] \in {"left", "shut"}
  /\ \A c \in closed : writer[c] = "on"
  /\ \A c \in Conns : serve[c] # "off" => writer[c] = "off" /\ reader[c] = "off"

\* A broadcaster that has assembled a message holds one.
Assembled == \A b \in H!Broadcasters : work[b] \in {"store", "send"} => read[b] # 0

\* The types by part: data and broadcasters, clients, their channels, the
\* goroutines of each connection, the pages.
DataTyped ==
  /\ version \in 1..MaxVersion
  /\ work \in [H!Broadcasters -> {"idle", "begin", "store", "send", "over"}]
  /\ read \in [H!Broadcasters -> H!Versions]
  /\ snapshot \in H!Versions
  /\ queue \in Seq(1..MaxVersion) /\ Len(queue) <= QueueCap
  /\ ended \in BOOLEAN /\ cancelled \in BOOLEAN /\ breaks \in 0..MaxBreaks

ClientsTyped == clients \subseteq Conns /\ closed \subseteq Conns

BufTyped == buf \in [Conns -> Seq(1..MaxVersion)] /\ \A c \in Conns : Len(buf[c]) <= BufCap

ConnsTyped ==
  /\ serve \in [Conns -> {"off", "check", "register"}]
  /\ writer \in [Conns -> {"off", "on"}]
  /\ reader \in [Conns -> {"off", "on", "leave"}]
  /\ link \in [Conns -> {"open", "left", "shut", "lost"}]

PagesTyped ==
  /\ sock \in [Pages -> Conns \cup {None}]
  /\ due \subseteq Pages
  /\ shown \in [Pages -> H!Versions]

HubTyped == DataTyped /\ ClientsTyped /\ BufTyped /\ ConnsTyped /\ PagesTyped

HubInv == HubTyped /\ Assembled /\ Served

\* What HubAssumption says of each constant.
LEMMA Bounds ==
    /\ MaxClients \in Nat \ {0} /\ BufCap \in Nat \ {0} /\ QueueCap \in Nat \ {0}
    /\ MaxVersion \in Nat \ {0} /\ MaxBreaks \in Nat /\ None \notin Conns
    /\ Ticker \notin Requests
BY HubAssumption DEF HubAssumption

\* Taking a message from a channel, and putting one there if it fits.
LEMMA TailTyped ==
    ASSUME NEW S, NEW q \in Seq(S), q # <<>>
    PROVE  /\ Head(q) \in S /\ Tail(q) \in Seq(S)
           /\ Len(q) \in Nat /\ Len(Tail(q)) = Len(q) - 1
OBVIOUS

LEMMA OfferTyped ==
    ASSUME NEW q \in Seq(1..MaxVersion), Len(q) <= BufCap,
           NEW m \in 1..MaxVersion
    PROVE  H!Offer(q, m) \in Seq(1..MaxVersion) /\ Len(H!Offer(q, m)) <= BufCap
<1>1. CASE Len(q) < BufCap
  <2>1. Append(q, m) \in Seq(1..MaxVersion) /\ Len(Append(q, m)) = Len(q) + 1
    OBVIOUS
  <2> QED BY <1>1, <2>1, Bounds DEF H!Offer
<1>2. CASE ~(Len(q) < BufCap)
  BY <1>2 DEF H!Offer
<1> QED BY <1>1, <1>2

\* A connection that is closed stays typed, and its reader sees it.
LEMMA CloseTyped ==
    ASSUME ConnsTyped, NEW c \in Conns, H!CloseConn(c)
    PROVE  /\ link' \in [Conns -> {"open", "left", "shut", "lost"}]
           /\ link'[c] \in {"left", "shut"}
           /\ \A k \in Conns : k # c => link'[k] = link[k]
BY DEF ConnsTyped, H!CloseConn

\* Only the connections' links move: what clients can tell of it is that a closed
\* one stays closed.
LEMMA LinkServed ==
    ASSUME Served, UNCHANGED <<clients, closed, reader, writer, serve>>,
           \A c \in clients : link[c] \in {"left", "shut"} => link'[c] \in {"left", "shut"}
    PROVE  Served'
BY DEF Served

\* The steps of a page keep the invariant.
LEMMA PageKeeps ==
    ASSUME HubInv, NEW p \in Pages, H!PageStep(p) \/ H!Reload(p) PROVE HubInv'
<1>0. DataTyped /\ ClientsTyped /\ BufTyped /\ ConnsTyped /\ PagesTyped
      /\ Assembled /\ Served
  BY DEF HubInv, HubTyped
<1>1. CASE H!Connect(p)
  <2>1. PICK c \in Conns : /\ H!Free(c) /\ sock' = [sock EXCEPT ![p] = c]
                           /\ link' = [link EXCEPT ![c] = "open"]
                           /\ serve' = [serve EXCEPT ![c] = "check"]
    BY <1>1 DEF H!Connect
  <2>2. UNCHANGED <<H!dataVars, H!hubVars, writer, reader, shown, breaks, cancelled>>
        /\ due' \subseteq due
    BY <1>1 DEF H!Connect
  <2>3. DataTyped' /\ ClientsTyped' /\ BufTyped' /\ Assembled'
    BY <1>0, <2>2 DEF H!dataVars, H!hubVars, DataTyped, ClientsTyped, BufTyped, Assembled
  <2>4. ConnsTyped' /\ PagesTyped'
    BY <1>0, <2>1, <2>2 DEF ConnsTyped, PagesTyped
  <2>5. writer[c] = "off" /\ reader[c] = "off" /\ c \notin clients
    BY <1>0, <2>1 DEF H!Free, Served
  <2>6. \A k \in Conns : k # c => link'[k] = link[k] /\ serve'[k] = serve[k]
    BY <1>0, <2>1 DEF ConnsTyped
  <2>7. Served'
    BY <1>0, <2>2, <2>5, <2>6 DEF H!hubVars, Served, ClientsTyped
  <2> QED BY <2>3, <2>4, <2>7 DEF HubInv, HubTyped
<1>2. CASE H!OnClose(p) \/ H!Reload(p)
  <2>1. /\ UNCHANGED <<H!dataVars, H!hubVars, H!pumpVars, cancelled>>
        /\ sock' = [sock EXCEPT ![p] = None]
        /\ breaks' = breaks \/ (breaks < MaxBreaks /\ breaks' = breaks + 1)
        /\ due' = due \/ due' = due \cup {p}
        /\ shown' = shown \/ shown' = [shown EXCEPT ![p] = 0]
    <3>1. CASE H!OnClose(p)
      BY <3>1 DEF H!OnClose
    <3>2. CASE H!Reload(p)
      BY <3>2 DEF H!Reload
    <3> QED BY <1>2, <3>1, <3>2
  <2>2. /\ link' \in [Conns -> {"open", "left", "shut", "lost"}]
        /\ \A c \in Conns : link[c] \in {"left", "shut"} => link'[c] \in {"left", "shut"}
    <3>1. CASE H!OnClose(p)
      <4>1. sock[p] \in Conns /\ link[sock[p]] \in {"shut", "lost"}
            /\ link' = [link EXCEPT ![sock[p]] = IF @ = "lost" THEN @ ELSE "left"]
        BY <1>0, <3>1 DEF H!OnClose, PagesTyped
      <4> QED BY <1>0, <4>1 DEF ConnsTyped
    <3>2. CASE H!Reload(p)
      BY <1>0, <3>2 DEF H!Reload, ConnsTyped
    <3> QED BY <1>2, <3>1, <3>2
  <2>3. DataTyped' /\ ClientsTyped' /\ BufTyped' /\ Assembled'
    <3>1. breaks' \in 0..MaxBreaks
      BY <1>0, <2>1, Bounds DEF DataTyped
    <3> QED BY <1>0, <2>1, <3>1
               DEF H!dataVars, H!hubVars, DataTyped, ClientsTyped, BufTyped, Assembled
  <2>4. ConnsTyped' /\ PagesTyped'
    BY <1>0, <2>1, <2>2, Bounds DEF H!pumpVars, ConnsTyped, PagesTyped, H!Versions
  <2>5. Served'
    BY <1>0, <2>1, <2>2, LinkServed DEF H!hubVars, H!pumpVars, ClientsTyped
  <2> QED BY <2>3, <2>4, <2>5 DEF HubInv, HubTyped
<1> QED BY <1>1, <1>2 DEF H!PageStep

\* So do those of a connection and its pumps: a writer that stops closes the
\* connection, which its reader notices.
LEMMA ConnKeeps ==
    ASSUME HubInv, NEW c \in Conns, H!ConnStep(c) \/ H!Cut(c) PROVE HubInv'
<1>0. DataTyped /\ ClientsTyped /\ BufTyped /\ ConnsTyped /\ PagesTyped
      /\ Assembled /\ Served
  BY DEF HubInv, HubTyped
<1>1. UNCHANGED <<H!dataVars, ended, clients, sock, due, cancelled>>
  BY DEF H!ConnStep, H!Check, H!Write, H!EndWriter, H!ReadFails, H!Cut, H!hubVars, H!pageVars
<1>2. ASSUME UNCHANGED <<buf, closed, shown, breaks>>
      PROVE  DataTyped' /\ ClientsTyped' /\ BufTyped' /\ PagesTyped' /\ Assembled'
  BY <1>0, <1>1, <1>2 DEF H!dataVars, DataTyped, ClientsTyped, BufTyped, PagesTyped, Assembled
<1>3. CASE H!Check(c)
  <2>1. UNCHANGED <<buf, closed, shown, breaks, writer, reader>> /\ serve[c] = "check"
    BY <1>3 DEF H!Check, H!hubVars, H!pageVars
  <2>2. /\ serve' \in [Conns -> {"off", "check", "register"}]
        /\ \A k \in Conns : serve'[k] # "off" => serve[k] # "off"
    BY <1>0, <1>3 DEF H!Check, ConnsTyped
  <2>3. /\ link' \in [Conns -> {"open", "left", "shut", "lost"}]
        /\ \A k \in Conns : link[k] \in {"left", "shut"} => link'[k] \in {"left", "shut"}
    <3>1. UNCHANGED link \/ H!CloseConn(c)
      BY <1>3 DEF H!Check
    <3> QED BY <1>0, <3>1, CloseTyped DEF ConnsTyped
  <2>4. ConnsTyped'
    BY <1>0, <2>1, <2>2, <2>3 DEF ConnsTyped
  <2>5. Served'
    BY <1>0, <1>1, <2>1, <2>2, <2>3 DEF Served, ClientsTyped
  <2> QED BY <1>2, <2>1, <2>4, <2>5 DEF HubInv, HubTyped
<1>4. ASSUME H!StopWriter(c), UNCHANGED <<serve, reader, breaks>>
      PROVE ConnsTyped' /\ Served' /\ closed' \subseteq closed
  <2>1. writer' = [writer EXCEPT ![c] = "off"] /\ closed' = closed \ {c} /\ H!CloseConn(c)
    BY <1>4 DEF H!StopWriter
  <2>2. writer'[c] = "off" /\ \A k \in Conns : k # c => writer'[k] = writer[k]
    BY <1>0, <2>1 DEF ConnsTyped
  <2>3. /\ link' \in [Conns -> {"open", "left", "shut", "lost"}]
        /\ link'[c] \in {"left", "shut"} /\ \A k \in Conns : k # c => link'[k] = link[k]
    BY <1>0, <2>1, CloseTyped
  <2>4. ConnsTyped'
    BY <1>0, <1>4, <2>1, <2>3 DEF ConnsTyped
  <2>5. Served'
    BY <1>0, <1>1, <1>4, <2>1, <2>2, <2>3 DEF Served, ClientsTyped
  <2> QED BY <2>1, <2>4, <2>5
<1>5. CASE H!Write(c)
  <2>0. buf[c] \in Seq(1..MaxVersion) /\ buf[c] # <<>> /\ Len(buf[c]) <= BufCap
    BY <1>0, <1>5 DEF H!Write, BufTyped
  <2>1. /\ Tail(buf[c]) \in Seq(1..MaxVersion) /\ Len(Tail(buf[c])) <= BufCap
        /\ Head(buf[c]) \in 1..MaxVersion
    <3>1. Tail(buf[c]) \in Seq(1..MaxVersion) /\ Len(Tail(buf[c])) = Len(buf[c]) - 1
          /\ Head(buf[c]) \in 1..MaxVersion /\ Len(buf[c]) \in Nat
      BY <2>0, TailTyped
    <3>2. Len(buf[c]) - 1 <= BufCap
      BY <2>0, <3>1, Bounds
    <3> QED BY <3>1, <3>2
  <2>2. UNCHANGED <<serve, reader, breaks>>
    BY <1>5 DEF H!Write
  <2>3. ConnsTyped' /\ Served' /\ closed' \subseteq closed
    <3>1. CASE link[c] = "open"
      <4>1. UNCHANGED <<link, writer, closed>>
        BY <1>5, <3>1 DEF H!Write
      <4> QED BY <1>0, <1>1, <2>2, <4>1 DEF ConnsTyped, Served
    <3>2. CASE link[c] # "open"
      BY <1>4, <1>5, <2>2, <3>2 DEF H!Write
    <3> QED BY <3>1, <3>2
  <2>4. BufTyped'
    <3>1. buf' = [buf EXCEPT ![c] = Tail(@)] \/ buf' = [buf EXCEPT ![c] = <<>>]
      BY <1>5 DEF H!Write
    <3>2. <<>> \in Seq(1..MaxVersion) /\ Len(<<>>) <= BufCap
      BY Bounds
    <3>3. buf'[c] \in {Tail(buf[c]), <<>>} /\ \A k \in Conns : k # c => buf'[k] = buf[k]
      BY <1>0, <3>1 DEF BufTyped
    <3>4. buf' \in [Conns -> Seq(1..MaxVersion)]
      BY <1>0, <2>1, <3>1, <3>2 DEF BufTyped
    <3> QED BY <1>0, <2>1, <3>2, <3>3, <3>4 DEF BufTyped
  <2>5. PagesTyped'
    <3>1. Head(buf[c]) \in H!Versions
      BY <2>1, Bounds DEF H!Versions
    <3>2. shown' = shown
          \/ shown' = [p \in Pages |-> IF sock[p] = c THEN Head(buf[c]) ELSE shown[p]]
      BY <1>5 DEF H!Write
    <3> QED BY <1>0, <1>1, <3>1, <3>2 DEF PagesTyped
  <2>6. DataTyped' /\ ClientsTyped' /\ Assembled'
    BY <1>0, <1>1, <2>2, <2>3 DEF H!dataVars, DataTyped, ClientsTyped, Assembled
  <2> QED BY <2>3, <2>4, <2>5, <2>6 DEF HubInv, HubTyped
<1>6. CASE H!EndWriter(c)
  <2>1. H!StopWriter(c) /\ UNCHANGED <<serve, reader, breaks, buf, shown>>
    BY <1>6 DEF H!EndWriter, H!pageVars
  <2>2. ConnsTyped' /\ Served' /\ closed' \subseteq closed
    BY <1>4, <2>1
  <2>3. DataTyped' /\ ClientsTyped' /\ Assembled' /\ BufTyped' /\ PagesTyped'
    BY <1>0, <1>1, <2>1, <2>2
       DEF H!dataVars, DataTyped, ClientsTyped, Assembled, BufTyped, PagesTyped
  <2> QED BY <2>2, <2>3 DEF HubInv, HubTyped
<1>7. CASE H!ReadFails(c)
  <2>1. UNCHANGED <<buf, closed, shown, breaks, serve, writer, link>>
        /\ reader[c] = "on" /\ reader' = [reader EXCEPT ![c] = "leave"]
    BY <1>7 DEF H!ReadFails, H!hubVars, H!pageVars
  <2>2. ConnsTyped'
    BY <1>0, <2>1 DEF ConnsTyped
  <2>3. \A k \in Conns : reader'[k] = IF k = c THEN "leave" ELSE reader[k]
    BY <1>0, <2>1 DEF ConnsTyped
  <2>4. Served'
    BY <1>0, <1>1, <2>1, <2>3 DEF Served, ClientsTyped
  <2> QED BY <1>2, <2>1, <2>2, <2>4 DEF HubInv, HubTyped
<1>8. CASE H!Cut(c)
  <2>1. /\ UNCHANGED <<buf, closed, shown, serve, writer, reader>> /\ link[c] = "open"
        /\ link' = [link EXCEPT ![c] = "lost"] /\ breaks < MaxBreaks /\ breaks' = breaks + 1
    BY <1>8 DEF H!Cut, H!hubVars, H!pumpVars, H!pageVars
  <2>2. breaks' \in 0..MaxBreaks
    BY <1>0, <2>1, Bounds DEF DataTyped
  <2>3. ConnsTyped'
        /\ \A k \in Conns : link[k] \in {"left", "shut"} => link'[k] \in {"left", "shut"}
    BY <1>0, <2>1 DEF ConnsTyped
  <2>4. Served'
    BY <1>0, <1>1, <2>1, <2>3, LinkServed DEF ClientsTyped
  <2>5. DataTyped' /\ ClientsTyped' /\ Assembled' /\ BufTyped' /\ PagesTyped'
    BY <1>0, <1>1, <2>1, <2>2
       DEF H!dataVars, DataTyped, ClientsTyped, Assembled, BufTyped, PagesTyped
  <2> QED BY <2>3, <2>4, <2>5 DEF HubInv, HubTyped
<1> QED BY <1>3, <1>5, <1>6, <1>7, <1>8 DEF H!ConnStep

\* So do those of Hub.Run, the only one to add a client or to close a channel.
LEMMA HubKeeps ==
    ASSUME HubInv,
           (\E c \in Conns : H!HubStep(c)) \/ H!HubBroadcast \/ H!HubEnds
    PROVE  HubInv'
<1>0. DataTyped /\ ClientsTyped /\ BufTyped /\ ConnsTyped /\ PagesTyped
      /\ Assembled /\ Served
  BY DEF HubInv, HubTyped
<1>1. ASSUME NEW c \in Conns, H!HubRegister(c) PROVE HubInv'
  <2>1. UNCHANGED <<H!dataVars, ended, closed, link, H!pageVars, breaks, cancelled>>
    BY <1>1 DEF H!HubRegister
  <2>2. /\ serve[c] = "register" /\ clients' = clients \cup {c}
        /\ serve' = [serve EXCEPT ![c] = "off"]
        /\ writer' = [writer EXCEPT ![c] = "on"] /\ reader' = [reader EXCEPT ![c] = "on"]
    BY <1>1 DEF H!HubRegister
  <2>3. DataTyped' /\ ClientsTyped' /\ ConnsTyped' /\ PagesTyped' /\ Assembled'
    BY <1>0, <2>1, <2>2
       DEF H!dataVars, H!pageVars, DataTyped, ClientsTyped, ConnsTyped, PagesTyped, Assembled
  <2>4. BufTyped'
    <3>1. CASE snapshot = 0
      BY <1>0, <1>1, <3>1 DEF H!HubRegister, BufTyped
    <3>2. CASE snapshot # 0
      <4>1. snapshot \in 1..MaxVersion
        BY <1>0, <3>2, Bounds DEF DataTyped, H!Versions
      <4>2. buf' = [buf EXCEPT ![c] = H!Offer(buf[c], snapshot)]
        BY <1>1, <3>2 DEF H!HubRegister
      <4>3. /\ H!Offer(buf[c], snapshot) \in Seq(1..MaxVersion)
            /\ Len(H!Offer(buf[c], snapshot)) <= BufCap
        BY <1>0, <4>1, OfferTyped DEF BufTyped
      <4>4. /\ buf' \in [Conns -> Seq(1..MaxVersion)] /\ buf'[c] = H!Offer(buf[c], snapshot)
            /\ \A k \in Conns : k # c => buf'[k] = buf[k]
        BY <1>0, <4>2, <4>3 DEF BufTyped
      <4> QED BY <1>0, <4>3, <4>4 DEF BufTyped
    <3> QED BY <3>1, <3>2
  <2>5. /\ writer'[c] = "on" /\ reader'[c] = "on" /\ serve'[c] = "off"
        /\ \A k \in Conns : k # c => /\ writer'[k] = writer[k] /\ reader'[k] = reader[k]
                                     /\ serve'[k] = serve[k]
    BY <1>0, <2>2 DEF ConnsTyped
  <2>6. c \notin closed
    BY <1>0, <2>2 DEF Served
  <2>7. Served'
    BY <1>0, <2>1, <2>2, <2>5, <2>6 DEF Served, ClientsTyped
  <2> QED BY <2>3, <2>4, <2>7 DEF HubInv, HubTyped
<1>2. ASSUME NEW c \in Conns, H!HubUnregister(c) PROVE HubInv'
  <2>1. UNCHANGED <<H!dataVars, ended, serve, writer, link, H!pageVars, breaks, cancelled>>
    BY <1>2 DEF H!HubUnregister
  <2>2. /\ reader' = [reader EXCEPT ![c] = "off"] /\ clients' = clients \ {c}
        /\ closed' = closed \cup {k \in {c} \cap clients : writer[k] = "on"}
        /\ buf' = [buf EXCEPT ![c] = IF writer[c] = "on" THEN buf[c] ELSE <<>>]
    BY <1>2 DEF H!HubUnregister, H!Forget
  <2>3. DataTyped' /\ ClientsTyped' /\ ConnsTyped' /\ PagesTyped' /\ Assembled'
    BY <1>0, <2>1, <2>2
       DEF H!dataVars, H!pageVars, DataTyped, ClientsTyped, ConnsTyped, PagesTyped, Assembled
  <2>4. BufTyped'
    <3>1. <<>> \in Seq(1..MaxVersion) /\ Len(<<>>) <= BufCap
      BY Bounds
    <3>2. buf'[c] \in {buf[c], <<>>} /\ \A k \in Conns : k # c => buf'[k] = buf[k]
      BY <1>0, <2>2 DEF BufTyped
    <3>3. buf' \in [Conns -> Seq(1..MaxVersion)]
      BY <1>0, <2>2, <3>1 DEF BufTyped
    <3> QED BY <1>0, <3>1, <3>2, <3>3 DEF BufTyped
  <2>5. \A k \in Conns : k # c => reader'[k] = reader[k]
    BY <1>0, <2>2 DEF ConnsTyped
  <2>6. reader'[c] = "off"
    BY <1>0, <2>2 DEF ConnsTyped
  <2>7. Served'
    BY <1>0, <2>1, <2>2, <2>5, <2>6 DEF Served, ClientsTyped
  <2> QED BY <2>3, <2>4, <2>7 DEF HubInv, HubTyped
<1>3. CASE H!HubBroadcast
  <2>1. UNCHANGED <<version, work, read, snapshot, ended, clients, closed,
                    H!pumpVars, link, H!pageVars, breaks, cancelled>>
        /\ queue # <<>> /\ queue' = Tail(queue)
        /\ buf' = [c \in Conns |->
                     IF c \in clients THEN H!Offer(buf[c], Head(queue)) ELSE buf[c]]
    BY <1>3 DEF H!HubBroadcast
  <2>2. /\ Head(queue) \in 1..MaxVersion /\ Tail(queue) \in Seq(1..MaxVersion)
        /\ Len(queue) \in Nat /\ Len(Tail(queue)) = Len(queue) - 1
    BY <1>0, <2>1, TailTyped DEF DataTyped
  <2>3. Len(Tail(queue)) <= QueueCap
    BY <1>0, <2>2, Bounds DEF DataTyped
  <2>4. DataTyped' /\ ClientsTyped' /\ ConnsTyped' /\ PagesTyped' /\ Assembled'
    BY <1>0, <2>1, <2>2, <2>3
       DEF H!pumpVars, H!pageVars, DataTyped, ClientsTyped, ConnsTyped, PagesTyped, Assembled
  <2>5. ASSUME NEW c \in Conns
        PROVE  /\ H!Offer(buf[c], Head(queue)) \in Seq(1..MaxVersion)
               /\ Len(H!Offer(buf[c], Head(queue))) <= BufCap
    BY <1>0, <2>2, OfferTyped DEF BufTyped
  <2>6. BufTyped'
    BY <1>0, <2>1, <2>5 DEF BufTyped
  <2>7. Served'
    BY <1>0, <2>1 DEF H!pumpVars, Served
  <2> QED BY <2>4, <2>6, <2>7 DEF HubInv, HubTyped
<1>4. CASE H!HubEnds
  <2>1. /\ UNCHANGED <<H!dataVars, buf, H!pumpVars, H!pageVars, breaks, cancelled>>
        /\ ended' = TRUE
        /\ closed' = closed \cup {c \in clients \cap clients : writer[c] = "on"}
        /\ clients' = clients \ clients
        /\ link' = [c \in Conns |->
                      IF c \in clients /\ link[c] = "open" THEN "shut" ELSE link[c]]
    BY <1>4 DEF H!HubEnds, H!Forget
  <2>2. DataTyped' /\ ClientsTyped' /\ ConnsTyped' /\ PagesTyped' /\ Assembled' /\ BufTyped'
    BY <1>0, <2>1 DEF H!dataVars, H!pumpVars, H!pageVars, DataTyped, ClientsTyped, ConnsTyped,
                      PagesTyped, Assembled, BufTyped
  <2>3. Served'
    BY <1>0, <2>1 DEF H!pumpVars, Served
  <2> QED BY <2>2, <2>3 DEF HubInv, HubTyped
<1> QED BY <1>1, <1>2, <1>3, <1>4 DEF H!HubStep

\* So do those of the broadcasters and the cancellation, which touch no client.
LEMMA SenderKeeps ==
    ASSUME HubInv,
           \/ \E b \in H!Broadcasters : H!Change(b) \/ H!SendStep(b) \/ H!Quits(b)
           \/ H!TickerEnds \/ H!CancelHub
    PROVE  HubInv'
<1>0. DataTyped /\ ClientsTyped /\ BufTyped /\ ConnsTyped /\ PagesTyped
      /\ Assembled /\ Served
  BY DEF HubInv, HubTyped
<1>1. UNCHANGED <<clients, buf, closed, serve, writer, reader, link, sock, due, shown, ended>>
  BY DEF H!Change, H!SendStep, H!Assemble, H!SetSnapshot, H!BroadcastMsg, H!Quits,
         H!TickerEnds, H!CancelHub, H!Frame, H!hubVars, H!pumpVars, H!pageVars
<1>2. ClientsTyped' /\ BufTyped' /\ ConnsTyped' /\ PagesTyped' /\ Served'
  BY <1>0, <1>1 DEF ClientsTyped, BufTyped, ConnsTyped, PagesTyped, Served
<1>3. SUFFICES DataTyped' /\ Assembled'
  BY <1>2 DEF HubInv, HubTyped
<1>4. ASSUME NEW b \in H!Broadcasters, NEW next \in {"idle", "begin", "store", "send", "over"},
             work' = [work EXCEPT ![b] = next]
      PROVE  /\ work' \in [H!Broadcasters -> {"idle", "begin", "store", "send", "over"}]
             /\ work'[b] = next /\ \A x \in H!Broadcasters : x # b => work'[x] = work[x]
  BY <1>0, <1>4 DEF DataTyped
<1>5. ASSUME NEW b \in H!Broadcasters, H!Change(b) PROVE DataTyped' /\ Assembled'
  <2>1. /\ version < MaxVersion /\ version' = version + 1
        /\ work' = [work EXCEPT ![b] = "begin"]
        /\ UNCHANGED <<read, snapshot, queue, breaks, cancelled>>
    BY <1>5 DEF H!Change
  <2>2. version' \in 1..MaxVersion
    BY <1>0, <2>1, Bounds DEF DataTyped
  <2> QED BY <1>0, <1>1, <1>4, <2>1, <2>2 DEF DataTyped, Assembled
<1>6. ASSUME NEW b \in H!Broadcasters, H!Assemble(b) PROVE DataTyped' /\ Assembled'
  <2>1. /\ work' = [work EXCEPT ![b] = "store"] /\ read' = [read EXCEPT ![b] = version]
        /\ UNCHANGED <<version, snapshot, queue, breaks, cancelled>>
    BY <1>6 DEF H!Assemble, H!Frame
  <2>2. version \in H!Versions /\ version # 0
    BY <1>0, Bounds DEF DataTyped, H!Versions
  <2>3. /\ read' \in [H!Broadcasters -> H!Versions] /\ read'[b] = version
        /\ \A x \in H!Broadcasters : x # b => read'[x] = read[x]
    BY <1>0, <2>1, <2>2 DEF DataTyped
  <2> QED BY <1>0, <1>1, <1>4, <2>1, <2>2, <2>3 DEF DataTyped, Assembled
<1>7. ASSUME NEW b \in H!Broadcasters, H!SetSnapshot(b) PROVE DataTyped' /\ Assembled'
  <2>1. /\ work[b] = "store" /\ work' = [work EXCEPT ![b] = "send"] /\ snapshot' = read[b]
        /\ UNCHANGED <<version, read, queue, breaks, cancelled>>
    BY <1>7 DEF H!SetSnapshot, H!Frame
  <2> QED BY <1>0, <1>1, <1>4, <2>1 DEF DataTyped, Assembled
<1>8. ASSUME NEW b \in H!Broadcasters, H!BroadcastMsg(b) PROVE DataTyped' /\ Assembled'
  <2>1. /\ work[b] = "send" /\ work' = [work EXCEPT ![b] = "idle"]
        /\ Len(queue) < QueueCap /\ queue' = Append(queue, read[b])
        /\ read' = [read EXCEPT ![b] = 0] /\ UNCHANGED <<version, snapshot, breaks, cancelled>>
    BY <1>8 DEF H!BroadcastMsg, H!Frame
  <2>2. read[b] \in 1..MaxVersion
    BY <1>0, <2>1, Bounds DEF DataTyped, H!Versions, Assembled
  <2>3. queue' \in Seq(1..MaxVersion) /\ Len(queue') = Len(queue) + 1 /\ Len(queue) \in Nat
    BY <1>0, <2>1, <2>2 DEF DataTyped
  <2>4. Len(queue') <= QueueCap
    BY <2>1, <2>3, Bounds
  <2>5. /\ read' \in [H!Broadcasters -> H!Versions]
        /\ \A x \in H!Broadcasters : x # b => read'[x] = read[x]
    BY <1>0, <2>1, Bounds DEF DataTyped, H!Versions
  <2> QED BY <1>0, <1>1, <1>4, <2>1, <2>3, <2>4, <2>5 DEF DataTyped, Assembled
<1>9. ASSUME NEW b \in H!Broadcasters, H!Quits(b) PROVE DataTyped' /\ Assembled'
  <2>1. work' = [work EXCEPT ![b] = "idle"]
        /\ UNCHANGED <<version, read, snapshot, queue, breaks, cancelled>>
    BY <1>9 DEF H!Quits, H!Frame
  <2> QED BY <1>0, <1>1, <1>4, <2>1 DEF DataTyped, Assembled
<1>10. CASE H!TickerEnds
  <2>1. /\ work' = [work EXCEPT ![Ticker] = "over"] /\ Ticker \in H!Broadcasters
        /\ UNCHANGED <<version, read, snapshot, queue, breaks, cancelled>>
    BY <1>10 DEF H!TickerEnds, H!Frame, H!Broadcasters
  <2> QED BY <1>0, <1>1, <1>4, <2>1 DEF DataTyped, Assembled
<1>11. CASE H!CancelHub
  <2>1. /\ breaks < MaxBreaks /\ breaks' = breaks + 1 /\ cancelled' = TRUE
        /\ UNCHANGED H!dataVars
    BY <1>11 DEF H!CancelHub
  <2>2. breaks' \in 0..MaxBreaks
    BY <1>0, <2>1, Bounds DEF DataTyped
  <2> QED BY <1>0, <1>1, <2>1, <2>2 DEF H!dataVars, DataTyped, Assembled
<1> QED BY <1>5, <1>6, <1>7, <1>8, <1>9, <1>10, <1>11 DEF H!SendStep

\* HubInv is inductive.
LEMMA HubStepKeeps ==
    ASSUME HubInv, [H!Next]_H!vars PROVE HubInv'
<1>1. CASE UNCHANGED H!vars
  BY <1>1 DEF H!vars, H!dataVars, H!hubVars, H!pumpVars, H!pageVars, HubInv, HubTyped,
              DataTyped, ClientsTyped, BufTyped, ConnsTyped, PagesTyped, Assembled, Served
<1>2. CASE H!Next
  BY <1>2, PageKeeps, ConnKeeps, HubKeeps, SenderKeeps DEF H!Next
<1> QED BY <1>1, <1>2

LEMMA HubInit == ASSUME H!Init PROVE HubInv
<1>1. 0 \in H!Versions /\ 1 \in 1..MaxVersion /\ 0 \in 0..MaxBreaks
  BY Bounds DEF H!Versions
<1>2. <<>> \in Seq(1..MaxVersion) /\ Len(<<>>) <= BufCap /\ Len(<<>>) <= QueueCap
  BY Bounds
<1>3. DataTyped /\ Assembled
  BY <1>1, <1>2 DEF H!Init, DataTyped, Assembled
<1>4. BufTyped
  BY <1>2 DEF H!Init, BufTyped
<1> QED BY <1>1, <1>3, <1>4
           DEF H!Init, HubInv, HubTyped, ClientsTyped, ConnsTyped, PagesTyped, Served

\* Every variable of the hub keeps its type (hub.go): no channel ever holds more
\* than its capacity, and every message in one is a version that was assembled.
THEOREM HubTypeCorrect == H!Spec => []H!TypeOK
<1>1. HubInv => H!TypeOK
  BY DEF HubInv, HubTyped, DataTyped, ClientsTyped, BufTyped, ConnsTyped, PagesTyped, H!TypeOK
<1> QED BY <1>1, HubInit, HubStepKeeps, PTL DEF H!Spec

\* Hub.Run never sends on a channel that it has closed, and each client that
\* holds one of the places has a reader that will give it back: unregister and
\* the end of Run are the only ones to close, and a write that fails closes the
\* connection (hub.go, writePump and readPump).
THEOREM HubServes == H!Spec => []ClientsAreServed
<1>1. HubInv => ClientsAreServed
  BY DEF HubInv, HubTyped, Served, ClientsAreServed
<1> QED BY <1>1, HubInit, HubStepKeeps, PTL DEF H!Spec

\* The hub's loop returns only when its context is cancelled.
LEMMA EndsWhenCancelled == H!Spec => [](HubInv /\ (ended => cancelled))
<1>1. H!Init => (ended => cancelled)
  BY DEF H!Init
<1>2. ASSUME ended => cancelled, [H!Next]_H!vars PROVE (ended => cancelled)'
  BY <1>2
  DEF H!Next, H!PageStep, H!Connect, H!OnClose, H!Reload, H!ConnStep, H!Check, H!Write,
      H!EndWriter, H!ReadFails, H!StopWriter, H!Cut, H!HubStep, H!HubRegister, H!HubUnregister,
      H!HubBroadcast, H!HubEnds, H!Change, H!SendStep, H!Assemble, H!SetSnapshot, H!BroadcastMsg,
      H!Quits, H!TickerEnds, H!CancelHub, H!Frame, H!hubVars, H!vars
<1> QED BY <1>1, <1>2, HubInit, HubStepKeeps, PTL DEF H!Spec

\* What HubFairness and BroadcasterFairness promise a broadcast, stated by guards,
\* since ENABLED is not for the provers: a hub that is at its select with a message
\* queued, again and again, takes messages; a sender for whom there is room, again
\* and again, sends.
Delivers == <>[]~(H!Selects /\ queue # <<>>) \/ []<><<H!HubBroadcast>>_H!vars

GetsTurn(b) ==
    \/ <>[]~(work[b] = "send" /\ Len(queue) < QueueCap)
    \/ []<><<H!SendStep(b) \/ H!Quits(b)>>_H!vars

\* BroadcastNeverBlocks: a request goroutine or the ticker that sends to the hub is
\* done with it in the end, for any number of clients, alive or dead.  The queue
\* does not stay full, because the hub takes from it whatever its clients do; and a
\* queue that has room again and again is not passed over for ever.
THEOREM BroadcastsGetThrough ==
    H!Spec /\ Delivers /\ (\A b \in Broadcasters : GetsTurn(b)) => BroadcastNeverBlocks
<1> SUFFICES ASSUME NEW b \in Broadcasters
             PROVE  H!Spec /\ Delivers /\ GetsTurn(b)
                    => []<>(work[b] # "send" \/ cancelled)
  BY DEF BroadcastNeverBlocks
<1> DEFINE Sending == ~(work[b] # "send" \/ cancelled)
           Full == Len(queue) >= QueueCap
<1>1. b \in H!Broadcasters
  BY DEF Broadcasters, H!Broadcasters
<1>2. HubInv /\ Sending /\ <<H!SendStep(b) \/ H!Quits(b)>>_H!vars => ~Sending'
  BY <1>1 DEF H!SendStep, H!Assemble, H!Begins, H!SetSnapshot, H!BroadcastMsg, H!Quits, H!Frame,
              HubInv, HubTyped, DataTyped
<1>3. HubInv /\ <<H!HubBroadcast>>_H!vars => ~Full'
  <2>1. ASSUME HubInv, H!HubBroadcast PROVE ~Full'
    <3>1. queue \in Seq(1..MaxVersion) /\ queue # <<>> /\ queue' = Tail(queue)
          /\ Len(queue) <= QueueCap
      BY <2>1 DEF H!HubBroadcast, HubInv, HubTyped, DataTyped
    <3>2. Len(queue) \in Nat /\ Len(Tail(queue)) = Len(queue) - 1
      BY <3>1, TailTyped
    <3> QED BY <3>1, <3>2, Bounds
  <2> QED BY <2>1
<1>4. HubInv /\ Sending /\ ~Full => work[b] = "send" /\ Len(queue) < QueueCap
  <2>1. HubInv => Len(queue) \in Nat
    BY DEF HubInv, HubTyped, DataTyped
  <2> QED BY <2>1, Bounds
<1>5. (ended => cancelled) /\ Sending /\ Full => H!Selects /\ queue # <<>>
  BY Bounds DEF H!Selects
<1> HIDE DEF Full
<1> QED BY <1>2, <1>3, <1>4, <1>5, EndsWhenCancelled, PTL DEF H!Spec, Delivers, GetsTurn

=============================================================================
