-------------------------------- MODULE Hub --------------------------------
(***************************************************************************)
(* The dashboard's live data: hub.Hub (internal/hub/hub.go), what feeds it *)
(* (app.BroadcastService in internal/app/broadcast.go, its ticker in       *)
(* app.go) and the pages that show it                                      *)
(* (web/src/components/WebSocketProvider.tsx).                             *)
(*                                                                         *)
(* A message is the version of the servers, states and metrics it was      *)
(* assembled from; 0 is no message.  A connection is one WebSocket with    *)
(* the goroutines that serve it.                                           *)
(***************************************************************************)
EXTENDS Sequences, HubState

dataVars == <<version, work, read, snapshot, queue>>
hubVars  == <<ended, clients, buf, closed>>
pumpVars == <<serve, writer, reader>>
pageVars == <<sock, due, shown>>
vars == <<dataVars, hubVars, pumpVars, link, breaks, pageVars, cancelled>>

Versions == 0..MaxVersion

-----------------------------------------------------------------------------
TypeOK ==
    /\ version \in 1..MaxVersion
    /\ work \in [Broadcasters -> {"idle", "begin", "store", "send", "over"}]
    /\ read \in [Broadcasters -> Versions]
    /\ snapshot \in Versions
    /\ queue \in Seq(1..MaxVersion) /\ Len(queue) <= QueueCap
    /\ ended \in BOOLEAN
    /\ clients \subseteq Conns /\ closed \subseteq Conns
    /\ buf \in [Conns -> Seq(1..MaxVersion)]
    /\ \A c \in Conns : Len(buf[c]) <= BufCap
    /\ serve \in [Conns -> {"off", "check", "register"}]
    /\ writer \in [Conns -> {"off", "on"}]
    /\ reader \in [Conns -> {"off", "on", "leave"}]
    /\ link \in [Conns -> {"open", "left", "shut", "lost"}]
    /\ sock \in [Pages -> Conns \cup {None}]
    /\ due \subseteq Pages
    /\ breaks \in 0..MaxBreaks
    /\ shown \in [Pages -> Versions]
    /\ cancelled \in BOOLEAN

Init ==
    /\ version = 1
    /\ work = [b \in Broadcasters |-> "idle"]
    /\ read = [b \in Broadcasters |-> 0]
    /\ snapshot = 0 /\ queue = <<>>
    /\ ended = FALSE /\ clients = {} /\ closed = {}
    /\ buf = [c \in Conns |-> <<>>]
    /\ serve = [c \in Conns |-> "off"]
    /\ writer = [c \in Conns |-> "off"] /\ reader = [c \in Conns |-> "off"]
    /\ link = [c \in Conns |-> "left"]
    /\ sock = [p \in Pages |-> None]
    /\ due = Pages /\ breaks = 0
    /\ shown = [p \in Pages |-> 0]
    /\ cancelled = FALSE

-----------------------------------------------------------------------------
(* Helpers *)

\* `select` with a default: what does not fit is dropped.
Offer(q, m) == IF Len(q) < BufCap THEN Append(q, m) ELSE q

\* No goroutine serves c and no page holds it.
Free(c) ==
    /\ serve[c] = "off" /\ writer[c] = "off" /\ reader[c] = "off"
    /\ \A p \in Pages : sock[p] # c

\* conn.Close; "left" says that no page holds the connection.
CloseConn(c) ==
    link' = [link EXCEPT ![c] = IF \E p \in Pages : sock[p] = c THEN "shut" ELSE "left"]

-----------------------------------------------------------------------------
(* A page *)

\* connect, and the upgrade of its request.
Connect(p) ==
    /\ p \in due /\ ~cancelled
    /\ \E c \in {k \in Conns : Free(k)} :
          /\ sock' = [sock EXCEPT ![p] = c]
          /\ link' = [link EXCEPT ![c] = "open"]
          /\ serve' = [serve EXCEPT ![c] = "check"]
    /\ due' = due \ {p}
    /\ UNCHANGED <<dataVars, hubVars, writer, reader, shown, breaks, cancelled>>

\* Mutant: only a socket that was lost is replaced, not one that was closed.
Rearms_Lost(p) == link[sock[p]] = "lost"

\* onclose: any end the page did not ask for sets the timer.
Rearms(p) == TRUE

OnClose(p) ==
    /\ sock[p] # None /\ link[sock[p]] \in {"shut", "lost"}
    /\ sock' = [sock EXCEPT ![p] = None]
    /\ link' = [link EXCEPT ![sock[p]] = IF @ = "lost" THEN @ ELSE "left"]
    /\ due' = IF Rearms(p) THEN due \cup {p} ELSE due
    /\ UNCHANGED <<dataVars, hubVars, pumpVars, breaks, shown, cancelled>>

\* The page is left, which clears its timer and closes its socket, and opened
\* again, which shows nothing and connects.
Reload(p) ==
    /\ breaks < MaxBreaks /\ breaks' = breaks + 1
    /\ sock' = [sock EXCEPT ![p] = None]
    /\ link' = [c \in Conns |->
                  IF c = sock[p] /\ link[c] # "lost" THEN "left" ELSE link[c]]
    /\ due' = due \cup {p}
    /\ shown' = [shown EXCEPT ![p] = 0]
    /\ UNCHANGED <<dataVars, hubVars, pumpVars, cancelled>>

\* The network drops a connection; no side is told.
Cut(c) ==
    /\ link[c] = "open" /\ breaks < MaxBreaks
    /\ link' = [link EXCEPT ![c] = "lost"]
    /\ breaks' = breaks + 1
    /\ UNCHANGED <<dataVars, hubVars, pumpVars, pageVars, cancelled>>

-----------------------------------------------------------------------------
(* ServeWS and the pumps of one connection *)

\* The limit is read before the client is registered.
Check(c) ==
    /\ serve[c] = "check"
    /\ \/ /\ Cardinality(clients) >= MaxClients
          /\ serve' = [serve EXCEPT ![c] = "off"]
          /\ CloseConn(c)
       \/ /\ Cardinality(clients) < MaxClients
          /\ serve' = [serve EXCEPT ![c] = "register"]
          /\ UNCHANGED link
    /\ UNCHANGED <<dataVars, hubVars, writer, reader, pageVars, breaks, cancelled>>

\* What nobody will receive any more is not kept.
StopWriter(c) ==
    /\ writer' = [writer EXCEPT ![c] = "off"]
    /\ closed' = closed \ {c}
    /\ CloseConn(c)

\* writePump sends the next message; a failed write ends it.
Write(c) ==
    /\ writer[c] = "on" /\ buf[c] # <<>>
    /\ \/ /\ link[c] = "open"
          /\ buf' = [buf EXCEPT ![c] = Tail(@)]
          /\ shown' = [p \in Pages |-> IF sock[p] = c THEN Head(buf[c]) ELSE shown[p]]
          /\ UNCHANGED <<link, writer, closed>>
       \/ /\ link[c] # "open"
          /\ buf' = [buf EXCEPT ![c] = IF c \in closed THEN <<>> ELSE Tail(@)]
          /\ StopWriter(c)
          /\ UNCHANGED shown
    /\ UNCHANGED <<dataVars, ended, clients, serve, reader, sock, due, breaks,
                   cancelled>>

\* The closed channel is drained: writePump closes the connection.
EndWriter(c) ==
    /\ writer[c] = "on" /\ buf[c] = <<>> /\ c \in closed
    /\ StopWriter(c)
    /\ UNCHANGED <<dataVars, ended, clients, buf, serve, reader, pageVars, breaks,
                   cancelled>>

\* readPump fails once either end has closed; a lost link is silent.
ReadFails(c) ==
    /\ reader[c] = "on" /\ link[c] \in {"left", "shut"}
    /\ reader' = [reader EXCEPT ![c] = "leave"]
    /\ UNCHANGED <<dataVars, hubVars, serve, writer, link, pageVars, breaks, cancelled>>

-----------------------------------------------------------------------------
(* Hub.Run *)

\* Mutant: its sends have no default, so that a full client holds it up.
Selects_Held == ~ended /\ \A c \in clients : Len(buf[c]) < BufCap

\* Run is at its select: no send to a client holds it up.
Selects == ~ended

\* The hub takes c from ServeWS, which starts the pumps, and gives it the
\* snapshot, if there is one.
HubRegister(c) ==
    /\ Selects /\ serve[c] = "register"
    /\ clients' = clients \cup {c}
    /\ buf' = IF snapshot = 0 THEN buf
              ELSE [buf EXCEPT ![c] = Offer(@, snapshot)]
    /\ serve' = [serve EXCEPT ![c] = "off"]
    /\ writer' = [writer EXCEPT ![c] = "on"]
    /\ reader' = [reader EXCEPT ![c] = "on"]
    /\ UNCHANGED <<dataVars, ended, closed, link, pageVars, breaks, cancelled>>

\* Mutant: the channel is closed and the client kept.
Forget_Keep(cs) == closed' = closed \cup cs /\ clients' = clients

\* close(c.send) and delete, for those that are there.
Forget(cs) ==
    /\ closed' = closed \cup {c \in cs \cap clients : writer[c] = "on"}
    /\ clients' = clients \ cs

HubUnregister(c) ==
    /\ Selects /\ reader[c] = "leave"
    /\ reader' = [reader EXCEPT ![c] = "off"]
    /\ Forget({c})
    /\ buf' = [buf EXCEPT ![c] = IF writer[c] = "on" THEN @ ELSE <<>>]
    /\ UNCHANGED <<dataVars, ended, serve, writer, link, pageVars, breaks, cancelled>>

HubBroadcast ==
    /\ Selects /\ queue # <<>>
    /\ buf' = [c \in Conns |-> IF c \in clients THEN Offer(buf[c], Head(queue)) ELSE buf[c]]
    /\ queue' = Tail(queue)
    /\ UNCHANGED <<version, work, read, snapshot, ended, clients, closed,
                   pumpVars, link, pageVars, breaks, cancelled>>

\* The context is cancelled: a close frame to each client, and Run returns.
HubEnds ==
    /\ Selects /\ cancelled
    /\ ended' = TRUE
    /\ Forget(clients)
    /\ link' = [c \in Conns |->
                  IF c \in clients /\ link[c] = "open" THEN "shut" ELSE link[c]]
    /\ UNCHANGED <<dataVars, buf, pumpVars, pageVars, breaks, cancelled>>

-----------------------------------------------------------------------------
(* BroadcastService.Broadcast *)

Frame(b, next) ==
    /\ work' = [work EXCEPT ![b] = next]
    /\ UNCHANGED <<version, hubVars, pumpVars, link, pageVars, breaks, cancelled>>

\* A request changes what pages show, and broadcasts.
Change(b) ==
    /\ b \in Requests /\ work[b] = "idle" /\ version < MaxVersion /\ ~cancelled
    /\ version' = version + 1
    /\ work' = [work EXCEPT ![b] = "begin"]
    /\ UNCHANGED <<read, snapshot, queue, hubVars, pumpVars, link, pageVars, breaks, cancelled>>

\* Mutant: a lone client is taken for none.
Audience_Two == Cardinality(clients) > 1

Audience == clients # {}

\* The ticker begins by itself.
Begins(b) == work[b] = IF b = Ticker THEN "idle" ELSE "begin"

\* The ticker's loop returns; a tick that is due may be taken first.
TickerEnds ==
    /\ cancelled /\ work[Ticker] = "idle" /\ Frame(Ticker, "over")
    /\ UNCHANGED <<read, snapshot, queue>>

\* The servers, their states and metrics.
Assemble(b) ==
    /\ Begins(b) /\ Audience /\ Frame(b, "store")
    /\ read' = [read EXCEPT ![b] = version]
    /\ UNCHANGED <<snapshot, queue>>

\* Without clients there is nothing to do; the store may fail.
Quits(b) ==
    /\ work[b] = "begin" /\ Frame(b, "idle")
    /\ UNCHANGED <<read, snapshot, queue>>

SetSnapshot(b) ==
    /\ work[b] = "store" /\ Frame(b, "send")
    /\ snapshot' = read[b]
    /\ UNCHANGED <<read, queue>>

\* Blocks while the hub's queue is full.
BroadcastMsg(b) ==
    /\ work[b] = "send" /\ Len(queue) < QueueCap /\ Frame(b, "idle")
    /\ queue' = Append(queue, read[b])
    /\ read' = [read EXCEPT ![b] = 0]
    /\ UNCHANGED snapshot

-----------------------------------------------------------------------------
(* Shutdown: the hub and the HTTP server stop, the one or the other first; a  *)
(* connection made in between is served like one made just before.            *)

CancelHub ==
    /\ ~cancelled /\ cancelled' = TRUE
    /\ breaks < MaxBreaks /\ breaks' = breaks + 1
    /\ UNCHANGED <<dataVars, hubVars, pumpVars, link, pageVars>>

-----------------------------------------------------------------------------
PageStep(p) == Connect(p) \/ OnClose(p)
ConnStep(c) == Check(c) \/ Write(c) \/ EndWriter(c) \/ ReadFails(c)
HubStep(c)  == HubRegister(c) \/ HubUnregister(c)
SendStep(b) == Assemble(b) \/ SetSnapshot(b) \/ BroadcastMsg(b)

Next ==
    \/ \E p \in Pages : PageStep(p) \/ Reload(p)
    \/ \E c \in Conns : ConnStep(c) \/ HubStep(c) \/ Cut(c)
    \/ HubBroadcast \/ HubEnds
    \/ \E b \in Broadcasters :
          Change(b) \/ SendStep(b) \/ Quits(b)
    \/ TickerEnds \/ CancelHub

Spec == Init /\ [][Next]_vars

\* Goroutines run, timers fire, a write on a dead link fails in the end and the
\* browser reports one.  `select` picks at random among what is ready, the
\* store does not fail for ever, and a server that is up accepts a page in the end.
PageFairness(p) == SF_vars(Connect(p)) /\ WF_vars(OnClose(p))
ConnFairness(c) == WF_vars(ConnStep(c))
HubFairness == SF_vars(HubBroadcast) /\ SF_vars(\E c \in Conns : HubStep(c))
BroadcasterFairness(b) == SF_vars(SendStep(b) \/ Quits(b))

Fairness ==
    /\ \A p \in Pages : PageFairness(p)
    /\ \A c \in Conns : ConnFairness(c)
    /\ HubFairness
    /\ \A b \in Broadcasters : BroadcasterFairness(b)

FairSpec == Spec /\ Fairness
=============================================================================
