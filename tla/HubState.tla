------------------------------ MODULE HubState ------------------------------
(***************************************************************************)
(* The state of the dashboard's live data (hub.Hub, app.BroadcastService   *)
(* and WebSocketProvider.tsx) and what is promised of it.  Hub has the     *)
(* steps.                                                                  *)
(***************************************************************************)
EXTENDS Naturals, FiniteSets

CONSTANTS
    Pages,        \* dashboards in browsers, each with a socket at a time
    Conns,        \* WebSocket connections, used again when over
    Requests,     \* request goroutines that change data and broadcast
    Ticker,       \* the goroutine of runBroadcastLoop
    None,         \* no connection
    MaxClients,   \* maxClients
    BufCap,       \* messages a client's send channel holds
    QueueCap,     \* messages Hub.broadcast holds
    MaxVersion,   \* bound: changes of the data
    MaxBreaks     \* bound: connections lost, pages reloaded, the server stopped

ASSUME HubAssumption ==
    /\ MaxClients \in Nat \ {0} /\ BufCap \in Nat \ {0}
    /\ QueueCap \in Nat \ {0} /\ MaxVersion \in Nat \ {0}
    /\ MaxBreaks \in Nat
    /\ None \notin Conns /\ Ticker \notin Requests
    /\ IsFiniteSet(Conns)

VARIABLES
    version,    \* what the tables, the pool and the collectors hold now
    work, read, \* where each broadcaster is, and the version it assembled
    snapshot,   \* Hub.snapshot
    queue,      \* Hub.broadcast
    ended,      \* Hub.Run has returned
    clients,    \* Hub.clients
    buf,        \* each client's send channel
    closed,     \* clients whose send channel is closed
    serve,      \* where ServeWS is for each connection
    writer,     \* where each writePump is
    reader,     \* where each readPump is
    link,       \* each connection as its two ends see it
    sock,       \* WebSocketProvider.wsRef of each page
    due,        \* pages about to connect: just mounted, or the timer is set
    shown,      \* the version each page shows
    breaks,     \* how often so far
    cancelled   \* the context of the hub, of the ticker and of the server is cancelled

Broadcasters == Requests \cup {Ticker}

-----------------------------------------------------------------------------
(* Safety *)

\* Nobody sends on a channel after it is closed, and every client that holds one
\* of the MaxClients places has a reader that will give it back: a writer that
\* ends closes the connection, which wakes the reader.
ClientsAreServed ==
    /\ clients \cap closed = {}
    /\ \A c \in clients :
          reader[c] # "off" /\ (writer[c] = "off" => link[c] \in {"left", "shut"})

-----------------------------------------------------------------------------
(* Liveness *)

\* While the hub runs, no client, however dead, holds a broadcaster up for good.
BroadcastNeverBlocks ==
    \A b \in Broadcasters : []<>(work[b] # "send" \/ cancelled)

Attached(p) == sock[p] # None /\ sock[p] \in clients /\ link[sock[p]] = "open"

\* A page that lost its socket, or was turned away, gets a place again: a client
\* whose link is gone gives its own back, because the next broadcasts fail to
\* reach it and that wakes its reader.
PageComesBack == \A p \in Pages : []<>(Attached(p) \/ cancelled)

\* A page that stays attached to a hub that runs ends up showing the data as they
\* are, whatever was dropped on the way or overtaken by an older broadcast.
AttachedPageSettles ==
    \A p \in Pages :
        <>[](Attached(p) /\ ~cancelled) => <>[](shown[p] = version)
=============================================================================
