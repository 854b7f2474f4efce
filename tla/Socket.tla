------------------------------- MODULE Socket -------------------------------
(***************************************************************************)
(* The sockets of the plugin (src/socket): what the native library starts  *)
(* and stops, the WebSocket server each socket runs, the clients the       *)
(* server accepts, and the sessions the sockets own.                       *)
(*                                                                         *)
(* Four kinds of threads meet.  The native thread starts and stops native  *)
(* sockets; the WebSocket threads accept clients and report their close;   *)
(* a worker thread stops a server, which blocks; the plugin thread runs    *)
(* the tasks that the others submit, in order (module TaskQueue).          *)
(*                                                                         *)
(* A session is what module Session says of it, seen from its socket: it   *)
(* is active or closed, and holds its socket until its own last reference  *)
(* is dropped.  Its references are those of the session itself, of its     *)
(* WebSocket and of its peer connection, and those of its channels and of  *)
(* a pending native call, which are counted as one while there are any.    *)
(*                                                                         *)
(* The native library calls the plugin from one thread, so a start or a    *)
(* stop is one step.  Stopping a WebSocket server waits for the accept     *)
(* callback that is in progress, and none comes afterwards.                *)
(***************************************************************************)
EXTENDS Naturals, Sequences, FiniteSets

CONSTANTS
  Natives,          \* native sockets
  Clients,          \* WebSocket clients
  Socks,            \* socket objects the pool can hand out
  None,             \* NULL
  CountModulus,     \* width of running_sockets: 2^64 in the code
  Faults,           \* which failures and behaviours may happen
  MaxTasks          \* bound: length of the task queue

FaultKinds ==
  { "memory",       \* sockets, servers, sessions and worker tasks cannot be
                    \* allocated, and tasks are refused
    "init",         \* socket_plugin_init fails and releases the socket
    "failing",      \* a peer connection ends, or a data channel of it does,
                    \* before its session is closed
    "early",        \* a client is gone before it was announced
    "connecting",   \* native sockets that connect to a server start and stop
    "restart" }     \* a native socket listens again before the plugin has
                    \* forgotten it

ASSUME SocketAssumption ==
  /\ None \notin Natives \cup Clients \cup Socks
  /\ IsFiniteSet(Clients)
  /\ CountModulus \in Nat \ {0}
  /\ Faults \subseteq FaultKinds
  /\ MaxTasks \in Nat

VARIABLES
  native,           \* what the native thread has done with each socket
  running,          \* context->running_sockets
  executor,         \* the executor has been started and not shut down
  map,              \* context->socket_map
  sock,             \* the socket objects
  session,          \* the session of each client
  client,           \* the WebSocket of each client
  tasks,            \* tasks submitted to the plugin thread
  held,             \* sessions that channels or a native call reference
  surplus           \* how often too often each object lies in the pool

vars == <<native, running, executor, map, sock, session, client, tasks, held,
          surplus>>

\* A socket object: ref is 0 when it lies in the pool.  A lost server has
\* stopped, and its closed event was refused.
SockRecords ==
  [ ref : Nat,
    active : BOOLEAN,               \* POMELO_WEBRTC_SOCKET_FLAG_ACTIVE
    wss : BOOLEAN,                  \* POMELO_WEBRTC_SOCKET_FLAG_WSS_ACTIVE
    native : Natives \cup {None},   \* socket->native_socket
    server : {"none", "open", "stopping", "stopped", "lost"},
    list : SUBSET Clients ]         \* socket->sessions

SessionRecords ==
  [ ref : Nat, active : BOOLEAN, socket : Socks \cup {None} ]

\* announced: on_client has been called; gone: destroyed; lost: closed, and the
\* closed event was refused.
ClientRecords ==
  [ at : {"new", "accepted", "announced", "gone"},
    server : Socks \cup {None},
    ws : {"open", "closed", "lost"},
    pc : {"none", "open", "closed", "lost"} ]

TaskRecords ==
  [op : {"listen", "stop"}, of : Natives]
    \cup [op : {"client", "wsClosed", "pcClosed"}, of : Clients]
    \cup [op : {"wssClosed"}, of : Socks]

TypeOK ==
  /\ native \in [Natives -> {"idle", "listening", "connecting"}]
  /\ running \in 0 .. CountModulus - 1
  /\ executor \in BOOLEAN
  /\ map \in [Natives -> Socks \cup {None}]
  /\ sock \in [Socks -> SockRecords]
  /\ session \in [Clients -> SessionRecords]
  /\ client \in [Clients -> ClientRecords]
  /\ tasks \in Seq(TaskRecords)
  /\ held \subseteq Clients
  /\ surplus \in [Socks -> Nat]

\* A socket object in the pool, as socket_cleanup leaves it.
Pooled ==
  [ref |-> 0, active |-> FALSE, wss |-> FALSE, native |-> None,
   server |-> "none", list |-> {}]

Init ==
  /\ native = [n \in Natives |-> "idle"]
  /\ running = 0
  /\ executor = FALSE
  /\ map = [n \in Natives |-> None]
  /\ sock = [k \in Socks |-> Pooled]
  /\ session = [c \in Clients |->
       [ref |-> 0, active |-> FALSE, socket |-> None]]
  /\ client = [c \in Clients |->
       [at |-> "new", server |-> None, ws |-> "open", pc |-> "none"]]
  /\ tasks = <<>>
  /\ held = {}
  /\ surplus = [k \in Socks |-> 0]

Room == Len(tasks) < MaxTasks

MayFail == "memory" \in Faults

\* Whether an allocation succeeds.
Allocated == IF MayFail THEN BOOLEAN ELSE {TRUE}

\* submit_task, whose refusal its callers do not look at.
Submits(op, of, accepted) ==
  tasks' = IF accepted THEN Append(tasks, [op |-> op, of |-> of]) ELSE tasks

Takes(op, of) ==
  /\ tasks # <<>>
  /\ Head(tasks) = [op |-> op, of |-> of]
  /\ tasks' = Tail(tasks)
-----------------------------------------------------------------------------
(* The native thread.                                                      *)

\* socket_plugin_on_started: the first running socket starts the executor.
Started ==
  /\ running' = (running + 1) % CountModulus
  /\ executor' = (executor \/ running = 0)

\* Nothing in the plugin is about native socket n.
Forgotten(n) ==
  /\ \A k \in Socks : sock[k].native # n
  /\ \A i \in 1 .. Len(tasks) : tasks[i].of # n

\* socket_plugin_on_listening
Listen(n) ==
  /\ Room
  /\ native[n] = "idle"
  /\ "restart" \in Faults \/ Forgotten(n)
  /\ native' = [native EXCEPT ![n] = "listening"]
  /\ Started
  /\ \E accepted \in Allocated : Submits("listen", n, accepted)
  /\ UNCHANGED <<map, sock, session, client, held, surplus>>

\* context_create registers no callback for connecting: the plugin does not
\* hear of it (socket_plugin_on_connecting, which would count, is not called).
Connect(n) ==
  /\ "connecting" \in Faults
  /\ native[n] = "idle"
  /\ native' = [native EXCEPT ![n] = "connecting"]
  /\ UNCHANGED <<running, executor, map, sock, session, client, tasks, held,
                 surplus>>

\* Mutant: the count after the subtraction is tested.
StopCountsAfter(n) ==
  /\ Room
  /\ native[n] # "idle"
  /\ native' = [native EXCEPT ![n] = "idle"]
  /\ running' = (running + CountModulus - 1) % CountModulus
  /\ executor' = (executor /\ running' # 1)
  /\ \E accepted \in Allocated : Submits("stop", n, accepted)
  /\ UNCHANGED <<map, sock, session, client, held, surplus>>

\* socket_plugin_on_stopped: the last running socket shuts the executor down.
\* The subtraction wraps.
Stop(n) ==
  /\ Room
  /\ native[n] # "idle"
  /\ native' = [native EXCEPT ![n] = "idle"]
  /\ running' = (running + CountModulus - 1) % CountModulus
  /\ executor' = (executor /\ running # 1)
  /\ \E accepted \in Allocated : Submits("stop", n, accepted)
  /\ UNCHANGED <<map, sock, session, client, held, surplus>>
-----------------------------------------------------------------------------
(* Functions of the plugin thread, on what it owns: g is the record of map,*)
(* sock, session and client.                                               *)

Owned == [map |-> map, sock |-> sock, session |-> session, client |-> client]

Become(g) ==
  /\ map' = g.map
  /\ sock' = g.sock
  /\ session' = g.session
  /\ client' = g.client

\* socket_cleanup, with wss_cleanup and plugin_cleanup.
SocketCleanup(g, k) ==
  [g EXCEPT !.sock[k] = Pooled, !.map[g.sock[k].native] = None]

\* pomelo_webrtc_socket_unref
SocketUnref(g, k) ==
  LET less == [g EXCEPT !.sock[k].ref = @ - 1]
  IN IF less.sock[k].ref = 0 THEN SocketCleanup(less, k) ELSE less

\* Mutant: the released session keeps its socket.
SessionUnrefKeepsSocket(g, c) ==
  LET less == [g EXCEPT !.session[c].ref = @ - 1]
  IN IF less.session[c].ref = 0 THEN [less EXCEPT !.client[c].at = "gone"] ELSE less

\* pomelo_webrtc_session_unref: the last one destroys the WebSocket and drops
\* the reference on the socket (session.c:139, 159).
SessionUnref(g, c) ==
  LET less == [g EXCEPT !.session[c].ref = @ - 1]
  IN IF less.session[c].ref = 0
       THEN SocketUnref([less EXCEPT !.client[c].at = "gone"], less.session[c].socket)
       ELSE less

\* pomelo_webrtc_session_close, with socket_remove_session.
SessionClose(g, c) ==
  IF ~g.session[c].active THEN g
  ELSE SessionUnref([g EXCEPT !.session[c].active = FALSE,
                              !.sock[g.session[c].socket].list = @ \ {c}], c)

\* An active session, which others reference too, after session_close.
Closed(r) == [r EXCEPT !.active = FALSE, !.ref = @ - 1]

\* The loop of socket_close: all listed sessions are taken off the list and
\* closed.  The WebSocket and the peer connection of an active session hold
\* it, so that no session is released here.
CloseSessions(g, k) ==
  LET listed == g.sock[k].list
  IN [g EXCEPT !.sock[k].list = {},
               !.session = [c \in Clients |->
                  IF c \in listed /\ g.session[c].active
                    THEN Closed(g.session[c])
                    ELSE g.session[c]]]

\* socket_wss_close: a worker task stops the server, if there is memory.
WssClose(g, k, spawned) ==
  IF ~g.sock[k].wss THEN g
  ELSE [g EXCEPT !.sock[k].wss = FALSE,
                 !.sock[k].server = IF spawned THEN "stopping" ELSE @]

\* pomelo_webrtc_socket_close
SocketClose(g, k, spawned) ==
  IF ~g.sock[k].active THEN g
  ELSE SocketUnref(
         WssClose(CloseSessions([g EXCEPT !.sock[k].active = FALSE], k), k, spawned),
         k)

\* Mutant: the socket is not associated with its native socket.
SocketPluginInitUnmapped(g, k, n) == [g EXCEPT !.sock[k].native = n]

\* socket_plugin_init: the socket is associated with its native socket.
SocketPluginInit(g, k, n) == [g EXCEPT !.sock[k].native = n, !.map[n] = k]

\* Mutant: the server does not reference the socket.
SocketWssInitUnshared(g, k) ==
  [g EXCEPT !.sock[k].server = "open", !.sock[k].wss = TRUE]

\* socket_wss_init: the server listens, and references the socket.
SocketWssInit(g, k) ==
  [g EXCEPT !.sock[k].server = "open", !.sock[k].wss = TRUE,
            !.sock[k].ref = @ + 1]

\* socket_init, of an object of the pool.
SocketInit(g, k, n) ==
  LET referenced == [g EXCEPT !.sock[k].ref = 1]
      served == SocketWssInit(SocketPluginInit(referenced, k, n), k)
  IN [served EXCEPT !.sock[k].active = TRUE]

\* What may become of object k when the pool hands it out for native socket n:
\* it is initialised; its server cannot be created, and the pool, whose
\* initialiser has failed, cleans it up; or socket_plugin_init fails, which
\* releases the object (socket-plugin.c:130, 143) before the pool cleans it up,
\* so that it lies in the pool once more.
InitOutcomes(k, n) ==
  LET emptied == SocketCleanup(SocketPluginInit(Owned, k, n), k)
  IN {[owned |-> SocketInit(Owned, k, n), more |-> 0]}
       \cup {[owned |-> emptied, more |-> 0] : x \in {"memory"} \cap Faults}
       \cup {[owned |-> emptied, more |-> 1] : x \in {"init"} \cap Faults}

\* Mutant: the session does not reference the socket.
CreateSessionUnshared(g, k, c) ==
  [g EXCEPT !.session[c] = [ref |-> 3, active |-> TRUE, socket |-> k],
            !.client[c].pc = "open",
            !.sock[k].list = @ \cup {c}]

\* socket_create_session: the session is referenced by itself, its WebSocket
\* and its peer connection, and references the socket.
CreateSession(g, k, c) ==
  [g EXCEPT !.session[c] = [ref |-> 3, active |-> TRUE, socket |-> k],
            !.client[c].pc = "open",
            !.sock[k].ref = @ + 1,
            !.sock[k].list = @ \cup {c}]
-----------------------------------------------------------------------------
(* Tasks of the plugin thread.                                             *)

\* The object that the pool hands out lies in it; it is in use as well when it
\* lay in the pool too often.
InPool(k) == sock[k].ref = 0 \/ surplus[k] > 0

\* plugin_socket_on_listening_callback
OnListen(n) ==
  /\ Takes("listen", n)
  /\ \/ \E k \in Socks : \E outcome \in InitOutcomes(k, n) :
          /\ InPool(k)
          /\ Become(outcome.owned)
          /\ surplus' = [surplus EXCEPT ![k] =
                           @ - (IF sock[k].ref > 0 THEN 1 ELSE 0) + outcome.more]
     \/ /\ MayFail \/ ~\E k \in Socks : InPool(k)
        /\ Become(Owned) /\ UNCHANGED surplus
  /\ UNCHANGED <<native, running, executor, held>>

\* plugin_socket_on_stopped_callback
OnStop(n) ==
  /\ Takes("stop", n)
  /\ \E spawned \in Allocated :
       Become(IF map[n] = None THEN Owned
                               ELSE SocketClose(Owned, map[n], spawned))
  /\ UNCHANGED <<native, running, executor, held, surplus>>

\* Mutant: a client is not tested against the end of its server.
OnClientAlways(c) ==
  /\ Takes("client", c)
  /\ LET k == client[c].server
     IN \/ Become(CreateSession(Owned, k, c))
        \/ MayFail /\ Become(Owned)
  /\ UNCHANGED <<native, running, executor, held, surplus>>

\* socket_wss_on_client_callback: a client of a closed server is destroyed.
\* A session that cannot be allocated leaves its client as it is, and one that
\* cannot be initialised destroys it.
OnClient(c) ==
  /\ Takes("client", c)
  /\ LET k == client[c].server
     IN IF ~sock[k].wss
          THEN Become([Owned EXCEPT !.client[c].at = "gone"])
          ELSE \/ Become(CreateSession(Owned, k, c))
               \/ MayFail /\ Become(Owned)
               \/ MayFail /\ Become([Owned EXCEPT !.client[c].at = "gone"])
  /\ UNCHANGED <<native, running, executor, held, surplus>>

\* Mutant: the WebSocket keeps its reference.
OnWsClosedKeepsRef(c) ==
  /\ Takes("wsClosed", c)
  /\ Become(IF session[c].ref = 0 THEN Owned ELSE SessionClose(Owned, c))
  /\ UNCHANGED <<native, running, executor, held, surplus>>

\* ws_on_closed_callback: not a mapped session before on_client, or after the
\* WebSocket has been destroyed.
OnWsClosed(c) ==
  /\ Takes("wsClosed", c)
  /\ Become(IF session[c].ref = 0 THEN Owned
                                  ELSE SessionUnref(SessionClose(Owned, c), c))
  /\ UNCHANGED <<native, running, executor, held, surplus>>

\* pc_on_state_changed_callback for the closed state.
OnPcClosed(c) ==
  /\ Takes("pcClosed", c)
  /\ Become(SessionUnref(SessionClose(Owned, c), c))
  /\ UNCHANGED <<native, running, executor, held, surplus>>

\* socket_wss_on_closed
OnWssClosed(k) ==
  /\ Takes("wssClosed", k)
  /\ Become(SocketUnref(Owned, k))
  /\ UNCHANGED <<native, running, executor, held, surplus>>

\* A session is closed for a reason of its own: a timeout, an error, the
\* application (module Session).
SessionEnds(c) ==
  /\ session[c].active
  /\ Become(SessionClose(Owned, c))
  /\ UNCHANGED <<native, running, executor, tasks, held, surplus>>

\* The first channel of an active session is created, or the native library
\* is asked for its native session (channel.c:65, session-plugin.c:205).
Hold(c) ==
  /\ session[c].active /\ c \notin held
  /\ held' = held \cup {c}
  /\ session' = [session EXCEPT ![c].ref = @ + 1]
  /\ UNCHANGED <<native, running, executor, map, sock, client, tasks, surplus>>

\* The last channel of a session is released and the native call is answered
\* (channel.c:81).
LetGo(c) ==
  /\ c \in held
  /\ held' = held \ {c}
  /\ Become(SessionUnref(Owned, c))
  /\ UNCHANGED <<native, running, executor, tasks, surplus>>

RunTask ==
  \/ \E n \in Natives : OnListen(n) \/ OnStop(n)
  \/ \E c \in Clients : OnClient(c) \/ OnWsClosed(c) \/ OnPcClosed(c)
  \/ \E k \in Socks : OnWssClosed(k)
-----------------------------------------------------------------------------
(* The worker thread.                                                      *)

\* The closed event of a stopped server is submitted.
WssStops(k) ==
  /\ \E accepted \in Allocated :
       /\ sock' = [sock EXCEPT ![k].server = IF accepted THEN "stopped" ELSE "lost"]
       /\ Submits("wssClosed", k, accepted)
  /\ UNCHANGED <<native, running, executor, map, session, client, held, surplus>>

\* Mutant: the closed event does not wait for the server.
WssStopEarly(k) ==
  /\ Room
  /\ sock[k].server = "stopping"
  /\ WssStops(k)

\* socket_wss_close_process: the server has stopped, and says so last.
WssStop(k) ==
  /\ Room
  /\ sock[k].server = "stopping"
  /\ ~\E c \in Clients : client[c].server = k /\ client[c].at = "accepted"
  /\ WssStops(k)
-----------------------------------------------------------------------------
(* libdatachannel: the WebSocket server and its clients.                   *)

\* RTCWSServer::on_client: the callbacks of the client are set ...
Accept(c, k) ==
  /\ client[c].at = "new"
  /\ sock[k].server \in {"open", "stopping"}
  /\ client' = [client EXCEPT ![c].at = "accepted", ![c].server = k]
  /\ UNCHANGED <<native, running, executor, map, sock, session, tasks, held, surplus>>

\* ... and then the plugin is told of it (socket_wss_on_client).
Announce(c) ==
  /\ Room
  /\ client[c].at = "accepted"
  /\ client' = [client EXCEPT ![c].at = "announced"]
  /\ \E accepted \in Allocated : Submits("client", c, accepted)
  /\ UNCHANGED <<native, running, executor, map, sock, session, held, surplus>>

\* The client closes its connection, or it was told to close.
WsClose(c) ==
  /\ Room
  /\ client[c].ws = "open"
  /\ \/ client[c].at = "announced"
     \/ client[c].at = "accepted" /\ "early" \in Faults
  /\ \E accepted \in Allocated :
       /\ client' = [client EXCEPT ![c].ws = IF accepted THEN "closed" ELSE "lost"]
       /\ Submits("wsClosed", c, accepted)
  /\ UNCHANGED <<native, running, executor, map, sock, session, held, surplus>>

\* A session that was closed has told its WebSocket and its peer connection
\* to close.
Told(c) == session[c].ref > 0 /\ ~session[c].active

\* The peer connection of a closed session reports closed, or it fails.
PcClose(c) ==
  /\ Room
  /\ client[c].pc = "open"
  /\ Told(c) \/ "failing" \in Faults
  /\ \E accepted \in Allocated :
       /\ client' = [client EXCEPT ![c].pc = IF accepted THEN "closed" ELSE "lost"]
       /\ Submits("pcClosed", c, accepted)
  /\ UNCHANGED <<native, running, executor, map, sock, session, held, surplus>>
-----------------------------------------------------------------------------
Next ==
  \/ RunTask
  \/ \E n \in Natives : Listen(n) \/ Connect(n) \/ Stop(n)
  \/ \E k \in Socks : WssStop(k)
  \/ \E c \in Clients : \/ SessionEnds(c) \/ Hold(c) \/ LetGo(c)
                        \/ Announce(c) \/ WsClose(c) \/ PcClose(c)
                        \/ \E k \in Socks : Accept(c, k)

(* The event loop runs what is queued, the worker stops a server, a client *)
(* that is being accepted is announced, and what was told to close does.   *)
(* The channels of a closed session are released and its native call is    *)
(* answered, unless a data channel ends before its session is closed: then *)
(* the channel may keep the session for ever (module Session,              *)
(* RemovedIsDeleted).                                                      *)
(* Steps that only wait for room in the model's bounded queue are strongly *)
(* fair.  Nobody has to listen, connect, stop or close anything.           *)
Fairness ==
  /\ WF_vars(RunTask)
  /\ \A k \in Socks : SF_vars(WssStop(k))
  /\ \A c \in Clients : /\ SF_vars(Announce(c))
                        /\ SF_vars(Told(c) /\ WsClose(c))
                        /\ SF_vars(Told(c) /\ PcClose(c))
                        /\ WF_vars("failing" \notin Faults /\ Told(c) /\ LetGo(c))

Spec == Init /\ [][Next]_vars

FairSpec == Spec /\ Fairness
-----------------------------------------------------------------------------
(* Properties.                                                             *)

Count(b) == IF b THEN 1 ELSE 0

Queued(op, of) == \E i \in 1 .. Len(tasks) : tasks[i] = [op |-> op, of |-> of]

SessionsOf(k) == {c \in Clients : session[c].ref > 0 /\ session[c].socket = k}

\* Every reference of a socket is accounted for (socket.c:146,
\* socket-wss.c:98, 181, session.c:109, 159): one for the socket while it is
\* active, one until the end of its server is handled, one for each session
\* that is not released, whatever order stop, closes and accepts come in and
\* whichever allocation fails or task is refused.  A server whose closed event
\* was refused keeps its reference.  It holds while socket_plugin_init
\* succeeds (fault "init"): a failure of it puts the object into the pool
\* twice, which later hands it out while it is in use.
SocketRefs ==
  \A k \in Socks :
    sock[k].ref = Count(sock[k].active)
                  + Count(sock[k].server \in {"open", "stopping", "lost"}
                          \/ Queued("wssClosed", k))
                  + Cardinality(SessionsOf(k))

\* A socket that was told to stop has no active session, now or later
\* (socket.c:136-141, socket-wss.c:34): a client that was accepted before and
\* announced after the stop does not get one.
StoppedHasNoActiveSession ==
  \A c \in Clients : session[c].active => sock[session[c].socket].active

\* What socket-wss.c:166 promises and on_client_callback needs, which does
\* not test for NULL: the closed event is the last event of a server, so an
\* announced client finds the socket of its server (socket-wss.c:33, 168).
ClosedIsLast ==
  \A c \in Clients :
    client[c].at = "accepted" \/ Queued("client", c) =>
      sock[client[c].server].ref > 0

\* A stopped socket goes back to the pool (socket.c:146): its server stops,
\* its sessions are released, and so is it.  It holds while every task is
\* accepted (fault "memory") and no peer connection or data channel ends
\* before its session is closed (fault "failing"): otherwise a channel may
\* keep its session, and so its socket, for ever.
StoppedIsReleased ==
  \A k \in Socks : (sock[k].ref > 0 /\ ~sock[k].active) ~> sock[k].ref = 0

\* What session-ws.c:169 says of a WebSocket: it references its session until
\* it is closed, and what the session's references are besides
\* (session-pc.c:272): one while it is active, one until the end of
\* its peer connection is handled, and what its channels and a native call
\* hold.  It holds for clients that are announced
\* before they are gone; a client that is gone earlier (fault "early") leaves
\* a reference that nobody drops.
WsReferenceEnds ==
  \A c \in Clients : session[c].ref > 0 =>
    session[c].ref = Count(session[c].active)
                     + Count(client[c].ws # "closed" \/ Queued("wsClosed", c))
                     + Count(client[c].pc \in {"open", "lost"} \/ Queued("pcClosed", c))
                     + Count(c \in held)

\* The executor, which hands the sessions' commands to the native thread, is
\* started while some native socket listens and shut down otherwise
\* (socket-plugin.c:93-100, 177-184), in any order of starts and stops.  It
\* holds without connecting sockets: their start is not counted and their
\* stop is (fault "connecting"), so that the count wraps and the next
\* listening socket does not start the executor.
ExecutorServes == executor <=> \E n \in Natives : native[n] = "listening"

\* What socket-plugin.c:161 says of a cleanup: it removes the association of
\* a native socket with the cleaned plugin socket, so that an active plugin
\* socket stays associated with its native socket and a stop finds it.  It
\* holds for native sockets that listen again only when the plugin has
\* forgotten them; without that (fault "restart") the cleanup of the former
\* plugin socket removes the association of the new one.
ActiveIsMapped ==
  \A k \in Socks : sock[k].active => map[sock[k].native] = k
=============================================================================
