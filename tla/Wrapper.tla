------------------------------ MODULE Wrapper -------------------------------
(***************************************************************************)
(* The C++ objects of src/rtc-api between libdatachannel and the plugin.   *)
(* A wrapper is taken from a pool, bound to one WebSocket, peer connection *)
(* or data channel of libdatachannel, associated with a session or channel *)
(* of the plugin (its data), and finalized and given back when the plugin  *)
(* destroys it.  RTC threads queue tasks that carry the address of a       *)
(* wrapper; the plugin thread reads the data of the wrapper when it runs   *)
(* the task.  In between the wrapper may have been destroyed, and bound    *)
(* again for somebody else.                                                *)
(*                                                                         *)
(* Sessions have one data channel here and no system channel; a channel is *)
(* named by its session.  Local candidates, failures of a peer connection, *)
(* and open and error events of data channels are left to Session.  Of     *)
(* libdatachannel it is assumed that an object reports its close once and  *)
(* nothing after it or after the return of its wrapper's finalizer.        *)
(***************************************************************************)
EXTENDS Naturals, Sequences, SequencesExt

CONSTANTS
  Sessions,         \* clients that connect, each for one session
  Ws, Pc, Dc,       \* wrappers of the three pools
  None,             \* NULL
  Faults,           \* {"memory"}: a session's timer cannot be allocated
  MaxTasks          \* bound: length of the queue when an event arrives

ASSUME WrapperAssumption ==
  /\ Ws \cap Pc = {} /\ Ws \cap Dc = {} /\ Pc \cap Dc = {}
  /\ Faults \subseteq {"memory"}
  /\ MaxTasks \in Nat

VARIABLES
  o,                \* libdatachannel's objects, the wrappers, the plugin's data
  tasks             \* the plugin thread's queue, oldest first

vars == <<o, tasks>>

Wrappers == Ws \cup Pc \cup Dc

\* The client may open its side of the channel twice: "twin" is the second.
Objects == {"ws", "pc", "out", "in", "twin"} \X Sessions

ASSUME NoneAssumption == None \notin Sessions \cup Wrappers \cup Objects

TaskOps == {"client", "wsMessage", "wsClosed", "pcClosed",
            "dataChannel", "badChannel", "message", "dcClosed"}

\* of is the session whose object caused the task, which the program does not
\* know.  dc is the second argument of a dataChannel task.
TaskRecords ==
  [op : TaskOps, w : Wrappers, of : Sessions, dc : Dc \cup {None}]

Owned ==
  [ state : [Objects -> {"none", "open", "closing", "closed"}],
    data : [Wrappers -> Sessions \cup {None}],  \* RTCObject::data
    bound : [Wrappers -> Objects \cup {None}],  \* None: it is in its pool
    reports : SUBSET TaskRecords,               \* of the current finalizers
    ref : [Sessions -> Nat],                    \* session->ref
    active : SUBSET Sessions,                   \* ACTIVE, WS_ACTIVE, PC_ACTIVE
    authenticated : SUBSET Sessions,            \* WS_AUTHENTICATED
    ws : [Sessions -> Ws \cup {None}],          \* session->ws_client
    pc : [Sessions -> Pc \cup {None}],          \* session->pc
    listed : SUBSET Sessions,                   \* the channel's table entry
    cref : [Sessions -> Nat],                   \* channel->ref
    cactive : SUBSET Sessions,                  \* ACTIVE, DC_ACTIVE
    outgoing : [Sessions -> Dc \cup {None}],
    incoming : [Sessions -> Dc \cup {None}],
    received : [Sessions -> SUBSET Sessions] ]  \* whose messages a channel got

TypeOK == o \in Owned /\ tasks \in Seq(TaskRecords)

Init ==
  /\ o = [state |-> [x \in Objects |-> "none"],
          data |-> [w \in Wrappers |-> None],
          bound |-> [w \in Wrappers |-> None], reports |-> {},
          ref |-> [i \in Sessions |-> 0], active |-> {},
          authenticated |-> {},
          ws |-> [i \in Sessions |-> None], pc |-> [i \in Sessions |-> None],
          listed |-> {}, cref |-> [i \in Sessions |-> 0], cactive |-> {},
          outgoing |-> [i \in Sessions |-> None],
          incoming |-> [i \in Sessions |-> None],
          received |-> [i \in Sessions |-> {}]]
  /\ tasks = <<>>

Free(pool) == {w \in pool : o.bound[w] = None}

Task(op, w, i, dc) == [op |-> op, w |-> w, of |-> i, dc |-> dc]

\* The task that reports the close of the object of wrapper w.
ClosedTask(t, w) ==
  LET x == t.bound[w]
  IN Task(CASE x[1] = "ws" -> "wsClosed" [] x[1] = "pc" -> "pcClosed"
            [] OTHER -> "dcClosed", w, x[2], None)
-----------------------------------------------------------------------------
(* Functions of the plugin thread, as operators on o.                      *)

\* The wrappers W have their objects close.
Close(t, W) ==
  [t EXCEPT !.state = [x \in Objects |->
     IF @[x] = "open" /\ \E w \in W : t.bound[w] = x THEN "closing" ELSE @[x]]]

\* The finalizers of the wrappers W.  An object is closed before the callbacks
\* are cleared and may report it, but not later.
Finalize(t, W) ==
  LET objects == {t.bound[w] : w \in W}
  IN [t EXCEPT
        !.reports = @ \cup {ClosedTask(t, w) : w \in
                              {v \in W : t.state[t.bound[v]] # "closed"}},
        !.state = [x \in Objects |-> IF x \in objects THEN "closed" ELSE @[x]],
        !.data = [w \in Wrappers |-> IF w \in W THEN None ELSE @[w]]]

\* rtc_data_channel_destroy and its likes: finalized and back in the pool.
Destroy(t, W) ==
  [Finalize(t, W) EXCEPT !.bound = [w \in Wrappers |-> IF w \in W THEN None ELSE @[w]]]

\* pomelo_webrtc_session_cleanup
SessionCleanup(t, i) ==
  [Destroy(t, {t.ws[i], t.pc[i]})
     EXCEPT !.ref[i] = 0, !.active = @ \ {i}, !.authenticated = @ \ {i},
            !.ws[i] = None, !.pc[i] = None, !.listed = @ \ {i}]

\* pomelo_webrtc_session_unref
SessionUnref(t, i) ==
  IF t.ref[i] = 1 THEN SessionCleanup(t, i) ELSE [t EXCEPT !.ref[i] = @ - 1]

\* pomelo_webrtc_channel_cleanup, with dc_cleanup
ChannelCleanup(t, i) ==
  SessionUnref([Destroy(t, {t.outgoing[i], t.incoming[i]} \ {None})
                  EXCEPT !.cref[i] = 0, !.cactive = @ \ {i},
                         !.outgoing[i] = None, !.incoming[i] = None], i)

\* pomelo_webrtc_channel_unref
ChannelUnref(t, i) ==
  IF t.cref[i] = 1 THEN ChannelCleanup(t, i) ELSE [t EXCEPT !.cref[i] = @ - 1]

\* pomelo_webrtc_channel_close, with dc_close
ChannelClose(t, i) ==
  IF i \notin t.cactive THEN t
  ELSE ChannelUnref(Close([t EXCEPT !.cactive = @ \ {i}],
                          {t.outgoing[i], t.incoming[i]} \ {None}), i)

\* pomelo_webrtc_session_close
SessionClose(t, i) ==
  IF i \notin t.active THEN t
  ELSE LET quiet  == [t EXCEPT !.active = @ \ {i}]
           silent == IF i \in t.listed THEN ChannelClose(quiet, i) ELSE quiet
       IN SessionUnref(Close(silent, {t.ws[i], t.pc[i]}), i)

\* The object x gets the wrapper w and calls its callbacks from now on.
Bind(t, x, w) == [t EXCEPT !.bound[w] = x, !.state[x] = "open"]

\* pomelo_webrtc_session_ws_init
WsInit(t, i, w) == [t EXCEPT !.ws[i] = w, !.data[w] = i, !.ref[i] = @ + 1]

\* RTCPeerConnection::init: the wrapper is associated at once.
CreatePc(t, i, p) == [Bind(t, <<"pc", i>>, p) EXCEPT !.data[p] = i]

\* Mutant: the peer connection takes no reference.
PcInitUnreferenced(t, i, p) == [CreatePc(t, i, p) EXCEPT !.pc[i] = p]

\* pomelo_webrtc_session_pc_init
PcInit(t, i, p) == [CreatePc(t, i, p) EXCEPT !.pc[i] = p, !.ref[i] = @ + 1]

\* pomelo_webrtc_session_init of session i for the WebSocket of wrapper w, up to
\* session_pc_init, which takes the wrapper p.
SessionInit(t, i, w, p) ==
  PcInit(WsInit([t EXCEPT !.ref[i] = 1, !.active = @ \cup {i}], i, w), i, p)

\* RTCPeerConnection::create_data_channel: the wrapper is associated at once.
CreateDataChannel(t, i, d) == [Bind(t, <<"out", i>>, d) EXCEPT !.data[d] = i]

\* pomelo_webrtc_channel_init, with dc_init: the outgoing data channel
\* references the channel, and the channel its session.
ChannelInit(t, i, d) ==
  [CreateDataChannel(t, i, d)
     EXCEPT !.authenticated = @ \cup {i}, !.ref[i] = @ + 1, !.cref[i] = 2,
            !.cactive = @ \cup {i}, !.listed = @ \cup {i}, !.outgoing[i] = d]

\* Mutant: a second incoming data channel takes the place of the first.
SetIncomingAgain(t, i, d) == [t EXCEPT !.data[d] = i, !.incoming[i] = d]

\* pomelo_webrtc_channel_dc_set_incoming_data_channel
SetIncoming(t, i, d) ==
  IF t.incoming[i] # None THEN t
  ELSE [t EXCEPT !.data[d] = i, !.incoming[i] = d]

\* pomelo_webrtc_dc_on_closed_callback for a wrapper of channel i: whichever of
\* its data channels it is, a reference is dropped.
DcClosed(t, i) == ChannelUnref([t EXCEPT !.listed = @ \ {i}], i)

\* Mutant: every data channel of a channel delivers messages.
ProcessMessageOfAny(t, i, d, sender) ==
  [t EXCEPT !.received[i] = @ \cup {sender}]

\* pomelo_webrtc_dc_on_message_callback for a wrapper d of channel i
ProcessMessage(t, i, d, sender) ==
  IF d # t.incoming[i] THEN t ELSE [t EXCEPT !.received[i] = @ \cup {sender}]
-----------------------------------------------------------------------------
(* The plugin thread.                                                      *)

Event == Head(tasks)

\* The session or channel that the handler of the current task finds.
Found == o.data[Event.w]

\* A handler ends in the state t.  What its finalizers made report their close
\* has queued a task.
Ends(t, queue) ==
  /\ o' = [t EXCEPT !.reports = {}]
  /\ \E R \in SUBSET t.reports : \E reports \in SetToSeqs(R) :
       tasks' = queue \o reports

Takes(op) == tasks # <<>> /\ Event.op = op

Handles(op, t) == Takes(op) /\ Ends(t, Tail(tasks))

Allocated == IF "memory" \in Faults THEN BOOLEAN ELSE {TRUE}

\* pomelo_webrtc_socket_wss_on_client_callback.  The socket may have stopped.
\* session_init fails after the peer connection was created, and the pool cleans
\* the session up.
OnClient ==
  \/ Handles("client", Destroy(o, {Event.w}))
  \/ \E p \in Free(Pc), scheduled \in Allocated :
       LET t == SessionInit(o, Event.of, Event.w, p)
       IN Handles("client", IF scheduled THEN t ELSE SessionCleanup(t, Event.of))

\* A message while the WebSocket part of a session is active, which
\* authenticates the session when it is not yet.  Others change nothing here.
OnWsMessage ==
  \/ /\ Takes("wsMessage") /\ Found \in o.active \ o.authenticated
     /\ \E d \in Free(Dc) : Ends(ChannelInit(o, Found, d), Tail(tasks))
  \/ /\ Takes("wsMessage") /\ Found \notin o.active \ o.authenticated
     /\ Ends(o, Tail(tasks))

OnWsClosed ==
  Handles("wsClosed",
    IF Found = None THEN o ELSE SessionUnref(SessionClose(o, Found), Found))

\* The handlers of a peer connection's events do not test what they find.  The
\* process ends when it is NULL.
HandlesFound(op, t) == Takes(op) /\ Found # None /\ Ends(t, Tail(tasks))

OnPcClosed ==
  HandlesFound("pcClosed", SessionUnref(SessionClose(o, Found), Found))

\* An invalid label closes the session.
OnBadChannel == HandlesFound("badChannel", SessionClose(o, Found))

OnDataChannel ==
  HandlesFound("dataChannel",
       IF Found \in o.listed THEN SetIncoming(o, Found, Event.dc) ELSE o)

OnMessage ==
  Handles("message",
    IF Found = None THEN o ELSE ProcessMessage(o, Found, Event.w, Event.of))

OnDcClosed ==
  Handles("dcClosed", IF Found = None THEN o ELSE DcClosed(o, Found))

\* A timeout, a disconnect or a stop closes a session.
Expires(i) ==
  /\ i \in o.active
  /\ Ends(SessionClose(o, i), tasks)

PluginThread ==
  \/ OnClient \/ OnWsMessage \/ OnWsClosed
  \/ OnPcClosed \/ OnBadChannel \/ OnDataChannel
  \/ OnMessage \/ OnDcClosed
  \/ \E i \in Sessions : Expires(i)
-----------------------------------------------------------------------------
(* The RTC threads.                                                        *)

\* An event of the object of wrapper w, in state t of o.
Queues(t, task) ==
  /\ Len(tasks) < MaxTasks
  /\ o' = t
  /\ tasks' = Append(tasks, task)

\* Mutant: the client's session is associated when the client is accepted.
AcceptAssociates(i, w) ==
  /\ o.state[<<"ws", i>>] = "none"
  /\ Queues([Bind(o, <<"ws", i>>, w) EXCEPT !.data[w] = i],
            Task("client", w, i, None))

\* RTCWSServer::on_client
Accept(i, w) ==
  /\ o.state[<<"ws", i>>] = "none"
  /\ Queues(Bind(o, <<"ws", i>>, w), Task("client", w, i, None))

\* w is the wrapper of an open object of kind k that nobody has told to close.
Open(w, k) ==
  /\ o.bound[w] # None
  /\ o.bound[w][1] = k
  /\ o.state[o.bound[w]] = "open"

\* Of a client that is authenticated, further messages change nothing.
WsMessage(w) ==
  /\ Open(w, "ws")
  /\ o.bound[w][2] \notin o.authenticated
  /\ Queues(o, Task("wsMessage", w, o.bound[w][2], None))

\* How the label of a data channel of the client of session i is parsed.  Bound:
\* the second one has a valid label, and the first is open.
Announced(i, k) ==
  CASE k = "in" -> {"dataChannel", "badChannel"}
    [] k = "twin" /\ o.state[<<"in", i>>] = "open" -> {"dataChannel"}
    [] OTHER -> {}

\* Mutant: the wrapper of an incoming data channel inherits the data of its
\* peer connection.
PcDataChannelAssociated(w, k, d) ==
  /\ Open(w, "pc")
  /\ LET i == o.bound[w][2]
     IN /\ i \in o.authenticated
        /\ o.state[<<k, i>>] = "none"
        /\ \E op \in Announced(i, k) :
             Queues([Bind(o, <<k, i>>, d) EXCEPT !.data[d] = i], Task(op, w, i, d))

\* RTCPeerConnection::on_data_channel takes a wrapper d for the data channel of
\* the client and has its label parsed.
PcDataChannel(w, k, d) ==
  /\ Open(w, "pc")
  /\ LET i == o.bound[w][2]
     IN /\ i \in o.authenticated
        /\ o.state[<<k, i>>] = "none"
        /\ \E op \in Announced(i, k) :
             Queues(Bind(o, <<k, i>>, d), Task(op, w, i, d))

DcMessage(w) ==
  /\ Open(w, "in") \/ Open(w, "twin")
  /\ Queues(o, Task("message", w, o.bound[w][2], None))

\* An object reports its close: a peer connection when it was told to close,
\* the others also by themselves.
Closes(w) ==
  /\ o.bound[w] # None
  /\ o.state[o.bound[w]] \in {"open", "closing"}
  /\ ~Open(w, "pc")
  /\ Queues([o EXCEPT !.state[o.bound[w]] = "closed"], ClosedTask(o, w))

RtcThreads ==
  \/ \E i \in Sessions, w \in Free(Ws) : Accept(i, w)
  \/ \E w \in Ws : WsMessage(w)
  \/ \E w \in Pc, k \in {"in", "twin"}, d \in Free(Dc) : PcDataChannel(w, k, d)
  \/ \E w \in Dc : DcMessage(w)
  \/ \E w \in Wrappers : Closes(w)

Next == PluginThread \/ RtcThreads

Spec == Init /\ [][Next]_vars
-----------------------------------------------------------------------------
(* Properties.                                                             *)

\* What a handler takes from a wrapper is alive (rtc-object.cpp:20): a wrapper
\* whose data names a session or channel is one that the session or channel
\* destroys before it goes back to the pool, also when the client opens its
\* side of a channel twice, or closes it first (channel-dc.c:262, 305).
DataIsLive ==
  \A w \in Wrappers : LET i == o.data[w] IN i # None =>
    IF w \in Dc THEN o.cref[i] > 0 /\ w \in {o.outgoing[i], o.incoming[i]}
                ELSE o.ref[i] > 0 /\ w \in {o.ws[i], o.pc[i]}

\* A message or close of a WebSocket that is queued when its wrapper is
\* destroyed does not find the session of the wrapper's next WebSocket: that
\* session is associated by a task (session-ws.c:167) that is queued later.
WsFindsOwn ==
  \A k \in DOMAIN tasks :
    tasks[k].op \in {"wsMessage", "wsClosed"} =>
      o.data[tasks[k].w] \in {tasks[k].of, None}

\* An event of a peer connection finds its own session, and always finds one:
\* the handlers do not test for NULL (session-pc.c:38, 100, 158), and the next
\* session that takes the wrapper is associated at once.  All that holds them
\* together is the reference that the close of the peer connection drops.
PcFindsOwn ==
  \A k \in DOMAIN tasks :
    tasks[k].op \in {"pcClosed", "dataChannel", "badChannel"} =>
      o.data[tasks[k].w] = tasks[k].of

\* A data message is delivered to the channel it was sent on or to none
\* (channel-dc.c:166), though its wrapper may serve another channel by the time
\* it is handled.
MessagesReachOwn == \A i \in Sessions : o.received[i] \subseteq {i}

\* The close of a data channel finds another session's channel in one case
\* only, that its wrapper has become the outgoing data channel of that channel,
\* which is associated at once (rtc-peer-connection.cpp:186).  A wrapper that
\* has become an incoming one is associated by a later task.
StrayClosesAreOutgoing ==
  \A k \in DOMAIN tasks :
    tasks[k].op = "dcClosed" =>
      LET i == o.data[tasks[k].w]
      IN i \in {None, tasks[k].of} \/ o.outgoing[i] = tasks[k].w
=============================================================================
