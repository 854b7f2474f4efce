------------------------------ MODULE Session -------------------------------
(***************************************************************************)
(* One WebRTC session of the plugin: the session object with its WebSocket,*)
(* peer connection and plugin parts (src/session), the channels it owns    *)
(* (src/channel), the tasks that the RTC threads and the native thread     *)
(* submit to the plugin thread, and the commands that the plugin thread    *)
(* submits to the native thread.                                           *)
(*                                                                         *)
(* The plugin thread runs one task at a time, so a handler is one step: an *)
(* operator that maps the record of everything the plugin thread owns to   *)
(* its next value, composed of the operators of the functions it calls.    *)
(* Between two handlers anything may be submitted: the tasks variable is   *)
(* the FIFO of module TaskQueue, whose callbacks run once and in order.    *)
(*                                                                         *)
(* libdatachannel, the native library and libuv are external.  What the    *)
(* code relies on, and the model assumes, of them: a WebSocket, a peer     *)
(* connection and a data channel report closed at most once and nothing    *)
(* after it; a data channel opens at most once; a destroyed data channel   *)
(* has no associated data; the executor runs commands in order.            *)
(***************************************************************************)
EXTENDS Naturals, Sequences, FiniteSets

CONSTANTS
  N,                \* number of data channels of the socket
  Faults,           \* which failures and peer behaviours may happen
  Messages,         \* WebSocket messages the client may send
  MaxTasks,         \* bound: length of the task queue
  MaxReceives,      \* bound: data messages on their way to the native thread
  MaxShortages      \* bound: allocations that fail

FaultKinds ==
  { "executor",     \* the executor stops taking commands
    "native",       \* the native library refuses to create a session
    "pcFailed",     \* the peer connection fails or disconnects
    "badLabel",     \* the client opens a channel with an invalid label
    "dcError",      \* a data channel reports an error
    "dcClosed",     \* the client closes single data channels
    "rtt",          \* the application reads the round trip time
    "untold",       \* the application calls about a native session that the
                    \* plugin thread has not been told of
    "chatter" }     \* events that no handler acts on: local candidates are
                    \* reported, system messages arrive, modes are set

\* A candidate is handed to libdatachannel, and what is unknown ignored: neither
\* changes anything of the session, and both are left out.
MessageKinds ==
  { "auth",         \* valid connect token with a negotiation timeout
    "authForever",  \* valid connect token without one (timeout <= 0)
    "authBad",      \* invalid connect token
    "description", "ready" }

ASSUME SessionAssumption ==
  /\ N \in Nat
  /\ Faults \subseteq FaultKinds
  /\ Messages \subseteq MessageKinds
  /\ MaxTasks \in Nat
  /\ MaxReceives \in Nat
  /\ MaxShortages \in Nat

Data == 0 .. N - 1          \* channels in session->channels
Sys == N                    \* session->system_channel
Chan == 0 .. N

VARIABLES
  s,                \* what the plugin thread owns, and the executor's queue
  tasks,            \* tasks submitted to the plugin thread, oldest first
  env,              \* libdatachannel, the native library, the socket
  shortages         \* allocations that have failed, those of tasks included

vars == <<s, tasks, env, shortages>>

SessionFlags ==
  { "ACTIVE", "WS_ACTIVE", "WS_AUTHENTICATED", "PC_ACTIVE",
    "READY_SIGNAL_RECEIVED", "ALL_CHANNELS_OPENED" }

ChannelFlags == {"ACTIVE", "DC_ACTIVE", "DC_RECEIVE"}

\* The answer to an auth message leaves no state; module Signalling has it.
SentKinds == {"DESCRIPTION", "READY", "CONNECTED"}

\* How a handler can end the process: a failed assertion or a use of NULL.
FaultNames == {"none", "nullChannel", "releasedChannel", "releasedSession",
               "nullSession", "deadNative", "nullRtt", "nativeSet"}

CommandOps == {"create", "destroy", "receive"}

Commands == [op : CommandOps, c : Chan, handle : BOOLEAN]

SessionState ==
  [ ref : Nat,                  \* session->ref; 0 when back in the pool
    flags : SUBSET SessionFlags,
    table : SUBSET Data,        \* non-NULL entries of session->channels
    system : BOOLEAN,           \* session->system_channel # NULL
    opened : Nat,               \* session->opened_channels
    timeout : {"none", "auth", "negotiate"},    \* session->task_timeout
    ping : BOOLEAN,             \* session->ping_task # NULL
    pinging : BOOLEAN,          \* a repeating ping timer is running
    native : BOOLEAN,           \* session->native_session # NULL
    private : BOOLEAN,          \* session_set_private was called
    pcClose : BOOLEAN,          \* rtc_peer_connection_close was called
    answered : BOOLEAN,         \* set_remote_description was called
    cref : [Chan -> Nat],       \* channel->ref; 0 when back in the pool
    cflags : [Chan -> SUBSET ChannelFlags],
    incoming : SUBSET Data,     \* channels whose incoming_dc is set
    sent : SUBSET SentKinds,    \* what was sent to the client over WS
    exec : Seq(Commands),       \* commands waiting for the native thread
    executor : BOOLEAN,         \* executor_submit succeeds
    fault : FaultNames ]

TaskOps ==
  MessageKinds \cup
  { "wsClosed", "pcDown", "pcClosed", "localCandidate", "badChannel",
    "dataChannel", "dcOpen", "outClosed", "inClosed", "dcError", "message",
    "systemMessage", "created", "createFailed", "receiveDone", "disconnect",
    "send", "setMode", "stop" }

TaskRecords == [op : TaskOps, c : Chan]

\* "lost": it has closed, or the native session could not be created, and the
\* task that says so was refused; "orphan": it was, and that task was refused.
EnvState ==
  [ ws : {"open", "closed", "lost"},
    pc : {"open", "down", "closed", "lost"},
    out : [Chan -> {"idle", "open", "closed"}],
    in : [Data -> {"none", "open", "closed"}],
    native : {"none", "alive", "failed", "dead", "orphan", "lost"},
    socket : {"open", "stopped"} ]

TypeOK ==
  /\ s \in SessionState
  /\ tasks \in Seq(TaskRecords)
  /\ env \in EnvState
  /\ shortages \in 0 .. MaxShortages

Count(b) == IF b THEN 1 ELSE 0

\* A task about channel c; the tasks that are not about one carry the first.
OnChannel(op, c) == [op |-> op, c |-> c]
Plain(op) == [op |-> op, c |-> 0]

\* pomelo_webrtc_session_init has succeeded: the session is referenced by
\* itself, by the WebSocket and by the peer connection, and its
\* authentication timer runs.
Init ==
  /\ s = [ref |-> 3, flags |-> {"ACTIVE", "WS_ACTIVE", "PC_ACTIVE"},
          table |-> {}, system |-> FALSE, opened |-> 0, timeout |-> "auth",
          ping |-> FALSE, pinging |-> FALSE, native |-> FALSE,
          private |-> FALSE, pcClose |-> FALSE, answered |-> FALSE,
          cref |-> [c \in Chan |-> 0], cflags |-> [c \in Chan |-> {}],
          incoming |-> {}, sent |-> {}, exec |-> <<>>, executor |-> TRUE,
          fault |-> "none"]
  /\ tasks = <<>>
  /\ env = [ws |-> "open", pc |-> "open", out |-> [c \in Chan |-> "idle"],
            in |-> [c \in Data |-> "none"], native |-> "none",
            socket |-> "open"]
  /\ shortages = 0

Live(t) == t.ref > 0
Active(t) == "ACTIVE" \in t.flags
ChannelLive(t, c) == t.cref[c] > 0
-----------------------------------------------------------------------------
(* Functions of the plugin thread, as operators on its state t.            *)

Fail(t, name) == [t EXCEPT !.fault = name]

\* executor_submit: a command is queued, or refused and forgotten.
ExecutorSubmit(t, command) ==
  IF t.executor THEN [t EXCEPT !.exec = Append(@, command)] ELSE t

\* Mutant: the native session is not forgotten, and destroyed again.
DestroyNativeSessionAgain(t) ==
  IF t.native THEN ExecutorSubmit(t, [op |-> "destroy", c |-> 0, handle |-> TRUE])
              ELSE t

\* pomelo_webrtc_session_plugin_destroy_native_session
DestroyNativeSession(t) ==
  IF t.native
    THEN [ExecutorSubmit(t, [op |-> "destroy", c |-> 0, handle |-> TRUE])
            EXCEPT !.native = FALSE]
    ELSE t

\* Mutant: cleanup leaves the native session to session_close.
SessionCleanupOnly(t) ==
  [t EXCEPT !.ref = 0, !.flags = {}, !.table = {}, !.system = FALSE,
            !.opened = 0, !.timeout = "none", !.ping = FALSE,
            !.native = FALSE, !.pcClose = TRUE]

\* pomelo_webrtc_session_cleanup, after the last reference is gone.  The
\* WebSocket and the peer connection are destroyed.  ping_task is cleared
\* without unscheduling it.
SessionCleanup(t) ==
  [DestroyNativeSession(t)
     EXCEPT !.ref = 0, !.flags = {}, !.table = {}, !.system = FALSE,
            !.opened = 0, !.timeout = "none", !.ping = FALSE,
            !.pcClose = TRUE]

\* pomelo_webrtc_session_unref, n times.
SessionUnref(t, n) ==
  IF n = 0 THEN t
  ELSE IF t.ref > n THEN [t EXCEPT !.ref = @ - n]
  ELSE SessionCleanup(t)

\* pomelo_webrtc_channel_cleanup for the channels C: both data channels are
\* destroyed and the session is unreferenced.
ChannelCleanup(t, C) ==
  SessionUnref(
    [t EXCEPT !.cref = [c \in Chan |-> IF c \in C THEN 0 ELSE @[c]],
              !.cflags = [c \in Chan |-> IF c \in C THEN {} ELSE @[c]],
              !.incoming = @ \ C],
    Cardinality(C))

\* pomelo_webrtc_channel_unref, once for each channel in C.
ChannelUnref(t, C) ==
  ChannelCleanup(
    [t EXCEPT !.cref = [c \in Chan |-> IF c \in C THEN @[c] - 1 ELSE @[c]]],
    {c \in C : t.cref[c] = 1})

\* Mutant: an inactive channel is closed and unreferenced again.
ChannelCloseAgain(t, C) ==
  ChannelUnref([t EXCEPT !.cflags = [c \in Chan |->
                  IF c \in C THEN @[c] \ {"ACTIVE", "DC_ACTIVE"} ELSE @[c]]], C)

\* Mutant: the data channel part stays active.
ChannelCloseKeepsDc(t, C) ==
  LET closing == {c \in C : "ACTIVE" \in t.cflags[c]}
  IN ChannelUnref(
       [t EXCEPT !.cflags = [c \in Chan |->
          IF c \in closing THEN @[c] \ {"ACTIVE"} ELSE @[c]]],
       closing)

\* pomelo_webrtc_channel_close of the channels C, with dc_close: an inactive
\* channel, a released one too, is left alone.
ChannelClose(t, C) ==
  LET closing == {c \in C : "ACTIVE" \in t.cflags[c]}
  IN ChannelUnref(
       [t EXCEPT !.cflags = [c \in Chan |->
          IF c \in closing THEN @[c] \ {"ACTIVE", "DC_ACTIVE"} ELSE @[c]]],
       closing)

\* pomelo_webrtc_session_stop_ping
StopPing(t) ==
  IF t.ping THEN [t EXCEPT !.ping = FALSE, !.pinging = FALSE] ELSE t

\* What session_close finds: the non-NULL entries and the system channel.
OwnedChannels(t) == t.table \cup (IF t.system THEN {Sys} ELSE {})

\* pomelo_webrtc_session_close
SessionClose(t) ==
  IF ~Active(t) THEN t
  ELSE LET quiet  == StopPing([t EXCEPT !.flags = @ \ {"ACTIVE"}])
           closed == ChannelClose(quiet, OwnedChannels(t))
           cut    == [closed EXCEPT !.flags = @ \ {"WS_ACTIVE", "PC_ACTIVE"},
                                    !.pcClose = TRUE]
       IN SessionUnref(DestroyNativeSession(cut), 1)

\* rtc_websocket_client_send_binary while the WebSocket part is active.
Send(t, m) ==
  IF "WS_ACTIVE" \in t.flags THEN [t EXCEPT !.sent = @ \cup {m}] ELSE t

\* Mutant: a refused command keeps its reference.
PluginOpenKeepsRef(t) ==
  IF t.native THEN Fail(t, "nativeSet")
  ELSE ExecutorSubmit([t EXCEPT !.ref = @ + 1],
                      [op |-> "create", c |-> 0, handle |-> FALSE])

\* pomelo_webrtc_session_plugin_open: the session is referenced until the
\* native thread has answered; a refused command drops the reference again.
PluginOpen(t) ==
  IF t.native THEN Fail(t, "nativeSet")
  ELSE IF t.executor
    THEN ExecutorSubmit([t EXCEPT !.ref = @ + 1],
                        [op |-> "create", c |-> 0, handle |-> FALSE])
    ELSE t

\* Mutant: the client is told before the native session exists.
OnReadyTells(t) == PluginOpen(Send([t EXCEPT !.timeout = "none"], "CONNECTED"))

\* pomelo_webrtc_session_on_ready
OnReady(t) == PluginOpen([t EXCEPT !.timeout = "none"])

\* pomelo_webrtc_session_is_connected
IsConnected(t) ==
  {"READY_SIGNAL_RECEIVED", "ALL_CHANNELS_OPENED"} \subseteq t.flags

ReadyIfConnected(t) == IF IsConnected(t) THEN OnReady(t) ELSE t

\* pomelo_webrtc_session_recv_ready
RecvReady(t) ==
  IF "READY_SIGNAL_RECEIVED" \in t.flags THEN t
  ELSE ReadyIfConnected([t EXCEPT !.flags = @ \cup {"READY_SIGNAL_RECEIVED"}])

\* Mutant: the negotiation timeout ends when the channels are open.
OnAllChannelsOpenedUntimed(t, scheduled) ==
  ReadyIfConnected(
    [Send(t, "READY")
       EXCEPT !.ping = scheduled, !.pinging = @ \/ scheduled, !.timeout = "none",
              !.flags = @ \cup {"ALL_CHANNELS_OPENED"}])

\* pomelo_webrtc_session_on_all_channels_opened, with start_ping; the timer
\* cannot always be scheduled.
OnAllChannelsOpened(t, scheduled) ==
  ReadyIfConnected(
    [Send(t, "READY")
       EXCEPT !.ping = scheduled, !.pinging = @ \/ scheduled,
              !.flags = @ \cup {"ALL_CHANNELS_OPENED"}])

\* pomelo_webrtc_session_on_channel_opened
OnChannelOpened(t, scheduled) ==
  LET counted == [t EXCEPT !.opened = @ + 1]
  IN IF counted.opened = N + 1 THEN OnAllChannelsOpened(counted, scheduled)
     ELSE counted

\* pomelo_webrtc_channel_dc_init: the outgoing data channel takes a reference.
ChannelDcInit(ch) == [ref |-> ch.ref + 1, flags |-> ch.flags \cup {"DC_ACTIVE"}]

\* pomelo_webrtc_channel_init
ChannelInit == ChannelDcInit([ref |-> 1, flags |-> {"ACTIVE"}])

\* pomelo_webrtc_session_create_channels: the first k of the N + 1 channels are
\* created, each of which references the session.
CreateChannels(t, k) ==
  [t EXCEPT !.cref = [c \in Chan |-> IF c < k THEN ChannelInit.ref ELSE 0],
            !.cflags = [c \in Chan |-> IF c < k THEN ChannelInit.flags ELSE {}],
            !.table = {c \in Data : c < k},
            !.system = (k = N + 1),
            !.ref = @ + k]

\* pomelo_webrtc_session_ws_auth_result and on_auth_result for a valid token:
\* k channels can be created, the timer can be scheduled or not, and the
\* description finds a buffer or not.
AuthAccepted(t, timed, k, scheduled, buffered) ==
  LET authenticated ==
        [t EXCEPT !.flags = @ \cup {"WS_AUTHENTICATED"}, !.timeout = "none"]
      created == CreateChannels(authenticated, k)
  IN IF k < N + 1 \/ (timed /\ ~scheduled) THEN SessionClose(created)
     ELSE [created EXCEPT !.timeout = IF timed THEN "negotiate" ELSE "none",
                          !.sent = IF buffered THEN @ \cup {"DESCRIPTION"} ELSE @]

\* The same for an invalid token.
AuthRefused(t) == SessionClose([t EXCEPT !.timeout = "none"])

\* pomelo_webrtc_session_on_connected: receiving is enabled on every entry of
\* the channels array, then on the system channel, which may have been released;
\* a NULL entry fails the assertion of channel_enable_receiving.
OnConnected(t) ==
  IF t.table # Data \/ ~t.system THEN Fail(t, "nullChannel")
  ELSE IF ~ChannelLive(t, Sys) THEN Fail(t, "releasedChannel")
  ELSE Send([t EXCEPT !.cflags = [c \in Chan |->
                        IF ChannelLive(t, c) THEN @[c] \cup {"DC_RECEIVE"}
                                             ELSE @[c]]],
            "CONNECTED")

\* pomelo_webrtc_plugin_session_create_callback with a native session.
OnCreated(t) ==
  SessionUnref(OnConnected([t EXCEPT !.native = TRUE, !.private = TRUE]), 1)

\* pomelo_webrtc_channel_receive: a command with the native session of the
\* moment; the channel is referenced until the command is complete.
ChannelReceive(t, c) ==
  IF t.executor
    THEN ExecutorSubmit([t EXCEPT !.cref[c] = @ + 1],
                        [op |-> "receive", c |-> c, handle |-> t.native])
    ELSE t

\* pomelo_webrtc_dc_on_message_callback and dc_process_message for a message
\* on the incoming data channel of c.
ProcessMessage(t, c) ==
  IF /\ ChannelLive(t, c)
     /\ c \in t.incoming
     /\ {"DC_ACTIVE", "DC_RECEIVE"} \subseteq t.cflags[c]
    THEN ChannelReceive(t, c)
    ELSE t

\* Mutant: the entry of the closed channel stays.
DcClosedKeepsEntry(t, c) == ChannelUnref(t, {c})

\* pomelo_webrtc_dc_on_closed_callback, for either data channel of c.
DcClosed(t, c) ==
  ChannelUnref([t EXCEPT !.table = @ \ {c}], {c})

\* pomelo_webrtc_session_ping_callback and send_ping.
SendPing(t) ==
  IF ~t.system THEN Fail(t, "releasedSession")
  ELSE IF ~ChannelLive(t, Sys) THEN Fail(t, "releasedChannel")
  ELSE t
-----------------------------------------------------------------------------
(* Tasks: one action per callback run by the plugin thread.                *)

Running == s.fault = "none"

\* The plugin thread pops a task op.
Takes(op) ==
  /\ Running
  /\ tasks # <<>>
  /\ Head(tasks).op = op
  /\ tasks' = Tail(tasks)
  /\ UNCHANGED env

\* Memory is short for n allocations.
Lacks(n) ==
  /\ shortages + n <= MaxShortages
  /\ shortages' = shortages + n

\* ws_on_message_callback and ws_process_message: only an active WebSocket
\* part looks at a message, and authentication decides which ones it knows.
Understands(t, authenticated) ==
  /\ "WS_ACTIVE" \in t.flags
  /\ ("WS_AUTHENTICATED" \in t.flags) = authenticated

OnAuth ==
  \E op \in {"auth", "authForever"}, k \in 0 .. N + 1, scheduled, buffered \in BOOLEAN :
    /\ Takes(op)
    /\ Lacks(Count(k <= N) + Count(~scheduled) + Count(~buffered))
    /\ s' = IF Understands(s, FALSE)
              THEN AuthAccepted(s, op = "auth", k, scheduled, buffered)
              ELSE s

OnAuthBad ==
  /\ Takes("authBad")
  /\ s' = IF Understands(s, FALSE) THEN AuthRefused(s) ELSE s

OnDescription ==
  /\ Takes("description")
  /\ s' = IF Understands(s, TRUE) THEN [s EXCEPT !.answered = TRUE] ELSE s

OnReadyMessage ==
  /\ Takes("ready")
  /\ s' = IF Understands(s, TRUE) THEN RecvReady(s) ELSE s

\* Mutant: the peer connection's reference is dropped with the WebSocket's.
OnWsClosedTwice ==
  /\ Takes("wsClosed")
  /\ s' = IF Live(s) THEN SessionUnref(SessionClose(s), 2) ELSE s

\* Not a mapped session once the WebSocket has been destroyed.
OnWsClosed ==
  /\ Takes("wsClosed")
  /\ s' = IF Live(s) THEN SessionUnref(SessionClose(s), 1) ELSE s

\* A destroyed peer connection has no session: the callbacks dereference it.
OfSession(next) == s' = IF Live(s) THEN next ELSE Fail(s, "nullSession")

OnPcDown ==
  /\ Takes("pcDown")
  /\ OfSession([s EXCEPT !.pcClose = TRUE])

OnPcClosed ==
  /\ Takes("pcClosed")
  /\ OfSession(SessionUnref(SessionClose(s), 1))

OnLocalCandidate ==
  /\ Takes("localCandidate")
  /\ OfSession(s)

OnBadChannel ==
  /\ Takes("badChannel")
  /\ OfSession(SessionClose(s))

OnDataChannel(c) ==
  /\ Takes("dataChannel")
  /\ Head(tasks).c = c
  /\ OfSession(IF c \notin s.table \/ c \in s.incoming THEN s
               ELSE [s EXCEPT !.incoming = @ \cup {c}])

\* A destroyed data channel has no associated channel.
OfChannel(op, c, next) ==
  /\ Takes(op)
  /\ Head(tasks).c = c
  /\ s' = IF ChannelLive(s, c) THEN next ELSE s

OnDcOpen(c) ==
  \E scheduled \in BOOLEAN :
    /\ OfChannel("dcOpen", c, OnChannelOpened(s, scheduled))
    /\ Lacks(Count(~scheduled))

OnOutClosed(c) == OfChannel("outClosed", c, DcClosed(s, c))

OnInClosed(c) ==
  OfChannel("inClosed", c, IF c \in s.incoming THEN DcClosed(s, c) ELSE s)

OnDcError(c) == OfChannel("dcError", c, ChannelClose(s, {c}))

OnMessage(c) == OfChannel("message", c, ProcessMessage(s, c))

\* The system channel has no incoming data channel: the message is dropped.
OnSystemMessage == OfChannel("systemMessage", Sys, s)

OnNativeCreated ==
  /\ Takes("created")
  /\ s' = IF Live(s) THEN OnCreated(s) ELSE Fail(s, "releasedSession")

\* Mutant: the early return of on_created skips the unref.
OnNativeRefusedKeepsRef ==
  /\ Takes("createFailed")
  /\ s' = IF Live(s) THEN SessionClose(s) ELSE Fail(s, "releasedSession")

\* The same for a native session that could not be created.
OnNativeRefused ==
  /\ Takes("createFailed")
  /\ s' = IF Live(s) THEN SessionUnref(SessionClose(s), 1)
                     ELSE Fail(s, "releasedSession")

\* pomelo_webrtc_channel_receive_complete
OnReceiveDone(c) ==
  /\ Takes("receiveDone")
  /\ Head(tasks).c = c
  /\ s' = IF ChannelLive(s, c) THEN ChannelUnref(s, {c})
                               ELSE Fail(s, "releasedChannel")

\* The private data of the native session is NULL until on_created, and may not
\* be there any more once the native session is destroyed.
OfNative(op, next) ==
  /\ Takes(op)
  /\ s' \in IF ~s.private THEN {Fail(s, "nullSession")}
            ELSE IF env.native = "dead" THEN {next, Fail(s, "deadNative")}
            ELSE {next}

OnDisconnect == OfNative("disconnect", SessionClose(s))

\* A message to the client goes out on the channel the array names.
OnSend(c) ==
  /\ OfNative("send",
       IF c \in s.table /\ ~ChannelLive(s, c) THEN Fail(s, "releasedChannel")
                                              ELSE s)
  /\ Head(tasks).c = c

\* channel_set_mode does nothing yet.
OnSetMode == OfNative("setMode", s)

\* socket_on_stopped_callback: pomelo_webrtc_socket_close closes its sessions.
OnStop ==
  /\ Takes("stop")
  /\ s' = SessionClose(s)

\* pomelo_webrtc_session_on_timeout
TimeoutFires ==
  /\ Running
  /\ s.timeout # "none"
  /\ s' = SessionClose([s EXCEPT !.timeout = "none"])
  /\ UNCHANGED <<tasks, env, shortages>>

\* The repeating ping timer fires.
PingFires ==
  /\ Running
  /\ s.pinging
  /\ s' = SendPing(s)
  /\ UNCHANGED <<tasks, env, shortages>>

\* The tasks that allocate nothing.
Unshort ==
  \/ OnAuthBad
  \/ OnDescription
  \/ OnReadyMessage
  \/ OnWsClosed
  \/ OnPcDown
  \/ OnPcClosed
  \/ OnLocalCandidate
  \/ OnBadChannel
  \/ OnSystemMessage
  \/ OnNativeCreated
  \/ OnNativeRefused
  \/ OnDisconnect
  \/ OnSetMode
  \/ OnStop
  \/ \E c \in Chan : OnOutClosed(c) \/ OnDcError(c)
  \/ \E c \in Data : \/ OnDataChannel(c) \/ OnInClosed(c) \/ OnMessage(c)
                     \/ OnReceiveDone(c) \/ OnSend(c)

RunTask ==
  \/ OnAuth
  \/ \E c \in Chan : OnDcOpen(c)
  \/ Unshort /\ UNCHANGED shortages
-----------------------------------------------------------------------------
(* The native thread runs the executor's commands (session-plugin.c and    *)
(* channel-plugin.c) and calls the plugin.                                 *)

Room == Len(tasks) < MaxTasks

Submits(t) ==
  /\ tasks' = Append(tasks, t)
  /\ UNCHANGED shortages

\* submit_task has no memory for the task, and no caller looks at its result: e
\* is what the submission leaves behind.  Where that is nothing, the step stutters
\* and is left out.
Refused(e) ==
  /\ Lacks(1)
  /\ env' = e
  /\ UNCHANGED tasks

Command(op) ==
  /\ Running
  /\ s.exec # <<>>
  /\ Head(s.exec).op = op
  /\ s' = [s EXCEPT !.exec = Tail(@)]

\* pomelo_webrtc_plugin_session_create
NativeCreate ==
  /\ Room
  /\ Command("create")
  /\ \/ /\ env' = [env EXCEPT !.native = "alive"]
        /\ Submits(Plain("created"))
     \/ Refused([env EXCEPT !.native = "orphan"])
     \/ /\ "native" \in Faults
        /\ \/ /\ env' = [env EXCEPT !.native = "failed"]
              /\ Submits(Plain("createFailed"))
           \/ Refused([env EXCEPT !.native = "lost"])

\* pomelo_webrtc_plugin_session_destroy
NativeDestroy ==
  /\ Command("destroy")
  /\ env' = [env EXCEPT !.native = "dead"]
  /\ UNCHANGED <<tasks, shortages>>

\* pomelo_webrtc_plugin_session_receive
NativeReceive ==
  /\ Room
  /\ Command("receive")
  /\ \/ /\ Submits(OnChannel("receiveDone", Head(s.exec).c))
        /\ UNCHANGED env
     \/ Refused(env)

NativeThread == NativeCreate \/ NativeDestroy \/ NativeReceive

\* The native session that the application may call about.  It is handed one
\* that the plugin thread will be told of; it may already call from inside
\* session_create (session-plugin.c:35), before the answer is submitted, or
\* about one whose answer was refused.
Callable ==
  \/ env.native = "alive"
  \/ /\ "untold" \in Faults
     /\ \/ env.native = "orphan"
        \/ s.exec # <<>> /\ Head(s.exec).op = "create"

\* The application disconnects the client, or sends it a message.
NativeDisconnect ==
  /\ Running /\ Room
  /\ Callable
  /\ Submits(Plain("disconnect"))
  /\ UNCHANGED <<s, env>>

NativeSend(c) ==
  /\ Running /\ Room
  /\ Callable
  /\ Submits(OnChannel("send", c))
  /\ UNCHANGED <<s, env>>

NativeSetMode ==
  /\ "chatter" \in Faults
  /\ Running /\ Room
  /\ Callable
  /\ Submits(Plain("setMode"))
  /\ UNCHANGED <<s, env>>

\* pomelo_webrtc_plugin_session_get_rtt, on the native thread itself: the
\* private data may not be set yet.
NativeGetRtt ==
  /\ "rtt" \in Faults
  /\ Running
  /\ Callable
  /\ s' = IF s.private THEN s ELSE Fail(s, "nullRtt")
  /\ UNCHANGED <<tasks, env, shortages>>

\* pomelo_webrtc_socket_plugin_on_stopped: the executor may be shut down
\* before the plugin thread hears of it.
SocketStop ==
  /\ Running /\ Room
  /\ env.socket = "open"
  /\ LET stopped == [env EXCEPT !.socket = "stopped"]
     IN \/ Submits(Plain("stop")) /\ env' = stopped
        \/ Refused(stopped)
  /\ s' = [s EXCEPT !.executor = @ /\ "executor" \notin Faults]
-----------------------------------------------------------------------------
(* libdatachannel: its threads' callbacks only submit tasks.               *)

Event(t) == Running /\ Room /\ Submits(t) /\ UNCHANGED s

\* An event whose task t is submitted or refused: what it leaves behind, heard
\* or unheard by the plugin thread.
Report(t, heard, unheard) ==
  \/ Event(t) /\ env' = heard
  \/ Running /\ Room /\ Refused(unheard) /\ UNCHANGED s

WsMessage(m) ==
  /\ Live(s) /\ env.ws = "open"
  /\ Event(Plain(m))
  /\ UNCHANGED env

WsClose ==
  /\ Live(s) /\ env.ws = "open"
  /\ Report(Plain("wsClosed"), [env EXCEPT !.ws = "closed"],
            [env EXCEPT !.ws = "lost"])

PcCandidate ==
  /\ "chatter" \in Faults
  /\ "DESCRIPTION" \in s.sent
  /\ env.pc \in {"open", "down"}
  /\ Event(Plain("localCandidate"))
  /\ UNCHANGED env

PcDown ==
  /\ "pcFailed" \in Faults
  /\ env.pc = "open"
  /\ LET down == [env EXCEPT !.pc = "down"]
     IN Report(Plain("pcDown"), down, down)

\* The last event of a peer connection that was told to close or went down.
PcClose ==
  /\ env.pc \in {"open", "down"}
  /\ s.pcClose \/ env.pc = "down"
  /\ Report(Plain("pcClosed"), [env EXCEPT !.pc = "closed"],
            [env EXCEPT !.pc = "lost"])

\* The client opens its side of a channel, or one that it may not open.
PcDataChannel(c) ==
  /\ s.answered /\ env.pc = "open"
  /\ env.in[c] = "none"
  /\ LET opened == [env EXCEPT !.in[c] = "open"]
     IN Report(OnChannel("dataChannel", c), opened, opened)

PcBadChannel ==
  /\ "badLabel" \in Faults
  /\ s.answered /\ env.pc = "open"
  /\ Event(Plain("badChannel"))
  /\ UNCHANGED env

\* Nothing makes the outgoing data channel of c close: it exists, it has not
\* been told to close, and neither has the peer connection gone down.
Usable(c) ==
  /\ ChannelLive(s, c)
  /\ "DC_ACTIVE" \in s.cflags[c]
  /\ ~s.pcClose
  /\ env.pc = "open"

DcOpen(c) ==
  /\ s.answered
  /\ Usable(c) /\ env.out[c] = "idle"
  /\ LET opened == [env EXCEPT !.out[c] = "open"]
     IN Report(OnChannel("dcOpen", c), opened, opened)

DcError(c) ==
  /\ "dcError" \in Faults
  /\ Usable(c) /\ env.out[c] = "open"
  /\ Event(OnChannel("dcError", c))
  /\ UNCHANGED env

\* A data channel was told to close, or goes down with the peer connection.
OutClose(c) ==
  /\ ChannelLive(s, c) /\ env.out[c] # "closed"
  /\ Usable(c) => "dcClosed" \in Faults /\ env.out[c] = "open"
  /\ LET closed == [env EXCEPT !.out[c] = "closed"]
     IN Report(OnChannel("outClosed", c), closed, closed)

InClose(c) ==
  /\ env.in[c] = "open"
  /\ \/ "dcClosed" \in Faults
     \/ s.pcClose \/ env.pc # "open"
     \/ c \in s.incoming /\ ~Usable(c)
  /\ LET closed == [env EXCEPT !.in[c] = "closed"]
     IN Report(OnChannel("inClosed", c), closed, closed)

\* The tasks of queue q whose kind is in ops, and the commands of kind op.
TasksOf(q, ops) == {i \in 1 .. Len(q) : q[i].op \in ops}
CommandsOf(op) == {i \in 1 .. Len(s.exec) : s.exec[i].op = op}

\* Data messages that are on their way and receives that are not complete.
Receiving ==
  Cardinality(TasksOf(tasks, {"message", "receiveDone"}))
    + Cardinality(CommandsOf("receive"))

DcMessage(c) ==
  /\ env.in[c] = "open"
  /\ Receiving < MaxReceives
  /\ Event(OnChannel("message", c))
  /\ UNCHANGED env

DcSystemMessage ==
  /\ "chatter" \in Faults
  /\ env.out[Sys] = "open"
  /\ Event(OnChannel("systemMessage", Sys))
  /\ UNCHANGED env

Environment ==
  \/ \E m \in Messages : WsMessage(m)
  \/ WsClose
  \/ PcCandidate
  \/ PcDown
  \/ PcClose
  \/ PcBadChannel
  \/ DcSystemMessage
  \/ \E c \in Data : PcDataChannel(c) \/ InClose(c) \/ DcMessage(c)
  \/ \E c \in Chan : DcOpen(c) \/ DcError(c) \/ OutClose(c)

Host ==
  \/ NativeDisconnect
  \/ NativeSetMode
  \/ NativeGetRtt
  \/ SocketStop
  \/ \E c \in Data : NativeSend(c)

Next == RunTask \/ TimeoutFires \/ PingFires \/ NativeThread \/ Host \/ Environment

(* The event loop runs what is queued and its timers fire; the executor    *)
(* runs its commands; libdatachannel reports the close of what it was told *)
(* to close.  Room bounds the queue of the model and not the program's, so *)
(* steps that only wait for room are strongly fair.  Nobody has to send,   *)
(* open, close or disconnect anything.                                     *)
Fairness ==
  /\ WF_vars(RunTask)
  /\ WF_vars(TimeoutFires)
  /\ SF_vars(NativeThread)
  /\ SF_vars("WS_ACTIVE" \notin s.flags /\ WsClose)
  /\ SF_vars(PcClose)
  /\ \A c \in Chan : SF_vars(~Usable(c) /\ OutClose(c))

Spec == Init /\ [][Next]_vars

FairSpec == Spec /\ Fairness
-----------------------------------------------------------------------------
(* Properties.                                                             *)

\* The native thread has been asked for a session, and the answer has not
\* been handled, or never will be.
CreatePending ==
  \/ CommandsOf("create") # {} \/ TasksOf(tasks, {"created", "createFailed"}) # {}
  \/ env.native \in {"orphan", "lost"}

\* Every reference of a session is accounted for, in any order of closes,
\* errors and answers, those whose task is refused and that keep their reference
\* for ever included: one for the session while it is active
\* (session.c:197), one until the close of the WebSocket is handled
\* (session-ws.c:580), one until that of the peer connection is
\* (session-pc.c:375), one for each channel that is not released
\* (channel.c:81), one while the native thread is asked for a session
\* (session-plugin.c:24, 214).
SessionRefs ==
  s.fault = "none" =>
    s.ref = Count(Active(s))
            + Count(env.ws # "closed" \/ TasksOf(tasks, {"wsClosed"}) # {})
            + Count(env.pc # "closed" \/ TasksOf(tasks, {"pcClosed"}) # {})
            + Cardinality({c \in Chan : ChannelLive(s, c)})
            + Count(CreatePending)

\* A callback never finds its session missing: the peer connection of a
\* queued event has not been destroyed (session-pc.c:38, 100, 158, which do
\* not test for NULL), and a disconnect or send comes behind the answer whose
\* callback sets the private data (session-plugin.c:80, channel-plugin.c:59),
\* while the application calls about no native session that the plugin thread
\* has not been told of.  What they find once the native session is destroyed
\* (fault deadNative) is not claimed.
NeverNullSession == s.fault # "nullSession"

\* The entries of session->channels are live channels (session.c:209): what
\* session_close, on_data_channel and the application's send look up has not
\* gone back to the pool, whichever data channel closed or failed first.
TableLive == \A c \in s.table : ChannelLive(s, c)

\* The native session is destroyed once and used by nobody afterwards
\* (session-plugin.c:256-270, channel.c:201): the handle that the session
\* keeps is that of a living native session whose destruction is not queued,
\* and a queued receive with a handle runs before the destruction.
NativeHandleValid ==
  /\ s.native => env.native = "alive" /\ CommandsOf("destroy") = {}
  /\ Cardinality(CommandsOf("destroy")) <= 1
  /\ \A i \in CommandsOf("destroy") :
       /\ env.native = "alive"
       /\ \A j \in CommandsOf("receive") : j > i => ~s.exec[j].handle
  /\ \A j \in CommandsOf("receive") :
       s.exec[j].handle => env.native = "alive"

\* The application is never handed a message without a native session
\* (channel.c:201, channel-plugin.c:140): a channel that may receive belongs
\* to a session that has its native session.
NoNullReceive ==
  \A j \in CommandsOf("receive") : s.exec[j].handle

\* CONNECTED is sent to the client when the native session lives and every
\* channel of the session accepts messages (session.c:671-687): what the
\* client sends from then on is not dropped.
ConnectedMeansReceiving ==
  [][ "CONNECTED" \in s'.sent \ s.sent =>
        /\ s'.native
        /\ env.native = "alive"
        /\ \A c \in Data : {"DC_ACTIVE", "DC_RECEIVE"} \subseteq s'.cflags[c]
    ]_vars

\* A closed session goes back to the pool (session.c:197): every reference on
\* it and on its channels is dropped once what was told to close has closed.
ClosedIsReleased ==
  ~Active(s) ~> (~Live(s) \/ s.fault # "none")

\* A client that stops talking does not keep its session (session.c:124, 302,
\* 660): a session is closed or gets its native session, so that it waits for
\* its client under a timer always, while the executor takes commands and
\* tokens carry a timeout.
StalledIsClosed ==
  <>(~Active(s) \/ s.native \/ s.fault # "none")

\* How far the native session is, for those who cannot see the session.
Native ==
  CASE CommandsOf("create") # {} -> "asked"
    [] TasksOf(tasks, {"createFailed"}) # {} \/ env.native = "lost" -> "refused"
    [] s.native -> "attached"
    [] CommandsOf("destroy") # {} -> "ending"
    [] env.native = "orphan" -> "answered"
    [] env.native = "alive" /\ ~s.native /\ CommandsOf("destroy") = {} -> "answered"
    [] env.native = "none" /\ CommandsOf("create") = {} -> "none"
    [] OTHER -> "over"

Life ==
  INSTANCE SessionLife
    WITH open <- Active(s), native <- Native, failed <- s.fault # "none"

\* The session implements SessionLife: it asks for a native session at most
\* once, takes the answer even when it was closed in the meantime, and destroys
\* the native session once it is closed (session-plugin.c:11, 176, 256).
ImplementsLife == Life!Spec

\* What channel.c:106 asserts: on_connected finds a channel in every entry.
ConnectedFindsChannels == s.fault # "nullChannel"

\* What session.h:118 says of a channel that was removed from its session: it
\* is going to be deleted, at the latest when the session is closed.
RemovedIsDeleted ==
  \A c \in Data :
    (~Active(s) /\ ChannelLive(s, c) /\ c \notin s.table)
      ~> (~ChannelLive(s, c) \/ s.fault # "none")
=============================================================================
