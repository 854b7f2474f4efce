# Verification of the pomelo WebRTC plugin

TLA+ models of the server side of `pomelo-udp-webrtc-plugin`, the checks TLC
runs on them, and the theorems TLAPS proves. Paths are relative to the
repository; `session.c` and the like are in `src/` of it. The map in
`PROJECT.json` names the lines behind every definition.

## 1. The system

The plugin lets browsers talk to a native pomelo server. A browser opens a
WebSocket, sends a connect token, negotiates a WebRTC peer connection over the
WebSocket, opens its data channels, says READY, and becomes a session of the
native server. `connection-flow.txt` draws the exchange.

### Threads

| thread | runs | reaches the others by |
|---|---|---|
| plugin thread | the libuv loop of `context.c`: submitted tasks, timers; all handlers of sessions, channels and sockets | executor commands to the native thread; calls into libdatachannel |
| RTC threads | callbacks of libdatachannel (`rtc-api/*.cpp`) | `context_submit_task` |
| native thread | the native library: starts and stops sockets, runs the executor's commands, calls `plugin_session_disconnect` and `plugin_session_send` | `context_submit_task` |
| worker threads | `uv_queue_work`: stopping a WebSocket server, which blocks | `context_submit_task` |
| unloading thread | `context_destroy` | `thread_running`, `uv_async_send`, `uv_thread_join` |

Handlers on the plugin thread never interleave with each other. All
concurrency is in the handing over: which tasks are already queued when a
handler runs, and what has happened elsewhere since a task was queued.

### Components

**Task queue and plugin thread** (`context.c`). State: `thread_running`, the
pool `async_tasks_pool`, the list `tasks`, the two `uv_async_t`. Operations:
`submit_task`, `async_task_callback`, `thread_shutdown`, `thread_entry`,
timers, worker tasks, creation and destruction. Hard: five unlocked steps of
many producers against three of the consumer; coalesced wake-ups; a stop in the
middle. Correct when a task runs once and in order, none is forgotten while the
loop lives, a task object has one owner, and an unload ends.

**Session** (`session/`). State: reference count, flags, channel table, system
channel, count of opened channels, timeout and ping timers, WebSocket client,
peer connection, native session. Operations: authentication, signalling
messages, READY, channel events, native answers, disconnect, timers, close,
cleanup. Hard: five kinds of holders drop references in any order; events that
were queued before a close are handled after it; the native session is created
by another thread while the session may end. Correct when every reference is
dropped once, the native session is created once and destroyed once, no handler
uses what is gone, and a closed or silent client leaves nothing behind.

**Channel** (`channel/`). State: reference count, flags, incoming and outgoing
data channel. Operations: open, close, enable receiving, receive, receive
complete, send. Each channel is two data channels with one close event each.

**Socket and WebSocket server** (`socket/`). State: reference count, flags, the
session list; in the context the map from native sockets and the count of
running sockets that starts and stops the executor. Operations: listening,
connecting, stopped, on_client, wss_close in a worker, on_closed, cleanup. Hard:
stop against clients that are just being accepted. Correct when a stopped socket
keeps no session, its server's last event finds it alive, and it is released.

**Context** (`plugin.c`, `context.c`). State: the pointers to twelve parts
(libdatachannel's context, the map, the list, nine pools), `thread_running`, the
thread. Operations: entry, creation part by part, a creation that fails half
way, unload, join, destruction part by part. Hard: RTC threads are inside
`submit_task` and workers inside their task while parts go. Correct when whoever
uses a part finds it and an unload comes to its end.

**RTC wrapper** (`rtc-api/`). State: pools of wrappers around WebSockets, peer
connections and data channels of libdatachannel; of each wrapper its object and
its data, the session or channel it is associated with; a pool of message
buffers with reference counts. Operations: init, set_data, finalize, destroy,
the callbacks that submit tasks. Hard: a queued task carries the address of a
wrapper, which may have been destroyed and bound again for another session when
the task runs. Correct when what a handler finds in a wrapper is alive and is
that of the event.

**String buffer** (`utils/string-buffer.c`). State: position, capacity, memory,
kept from one use to the next. Operations: append, to_string, to_binary, growth.
Hard: the capacity is doubled once whatever is asked for, and the callers do not
look at failures. Correct when nothing is written behind the end and a message
is sent whole.

**Messages** (`session-ws.c`, `session-pc.c`). The WebSocket's messages and their
fields, the labels of data channels. Correct when what is written is what is
read. The handlers of system messages (`session.c:227-260` and what they call)
belong here too, but are reached by no message: the system channel has an
outgoing data channel only, and what arrives on one is dropped
(`channel-dc.c:166`).

**Logging**, **sodium**: utilities.

## 2. The modules

| module | models | kind |
|---|---|---|
| `TaskFifo` | what the context promises: refused, or run once and in order | abstract specification |
| `TaskQueue` | `submit_task`, the drain, the stop, step by step | refines `TaskFifo` |
| `TaskQueue_proofs` | | theorems about `TaskQueue`, and that it refines `TaskFifo` |
| `QueueLemmas` | | lemmas about FIFO queues: what is queued, how often, and behind what |
| `Context` | creation and destruction of the context, and who uses its parts meanwhile | `plugin.c`, `context.c`, end of `rtc-context.cpp` |
| `Context_proofs` | | theorems about `Context` |
| `SessionLife` | what a session promises the native library | abstract specification |
| `Session` | session, its channels, its tasks and its executor commands | composition of `session/`, `channel/`; refines `SessionLife` |
| `Session_proofs` | | theorems about `Session` for every fault: references, handles, types |
| `SessionOrder_proofs` | | theorems about the order of its events, and that it refines `SessionLife` |
| `Socket` | sockets, servers, clients, executor count, map | `socket/`, accept path of `rtc-ws-server.cpp` |
| `Socket_proofs` | | theorems about `Socket` |
| `RtcBuffer` | the count of message buffers | `rtc-buffer*.cpp` and its users |
| `Wrapper` | pools, binding, association and destruction of the C++ objects, with two sessions that reuse each other's | `rtc-api/`, and the parts of `session/`, `channel/` that own wrappers |
| `Wrapper_proofs` | | theorems about `Wrapper` |
| `StringBuffer` | one string buffer | `string-buffer.c` |
| `ChannelLabel` | labels of data channels | `session-pc.c` |
| `Signalling` | what a session writes and reads | composition of the two above with `session-ws.c` |
| `Signalling_proofs` | | theorems about `Signalling`, `StringBuffer` and `ChannelLabel` |
| `MC...` | instances for TLC | |

**`TaskQueue`.** One action for each step of the code that another thread can
see: check of `thread_running`, acquisition, filling, push, `uv_async_send`;
pop, release, callback; the three steps of the unload. `at[p]`, `loop` and
`owner` are the program counters. The pool and the list are atomic because the
native library's synchronized versions are. `Pending`, the queue of `TaskFifo`,
is the callback the plugin thread has in hand followed by the bodies of the
listed objects, so the refinement says what was copied into an object is what
is called, though objects are reused.

**`Session`.** A handler runs to its end before the next one, so a handler is
one step. `s` is the record of everything the plugin thread owns; each function
of the code is an operator from such a record to the next, named after it
(`SessionClose` is `session_close`), and a handler composes them as the code
calls them. `tasks` is the FIFO that `TaskFifo` specifies, `s.exec` the queue of
commands of the native executor, `env` what libdatachannel, the native library
and the socket have done. A failed assertion or a use of a missing or released
object does not stop TLC: it sets `s.fault`, after which nothing moves, and the
invariants say which faults cannot happen. `Faults` turns on failures and peer
behaviours one at a time, so that a run says under which of them it holds.
`shortages` counts the allocations that fail, of channels, timers, buffers and
submitted tasks: `submit_task` may refuse, and none of its callers looks at the
result, so a refused event has happened and is never handled (`Refused`). `env`
remembers it where a reference depends on it: a WebSocket or peer connection
whose close was refused is `lost`, a native session whose answer was refused is
`orphan` (or `lost`, when there is none), and the reference is kept for ever.

**`SessionLife`.** What the native library and the application can rely on: the
native session is asked for at most once, its answer is taken even when the
session was closed meanwhile, and it is destroyed once the session is closed.
`Native` in `Session` is the refinement mapping: it reads the stage off the
executor's queue, the queued tasks and the session's own pointer. The fairness of
`SessionLife` is part of what is refined, so a run that checks it also shows that
no native session outlives its session.

**`Context`.** The native thread's program, one action for each part it creates
or destroys, against the RTC threads and workers that use parts. `created` and
`destroyed` count parts, because the code destroys in the order of creation
(`Exists` is the test for NULL). `submit_task` is two actions here, its check and
its end; `TaskQueue` has the steps in between. The last step (`Free`) hands the
context to an allocator that `context_create` never stored (`context.c:44-51,
360`): it succeeds or fails. The event loop and its two handles are initialised
(`context.c:269-271`) and closed by nobody; they are no parts of the count, and no
property says that a freed context leaves nothing.

**`Socket`.** Written the same way, with the record `Owned`. A session is
reduced to what its socket sees: active or closed, its own reference, that of
its WebSocket, that of its peer connection, and those of its channels
(`channel.c:65, 81`) and of a pending native call (`session-plugin.c:24, 205`), which
count as one while there are any (`held`, `Hold`, `LetGo`). A refused task is lost
as in `Session`. When `socket_plugin_init` fails it releases the socket
(`socket-plugin.c:130, 143`) inside the initialiser of the pool, whose failure makes
the pool take it back once more (`InitOutcomes`); `surplus` is how often an object
lies in the pool too often, and `InPool` lets the pool hand it out then.

**`RtcBuffer`.** A buffer travels from the RTC thread to a task to a receive
command; `holders` is who has a reference to give up, `count` the code's
counter. `RTCBuffer::unref` calls `fetch_add`, and so does the model.

**`Wrapper`.** `o` is the record of the objects of libdatachannel, the wrappers
and the little of the sessions that owns wrappers; a task carries the wrapper,
as in the code, and `of`, the session whose object caused it, which the program
does not know and the properties compare with what the handler finds. The
finalizer of an object may make it report its close once more, which is queued
behind the tasks that are there. Session and channel are one data channel and
no system channel here; `Session` has the rest of their life.

**`Signalling`.** A text is a sequence of tokens whose numbers of characters are
constants, so a message is a few tokens and the buffer's arithmetic is that of
the code. One step is one handler: it takes the string buffer from the pool,
appends without looking, and sends, or cuts a message of the client into its
fields. `ChannelLabel` reads the index of a label in a `size_t` whose number of
values is a constant.

## 3. What TLC checks

| run | states | shows |
|---|---|---|
| `TaskQueue_threads` | 53 thousand | `OneOwner`: a task object is shared by nobody. `NoLostWakeup`: a queued task has a send, a sender or a drain. `FifoOrder`: refinement of `TaskFifo`. `EveryTaskRuns`, `ShutdownEnds` under fairness |
| `Session_safety` | 3.6 million | with one failed allocation (a refused task is one) and all faults but `untold`: `SessionRefs` (every reference accounted for), `NeverNullSession`, `TableLive`, `NativeHandleValid` |
| `Session_orderly` | 91 thousand | channels closed by the session only, memory for everything, calls of the application from inside `session_create`: `NoNullReceive`, `ConnectedMeansReceiving`; under fairness `ClosedIsReleased`, `StalledIsClosed`, and `ImplementsLife`: refinement of `SessionLife` |
| `Context_life` | 485 | with failing creations: `UsersFindParts`, `ThreadFindsAll`; `UnloadEnds` under fairness |
| `Socket_safety` | 2.4 million | with every fault but `init`: `SocketRefs`, `StoppedHasNoActiveSession`, `ClosedIsLast` |
| `Socket_live` | 3.7 thousand | without faults: `WsReferenceEnds`, `ActiveIsMapped`, `ExecutorServes`, and `StoppedIsReleased` under fairness |
| `Wrapper_owner` | 1.3 million | two sessions reuse wrappers: `DataIsLive` (what a wrapper names is alive and owns it), `WsFindsOwn`, `PcFindsOwn`, `MessagesReachOwn`, `StrayClosesAreOutgoing` |
| `Signalling_wire` | 5.4 thousand | with refused memory and binary frames: `StaysInside`, `SentIsWhole`, `FieldsAreRead`, `TokenAuthenticates`, `LabelNamesIndex` |

Each property of these runs has a mutant in `PROJECT.json`: a bug somebody
could write (a reference kept, a test dropped, two statements swapped) with
which the property is violated.

### Disagreements between code and comments

Four runs are expected to end in a counterexample; each checks what a comment or
an assertion of the repository says.

| run | source | what happens |
|---|---|---|
| `TaskQueue_args` | `context.c:625` | the task object is released before its callback is called with a pointer into it; another producer acquires and refills it, and the callback runs with the other task's arguments |
| `Session_connected` | `session.c:680` | the session closes while the native thread creates its native session; channels leave the table; the answer comes and `on_connected` hands a NULL channel to `channel_enable_receiving`, which asserts it is not |
| `Session_leak` | `session.c:209` | the data channels of a failed peer connection close first; each close takes its channel off the table, so `session_close` does not find it and does not drop the reference the channel has on itself; channel and session are never released |
| `RtcBuffer_unref` | `rtc-buffer.cpp:68` | `unref` adds |

Some properties hold only without a behaviour that the code does not exclude,
and TLC finds a counterexample when `Faults` includes it, in `Socket_live`:

- `early`: `RTCWSServer::on_client` sets the callbacks of a client before it
  announces it. A client that closes in between is ignored (no session is mapped
  yet); the session made afterwards waits for a close that has been.
- `restart`: a native socket listens again while its former plugin socket is
  being released; the former's cleanup deletes the map entry of the new one, and
  a stop no longer finds it.
- `connecting`: `context_create` registers no callback for connecting sockets
  (`context.c:92`), so a connecting socket is not counted when it starts but is
  when it stops. The unsigned count goes below zero, and the next listening
  socket does not find it at zero and does not start the executor
  (`ExecutorServes`).
- `failing`: a peer connection, or a data channel, ends before its session is
  closed. What `Session_leak` shows may follow: a channel keeps its session for
  ever, and the session its socket (`session.c:159`), so that a stopped socket is not
  released (`StoppedIsReleased`).
- `memory`: a worker task that cannot be allocated, or a refused task that says
  that a server or a WebSocket has closed, leaves the reference for ever
  (`StoppedIsReleased`). `SocketRefs` holds with it: the reference is kept, and
  none of others is dropped.
- `init`: `socket_plugin_init` releases the socket and the pool does too; the
  socket lies in the pool twice, and a second listening native socket is handed
  the one in use. With two native sockets TLC finds `SocketRefs` violated within
  ten steps. The other properties and theorems about sockets are checked and
  proved without it, except `ExecutorRuns`. That a pool cleans up an object whose
  initialiser failed is an assumption about code outside the repository (below).

in `Session_safety`:

- `untold` (`NeverNullSession`): the application calls about a native session
  that the plugin thread has not been told of, from inside `session_create`
  (`session-plugin.c:35`, before the answer is submitted at 48) or after the answer
  was refused. The private data is NULL then, and the handler uses it.
- A refused task under the liveness properties of `Session_orderly`
  (`MaxShortages`): a session whose close was not heard keeps its reference.

and in `Context_life` (`UsersFindParts`):

- `slow`: `~RTCContext` waits ten seconds for libdatachannel and goes on.
- `working`: nothing waits for a libuv worker, which may still be stopping a
  server when the plugin is unloaded and its task object goes with the pool.

`Wrapper_owner` is checked without the fault `memory`: when `session_init` fails
after it has created the peer connection (`session.c:123`), the wrapper is
destroyed and its close, queued from the finalizer, finds NULL or the session
that took the wrapper since (`PcFindsOwn`). It drops a reference of that session,
and with three sessions TLC finds a count below zero. The other four invariants
hold in the run's instance with the fault too, but are proved without it only.

The models also show what no property excludes, because nothing in the
repository says otherwise:

- A close of a data channel that is still queued when its wrapper is destroyed
  and bound again as an outgoing data channel drops a reference of the channel
  that has the wrapper now; `StrayClosesAreOutgoing` says that this is the only
  case, since an incoming one is associated by a later task.
- The outgoing data channel took a reference and the close of either data
  channel drops one (`channel-dc.c:88`), so a channel can be released while a
  message of it is on its way (`OnReceiveDone`, fault `dcClosed`).
- The wrapper of an incoming data channel that is ignored
  (`session-pc.c:161-172`, `channel-dc.c:305`) is never destroyed.
- `releasedChannel` and `releasedSession`: the system channel is used after an
  error released it; a ping fires for a released session, because the last open
  event may be handled after `session_close` and starts the ping timer
  (`session.c:221`). The same event may ask for a native session after the close;
  `SessionLife` allows it, and shows that it is given up.
- `nullRtt`: `plugin_session_get_rtt` reads the native session's private data on
  the native thread (`session-plugin.c:118`), which the plugin thread sets later.
- A description or candidate message that ends with its opcode
  (`session-ws.c:477`), and a binary frame, are read behind their end, and a
  binary frame's token is refused for its length (`session-ws.c:431`).
- What cannot be appended to a message is left out and the rest is sent; a
  description type that is NULL because `to_string` failed is handed on
  (`session-ws.c:526`). A text longer than a new buffer (1024 characters) may be
  written past the end of it, since the capacity is doubled once.
- A label's index wraps modulo the values of a `size_t` (`session-pc.c:208`).
- Pings of the client arrive on the outgoing data channel of the system channel,
  which has no other, and are dropped (`channel-dc.c:166`, `OnSystemMessage`): none is
  answered.
- `deadNative`: a disconnect, send or mode task reads the private data of a native
  session that may have been destroyed since (`session-plugin.c:80`);
  `NeverNullSession` does not claim that it is there.
- `releasedChannel` also when `on_connected` enables receiving on the system channel
  that an error released (`session.c:682`).

After a fault of `Session` nothing moves, and the properties that account for
references say so with `s.fault = "none"`.

### Bounds

- `MaxSubmits` = 2 calls for each of two producers over two task objects: the
  pool runs dry, objects are reused, both producers are inside `submit_task`
  together, and a second wake-up coalesces with a first. The safety part is
  proved without bounds.
- `MaxTasks` bounds the queue of the model: 2 or 3 tasks. What goes wrong here
  goes wrong because one event was queued before another was handled; three
  tasks cover two events overtaken by a third. A full queue delays events, and
  that is all it does, since the sender takes its step later.
- `MaxShortages` = 1 failed allocation in `Session_safety`, any one: what a refused
  task or timer leaves is a reference kept or a timer not running, in every state
  and before everything that follows. The proofs have no bound. It is 0 where
  liveness is checked, which does not survive one.
- `N` = 1 data channel, besides the system channel. Channels do not interact
  except through the table, the count of opened channels and the session's
  references; the two channels show the last against a not yet last opened one,
  a channel in the table and one outside it.
- `MaxReceives` = 1 data message on its way.
- Two plugin sockets: one native socket in `Socket_safety`, which restarts while its
  former plugin socket is being released, and two in `Socket_live`, where the
  executor's count reaches two. Two clients in `Socket_safety`, accepted around a
  stop; one in `Socket_live`, whose properties are about one session or one socket.
- `CountModulus` stands for the width of the count of running sockets: 4 in
  `Socket_live`, above the number of sockets; 1, so that nothing is counted, in
  `Socket_safety`, whose invariants do not read the count.
- Two RTC threads and two workers in `Context_life`: one leaves while another
  stays. The theorems have no bounds.
- In `Session` a WebSocket, peer connection and data channel live once; a
  session, once. `Wrapper` has their reuse: two sessions, two wrappers of
  WebSockets and of peer connections, three of data channels, so that both
  sessions can be complete except for one incoming data channel, and every
  wrapper is bound again for the other session while tasks of the first are
  queued. Its client sends nothing over the WebSocket once it is authenticated,
  and opens its side of a channel a second time, with a valid label, only while
  the first is open.
- `Signalling_wire`: a new buffer has 16 characters and a buffer at most 128
  (1024 and 256 * 1024 in the code, `string-buffer.c:9-10`), with texts below, at and above 16, and
  messages up to the limit: the buffer grows never, once and repeatedly, and is
  used again after each. `SizeValues` = 1000: labels of four digits wrap.

Deadlock is not checked: a stopped plugin, a released session and a socket with
no more clients are states in which nothing has to happen.

### Fairness

The event loop runs what is queued (`WF` of the task step: libuv calls
`async_task_callback` after a send, and the drain ends only on an empty list;
`TaskQueue` shows this from the fairness of its own steps). A thread that has
begun `submit_task` goes on. Timers fire. The executor runs its commands,
unless it was shut down. libdatachannel reports the close of what it was told to
close. In `Socket`, the channels of a closed session are released and its native
call is answered (`LetGo`), which is what `Session` shows (`ClosedIsReleased`) while
channels are closed by their session only. Nobody has to connect, send, open, close, stop or unload anything.

`SF` appears for two reasons. A step that submits a task waits in the model for
room in the bounded queue, which comes and goes; in the program it does not
wait. And `uv_async_send` on `async_shutdown` is delivered in an iteration of
the loop even if `async_task` keeps being delivered, because an iteration
delivers all pending sends.

### What is assumed of the code outside

libdatachannel reports the close of a WebSocket, a peer connection or a data
channel at most once and nothing about it after that; a data channel opens at
most once; stopping a WebSocket server waits for the accept callback that is in
progress. The native executor runs commands in order, and the native library
calls the plugin from one thread. A destroyed wrapper reports nothing: every
finalizer clears the wrapper's own callbacks, but only that of
`rtc-ws-client.cpp` also resets those that libdatachannel holds, so an RTC thread
may be inside one, which is open (section 5);
`Wrapper` lets an object report its close until its finalizer returns. A pool
whose initialiser fails cleans the element up and takes it back: a failed
creation leaves nothing, except that of `socket_plugin_init`, which has released the
element already (fault `init` above).

## 4. What is proved

`TaskQueue_proofs`, for every set of producers, every set of task objects and
every number of calls. The assumption is `TaskQueueAssumption`: the number of
calls is natural, and NULL is neither a task nor an object.

- `TypeCorrect`: `Spec => []TypeOK`. `TypeOK` is not inductive: `SubmitFill`
  writes the object in the producer's hand and the task of its call, so that
  there must be an object and a begun call, and `PopTask` leaves the plugin
  thread with an object. `Begun` says so; `TypeOK /\ Begun` is inductive
  (`TypeStep`).
- `WakeupNotLost`: `Spec => []NoLostWakeup`. Inductive under the types: a push
  leaves its producer before its send, a delivered send starts a drain, and a
  drain ends on an empty list only.
- `ObjectsHaveOneOwner`: `Spec => []OneOwner`. Its four parts depend on each
  other: that the list has no duplicates after a push needs that the producer's
  object was not queued, which needs that it was not free when it was acquired.
  `PushedList` and `PoppedList` are the facts about sequences.

- `QueueIsFifo`: `Spec => FifoOrder`, the refinement of `TaskFifo`: initial
  states map to initial states and every step to a step or a stutter. It needs
  `OneOwner` and `TasksInPlace`: what is queued holds a task, what a producer has
  filled holds the task of its call, and no accepted task is of a call still to
  come. Without the last, a push could be of a task that was accepted before.

`Context_proofs`, for any number of RTC threads and workers:

- `Stages` relates how far creation and destruction are to the stage of the
  context's life. It is inductive with the types whatever fails, and gives
  `TypeCorrect` and `ThreadIsServed` (`Spec => []ThreadFindsAll`).
- `PartsAreFound`: `Prompt => (Spec => []UsersFindParts)`, where `Prompt` says
  that the faults `slow` and `working` do not happen. `InUse`, which adds that a
  caller is inside a complete context and a worker inside a serving one, is
  inductive under `Stages`.

`Signalling_proofs`, for any texts and capacities, any failures of the allocator
and any number of uses and any range of `size_t`:

- `BufferIsBigEnough`: `Spec => []StaysInside`. Inductive with the fact that a
  pooled buffer's capacity lies between the initial and the largest. The
  argument is `AppendKeeps`: an append of at most `InitialCapacity` characters
  to a buffer that was not overrun stays inside it, because the position was
  below the capacity, so the sum is at most twice the capacity, which one
  doubling gives, and `ensure_capacity` refuses what reaches the limit.
- `MessagesAreWhole` (`SentIsWhole`): what is appended to a buffer that has
  room is in it (`JoinForm`), and three texts that were joined by separators are
  read back as they were if the first and second have none (`FieldsAreFound`).
- `FieldsAreHanded` (`FieldsAreRead`) and `TokensAuthenticate`
  (`TokenAuthenticates`): the handler of a client's message hands over what it
  cut (`HandsForm`), and takes what it cut for a token only if it is one
  (`TokenForm`, `TokenIsOK`).
- `LabelsNameIndexes` (`LabelNamesIndex`): the code cuts the value to a `size_t`
  after each digit, which gives what one cut at the end gives (`CutEachTime`),
  so that the fold of the code is the decimal number modulo `SizeValues`
  (`IndexIsValue`).
- `SignallingTypes`: `Spec => []TypeOK`.

These follow from `WireInv`, the types and the other invariants of the run, which every
step gives anew: a handler writes what it sent, handed over and learned, and
keeps nothing but the buffer. The induction is in the data. The library's
induction theorems take an operator, so what a fold gives is proved with a set
instead: a set that has zero and with every number its successor has all numbers
(`AllNumbers`, from the least number outside it). The set is the one of the
lengths, or of the cardinalities, for which the claim holds. So it is shown that
the function that a fold recurs with exists (`FoldExists`), and what one step of
it does (`IndexInSteps`, `DigitsInSteps`, `ValueInSteps`).

The assumptions say what TLC had in its instance: texts are sequences of tokens,
only the empty one has no characters, what is in front of a separator is shorter
than the text, the names that libdatachannel gives, description types and media
ids, and formatted numbers have no separator, and a label is a sequence of
numbers. What a client sends is any text.

`Socket_proofs`, for any native sockets and plugin sockets, any finite set of
clients, and every fault that a theorem does not exclude. All theorems but the last
assume that `socket_plugin_init` succeeds (no fault `init`, section 3) and follow
from one inductive invariant, `SocketInv`, which has a part for each object:

- `SockFits` and `RefsFit`: a socket is whole or lies empty in the pool, and its
  count is what is left to drop. `RefsFit` needs to know which sessions belong to
  it (`SessionFits`) and that the end of its server is reported once.
- `SessionFits` and `HoldsFit`: an active session has three references, and one more
  while channels or a native call hold it, its socket lists it, and its peer
  connection is not over. An inactive one has at least the references of what still
  holds it, a peer connection whose end was refused among it; exactly these when clients are
  announced before they are gone.
- `ClientFits`: an accepted client's server still serves, or the task that ends it
  is behind the client's announcement in the queue (`Behind`, which counts
  positions and is where `QueueLemmas` is needed).
- `MapFits`: the map leads to a socket of the native socket.

It gives `SocketTypes`, `SocketReferences` (`SocketRefs`),
`StoppedSocketHasNoActiveSession` and `ServerOfClientIsLive` (`ClosedIsLast`)
whatever else fails and whichever task is refused, `SessionReferencesEnd`
(`WsReferenceEnds`) without the fault `early`, and `ActiveSocketIsMapped` (`ActiveIsMapped`) without the fault
`restart`; both faults are real and have findings or hazards of their own.
`ExecutorRuns` (`ExecutorServes`) has an invariant of its own,
`RunningIsCounted`: the counter is the number of listening sockets, without the
fault `connecting` and for fewer native sockets than the counter can count.

`Session_proofs`, for any number of data channels, any messages of the client, any
bounds of the queues, any number of failed allocations and refused tasks, and every
fault, except `untold` for `SessionIsFound`. `SessionInv` is inductive:

- `Fits`: the session record by itself (`Whole`), its count as the sum of its
  holders, itself and its live channels (`RefsAre`), and each channel's count as
  its data channel, itself and the receives under way (`TableFits`). This is
  `SessionRefs`, in the form in which every function of the code changes it by a
  known amount.
- `QueueFits`: ends and answers are queued once, and after they happened;
  otherwise a reference would be dropped twice. An end that was refused is queued
  never (`lost`), so that its reference stays.
- `NativeFits`: how the command that asks for the native session, its answer, its
  private data and the command that ends it follow each other. It excludes that
  the session is asked for a second time, which `SessionRefs` does not see.
- `HandleFits` and `EventFits`: what is queued before what. A receive with a handle
  is before the destruction; an event of the peer connection is before its close,
  which drops the last reference; a call of the application is behind the answer
  that gives it the private data, if it is about a native session that the plugin
  thread is told of.

One lemma for each function says what it does to a fitting record (`SessionClose`
keeps it fitting with one reference less, and so on), one (`MoveKeeps`) covers all
handlers and one (`SubmissionKeeps`) all events, so that a handler's proof says
only which functions it calls. It gives `SessionTypes`, `SessionReferences`
(`SessionRefs`), `SessionIsFound` (`NeverNullSession`), `ChannelsAreLive`
(`TableLive`) and `NativeIsDestroyedOnce` (`NativeHandleValid`).

`SessionOrder_proofs`, under `SessionInv` and for as much failing memory:

- `MessagesHaveTheirSession` (`NoNullReceive`), when clients close no single data
  channel and no peer connection fails (`OrderlyFaults`). `OrderlyInv` says that an
  open channel belongs to an active session that knows it (`Tidy`), that closes
  are queued only of channels that are closed already, and that nothing has
  happened to a client that is still unknown.
- `ConnectedIsTrue` (`ConnectedMeansReceiving`), when moreover no data channel reports
  an error. `ConnectedInv` adds that all channels of an active session are open.
- `SessionLives`: the initial states and every step of `Session` are those of
  `SessionLife`, when the executor takes commands (without the fault `executor`).
  `Stages` reads the state of the native session off the queues and flags. The
  handlers are summarised by one fact, `Handled` (what becomes of activity, native
  session and commands), which all but the answer to a creation satisfy.

`Wrapper_proofs`, for any numbers of sessions and of wrappers of each pool and any
bound of the queue, when the timers of sessions can be allocated (without the fault
`memory`, section 3). `WrapperInv` is inductive:

- `Shape`, of the objects and wrappers by themselves: a wrapper that is out of its
  pool has an object of its kind for itself (`BoundFits`); what a wrapper is
  associated with knows the wrapper (`DataFits`); a session or channel that is out
  of its pool has its wrappers and keeps them until it goes back (`SessionFits`,
  `ChannelFits`).
- `RefsAre`: a session is referenced by itself while it is active, by its channel,
  and by its WebSocket and its peer connection until their closes are handled
  (`Holders`). That the session is there when the close of its peer connection is
  handled is `PcFindsOwn`, and follows from it. The references of a channel cannot be
  accounted for like this, since a stray close may drop one; `ChannelFits` says what
  is left: a listed and active channel has two.
- `QueueFits`, of the tasks: whose event names which wrapper, and what is behind
  what. A client, or an incoming data channel, is announced once and behind all
  that is left of the sessions that had its wrapper before (`ClientsFit`, `DcFits`),
  so that nothing of theirs is still queued once the wrapper is associated again
  (`WsFindsOwn`, `StrayClosesAreOutgoing`); events of a peer connection are before
  its close (`PcFits`). No such order holds of the outgoing wrappers, which are
  associated when they are bound.

`Winds` is what all functions do that lead sessions and channels to their pools:
associations, listings and references only go, and objects close and report it.
`WindsQueue` shows once that the queue fits on, `TailFits` that it does without its
first task and `ReportsQueue` that it does with the closes that finalizers report
behind it; what an RTC thread queues is `TaskFits` and `BindFits`. It gives
`WrapperTypes` (`TypeOK`, among it that no reference is given up twice), `WrapperData`
(`DataIsLive`), `WrapperWs` (`WsFindsOwn`), `WrapperPc` (`PcFindsOwn`),
`WrapperMessages` (`MessagesReachOwn`) and `WrapperStrayCloses`
(`StrayClosesAreOutgoing`).

The conditions of the theorems about sessions and sockets cannot be dropped: TLC
finds `NoNullReceive` violated as soon as `Faults` has `dcClosed` or `pcFailed`,
`ConnectedMeansReceiving` with `dcError`, and a step that `SessionLife` does not
allow with `executor`; `early`, `restart`, `connecting`, `init` and `untold` are
described in section 3.

Every safety invariant that a run checks and that holds is stated by one of
these theorems. Only model-checked are all liveness (`EveryTaskRuns`,
`ShutdownEnds`, `ClosedIsReleased`, `StalledIsClosed`, `StoppedIsReleased`,
`UnloadEnds`) and the fairness part of `SessionLife`, which `ImplementsLife`
includes: liveness under fairness is beyond the prover. The disagreements of
section 3 are counterexamples, which are TLC's.

## 5. What is not modelled

- Reuse of pooled sessions and channels themselves: `Wrapper` names them by
  their client, so a stale pointer to a session (the private data of a native
  session, `session-plugin.c:80`) that finds another session is not seen.
- The handlers of system messages and the round-trip-time calculator behind them:
  no message reaches them (`channel-dc.c:166`).
- In `Wrapper`, tasks that `submit_task` refuses; `Session`, `Socket` and `RtcBuffer`
  have them.
- Exceptions of libdatachannel, descriptions and addresses as values, options
  of connections and servers.
- A callback of a wrapper that is cleared while an RTC thread is about to call
  it, and that the pools of wrappers are deleted before libdatachannel's threads
  are waited for; `Context` takes deletion and wait as one step.
- `set_mode` has no effect in the code: `OnSetMode` finds its session and leaves
  it as it is.
- Logging; sodium, which includes an external library.

## 6. Plan

In `Context`, the deletion of the pools and the wait of `~RTCContext` as two steps;
in `Wrapper`, refused tasks.
