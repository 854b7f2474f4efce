----------------------------- MODULE TaskQueue ------------------------------
(***************************************************************************)
(* The task queue of the plugin context (src/context.c): the RTC threads   *)
(* and the native thread call submit_task, the plugin thread runs the      *)
(* submitted tasks from async_task_callback, and the thread that unloads   *)
(* the plugin stops it with thread_shutdown.                               *)
(*                                                                         *)
(* Atomicity follows the code.  A call of submit_task is five steps: the   *)
(* check of thread_running, the acquisition of a task object from the      *)
(* synchronized pool, the copy of callback and arguments into it, the      *)
(* push on the synchronized list, and uv_async_send.  One turn of the loop *)
(* in async_task_callback is three: pop and read, pool_release, callback.  *)
(*                                                                         *)
(* libuv, the pool and the list are external.  uv_async_send is modelled   *)
(* by its documented contract: wake-ups coalesce, and the callback runs at *)
(* least once after a send.  The pool zeroes an element when it is         *)
(* acquired (zero_init) and has no element left when memory runs out.      *)
(***************************************************************************)
EXTENDS Naturals, Sequences

CONSTANTS
  Producers,        \* threads that call submit_task
  Slots,            \* task objects the pool can hand out
  MaxSubmits,       \* bound: calls of submit_task made by one producer
  Null              \* the NULL pointer, and the contents of a zeroed object

Tasks == Producers \X (1 .. MaxSubmits)

ASSUME TaskQueueAssumption ==
  /\ MaxSubmits \in Nat
  /\ Null \notin Tasks
  /\ Null \notin Slots

VARIABLES
  running,          \* context->thread_running
  free,             \* task objects lying in async_tasks_pool
  body,             \* callback and arguments stored in each task object
  list,             \* context->tasks
  wake,             \* async_task has been sent and not yet delivered
  halt,             \* async_shutdown has been sent and not yet delivered
  at,               \* where each producer is in submit_task
  slot,             \* the task object each producer works on
  calls,            \* calls of submit_task each producer has begun
  loop,             \* where the plugin thread is
  taken,            \* the object popped last ...
  callback,         \* ... the callback read from it ...
  ran,              \* ... and the tasks whose callback has been called
  owner             \* where the unloading thread is in context_destroy

queueVars == <<free, body, list>>
producerVars == <<at, slot, calls>>
loopVars == <<loop, taken, callback, ran>>
vars == <<running, queueVars, wake, halt, producerVars, loopVars, owner>>

ProducerSteps == {"idle", "acquire", "fill", "push", "send"}
LoopSteps == {"poll", "pop", "release", "call", "returned", "stopped"}
OwnerSteps == {"serving", "signal", "join", "joined"}

TypeOK ==
  /\ running \in BOOLEAN
  /\ free \in SUBSET Slots
  /\ body \in [Slots -> Tasks \cup {Null}]
  /\ list \in Seq(Slots)
  /\ wake \in BOOLEAN
  /\ halt \in BOOLEAN
  /\ at \in [Producers -> ProducerSteps]
  /\ slot \in [Producers -> Slots \cup {Null}]
  /\ calls \in [Producers -> 0 .. MaxSubmits]
  /\ loop \in LoopSteps
  /\ taken \in Slots \cup {Null}
  /\ callback \in Tasks \cup {Null}
  /\ ran \in SUBSET (Tasks \cup {Null})
  /\ owner \in OwnerSteps

\* context_create has just started the plugin thread.
Init ==
  /\ running = TRUE
  /\ free = Slots
  /\ body = [s \in Slots |-> Null]
  /\ list = <<>>
  /\ wake = FALSE
  /\ halt = FALSE
  /\ at = [p \in Producers |-> "idle"]
  /\ slot = [p \in Producers |-> Null]
  /\ calls = [p \in Producers |-> 0]
  /\ loop = "poll"
  /\ taken = Null
  /\ callback = Null
  /\ ran = {}
  /\ owner = "serving"
-----------------------------------------------------------------------------
(* pomelo_webrtc_context_submit_task, called by producer p.                *)

\* The task of the call that p is making: a callback with its arguments.
TaskOf(p) == <<p, calls[p]>>

Goto(p, step) == at' = [at EXCEPT ![p] = step]

\* The check of thread_running: a stopped context refuses the task.
SubmitCheck(p) ==
  /\ at[p] = "idle"
  /\ calls[p] < MaxSubmits
  /\ calls' = [calls EXCEPT ![p] = @ + 1]
  /\ Goto(p, IF running THEN "acquire" ELSE "idle")
  /\ UNCHANGED <<running, queueVars, wake, halt, slot, loopVars, owner>>

\* pomelo_pool_acquire hands out a zeroed object.
SubmitAcquire(p) ==
  /\ at[p] = "acquire"
  /\ \E s \in free :
       /\ free' = free \ {s}
       /\ body' = [body EXCEPT ![s] = Null]
       /\ slot' = [slot EXCEPT ![p] = s]
  /\ Goto(p, "fill")
  /\ UNCHANGED <<running, list, wake, halt, calls, loopVars, owner>>

\* Mutant: the result of pomelo_pool_acquire is not tested.
SubmitNoMemoryUntested(p) ==
  /\ at[p] = "acquire"
  /\ free = {}
  /\ slot' = [slot EXCEPT ![p] = Null]
  /\ Goto(p, "fill")
  /\ UNCHANGED <<running, queueVars, wake, halt, calls, loopVars, owner>>

\* pomelo_pool_acquire fails: submit_task returns NULL.
SubmitNoMemory(p) ==
  /\ at[p] = "acquire"
  /\ free = {}
  /\ Goto(p, "idle")
  /\ UNCHANGED <<running, queueVars, wake, halt, slot, calls, loopVars, owner>>

\* Callback, argc and args are copied into the object.
SubmitFill(p) ==
  /\ at[p] = "fill"
  /\ body' = [body EXCEPT ![slot[p]] = TaskOf(p)]
  /\ Goto(p, "push")
  /\ UNCHANGED <<running, free, list, wake, halt, slot, calls, loopVars, owner>>

\* Mutant: the task is pushed to the front.
SubmitPushFront(p) ==
  /\ at[p] = "push"
  /\ list' = <<slot[p]>> \o list
  /\ Goto(p, "send")
  /\ UNCHANGED <<running, free, body, wake, halt, slot, calls, loopVars, owner>>

\* pomelo_list_push_back.
SubmitPush(p) ==
  /\ at[p] = "push"
  /\ list' = Append(list, slot[p])
  /\ Goto(p, "send")
  /\ UNCHANGED <<running, free, body, wake, halt, slot, calls, loopVars, owner>>

\* Mutant: only the first task of the list wakes the plugin thread.
SubmitSendFirst(p) ==
  /\ at[p] = "send"
  /\ wake' = (wake \/ Len(list) = 1)
  /\ Goto(p, "idle")
  /\ UNCHANGED <<running, queueVars, halt, slot, calls, loopVars, owner>>

\* uv_async_send on async_task.
SubmitSend(p) ==
  /\ at[p] = "send"
  /\ wake' = TRUE
  /\ Goto(p, "idle")
  /\ UNCHANGED <<running, queueVars, halt, slot, calls, loopVars, owner>>

Submit(p) ==
  \/ SubmitCheck(p)
  \/ SubmitAcquire(p)
  \/ SubmitNoMemory(p)
  \/ SubmitFill(p)
  \/ SubmitPush(p)
  \/ SubmitSend(p)
-----------------------------------------------------------------------------
(* The plugin thread: uv_run and pomelo_webrtc_async_task_callback.        *)

\* libuv clears the pending send and calls async_task_callback.
Wake ==
  /\ loop = "poll"
  /\ wake
  /\ wake' = FALSE
  /\ loop' = "pop"
  /\ UNCHANGED <<running, queueVars, halt, producerVars, taken, callback, ran, owner>>

\* Mutant: the task is released when it is popped, and again later.
PopTaskReleases ==
  /\ loop = "pop"
  /\ list # <<>>
  /\ taken' = Head(list)
  /\ callback' = body[Head(list)]
  /\ list' = Tail(list)
  /\ free' = free \cup {Head(list)}
  /\ loop' = "release"
  /\ UNCHANGED <<running, body, wake, halt, producerVars, ran, owner>>

\* A task is popped; its callback and the address of its args are read.
PopTask ==
  /\ loop = "pop"
  /\ list # <<>>
  /\ taken' = Head(list)
  /\ callback' = body[Head(list)]
  /\ list' = Tail(list)
  /\ loop' = "release"
  /\ UNCHANGED <<running, free, body, wake, halt, producerVars, ran, owner>>

\* The list is empty: async_task_callback returns to the event loop.
PopNothing ==
  /\ loop = "pop"
  /\ list = <<>>
  /\ loop' = "poll"
  /\ UNCHANGED <<running, queueVars, wake, halt, producerVars, taken, callback, ran, owner>>

\* pomelo_pool_release, before the callback is called.
ReleaseTask ==
  /\ loop = "release"
  /\ free' = free \cup {taken}
  /\ loop' = "call"
  /\ UNCHANGED <<running, body, list, wake, halt, producerVars, taken, callback, ran, owner>>

\* Mutant: one task is run for one wake-up.
CallTaskReturns ==
  /\ loop = "call"
  /\ ran' = ran \cup {callback}
  /\ loop' = "poll"
  /\ UNCHANGED <<running, queueVars, wake, halt, producerVars, taken, callback, owner>>

\* callback(argc, args): the arguments are read from the object again.
CallTask ==
  /\ loop = "call"
  /\ ran' = ran \cup {callback}
  /\ loop' = "pop"
  /\ UNCHANGED <<running, queueVars, wake, halt, producerVars, taken, callback, owner>>

\* async_shutdown_callback: uv_stop, and uv_run returns.
StopLoop ==
  /\ loop = "poll"
  /\ halt
  /\ halt' = FALSE
  /\ loop' = "returned"
  /\ UNCHANGED <<running, queueVars, wake, producerVars, taken, callback, ran, owner>>

\* thread_entry stores thread_running = false and the thread ends.
ThreadExit ==
  /\ loop = "returned"
  /\ running' = FALSE
  /\ loop' = "stopped"
  /\ UNCHANGED <<queueVars, wake, halt, producerVars, taken, callback, ran, owner>>

PluginThread ==
  \/ Wake
  \/ PopTask
  \/ PopNothing
  \/ ReleaseTask
  \/ CallTask
  \/ StopLoop
  \/ ThreadExit
-----------------------------------------------------------------------------
(* pomelo_webrtc_thread_shutdown, called first by context_destroy.         *)

\* Mutant: the thread is joined without being told to stop.
ShutdownExchangeJoins ==
  /\ owner = "serving"
  /\ running' = FALSE
  /\ owner' = IF running THEN "join" ELSE "joined"
  /\ UNCHANGED <<queueVars, wake, halt, producerVars, loopVars>>

\* Compare-exchange of thread_running; a stopped thread is not joined again.
ShutdownExchange ==
  /\ owner = "serving"
  /\ running' = FALSE
  /\ owner' = IF running THEN "signal" ELSE "joined"
  /\ UNCHANGED <<queueVars, wake, halt, producerVars, loopVars>>

\* uv_async_send on async_shutdown.
ShutdownSignal ==
  /\ owner = "signal"
  /\ halt' = TRUE
  /\ owner' = "join"
  /\ UNCHANGED <<running, queueVars, wake, producerVars, loopVars>>

\* uv_thread_join returns when the plugin thread has ended.
ShutdownJoin ==
  /\ owner = "join"
  /\ loop = "stopped"
  /\ owner' = "joined"
  /\ UNCHANGED <<running, queueVars, wake, halt, producerVars, loopVars>>

Shutdown == ShutdownExchange \/ ShutdownSignal \/ ShutdownJoin
-----------------------------------------------------------------------------
Next == (\E p \in Producers : Submit(p)) \/ PluginThread \/ Shutdown

(* A thread that has begun a call goes on with it, the event loop never    *)
(* rests while it has something to deliver and in every iteration delivers *)
(* all pending sends, and an unload that has begun is carried through.     *)
(* Nobody has to begin a call or an unload.                                *)
Fairness ==
  /\ \A p \in Producers :
       WF_vars(SubmitAcquire(p) \/ SubmitNoMemory(p) \/ SubmitFill(p)
               \/ SubmitPush(p) \/ SubmitSend(p))
  /\ WF_vars(PluginThread)
  /\ SF_vars(StopLoop)
  /\ WF_vars(ShutdownSignal \/ ShutdownJoin)

Spec == Init /\ [][Next]_vars

FairSpec == Spec /\ Fairness
-----------------------------------------------------------------------------
(* Properties.                                                             *)

\* The plugin thread is inside async_task_callback.
Draining == loop \in {"pop", "release", "call"}

Stopped == loop \in {"returned", "stopped"}

\* No wake-up is lost between push_back and the end of a drain
\* (context.c:395-396 against 614-628): while a task is queued and the event
\* loop has not been stopped, a send is pending, some producer is about to
\* send, or async_task_callback is still popping.
NoLostWakeup ==
  list # <<>> /\ ~Stopped =>
    \/ wake
    \/ Draining
    \/ \E p \in Producers : at[p] = "send"

\* Producer p holds its task object: acquired and not yet pushed.
Holds(p) == at[p] \in {"fill", "push"}

Queued == {list[i] : i \in 1 .. Len(list)}

ListDistinct ==
  \A i, j \in 1 .. Len(list) : list[i] = list[j] => i = j

FreeNotQueued == free \cap Queued = {}

HeldApart ==
  \A p \in Producers : Holds(p) =>
    /\ slot[p] \in Slots
    /\ slot[p] \notin free
    /\ slot[p] \notin Queued
    /\ \A q \in Producers : Holds(q) /\ slot[q] = slot[p] => q = p

TakenApart ==
  loop = "release" =>
    /\ taken \in Slots
    /\ taken \notin free
    /\ taken \notin Queued
    /\ \A p \in Producers : Holds(p) => slot[p] # taken

\* A task object has one owner at a time (context.c:383, 395, 621, 625): it
\* lies in the pool, or one producer fills it, or it is queued once, or the
\* plugin thread has popped it.
OneOwner == ListDistinct /\ FreeNotQueued /\ HeldApart /\ TakenApart

\* The tasks accepted and not yet run, oldest first.
Pending ==
  (IF loop \in {"release", "call"} THEN <<callback>> ELSE <<>>)
    \o [i \in 1 .. Len(list) |-> body[list[i]]]

Fifo == INSTANCE TaskFifo
  WITH queue <- Pending,
       accepted <- ran \cup {Pending[i] : i \in 1 .. Len(Pending)},
       stopped <- Stopped

\* submit_task and async_task_callback implement the FIFO of module TaskFifo:
\* a pushed callback runs exactly once, in the order of push_back, whatever
\* the threads' interleaving, and none runs after uv_stop.
FifoOrder == Fifo!Spec

\* Every task whose push_back happened is run, or the loop was stopped first
\* (context.c:395 leads to 626).
EveryTaskRuns ==
  \A t \in Tasks :
    (\E i \in 1 .. Len(Pending) : Pending[i] = t) ~> (t \in ran \/ Stopped)

\* An unload that has begun ends: thread_shutdown returns from uv_thread_join
\* (context.c:597-611).
ShutdownEnds == (owner # "serving") ~> (owner = "joined")

\* What context.h:91 and 143 say of a submitted task: it runs in the event
\* loop with its own "Array of arguments".
ArgumentsIntact == loop = "call" => body[taken] = callback
=============================================================================
