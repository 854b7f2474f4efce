------------------------------ MODULE Context -------------------------------
(***************************************************************************)
(* Creation and destruction of the plugin context (src/plugin.c,           *)
(* src/context.c), and the threads that use its parts meanwhile.           *)
(*                                                                         *)
(* The native thread creates the parts one after the other, starts the     *)
(* plugin thread, and later stops and joins it and destroys the parts in   *)
(* the order of their creation.  A part that cannot be created starts the  *)
(* destruction early.  RTC threads are inside context_submit_task, whose   *)
(* steps are those of module TaskQueue, and need the list and the pool of  *)
(* tasks; worker threads run a spawned task, which lies in a pool of the   *)
(* context, and submit a task at its end.                                  *)
(*                                                                         *)
(* rtc_context_destroy waits for libdatachannel's threads, ten seconds at  *)
(* most.  Nothing waits for the worker threads of libuv.                   *)
(***************************************************************************)
EXTENDS Naturals

CONSTANTS
  Callers,          \* RTC threads
  Works,            \* worker task objects
  Faults            \* which failures and behaviours may happen

FaultKinds ==
  { "memory",       \* a part cannot be created, the thread not started
    "slow",         \* the wait of rtc_context_destroy runs out
    "working" }     \* the plugin is unloaded while a worker task runs

ASSUME ContextAssumption == Faults \subseteq FaultKinds

\* The parts in the order of their creation: rtc_context, socket_map, the
\* pools of string buffers, connect tokens, sockets, sessions and channels,
\* the list of tasks, and the pools of async, scheduled and worker tasks and of
\* receive commands.
Last == 12
RtcPart == 1
TaskParts == {8, 9}
WorkPart == 11

VARIABLES
  life,             \* what the native thread does with the context
  created,          \* parts 1 .. created have been created ...
  destroyed,        \* ... and the first destroyed of them destroyed again
  running,          \* context->thread_running
  thread,           \* the plugin thread
  caller,           \* RTC threads inside submit_task, after its check
  work              \* the worker task objects

vars == <<life, created, destroyed, running, thread, caller, work>>

TypeOK ==
  /\ life \in {"none", "creating", "serving", "shutdown", "destroying", "freed",
              "failed"}
  /\ created \in 0 .. Last
  /\ destroyed \in 0 .. Last
  /\ running \in BOOLEAN
  /\ thread \in {"none", "running", "ended"}
  /\ caller \in [Callers -> {"out", "in"}]
  /\ work \in [Works -> {"pooled", "working", "complete", "spent"}]

\* Part i is there: context_destroy finds its pointer set and what it points to
\* exists.
Exists(i) == destroyed < i /\ i <= created

Init ==
  /\ life = "none"
  /\ created = 0
  /\ destroyed = 0
  /\ running = FALSE
  /\ thread = "none"
  /\ caller = [c \in Callers |-> "out"]
  /\ work = [w \in Works |-> "pooled"]
-----------------------------------------------------------------------------
(* The native thread: context_create.                                      *)

\* pomelo_webrtc_entry: the context itself is allocated.
Entry ==
  /\ life = "none"
  /\ life' = "creating"
  /\ UNCHANGED <<created, destroyed, running, thread, caller, work>>

CreatePart ==
  /\ life = "creating"
  /\ created < Last
  /\ created' = created + 1
  /\ UNCHANGED <<life, destroyed, running, thread, caller, work>>

\* A part cannot be created, or the thread cannot be started: context_destroy,
\* which finds no thread to stop.
CreateFails ==
  /\ "memory" \in Faults
  /\ life = "creating"
  /\ life' = "destroying"
  /\ UNCHANGED <<created, destroyed, running, thread, caller, work>>

StartThread ==
  /\ life = "creating"
  /\ created = Last
  /\ running' = TRUE
  /\ thread' = "running"
  /\ life' = "serving"
  /\ UNCHANGED <<created, destroyed, caller, work>>

Create == Entry \/ CreatePart \/ CreateFails \/ StartThread
-----------------------------------------------------------------------------
(* RTC threads, worker threads and the plugin thread.                      *)

\* submit_task finds thread_running set ...
CallerEnters(c) ==
  /\ running
  /\ caller[c] = "out"
  /\ caller' = [caller EXCEPT ![c] = "in"]
  /\ UNCHANGED <<life, created, destroyed, running, thread, work>>

\* ... and has pushed its task and sent the wake-up.
CallerLeaves(c) ==
  /\ caller[c] = "in"
  /\ caller' = [caller EXCEPT ![c] = "out"]
  /\ UNCHANGED <<life, created, destroyed, running, thread, work>>

\* context_spawn_task, called on the plugin thread.
Spawn(w) ==
  /\ running /\ thread = "running"
  /\ work[w] = "pooled"
  /\ work' = [work EXCEPT ![w] = "working"]
  /\ UNCHANGED <<life, created, destroyed, running, thread, caller>>

\* worker_task_process has returned.
WorkEnds(w) ==
  /\ work[w] = "working"
  /\ work' = [work EXCEPT ![w] = "complete"]
  /\ UNCHANGED <<life, created, destroyed, running, thread, caller>>

\* worker_task_callback, on the plugin thread: the task object is not released.
WorkCallback(w) ==
  /\ thread = "running"
  /\ work[w] = "complete"
  /\ work' = [work EXCEPT ![w] = "spent"]
  /\ UNCHANGED <<life, created, destroyed, running, thread, caller>>

\* Mutant: the plugin thread looks at thread_running before it ends.
ThreadEndsIfRunning ==
  /\ life = "shutdown"
  /\ thread = "running" /\ running
  /\ thread' = "ended"
  /\ UNCHANGED <<life, created, destroyed, running, caller, work>>

\* async_shutdown has been sent: uv_run returns and the thread ends.
ThreadEnds ==
  /\ life = "shutdown"
  /\ thread = "running"
  /\ thread' = "ended"
  /\ UNCHANGED <<life, created, destroyed, running, caller, work>>

Threads ==
  \/ \E c \in Callers : CallerEnters(c) \/ CallerLeaves(c)
  \/ \E w \in Works : Spawn(w) \/ WorkEnds(w) \/ WorkCallback(w)
  \/ ThreadEnds
-----------------------------------------------------------------------------
(* The native thread: context_destroy.                                     *)

\* pomelo_webrtc_on_unload and the compare-exchange of thread_shutdown.
Unload ==
  /\ life = "serving"
  /\ "working" \in Faults \/ \A w \in Works : work[w] # "working"
  /\ life' = "shutdown"
  /\ running' = FALSE
  /\ UNCHANGED <<created, destroyed, thread, caller, work>>

\* Mutant: the thread is not joined.
JoinSkipped ==
  /\ life = "shutdown"
  /\ life' = "destroying"
  /\ UNCHANGED <<created, destroyed, running, thread, caller, work>>

\* uv_thread_join returns.
Join ==
  /\ life = "shutdown"
  /\ thread = "ended"
  /\ life' = "destroying"
  /\ UNCHANGED <<created, destroyed, running, thread, caller, work>>

\* Mutant: rtc_context_destroy does not wait.
DestroyRtcAtOnce ==
  /\ life = "destroying"
  /\ destroyed = 0
  /\ destroyed' = RtcPart
  /\ UNCHANGED <<life, created, running, thread, caller, work>>

\* rtc_context_destroy: no callback of libdatachannel runs any more, unless it
\* took longer than the wait.
DestroyRtc ==
  /\ life = "destroying"
  /\ destroyed = 0
  /\ "slow" \in Faults \/ \A c \in Callers : caller[c] = "out"
  /\ destroyed' = RtcPart
  /\ UNCHANGED <<life, created, running, thread, caller, work>>

\* Mutant: one part too many.
DestroyPartPastEnd ==
  /\ life = "destroying"
  /\ destroyed \in RtcPart .. Last
  /\ destroyed' = destroyed + 1
  /\ UNCHANGED <<life, created, running, thread, caller, work>>

\* The next part is destroyed, or skipped because it is NULL.
DestroyPart ==
  /\ life = "destroying"
  /\ destroyed \in RtcPart .. Last - 1
  /\ destroyed' = destroyed + 1
  /\ UNCHANGED <<life, created, running, thread, caller, work>>

\* The context itself is freed, with the allocator that context_create never
\* stored: what an allocator that is NULL does with it is not known.  The event
\* loop and its two handles, which are part of the context and no parts of the
\* count, are not closed before.
Free ==
  /\ life = "destroying"
  /\ destroyed = Last
  /\ life' \in {"freed", "failed"}
  /\ UNCHANGED <<created, destroyed, running, thread, caller, work>>

Destroy == Unload \/ Join \/ DestroyRtc \/ DestroyPart \/ Free
-----------------------------------------------------------------------------
Next == Create \/ Threads \/ Destroy

(* Creation and destruction go on, the plugin thread ends when it is told  *)
(* to, and a call of submit_task or a worker task that has begun ends.     *)
(* Nobody has to unload the plugin.                                        *)
Fairness ==
  /\ WF_vars(CreatePart)
  /\ WF_vars(StartThread)
  /\ WF_vars(Join \/ DestroyRtc \/ DestroyPart \/ Free)
  /\ WF_vars(ThreadEnds)
  /\ \A c \in Callers : WF_vars(CallerLeaves(c))
  /\ \A w \in Works : WF_vars(WorkEnds(w))

Spec == Init /\ [][Next]_vars

FairSpec == Spec /\ Fairness
-----------------------------------------------------------------------------
(* Properties.                                                             *)

\* Whoever uses a part finds it (context.c:293-361 against 364-399, 464-509,
\* 646): a caller that passed the check of thread_running finds the list and
\* the pool of tasks, and a worker its task object, whenever the plugin is
\* unloaded or a creation fails.  It holds when libdatachannel's threads are
\* gone in time and no worker runs at the unload.
UsersFindParts ==
  /\ \A c \in Callers : caller[c] = "in" => \A i \in TaskParts : Exists(i)
  /\ \A w \in Works : work[w] = "working" => Exists(WorkPart)

\* The plugin thread runs in a context that is complete (context.c:293-361):
\* no part of it goes while handlers run.
ThreadFindsAll == thread = "running" => \A i \in 1 .. Last : Exists(i)

\* Creation comes to an end, and an unload comes to the free of the context
\* (context.c:293), which may be the last thing the process does.
UnloadEnds ==
  /\ life = "creating" ~> life # "creating"
  /\ life \in {"shutdown", "destroying"} ~> life \in {"freed", "failed"}
=============================================================================
