------------------------------ MODULE TaskFifo ------------------------------
(***************************************************************************)
(* What the plugin context promises to the threads that hand work to it:   *)
(* a task is either refused, or queued once and then run once, in queue    *)
(* order, by the plugin thread.  After a shutdown the queue stands still   *)
(* and the tasks that are left in it never run.                            *)
(***************************************************************************)
EXTENDS Sequences

CONSTANT Tasks      \* the tasks callers may submit

VARIABLES
  queue,            \* tasks accepted and not yet run, oldest first
  accepted,         \* every task that was ever accepted
  ran,              \* every task that was ever run
  stopped           \* the plugin thread has left its event loop

vars == <<queue, accepted, ran, stopped>>

Init ==
  /\ queue = <<>>
  /\ accepted = {}
  /\ ran = {}
  /\ stopped = FALSE

\* A caller's task is accepted.
Submit(t) ==
  /\ t \notin accepted
  /\ queue' = Append(queue, t)
  /\ accepted' = accepted \cup {t}
  /\ UNCHANGED <<ran, stopped>>

\* The plugin thread runs the oldest accepted task.
RunTask ==
  /\ ~stopped
  /\ queue # <<>>
  /\ ran' = ran \cup {Head(queue)}
  /\ queue' = Tail(queue)
  /\ UNCHANGED <<accepted, stopped>>

\* The plugin thread leaves its event loop.
Stop ==
  /\ ~stopped
  /\ stopped' = TRUE
  /\ UNCHANGED <<queue, accepted, ran>>

Next == (\E t \in Tasks : Submit(t)) \/ RunTask \/ Stop

Spec == Init /\ [][Next]_vars
=============================================================================
