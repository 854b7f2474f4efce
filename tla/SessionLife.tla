----------------------------- MODULE SessionLife ----------------------------
(***************************************************************************)
(* What a session promises the native library and the application: a       *)
(* native session is asked for at most once, its answer is taken, and it   *)
(* ends when the session is closed, also when the session was closed       *)
(* before the answer, or even before the question: the last open event of  *)
(* a channel may be handled after the close (session.c:221).  Module       *)
(* Session implements this.                                                *)
(***************************************************************************)

VARIABLES
  open,             \* the session is active
  native,           \* its native session
  failed            \* the process has failed

vars == <<open, native, failed>>

Natives ==
  { "none",         \* not asked for
    "asked",        \* the native thread is asked for it
    "answered",     \* it lives, and the session does not know yet
    "refused",      \* there is none, and the session does not know yet
    "attached",     \* the session has it
    "ending",       \* the native thread is asked to destroy it
    "over" }

TypeOK == open \in BOOLEAN /\ native \in Natives /\ failed \in BOOLEAN

Init == open = TRUE /\ native = "none" /\ failed = FALSE

Ask ==
  /\ native = "none"
  /\ native' = "asked"
  /\ UNCHANGED open

Answer ==
  /\ native = "asked"
  /\ native' \in {"answered", "refused"}
  /\ UNCHANGED open

Attach ==
  /\ native = "answered"
  /\ native' = "attached"
  /\ UNCHANGED open

\* A late answer may be taken and given up in one step.
GiveUp ==
  /\ ~open /\ native = "answered"
  /\ native' = "ending"
  /\ UNCHANGED open

\* Without a native session the session closes.
Refused ==
  /\ native = "refused"
  /\ native' = "over"
  /\ open' = FALSE

Close ==
  /\ open
  /\ open' = FALSE
  /\ native' = IF native = "attached" THEN "ending" ELSE native

\* A closed session that took a late answer gives the native session up when it
\* is released.
Release ==
  /\ ~open /\ native = "attached"
  /\ native' = "ending"
  /\ UNCHANGED open

Destroy ==
  /\ native = "ending"
  /\ native' = "over"
  /\ UNCHANGED open

\* While the process runs.
Runs(A) == ~failed /\ A /\ UNCHANGED failed

\* Nothing is promised after a failure.
Fail ==
  /\ ~failed /\ failed' = TRUE
  /\ open' \in BOOLEAN /\ native' \in Natives

Next ==
  \/ Runs(Ask \/ Answer \/ Attach \/ GiveUp \/ Refused)
  \/ Runs(Close \/ Release \/ Destroy)
  \/ Fail

\* Every question is answered, every answer taken, and the native session of a
\* closed session destroyed.
Fairness ==
  /\ WF_vars(Runs(Answer))
  /\ WF_vars(Runs(Attach \/ GiveUp \/ Refused))
  /\ WF_vars(Runs(Release))
  /\ WF_vars(Runs(Destroy))

Spec == Init /\ [][Next]_vars /\ Fairness
=============================================================================
