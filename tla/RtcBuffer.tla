------------------------------ MODULE RtcBuffer ------------------------------
(***************************************************************************)
(* The reference count of message buffers (src/rtc-api/rtc-buffer.cpp) on  *)
(* the way of a message from a data channel to the application: the RTC    *)
(* thread acquires a buffer and hands it to a task, the plugin thread hands*)
(* it from the task to a receive command, and the command is completed     *)
(* after the native thread has read it.                                    *)
(*                                                                         *)
(* RTCBuffer::unref adds to the counter what it should subtract; the model *)
(* does as the code does.                                                  *)
(***************************************************************************)
EXTENDS Naturals, FiniteSets

CONSTANT Buffers

Holders == {"rtc", "task", "command", "lost"}

VARIABLES
  count,            \* ref_counter of each buffer
  pooled,           \* the buffer lies in the pool
  holders,          \* who has a reference to give up; a lost one stays
  called            \* the RTC thread has called on_message

vars == <<count, pooled, holders, called>>

Init ==
  /\ count = [b \in Buffers |-> 0]
  /\ pooled = [b \in Buffers |-> TRUE]
  /\ holders = [b \in Buffers |-> {}]
  /\ called = [b \in Buffers |-> FALSE]

\* RTCBuffer::ref leaves a counter of 0 alone.
Ref(n) == IF n = 0 THEN 0 ELSE n + 1

\* RTCBuffer::unref: the counter after it.
Unref(n) == n + 1

\* The counter of b becomes n and is then unreferenced; the buffer goes back
\* to the pool when unref has read 1.
Drops(b, n) ==
  /\ count' = [count EXCEPT ![b] = Unref(n)]
  /\ pooled' = [pooled EXCEPT ![b] = @ \/ n = 1]

Passes(b, gone, new) == holders' = [holders EXCEPT ![b] = (@ \ gone) \cup new]

\* RTCBufferPool::acquire in RTCDataChannel::on_message_binary.
Acquire(b) ==
  /\ pooled[b]
  /\ pooled' = [pooled EXCEPT ![b] = FALSE]
  /\ count' = [count EXCEPT ![b] = 1]
  /\ holders' = [holders EXCEPT ![b] = {"rtc"}]
  /\ called' = [called EXCEPT ![b] = FALSE]

Calls(b) ==
  /\ "rtc" \in holders[b] /\ ~called[b]
  /\ called' = [called EXCEPT ![b] = TRUE]

\* pomelo_webrtc_dc_on_message: the task that was submitted has a reference.
OnMessage(b) ==
  /\ Calls(b)
  /\ count' = [count EXCEPT ![b] = Ref(@)]
  /\ Passes(b, {}, {"task"})
  /\ UNCHANGED pooled

\* The task was refused: its reference is dropped again.
OnMessageRefused(b) ==
  /\ Calls(b)
  /\ Drops(b, Ref(count[b]))
  /\ UNCHANGED holders

\* RTCDataChannel::on_message_binary ends.
RtcUnref(b) ==
  /\ "rtc" \in holders[b] /\ called[b]
  /\ Drops(b, count[b])
  /\ Passes(b, {"rtc"}, {})
  /\ UNCHANGED called

\* dc_on_message_callback returns early: no channel, or not its incoming one.
\* The task's reference is lost.
TaskReturnsEarly(b) ==
  /\ "task" \in holders[b]
  /\ Passes(b, {"task"}, {"lost"})
  /\ UNCHANGED <<count, pooled, called>>

\* dc_on_message_callback for a channel that does not receive, and at the end.
TaskUnref(b) ==
  /\ "task" \in holders[b]
  /\ Drops(b, count[b])
  /\ Passes(b, {"task"}, {})
  /\ UNCHANGED called

\* channel_receive: the command references the buffer, then the task is done.
TaskReceives(b) ==
  /\ "task" \in holders[b]
  /\ Drops(b, Ref(count[b]))
  /\ Passes(b, {"task"}, {"command"})
  /\ UNCHANGED called

\* channel_receive without a command: two references are dropped.
TaskReceiveRefused(b) ==
  /\ "task" \in holders[b]
  /\ Drops(b, Unref(Ref(count[b])))
  /\ Passes(b, {"task"}, {})
  /\ UNCHANGED called

\* channel_receive_complete
ReceiveComplete(b) ==
  /\ "command" \in holders[b]
  /\ Drops(b, count[b])
  /\ Passes(b, {"command"}, {})
  /\ UNCHANGED called

Next ==
  \E b \in Buffers :
    \/ Acquire(b)
    \/ OnMessage(b)
    \/ OnMessageRefused(b)
    \/ RtcUnref(b)
    \/ TaskReturnsEarly(b)
    \/ TaskUnref(b)
    \/ TaskReceives(b)
    \/ TaskReceiveRefused(b)
    \/ ReceiveComplete(b)

Spec == Init /\ [][Next]_vars
-----------------------------------------------------------------------------
\* What rtc-api.h:431 says of unref, "Decrease reference of buffer": the
\* counter of a buffer in use is the number of references to it.
CounterCounts ==
  \A b \in Buffers : ~pooled[b] => count[b] = Cardinality(holders[b])
=============================================================================
