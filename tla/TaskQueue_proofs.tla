-------------------------- MODULE TaskQueue_proofs --------------------------
(***************************************************************************)
(* Proofs about the plugin context's task queue, for any number of         *)
(* producers, of task objects and of submitted tasks.                      *)
(***************************************************************************)
EXTENDS TaskQueue, TLAPS

\* A producer inside submit_task has begun a call, so its task is numbered;
\* a producer that has acquired and a plugin thread that has popped have an
\* object in hand.  Typing depends on it.
Begun ==
  /\ \A p \in Producers : at[p] # "idle" => calls[p] \in 1 .. MaxSubmits
  /\ \A p \in Producers : Holds(p) => slot[p] \in Slots
  /\ loop = "release" => taken \in Slots

\* Every step of the three parties keeps the variables in their types.
LEMMA TypeStep == TypeOK /\ Begun /\ [Next]_vars => TypeOK' /\ Begun'
<1> SUFFICES ASSUME TypeOK, Begun, [Next]_vars
             PROVE  TypeOK' /\ Begun'
  OBVIOUS
<1> USE TaskQueueAssumption DEF TypeOK, Begun, Holds, ProducerSteps, LoopSteps, OwnerSteps
<1>1. ASSUME NEW p \in Producers, SubmitCheck(p)
      PROVE  TypeOK' /\ Begun'
  BY <1>1 DEF SubmitCheck, Goto, queueVars, loopVars
<1>2. ASSUME NEW p \in Producers, SubmitAcquire(p)
      PROVE  TypeOK' /\ Begun'
  BY <1>2 DEF SubmitAcquire, Goto, loopVars
<1>3. ASSUME NEW p \in Producers, SubmitNoMemory(p)
      PROVE  TypeOK' /\ Begun'
  BY <1>3 DEF SubmitNoMemory, Goto, queueVars, loopVars
<1>4. ASSUME NEW p \in Producers, SubmitFill(p)
      PROVE  TypeOK' /\ Begun'
  BY <1>4 DEF SubmitFill, Goto, TaskOf, Tasks, loopVars
<1>5. ASSUME NEW p \in Producers, SubmitPush(p)
      PROVE  TypeOK' /\ Begun'
  BY <1>5 DEF SubmitPush, Goto, loopVars
<1>6. ASSUME NEW p \in Producers, SubmitSend(p)
      PROVE  TypeOK' /\ Begun'
  BY <1>6 DEF SubmitSend, Goto, queueVars, loopVars
<1>7. CASE PluginThread
  <2>1. CASE PopTask
    BY <1>7, <2>1 DEF PopTask, producerVars
  <2>2. CASE ReleaseTask
    BY <1>7, <2>2 DEF ReleaseTask, producerVars
  <2>3. CASE CallTask
    BY <1>7, <2>3 DEF CallTask, queueVars, producerVars
  <2>4. CASE Wake \/ PopNothing \/ StopLoop \/ ThreadExit
    BY <1>7, <2>4 DEF Wake, PopNothing, StopLoop, ThreadExit, queueVars,
                     producerVars
  <2>5. QED
    BY <1>7, <2>1, <2>2, <2>3, <2>4 DEF PluginThread
<1>8. CASE Shutdown
  BY <1>8 DEF Shutdown, ShutdownExchange, ShutdownSignal, ShutdownJoin,
              queueVars, producerVars, loopVars
<1>9. CASE UNCHANGED vars
  BY <1>9 DEF vars, queueVars, producerVars, loopVars
<1>10. QED
  BY <1>1, <1>2, <1>3, <1>4, <1>5, <1>6, <1>7, <1>8, <1>9 DEF Next, Submit

\* Typing holds initially and is kept, so it holds throughout.
LEMMA Typing == Spec => [](TypeOK /\ Begun)
<1>1. Init => TypeOK /\ Begun
  <2> SUFFICES ASSUME Init PROVE TypeOK /\ Begun
    OBVIOUS
  <2>1. TypeOK
    <3>1. /\ free \in SUBSET Slots
          /\ body \in [Slots -> Tasks \cup {Null}]
          /\ list \in Seq(Slots)
      BY DEF Init
    <3>2. /\ running \in BOOLEAN /\ wake \in BOOLEAN /\ halt \in BOOLEAN
          /\ at \in [Producers -> ProducerSteps]
          /\ slot \in [Producers -> Slots \cup {Null}]
      BY DEF Init, ProducerSteps
    <3>3. calls \in [Producers -> 0 .. MaxSubmits]
      BY TaskQueueAssumption DEF Init
    <3>4. /\ loop \in LoopSteps
          /\ taken \in Slots \cup {Null}
          /\ callback \in Tasks \cup {Null}
          /\ ran \in SUBSET (Tasks \cup {Null})
          /\ owner \in OwnerSteps
      BY DEF Init, LoopSteps, OwnerSteps
    <3>5. QED
      BY <3>1, <3>2, <3>3, <3>4 DEF TypeOK
  <2>2. Begun
    BY DEF Init, Begun, Holds
  <2>3. QED
    BY <2>1, <2>2
<1>2. QED
  BY <1>1, TypeStep, PTL DEF Spec

\* The variables of the task queue always have their types.
THEOREM TypeCorrect == Spec => []TypeOK
  BY Typing, PTL
-----------------------------------------------------------------------------
\* No step loses a wake-up.  The cases that matter: a push leaves its
\* producer before its send; a delivered send starts a drain; a drain ends
\* only on an empty list.
LEMMA WakeupStep == TypeOK /\ NoLostWakeup /\ [Next]_vars => NoLostWakeup'
<1> SUFFICES ASSUME TypeOK, NoLostWakeup, [Next]_vars
             PROVE  NoLostWakeup'
  OBVIOUS
<1> USE DEF NoLostWakeup, Stopped, Draining
<1>1. ASSUME NEW p \in Producers,
             SubmitCheck(p) \/ SubmitAcquire(p) \/ SubmitNoMemory(p)
               \/ SubmitFill(p)
      PROVE  NoLostWakeup'
  BY <1>1 DEF TypeOK, SubmitCheck, SubmitAcquire, SubmitNoMemory, SubmitFill,
              Goto, queueVars, loopVars
<1>2. ASSUME NEW p \in Producers, SubmitPush(p)
      PROVE  NoLostWakeup'
  BY <1>2 DEF TypeOK, SubmitPush, Goto
<1>3. ASSUME NEW p \in Producers, SubmitSend(p)
      PROVE  NoLostWakeup'
  BY <1>3 DEF TypeOK, SubmitSend, Goto, queueVars, loopVars
<1>4. CASE PluginThread
  BY <1>4 DEF PluginThread, Wake, PopTask, PopNothing, ReleaseTask, CallTask,
              StopLoop, ThreadExit, queueVars, producerVars
<1>5. CASE Shutdown
  BY <1>5 DEF Shutdown, ShutdownExchange, ShutdownSignal, ShutdownJoin,
              queueVars, producerVars, loopVars
<1>6. CASE UNCHANGED vars
  BY <1>6 DEF vars, queueVars, producerVars, loopVars
<1>7. QED
  BY <1>1, <1>2, <1>3, <1>4, <1>5, <1>6 DEF Next, Submit

\* uv_async_send after push_back is enough: for any number of producers a
\* queued task is never left without a send, a sender or a running drain.
THEOREM WakeupNotLost == Spec => []NoLostWakeup
<1>1. Init => NoLostWakeup
  BY DEF Init, NoLostWakeup
<1>2. QED
  BY <1>1, Typing, WakeupStep, PTL DEF Spec
-----------------------------------------------------------------------------
\* push_back puts one object at the end of the list and moves no other.
LEMMA PushedList ==
  ASSUME NEW l \in Seq(Slots), NEW s \in Slots
  PROVE  /\ Append(l, s) \in Seq(Slots)
         /\ Len(Append(l, s)) = Len(l) + 1
         /\ \A i \in 1 .. Len(l) : Append(l, s)[i] = l[i]
         /\ Append(l, s)[Len(l) + 1] = s
  OBVIOUS

\* pop_front takes the first object and moves each other up by one.
LEMMA PoppedList ==
  ASSUME NEW l \in Seq(Slots), l # <<>>
  PROVE  /\ Tail(l) \in Seq(Slots)
         /\ Len(l) \in Nat /\ Len(l) > 0
         /\ Len(Tail(l)) = Len(l) - 1
         /\ Head(l) = l[1] /\ Head(l) \in Slots
         /\ \A i \in 1 .. Len(Tail(l)) : Tail(l)[i] = l[i + 1]
  OBVIOUS

\* A task object changes hands, it is never shared: acquire takes it from the
\* pool, push_back moves it to the list, pop_front to the plugin thread and
\* pool_release back to the pool.
LEMMA OwnerStep ==
  TypeOK /\ Begun /\ OneOwner /\ [Next]_vars => OneOwner'
<1> SUFFICES ASSUME TypeOK, Begun, OneOwner, [Next]_vars
             PROVE  OneOwner'
  OBVIOUS
<1> USE DEF OneOwner, ListDistinct, FreeNotQueued, HeldApart, TakenApart, Holds,
            Queued
<1>1. ASSUME NEW p \in Producers,
             SubmitCheck(p) \/ SubmitNoMemory(p) \/ SubmitSend(p)
      PROVE  OneOwner'
  BY <1>1 DEF TypeOK, SubmitCheck, SubmitNoMemory, SubmitSend, Goto, queueVars,
              loopVars
<1>2. ASSUME NEW p \in Producers, SubmitAcquire(p)
      PROVE  OneOwner'
  BY <1>2 DEF TypeOK, SubmitAcquire, Goto, loopVars
<1>3. ASSUME NEW p \in Producers, SubmitFill(p)
      PROVE  OneOwner'
  BY <1>3 DEF TypeOK, SubmitFill, Goto, loopVars
<1>4. ASSUME NEW p \in Producers, SubmitPush(p)
      PROVE  OneOwner'
  <2>1. /\ slot[p] \in Slots /\ Holds(p)
        /\ list' = Append(list, slot[p])
        /\ at' = [at EXCEPT ![p] = "send"]
        /\ UNCHANGED <<free, slot, loop, taken>>
    BY <1>4 DEF SubmitPush, Goto, loopVars, Begun
  <2>2. /\ Len(list') = Len(list) + 1 /\ Len(list) \in Nat
        /\ \A i \in 1 .. Len(list) : list'[i] = list[i]
        /\ list'[Len(list) + 1] = slot[p]
    BY <2>1, PushedList DEF TypeOK
  <2>3. Queued' = Queued \cup {slot[p]}
    BY <2>2
  <2>4. ListDistinct'
    BY <2>1, <2>2
  <2>5. FreeNotQueued'
    BY <2>1, <2>3
  <2>6. HeldApart'
    BY <2>1, <2>3 DEF TypeOK
  <2>7. TakenApart'
    BY <2>1, <2>3 DEF TypeOK
  <2>8. QED
    BY <2>4, <2>5, <2>6, <2>7
<1>5. CASE PopTask
  <2>1. /\ taken' = Head(list) /\ list' = Tail(list) /\ loop' = "release"
        /\ UNCHANGED <<free, at, slot>>
        /\ list # <<>>
    BY <1>5 DEF PopTask, producerVars
  <2>2. /\ Len(list') = Len(list) - 1 /\ Len(list) \in Nat /\ Len(list) > 0
        /\ Head(list) = list[1] /\ Head(list) \in Slots
        /\ \A i \in 1 .. Len(list') : list'[i] = list[i + 1]
    BY <2>1, PoppedList DEF TypeOK
  <2>3. Queued' \subseteq Queued /\ Head(list) \in Queued
    BY <2>2
  <2>4. Head(list) \notin Queued'
    BY <2>2
  <2>5. ListDistinct'
    BY <2>2
  <2>6. FreeNotQueued' /\ HeldApart'
    BY <2>1, <2>3
  <2>7. TakenApart'
    BY <2>1, <2>2, <2>3, <2>4
  <2>8. QED
    BY <2>5, <2>6, <2>7
<1>6. CASE ReleaseTask
  BY <1>6 DEF ReleaseTask, producerVars
<1>7. CASE Wake \/ PopNothing \/ CallTask \/ StopLoop \/ ThreadExit
  BY <1>7 DEF Wake, PopNothing, CallTask, StopLoop, ThreadExit, queueVars,
              producerVars
<1>8. CASE Shutdown
  BY <1>8 DEF Shutdown, ShutdownExchange, ShutdownSignal, ShutdownJoin,
              queueVars, producerVars, loopVars
<1>9. CASE UNCHANGED vars
  BY <1>9 DEF vars, queueVars, producerVars, loopVars
<1>10. QED
  BY <1>1, <1>2, <1>3, <1>4, <1>5, <1>6, <1>7, <1>8, <1>9
  DEF Next, Submit, PluginThread

\* For any number of producers and task objects, an object is never shared
\* between the pool, the list, the producers and the plugin thread's pop.
THEOREM ObjectsHaveOneOwner == Spec => []OneOwner
<1>1. Init => OneOwner
  BY DEF Init, OneOwner, ListDistinct, FreeNotQueued, HeldApart, TakenApart,
         Holds, Queued
<1>2. QED
  BY <1>1, Typing, OwnerStep, PTL DEF Spec
-----------------------------------------------------------------------------
(* The refinement of TaskFifo.                                             *)

\* The tasks in the queued objects, oldest first: all of Pending but the one
\* that the plugin thread has read from the object it popped.
Waiting == [i \in 1 .. Len(list) |-> body[list[i]]]

Accepted == ran \cup {Pending[i] : i \in 1 .. Len(Pending)}

\* Every object on its way to the plugin thread holds a submitted task.
QueuedHoldTasks == \A i \in 1 .. Len(list) : body[list[i]] \in Tasks

FilledHoldsTask ==
  \A p \in Producers : at[p] = "push" => body[slot[p]] = TaskOf(p)

CallbackIsTask == loop \in {"release", "call"} => callback \in Tasks

\* An accepted task belongs to a call that its producer has begun, and to an
\* earlier one while the producer has yet to push: so a push is never of a
\* task that was accepted before.
AcceptedBegun ==
  \A t \in Accepted :
    /\ t \in Tasks
    /\ t[2] <= calls[t[1]]
    /\ at[t[1]] \in {"acquire", "fill", "push"} => t[2] < calls[t[1]]

TasksInPlace ==
  QueuedHoldTasks /\ FilledHoldsTask /\ CallbackIsTask /\ AcceptedBegun

\* A sequence is the function of its elements.
LEMMA SequenceForm ==
  ASSUME NEW S, NEW w \in Seq(S)
  PROVE  w = [i \in 1 .. Len(w) |-> w[i]]
  OBVIOUS

\* Pending without and with a task in the plugin thread's hands.
LEMMA PendingCases ==
  ASSUME TypeOK
  PROVE  /\ Waiting \in Seq(Tasks \cup {Null})
         /\ Len(Waiting) = Len(list)
         /\ \A i \in 1 .. Len(list) : Waiting[i] = body[list[i]]
         /\ loop \notin {"release", "call"} => Pending = Waiting
         /\ loop \in {"release", "call"} => Pending = <<callback>> \o Waiting
         /\ Pending \in Seq(Tasks \cup {Null})
<1>1. Len(list) \in Nat /\ \A i \in 1 .. Len(list) : list[i] \in Slots
  BY DEF TypeOK
<1>2. \A i \in 1 .. Len(list) : body[list[i]] \in Tasks \cup {Null}
  BY <1>1 DEF TypeOK
<1>3. Waiting \in Seq(Tasks \cup {Null}) /\ Len(Waiting) = Len(list)
  BY <1>1, <1>2 DEF Waiting
<1>4. /\ loop \notin {"release", "call"} => Pending = Waiting
      /\ loop \in {"release", "call"} => Pending = <<callback>> \o Waiting
  BY <1>3 DEF Waiting, Pending
<1>5. Pending \in Seq(Tasks \cup {Null})
  <2>1. callback \in Tasks \cup {Null}
    BY DEF TypeOK
  <2>2. CASE loop \in {"release", "call"}
    BY <1>3, <1>4, <2>1, <2>2
  <2>3. QED
    BY <1>3, <1>4, <2>2
<1>6. QED
  BY <1>3, <1>4, <1>5 DEF Waiting

\* The tasks in Pending: those of the queued objects and the one being run.
LEMMA AcceptedTasks ==
  ASSUME TypeOK
  PROVE  Accepted =
           ran \cup {body[list[i]] : i \in 1 .. Len(list)}
               \cup (IF loop \in {"release", "call"} THEN {callback} ELSE {})
<1>1. CASE loop \notin {"release", "call"}
  BY <1>1, PendingCases DEF Accepted
<1>2. CASE loop \in {"release", "call"}
  <2>1. /\ Len(Pending) = Len(list) + 1 /\ Len(list) \in Nat
        /\ Pending[1] = callback
        /\ \A i \in 1 .. Len(list) : Pending[i + 1] = body[list[i]]
    BY <1>2, PendingCases DEF TypeOK
  <2>2. {Pending[i] : i \in 1 .. Len(Pending)}
          = {callback} \cup {body[list[i]] : i \in 1 .. Len(list)}
    <3>1. ASSUME NEW i \in 1 .. Len(Pending)
          PROVE  Pending[i] \in {callback} \cup {body[list[j]] : j \in 1 .. Len(list)}
      <4>1. CASE i = 1
        BY <2>1, <4>1
      <4>2. CASE i # 1
        <5>1. i - 1 \in 1 .. Len(list) /\ Pending[(i - 1) + 1] = body[list[i - 1]]
          BY <2>1, <4>2
        <5>2. QED
          BY <5>1
      <4>3. QED
        BY <4>1, <4>2
    <3>2. \A i \in 1 .. Len(list) : i + 1 \in 1 .. Len(Pending)
      BY <2>1
    <3>3. QED
      BY <2>1, <3>1, <3>2
  <2>3. QED
    BY <1>2, <2>2 DEF Accepted
<1>3. QED
  BY <1>1, <1>2

\* The steps of submit_task other than the push leave the accepted tasks
\* alone: the objects they write are not in the list.
LEMMA SubmitQuiet ==
  ASSUME TypeOK, TypeOK', OneOwner, NEW p \in Producers,
         SubmitCheck(p) \/ SubmitAcquire(p) \/ SubmitNoMemory(p)
           \/ SubmitFill(p) \/ SubmitSend(p)
  PROVE  /\ Pending' = Pending /\ Accepted' = Accepted
         /\ \A i \in 1 .. Len(list) : body'[list[i]] = body[list[i]]
         /\ UNCHANGED <<list, loop, callback, ran>>
<1>1. UNCHANGED <<list, loop, callback, ran>>
  BY DEF SubmitCheck, SubmitAcquire, SubmitNoMemory, SubmitFill, SubmitSend,
         queueVars, loopVars
<1>2. \A i \in 1 .. Len(list) : body'[list[i]] = body[list[i]]
  <2>1. CASE SubmitAcquire(p)
    BY <2>1 DEF SubmitAcquire, TypeOK, OneOwner, FreeNotQueued, Queued
  <2>2. CASE SubmitFill(p)
    BY <2>2 DEF SubmitFill, TypeOK, OneOwner, HeldApart, Holds, Queued
  <2>3. CASE SubmitCheck(p) \/ SubmitNoMemory(p) \/ SubmitSend(p)
    BY <2>3 DEF SubmitCheck, SubmitNoMemory, SubmitSend, queueVars
  <2>4. QED
    BY <2>1, <2>2, <2>3
<1>3. Waiting' = Waiting
  BY <1>1, <1>2 DEF Waiting
<1>4. Pending' = Pending
  BY <1>1, <1>3, PendingCases, TypeOK' DEF Pending, Waiting
<1>5. Accepted' = Accepted
  BY <1>1, <1>4 DEF Accepted
<1>6. QED
  BY <1>1, <1>2, <1>4, <1>5

\* A push accepts the task of its producer's call, behind all others.
LEMMA PushAccepts ==
  ASSUME TypeOK, TypeOK', Begun, TasksInPlace, NEW p \in Producers, SubmitPush(p)
  PROVE  /\ TaskOf(p) \in Tasks \ Accepted
         /\ Pending' = Append(Pending, TaskOf(p))
         /\ Accepted' = Accepted \cup {TaskOf(p)}
         /\ body[slot[p]] = TaskOf(p)
<1>1. /\ at[p] = "push" /\ slot[p] \in Slots /\ body[slot[p]] = TaskOf(p)
      /\ list' = Append(list, slot[p])
      /\ UNCHANGED <<body, loop, callback, ran>>
  BY DEF SubmitPush, Begun, Holds, TasksInPlace, FilledHoldsTask, loopVars
<1>2. /\ list \in Seq(Slots) /\ Len(list) \in Nat
      /\ Len(list') = Len(list) + 1
      /\ \A i \in 1 .. Len(list) : list'[i] = list[i]
      /\ list'[Len(list) + 1] = slot[p]
  BY <1>1, PushedList DEF TypeOK
<1>3. TaskOf(p) \in Tasks \ Accepted
  <2>1. calls[p] \in 1 .. MaxSubmits
    BY <1>1 DEF Begun
  <2>2. TaskOf(p) \notin Accepted
    BY <1>1, <2>1 DEF TasksInPlace, AcceptedBegun, TaskOf
  <2>3. QED
    BY <2>1, <2>2 DEF TaskOf, Tasks
<1>4. Waiting' = Append(Waiting, TaskOf(p))
  <2> DEFINE w == Append(Waiting, TaskOf(p))
  <2>1. /\ Waiting \in Seq(Tasks \cup {Null}) /\ Len(Waiting) = Len(list)
        /\ \A i \in 1 .. Len(list) : Waiting[i] = body[list[i]]
    BY PendingCases
  <2>2. /\ w \in Seq(Tasks \cup {Null}) /\ Len(w) = Len(list) + 1
        /\ \A i \in 1 .. Len(list) + 1 :
             w[i] = IF i <= Len(list) THEN Waiting[i] ELSE TaskOf(p)
    BY <1>2, <1>3, <2>1
  <2>3. w = [i \in 1 .. Len(list) + 1 |-> w[i]]
    BY <2>2, SequenceForm
  <2>4. \A i \in 1 .. Len(list) + 1 : w[i] = body[list'[i]]
    BY <1>1, <1>2, <2>1, <2>2
  <2>5. Waiting' = [i \in 1 .. Len(list) + 1 |-> body[list'[i]]]
    BY <1>1, <1>2 DEF Waiting
  <2>6. QED
    BY <2>3, <2>4, <2>5
<1>5. Pending' = Append(Pending, TaskOf(p))
  <2>1. Waiting \in Seq(Tasks \cup {Null})
    BY PendingCases
  <2>2. CASE loop \notin {"release", "call"}
    BY <1>1, <1>4, <2>2 DEF Pending, Waiting
  <2>3. CASE loop \in {"release", "call"}
    <3>1. Pending = <<callback>> \o Waiting /\ Pending' = <<callback>> \o Waiting'
      BY <1>1, <2>3 DEF Pending, Waiting
    <3>2. <<callback>> \o Append(Waiting, TaskOf(p))
            = Append(<<callback>> \o Waiting, TaskOf(p))
      BY <1>3, <2>1 DEF TypeOK
    <3>3. QED
      BY <1>4, <3>1, <3>2
  <2>4. QED
    BY <2>2, <2>3
<1>6. Accepted' = Accepted \cup {TaskOf(p)}
  <2>1. Pending \in Seq(Tasks \cup {Null})
    BY PendingCases
  <2>2. /\ Len(Pending') = Len(Pending) + 1 /\ Len(Pending) \in Nat
        /\ \A i \in 1 .. Len(Pending) : Pending'[i] = Pending[i]
        /\ Pending'[Len(Pending) + 1] = TaskOf(p)
    BY <1>3, <1>5, <2>1
  <2>3. QED
    BY <1>1, <2>2 DEF Accepted
<1>7. QED
  BY <1>1, <1>3, <1>5, <1>6

\* pop_front puts the first task from its object into the plugin thread's
\* hands: the accepted tasks and their order stay.
LEMMA PopKeeps ==
  ASSUME TypeOK, TypeOK', PopTask
  PROVE  Pending' = Pending /\ Accepted' = Accepted
<1>1. /\ loop = "pop" /\ loop' = "release" /\ list # <<>>
      /\ callback' = body[Head(list)] /\ list' = Tail(list)
      /\ UNCHANGED <<body, ran>>
  BY DEF PopTask
<1>2. /\ Len(list) \in Nat /\ Len(list) > 0 /\ Len(list') = Len(list) - 1
      /\ Head(list) = list[1]
      /\ \A i \in 1 .. Len(list') : list'[i] = list[i + 1]
  BY <1>1, PoppedList DEF TypeOK
<1> DEFINE w == <<callback'>> \o Waiting'
<1>3. Waiting' = [i \in 1 .. Len(list) - 1 |-> body[list[i + 1]]]
  BY <1>1, <1>2 DEF Waiting
<1>4. /\ Waiting' \in Seq(Tasks \cup {Null}) /\ Len(Waiting') = Len(list) - 1
      /\ callback' \in Tasks \cup {Null}
  <2>1. \A i \in 1 .. Len(list) - 1 : body[list[i + 1]] \in Tasks \cup {Null}
    BY <1>2 DEF TypeOK
  <2>2. QED
    BY <1>2, <1>3, <2>1 DEF TypeOK
<1>5. /\ w \in Seq(Tasks \cup {Null}) /\ Len(w) = Len(list)
      /\ \A i \in 1 .. Len(list) : w[i] = body[list[i]]
  <2>1. /\ w \in Seq(Tasks \cup {Null}) /\ Len(w) = Len(list)
        /\ w[1] = callback'
        /\ \A i \in 1 .. Len(list) - 1 : w[i + 1] = Waiting'[i]
    BY <1>2, <1>4
  <2>2. ASSUME NEW i \in 1 .. Len(list)
        PROVE  w[i] = body[list[i]]
    <3>1. CASE i = 1
      BY <1>1, <1>2, <2>1, <3>1
    <3>2. CASE i # 1
      <4>1. /\ i - 1 \in 1 .. Len(list) - 1 /\ (i - 1) + 1 = i
        BY <1>2, <3>2
      <4>2. w[(i - 1) + 1] = Waiting'[i - 1]
        BY <2>1, <4>1
      <4>3. Waiting'[i - 1] = body[list[(i - 1) + 1]]
        BY <1>3, <4>1
      <4>4. QED
        BY <4>1, <4>2, <4>3
    <3>3. QED
      BY <3>1, <3>2
  <2>3. QED
    BY <2>1, <2>2
<1>6. w = Waiting
  <2>1. w = [i \in 1 .. Len(list) |-> w[i]]
    BY <1>5, SequenceForm
  <2>2. [i \in 1 .. Len(list) |-> w[i]] = [i \in 1 .. Len(list) |-> body[list[i]]]
    BY <1>5
  <2>3. QED
    BY <2>1, <2>2 DEF Waiting
<1>7. Pending = Waiting
  BY <1>1, PendingCases
<1>8. Pending' = w
  BY <1>1 DEF Pending, Waiting
<1>9. QED
  BY <1>1, <1>6, <1>7, <1>8 DEF Accepted

\* The callback moves the oldest pending task to those that have run.
LEMMA CallRunsOldest ==
  ASSUME TypeOK, TypeOK', CallTask
  PROVE  /\ Pending # <<>>
         /\ ran' = ran \cup {Head(Pending)} /\ Pending' = Tail(Pending)
         /\ Accepted' = Accepted
<1>1. /\ loop = "call" /\ loop' = "pop" /\ ran' = ran \cup {callback}
      /\ UNCHANGED <<body, list>>
  BY DEF CallTask, queueVars
<1>2. Waiting' = Waiting /\ Waiting \in Seq(Tasks \cup {Null})
  BY <1>1, PendingCases DEF Waiting
<1>3. Pending = <<callback>> \o Waiting /\ Pending' = Waiting
  <2>1. Pending = <<callback>> \o Waiting
    BY <1>1, PendingCases
  <2>2. Pending' = Waiting'
    BY <1>1, <1>2 DEF Pending, Waiting
  <2>3. QED
    BY <1>2, <2>1, <2>2
<1>4. callback \in Tasks \cup {Null}
  BY DEF TypeOK
<1>5. /\ Pending # <<>> /\ Head(Pending) = callback /\ Pending' = Tail(Pending)
      /\ Pending \in Seq(Tasks \cup {Null})
  BY <1>2, <1>3, <1>4
<1>6. Accepted' = Accepted
  <2>1. /\ Len(Pending) \in Nat /\ Len(Pending) > 0 /\ Pending[1] = callback
        /\ Len(Pending') = Len(Pending) - 1
        /\ \A i \in 1 .. Len(Pending') : Pending'[i] = Pending[i + 1]
    BY <1>5
  <2>2. {Pending[i] : i \in 1 .. Len(Pending)}
          = {callback} \cup {Pending'[i] : i \in 1 .. Len(Pending')}
    <3>1. ASSUME NEW i \in 1 .. Len(Pending)
          PROVE  Pending[i] \in {callback} \cup {Pending'[j] : j \in 1 .. Len(Pending')}
      <4>1. CASE i = 1
        BY <2>1, <4>1
      <4>2. CASE i # 1
        <5>1. i - 1 \in 1 .. Len(Pending') /\ Pending'[i - 1] = Pending[(i - 1) + 1]
          BY <2>1, <4>2
        <5>2. QED
          BY <5>1
      <4>3. QED
        BY <4>1, <4>2
    <3>2. \A j \in 1 .. Len(Pending') : j + 1 \in 1 .. Len(Pending)
      BY <2>1
    <3>3. QED
      BY <2>1, <3>1, <3>2
  <2>3. QED
    BY <1>1, <2>2 DEF Accepted
<1>7. QED
  BY <1>1, <1>5, <1>6

\* The plugin thread's other steps and those of the unloading thread.
LEMMA OthersKeep ==
  ASSUME Wake \/ PopNothing \/ ReleaseTask \/ StopLoop \/ ThreadExit \/ Shutdown
           \/ UNCHANGED vars
  PROVE  /\ Pending' = Pending /\ Accepted' = Accepted
         /\ UNCHANGED <<list, body, callback, ran, at, slot, calls>>
<1>1. /\ UNCHANGED <<list, body, callback, ran, at, slot, calls>>
      /\ loop' \in {"release", "call"} <=> loop \in {"release", "call"}
  BY DEF Wake, PopNothing, ReleaseTask, StopLoop, ThreadExit, Shutdown,
         ShutdownExchange, ShutdownSignal, ShutdownJoin, vars, queueVars,
         producerVars, loopVars
<1>2. Pending' = Pending
  BY <1>1 DEF Pending
<1>3. QED
  BY <1>1, <1>2 DEF Accepted

\* The tasks stay in place: what a producer fills is what it pushes and what
\* the plugin thread reads, and no task is accepted before its call pushes.
LEMMA TasksStep ==
  TypeOK /\ TypeOK' /\ Begun /\ OneOwner /\ TasksInPlace /\ [Next]_vars
    => TasksInPlace'
<1> SUFFICES ASSUME TypeOK, TypeOK', Begun, OneOwner, TasksInPlace, [Next]_vars
             PROVE  TasksInPlace'
  OBVIOUS
<1> USE DEF TasksInPlace
<1>1. ASSUME NEW p \in Producers,
             SubmitCheck(p) \/ SubmitAcquire(p) \/ SubmitNoMemory(p)
               \/ SubmitFill(p) \/ SubmitSend(p)
      PROVE  TasksInPlace'
  <2>1. QueuedHoldTasks' /\ CallbackIsTask'
    BY <1>1, SubmitQuiet DEF QueuedHoldTasks, CallbackIsTask
  <2>2. FilledHoldsTask'
    <3>1. CASE SubmitAcquire(p)
      BY <3>1 DEF SubmitAcquire, Goto, FilledHoldsTask, TypeOK, TaskOf, OneOwner,
                  HeldApart, Holds
    <3>2. CASE SubmitFill(p)
      BY <3>2 DEF SubmitFill, Goto, FilledHoldsTask, TypeOK, TaskOf, OneOwner,
                  HeldApart, Holds
    <3>3. CASE SubmitCheck(p)
      BY <3>3 DEF SubmitCheck, Goto, FilledHoldsTask, TypeOK, TaskOf, queueVars
    <3>4. CASE SubmitNoMemory(p) \/ SubmitSend(p)
      BY <3>4 DEF SubmitNoMemory, SubmitSend, Goto, FilledHoldsTask, TypeOK,
                  TaskOf, queueVars
    <3>5. QED
      BY <1>1, <3>1, <3>2, <3>3, <3>4
  <2>3. AcceptedBegun'
    <3>1. Accepted' = Accepted
      BY <1>1, SubmitQuiet
    <3>2. \A q \in Producers :
            \/ calls'[q] = calls[q] /\ (at'[q] \in {"acquire", "fill", "push"}
                                          => at[q] \in {"acquire", "fill", "push"})
            \/ calls'[q] = calls[q] + 1
      BY <1>1 DEF SubmitCheck, SubmitAcquire, SubmitNoMemory, SubmitFill,
                  SubmitSend, Goto, TypeOK
    <3>3. ASSUME NEW t \in Accepted
          PROVE  /\ t \in Tasks
                 /\ t[2] <= calls'[t[1]]
                 /\ at'[t[1]] \in {"acquire", "fill", "push"} => t[2] < calls'[t[1]]
      <4>1. /\ t[1] \in Producers /\ t[2] \in Nat /\ calls[t[1]] \in Nat
            /\ t \in Tasks /\ t[2] <= calls[t[1]]
            /\ at[t[1]] \in {"acquire", "fill", "push"} => t[2] < calls[t[1]]
        BY TaskQueueAssumption DEF AcceptedBegun, Tasks, TypeOK
      <4>2. QED
        BY <3>2, <4>1
    <3>4. QED
      BY <3>1, <3>3 DEF AcceptedBegun
  <2>4. QED
    BY <2>1, <2>2, <2>3
<1>2. ASSUME NEW p \in Producers, SubmitPush(p)
      PROVE  TasksInPlace'
  <2>1. /\ at[p] = "push" /\ slot[p] \in Slots
        /\ list' = Append(list, slot[p])
        /\ at' = [at EXCEPT ![p] = "send"]
        /\ UNCHANGED <<body, slot, calls, loop, callback>>
    BY <1>2 DEF SubmitPush, Goto, Begun, Holds, loopVars
  <2>2. /\ TaskOf(p) \in Tasks /\ body[slot[p]] = TaskOf(p)
        /\ Accepted' = Accepted \cup {TaskOf(p)}
    BY <1>2, PushAccepts
  <2>3. QueuedHoldTasks'
    <3>1. /\ Len(list') = Len(list) + 1 /\ Len(list) \in Nat
          /\ \A i \in 1 .. Len(list) : list'[i] = list[i]
          /\ list'[Len(list) + 1] = slot[p]
      BY <2>1, PushedList DEF TypeOK
    <3>2. QED
      BY <2>1, <2>2, <3>1 DEF QueuedHoldTasks
  <2>4. FilledHoldsTask' /\ CallbackIsTask'
    BY <2>1 DEF FilledHoldsTask, CallbackIsTask, TaskOf, TypeOK
  <2>5. AcceptedBegun'
    <3>1. ASSUME NEW t \in Accepted \cup {TaskOf(p)}
          PROVE  /\ t \in Tasks
                 /\ t[2] <= calls[t[1]]
                 /\ at'[t[1]] \in {"acquire", "fill", "push"} => t[2] < calls[t[1]]
      <4>1. CASE t \in Accepted
        BY <2>1, <4>1 DEF AcceptedBegun, TypeOK
      <4>2. CASE t = TaskOf(p)
        BY <2>1, <2>2, <4>2 DEF TaskOf, Tasks, TypeOK
      <4>3. QED
        BY <4>1, <4>2
    <3>2. QED
      BY <2>1, <2>2, <3>1 DEF AcceptedBegun
  <2>6. QED
    BY <2>3, <2>4, <2>5
<1>3. CASE PopTask
  <2>1. /\ list # <<>> /\ list' = Tail(list) /\ callback' = body[Head(list)]
        /\ UNCHANGED <<body, slot, calls, at>>
    BY <1>3 DEF PopTask, producerVars
  <2>2. /\ Len(list) \in Nat /\ Len(list) > 0 /\ Len(list') = Len(list) - 1
        /\ Head(list) = list[1]
        /\ \A i \in 1 .. Len(list') : list'[i] = list[i + 1]
    BY <2>1, PoppedList DEF TypeOK
  <2>3. QueuedHoldTasks'
    BY <2>1, <2>2 DEF QueuedHoldTasks
  <2>4. FilledHoldsTask' /\ CallbackIsTask'
    BY <2>1, <2>2 DEF FilledHoldsTask, CallbackIsTask, QueuedHoldTasks, TaskOf
  <2>5. AcceptedBegun'
    BY <1>3, <2>1, PopKeeps DEF AcceptedBegun
  <2>6. QED
    BY <2>3, <2>4, <2>5
<1>4. CASE CallTask
  <2>1. /\ loop' = "pop" /\ UNCHANGED <<list, body, slot, calls, at>>
    BY <1>4 DEF CallTask, queueVars, producerVars
  <2>2. QueuedHoldTasks' /\ FilledHoldsTask' /\ CallbackIsTask'
    BY <2>1 DEF QueuedHoldTasks, FilledHoldsTask, CallbackIsTask, TaskOf
  <2>3. AcceptedBegun'
    BY <1>4, <2>1, CallRunsOldest DEF AcceptedBegun
  <2>4. QED
    BY <2>2, <2>3
<1>5. CASE Wake \/ PopNothing \/ ReleaseTask \/ StopLoop \/ ThreadExit \/ Shutdown
             \/ UNCHANGED vars
  <2>1. /\ Accepted' = Accepted
        /\ UNCHANGED <<list, body, callback, at, slot, calls>>
    BY <1>5, OthersKeep
  <2>2. QueuedHoldTasks' /\ FilledHoldsTask' /\ AcceptedBegun'
    BY <2>1 DEF QueuedHoldTasks, FilledHoldsTask, AcceptedBegun, TaskOf
  <2>3. CallbackIsTask'
    BY <1>5, <2>1 DEF CallbackIsTask, Wake, PopNothing, ReleaseTask, StopLoop,
         ThreadExit, Shutdown, ShutdownExchange, ShutdownSignal, ShutdownJoin,
         vars, loopVars
  <2>4. QED
    BY <2>2, <2>3
<1>6. QED
  BY <1>1, <1>2, <1>3, <1>4, <1>5 DEF Next, Submit, PluginThread

\* Each step is a step of the FIFO or leaves it unchanged: a push submits, a
\* callback runs the oldest task, uv_stop stops it.
LEMMA FifoStep ==
  TypeOK /\ TypeOK' /\ Begun /\ OneOwner /\ TasksInPlace /\ [Next]_vars
    => [Fifo!Next]_(Fifo!vars)
<1> SUFFICES ASSUME TypeOK, TypeOK', Begun, OneOwner, TasksInPlace, [Next]_vars
             PROVE  [Fifo!Next]_(Fifo!vars)
  OBVIOUS
<1>1. ASSUME NEW p \in Producers,
             SubmitCheck(p) \/ SubmitAcquire(p) \/ SubmitNoMemory(p)
               \/ SubmitFill(p) \/ SubmitSend(p)
      PROVE  [Fifo!Next]_(Fifo!vars)
  BY <1>1, SubmitQuiet DEF Fifo!vars, Accepted, Stopped
<1>2. ASSUME NEW p \in Producers, SubmitPush(p)
      PROVE  [Fifo!Next]_(Fifo!vars)
  <2>1. PICK t \in Tasks : t = TaskOf(p)
    BY <1>2, PushAccepts
  <2>2. Fifo!Submit(t)
    BY <1>2, <2>1, PushAccepts
    DEF Fifo!Submit, Accepted, Stopped, SubmitPush, loopVars
  <2>3. QED
    BY <2>2 DEF Fifo!Next
<1>3. CASE PopTask
  BY <1>3, PopKeeps DEF Fifo!vars, Accepted, Stopped, PopTask
<1>4. CASE CallTask
  <2>1. Fifo!RunTask
    BY <1>4, CallRunsOldest DEF Fifo!RunTask, Accepted, Stopped, CallTask
  <2>2. QED
    BY <2>1 DEF Fifo!Next
<1>5. CASE StopLoop
  <2>1. Fifo!Stop
    BY <1>5, OthersKeep DEF Fifo!Stop, Accepted, Stopped, StopLoop
  <2>2. QED
    BY <2>1 DEF Fifo!Next
<1>6. CASE Wake \/ PopNothing \/ ReleaseTask \/ ThreadExit \/ Shutdown
             \/ UNCHANGED vars
  <2>1. Stopped' = Stopped
    BY <1>6 DEF Stopped, Wake, PopNothing, ReleaseTask, ThreadExit, Shutdown,
         ShutdownExchange, ShutdownSignal, ShutdownJoin, vars, loopVars
  <2>2. QED
    BY <1>6, <2>1, OthersKeep DEF Fifo!vars, Accepted
<1>7. QED
  BY <1>1, <1>2, <1>3, <1>4, <1>5, <1>6
  DEF Next, Submit, PluginThread

\* For any number of producers, task objects and calls, submit_task and
\* async_task_callback implement the FIFO: every pushed callback is run at
\* most once, in the order of push_back, and none after uv_stop.
THEOREM QueueIsFifo == Spec => FifoOrder
<1>1. Init => Fifo!Init /\ OneOwner /\ TasksInPlace
  <2> SUFFICES ASSUME Init PROVE Fifo!Init /\ OneOwner /\ TasksInPlace
    OBVIOUS
  <2>1. Pending = <<>> /\ Accepted = {}
    BY DEF Init, Pending, Accepted
  <2>2. Fifo!Init
    BY <2>1 DEF Init, Fifo!Init, Accepted, Stopped
  <2>3. OneOwner
    BY DEF Init, OneOwner, ListDistinct, FreeNotQueued, HeldApart, TakenApart,
           Holds, Queued
  <2>4. TasksInPlace
    BY <2>1 DEF Init, TasksInPlace, QueuedHoldTasks, FilledHoldsTask,
                CallbackIsTask, AcceptedBegun
  <2>5. QED
    BY <2>2, <2>3, <2>4
<1>2. Spec => []TasksInPlace
  BY <1>1, Typing, ObjectsHaveOneOwner, TasksStep, PTL DEF Spec
<1>3. QED
  BY <1>1, <1>2, Typing, ObjectsHaveOneOwner, FifoStep, PTL
  DEF Spec, FifoOrder, Fifo!Spec
=============================================================================
