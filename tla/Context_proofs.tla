--------------------------- MODULE Context_proofs ---------------------------
(***************************************************************************)
(* Theorems about module Context, for any number of RTC threads and worker *)
(* task objects.  Stages says how far creation and destruction are at each *)
(* stage of the context's life, and is inductive whatever fails.  InUse    *)
(* says when a part may be in use; it needs that libdatachannel's threads  *)
(* are gone in time and that no worker runs at the unload.                 *)
(***************************************************************************)
EXTENDS Context, TLAPS

Stages ==
  /\ running => life = "serving"
  /\ thread = "running" => life \in {"serving", "shutdown"}
  /\ life \in {"serving", "shutdown"} => created = Last
  /\ life \in {"none", "creating", "serving", "shutdown"} => destroyed = 0

InUse ==
  /\ \A c \in Callers : caller[c] = "in" => created = Last /\ destroyed = 0
  /\ \A w \in Works : work[w] = "working" => life = "serving"

\* Nobody outlives the wait of rtc_context_destroy, or an unload.
Prompt == "slow" \notin Faults /\ "working" \notin Faults

\* The stages hold initially.
LEMMA StagesInit == Init => TypeOK /\ Stages
<1> SUFFICES ASSUME Init PROVE TypeOK /\ Stages
  OBVIOUS
<1>1. 0 \in 0 .. Last
  BY DEF Last
<1>2. TypeOK
  BY <1>1, Zenon DEF Init, TypeOK
<1>3. Stages
  BY DEF Init, Stages
<1> QED BY <1>2, <1>3

\* Every step keeps them.
LEMMA StagesStep == TypeOK /\ Stages /\ [Next]_vars => TypeOK' /\ Stages'
<1> SUFFICES ASSUME TypeOK, Stages, [Next]_vars PROVE TypeOK' /\ Stages'
  OBVIOUS
<1> USE DEF TypeOK, Stages, Last
<1>1. CASE Create
  <2>1. CASE Entry BY <2>1 DEF Entry
  <2>2. CASE CreatePart BY <2>2 DEF CreatePart
  <2>3. CASE CreateFails BY <2>3 DEF CreateFails
  <2>4. CASE StartThread BY <2>4 DEF StartThread
  <2> QED BY <1>1, <2>1, <2>2, <2>3, <2>4 DEF Create
<1>2. CASE Threads
  <2>1. ASSUME NEW c \in Callers, CallerEnters(c) PROVE TypeOK' /\ Stages'
    BY <2>1 DEF CallerEnters
  <2>2. ASSUME NEW c \in Callers, CallerLeaves(c) PROVE TypeOK' /\ Stages'
    BY <2>2 DEF CallerLeaves
  <2>3. ASSUME NEW w \in Works, Spawn(w) PROVE TypeOK' /\ Stages'
    BY <2>3 DEF Spawn
  <2>4. ASSUME NEW w \in Works, WorkEnds(w) PROVE TypeOK' /\ Stages'
    BY <2>4 DEF WorkEnds
  <2>5. ASSUME NEW w \in Works, WorkCallback(w) PROVE TypeOK' /\ Stages'
    BY <2>5 DEF WorkCallback
  <2>6. CASE ThreadEnds BY <2>6 DEF ThreadEnds
  <2> QED BY <1>2, <2>1, <2>2, <2>3, <2>4, <2>5, <2>6 DEF Threads
<1>3. CASE Destroy
  <2>1. CASE Unload BY <2>1 DEF Unload
  <2>2. CASE Join BY <2>2 DEF Join
  <2>3. CASE DestroyRtc BY <2>3 DEF DestroyRtc, RtcPart
  <2>4. CASE DestroyPart BY <2>4 DEF DestroyPart, RtcPart
  <2>5. CASE Free BY <2>5 DEF Free
  <2> QED BY <1>3, <2>1, <2>2, <2>3, <2>4, <2>5 DEF Destroy
<1>4. CASE UNCHANGED vars BY <1>4 DEF vars
<1> QED BY <1>1, <1>2, <1>3, <1>4 DEF Next

\* They hold in every reachable state.
LEMMA StagesHold == Spec => [](TypeOK /\ Stages)
  BY StagesInit, StagesStep, PTL DEF Spec

\* Creation and destruction keep the state's types, whatever fails.
THEOREM TypeCorrect == Spec => []TypeOK
  BY StagesHold, PTL

\* The plugin thread runs in a complete context only (context.c:293-361).
THEOREM ThreadIsServed == Spec => []ThreadFindsAll
<1>1. TypeOK /\ Stages => ThreadFindsAll
  BY DEF TypeOK, Stages, ThreadFindsAll, Exists, Last
<1> QED BY <1>1, StagesHold, PTL

\* Every step keeps callers and workers inside, if nobody outlives the waits.
LEMMA InUseStep ==
  ASSUME Prompt, TypeOK, Stages, InUse, [Next]_vars
  PROVE  InUse'
<1> USE DEF InUse, TypeOK, Last
<1>1. CASE Create
  <2>1. CASE Entry BY <2>1 DEF Entry
  <2>2. CASE CreatePart BY <2>2 DEF CreatePart
  <2>3. CASE CreateFails BY <2>3 DEF CreateFails
  <2>4. CASE StartThread BY <2>4 DEF StartThread
  <2> QED BY <1>1, <2>1, <2>2, <2>3, <2>4 DEF Create
<1>2. CASE Threads
  <2>1. ASSUME NEW c \in Callers, CallerEnters(c) PROVE InUse'
    BY <2>1 DEF CallerEnters, Stages
  <2>2. ASSUME NEW c \in Callers, CallerLeaves(c) PROVE InUse'
    BY <2>2 DEF CallerLeaves
  <2>3. ASSUME NEW w \in Works, Spawn(w) PROVE InUse'
    BY <2>3 DEF Spawn, Stages
  <2>4. ASSUME NEW w \in Works, WorkEnds(w) PROVE InUse'
    BY <2>4 DEF WorkEnds
  <2>5. ASSUME NEW w \in Works, WorkCallback(w) PROVE InUse'
    BY <2>5 DEF WorkCallback
  <2>6. CASE ThreadEnds BY <2>6 DEF ThreadEnds
  <2> QED BY <1>2, <2>1, <2>2, <2>3, <2>4, <2>5, <2>6 DEF Threads
<1>3. CASE Destroy
  <2>1. CASE Unload BY <2>1 DEF Unload, Prompt
  <2>2. CASE Join BY <2>2 DEF Join
  <2>3. CASE DestroyRtc BY <2>3 DEF DestroyRtc, RtcPart, Prompt
  <2>4. CASE DestroyPart BY <2>4 DEF DestroyPart, RtcPart
  <2>5. CASE Free BY <2>5 DEF Free
  <2> QED BY <1>3, <2>1, <2>2, <2>3, <2>4, <2>5 DEF Destroy
<1>4. CASE UNCHANGED vars BY <1>4 DEF vars
<1> QED BY <1>1, <1>2, <1>3, <1>4 DEF Next

\* Whoever uses a part of the context finds it (context.c:293-361 against
\* 364-399, 464-509, 646), for any number of RTC threads and workers, if nobody
\* outlives the wait of rtc_context_destroy or an unload.
THEOREM PartsAreFound == Prompt => (Spec => []UsersFindParts)
<1> SUFFICES ASSUME Prompt PROVE Spec => []UsersFindParts
  OBVIOUS
<1>1. Init => InUse
  BY DEF Init, InUse
<1>2. (TypeOK /\ Stages) /\ InUse /\ [Next]_vars => InUse'
  BY InUseStep
<1>3. (TypeOK /\ Stages) /\ InUse => UsersFindParts
  BY DEF TypeOK, Stages, InUse, UsersFindParts, Exists, TaskParts, WorkPart, Last
<1> QED BY <1>1, <1>2, <1>3, StagesHold, PTL DEF Spec
=============================================================================
