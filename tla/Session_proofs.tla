--------------------------- MODULE Session_proofs ---------------------------
(***************************************************************************)
(* Proofs about one session, for any number of data channels, any queue    *)
(* bound, any messages of the client and any faults.                       *)
(***************************************************************************)
EXTENDS Session, QueueLemmas, FiniteSetTheorems, TLAPS

(***************************************************************************)
(* The inductive invariant.                                                *)
(***************************************************************************)
LiveChannels(t) == {c \in Chan : ChannelLive(t, c)}

\* The types of the variables that steps of the session speak of.
Types == s \in SessionState /\ tasks \in Seq(TaskRecords) /\ env \in EnvState

\* No session was missing when fault f was met, unless the application calls
\* before the plugin thread is told.
Found(f) == f # "nullSession" \/ "untold" \in Faults

\* A session record by itself: what is back in a pool is empty, channels belong
\* to a client that is authenticated, and all of them have opened once.
Whole(t) ==
  /\ t \in SessionState
  /\ \A c \in Chan :
       /\ t.cref[c] = 0 => t.cflags[c] = {}
       /\ "ACTIVE" \in t.cflags[c] <=> "DC_ACTIVE" \in t.cflags[c]
  /\ t.ref = 0 => t.flags = {} /\ t.table = {} /\ ~t.native
  /\ "WS_AUTHENTICATED" \notin t.flags => t.table = {} /\ LiveChannels(t) = {}
  /\ "ALL_CHANNELS_OPENED" \in t.flags => t.opened >= N + 1

\* The references of a session that e others than itself and its channels hold.
RefsAre(t, e) ==
  t.ref = e + Count(Active(t)) + Cardinality(LiveChannels(t))

\* A channel in the array is referenced by its outgoing data channel, by itself
\* while it is active, and by w[c] commands.
TableFits(t, w) ==
  \A c \in t.table : t.cref[c] >= 1 + Count("ACTIVE" \in t.cflags[c]) + w[c]

Fits(t, e, w) == Whole(t) /\ RefsAre(t, e) /\ TableFits(t, w)

Create == [op |-> "create", c |-> 0, handle |-> FALSE]
Destroy == [op |-> "destroy", c |-> 0, handle |-> TRUE]
Receive(c, handle) == [op |-> "receive", c |-> c, handle |-> handle]
Receives(c) == {Receive(c, FALSE), Receive(c, TRUE)}

Queued(op, c) == Has(tasks, OnChannel(op, c))

\* The session's creation is asked for and not yet, or never, answered to its
\* knowledge.
Asking ==
  \/ Has(s.exec, Create) \/ Queued("created", 0) \/ Queued("createFailed", 0)
  \/ env.native \in {"orphan", "lost"}

\* What holds the session besides itself and its channels.
WsHolds == env.ws # "closed" \/ Queued("wsClosed", 0)
PcHolds == env.pc # "closed" \/ Queued("pcClosed", 0)
Holders == Count(WsHolds) + Count(PcHolds) + Count(Asking)

\* The receives of channel c that are not complete.
Waiting(c) == Among(s.exec, Receives(c)) + Among(tasks, {OnChannel("receiveDone", c)})
Waits == [c \in Chan |-> Waiting(c)]

ChannelOps == {"dataChannel", "dcOpen", "outClosed", "inClosed", "dcError", "message",
               "systemMessage", "receiveDone", "send"}

\* The kinds of tasks and commands that are about no channel carry none, and
\* what is reported once is queued once.
QueueFits ==
  /\ \A x \in TaskRecords : Has(tasks, x) => x.op \in ChannelOps \/ x.c = 0
  /\ \A x \in Commands : Has(s.exec, x) =>
       x \in {Create, Destroy} \/ x.op = "receive"
  /\ \A op \in {"wsClosed", "pcClosed", "created", "createFailed"} :
       Single(tasks, Plain(op))
  /\ Single(s.exec, Create) /\ Single(s.exec, Destroy)
  /\ Queued("wsClosed", 0) => env.ws = "closed"
  /\ Queued("pcClosed", 0) => env.pc = "closed"

\* The way of the native session from the command that asks for it, through
\* the answer, to the command that ends it.
NativeFits ==
  /\ Has(s.exec, Create) => env.native = "none"
  /\ Queued("created", 0) => env.native = "alive" /\ ~s.private
  /\ Queued("createFailed", 0) => env.native = "failed"
  /\ env.native = "alive" => Queued("created", 0) \/ s.private
  /\ s.private => env.native \in {"alive", "dead"}
  /\ s.native => s.private /\ env.native = "alive" /\ ~Has(s.exec, Destroy)
  /\ Has(s.exec, Destroy) => s.private /\ env.native = "alive"
  /\ Has(s.exec, Create) \/ env.native # "none" =>
       s.ref = 0 \/ {"READY_SIGNAL_RECEIVED", "ALL_CHANNELS_OPENED"} \subseteq s.flags

\* Receives with a handle are queued before the end of the native session.
HandleFits ==
  \A c \in Chan :
    /\ Has(s.exec, Receive(c, TRUE)) => env.native = "alive"
    /\ Has(s.exec, Destroy) => Follows(s.exec, Receive(c, TRUE), Destroy)

PcOps == {"pcDown", "localCandidate", "badChannel", "dataChannel"}
UserOps == {"disconnect", "send", "setMode"}

\* Events of a peer connection are queued before its close, and calls of the
\* application behind the answer that tells the session, unless they are made
\* before it.
EventFits ==
  \A c \in Chan :
    /\ env.pc = "closed" =>
         \A op \in PcOps : Follows(tasks, OnChannel(op, c), Plain("pcClosed"))
    /\ ~s.private /\ "untold" \notin Faults =>
         \A op \in UserOps : Leads(tasks, Plain("created"), OnChannel(op, c))

\* The session of a client that may still authenticate itself.
Unknown(t) == "WS_ACTIVE" \in t.flags /\ "WS_AUTHENTICATED" \notin t.flags

SessionInv ==
  /\ Types
  /\ Fits(s, Holders, Waits)
  /\ QueueFits
  /\ NativeFits
  /\ HandleFits
  /\ EventFits
  /\ Unknown(s) => \A c \in Chan : Waiting(c) = 0
  /\ Found(s.fault)
-----------------------------------------------------------------------------
(***************************************************************************)
(* What the functions of the plugin thread do to the session record.       *)
(***************************************************************************)
LEMMA Channels ==
  /\ N \in Nat /\ IsFiniteSet(Chan)
  /\ Data \subseteq Chan /\ Sys \in Chan /\ Sys \notin Data /\ 0 \in Chan
<1>1. N \in Nat
  BY SessionAssumption
<1>2. IsFiniteSet(Chan)
  BY <1>1, FS_Interval DEF Chan
<1>3. QED
  BY <1>1, <1>2 DEF Chan, Data, Sys

\* An active session counts for one, another for none.
LEMMA ActiveCount ==
  ASSUME NEW t
  PROVE  /\ Count(Active(t)) \in Nat
         /\ Active(t) => Count(Active(t)) = 1
         /\ ~Active(t) => Count(Active(t)) = 0
  BY DEF Count, Active

\* The three kinds of commands are commands.
LEMMA CommandTypes ==
  /\ Create \in Commands /\ Destroy \in Commands
  /\ \A c \in Chan, h \in BOOLEAN : Receive(c, h) \in Commands
  BY Channels DEF Create, Destroy, Receive, Commands, CommandOps

\* The types of the fields of a session.
LEMMA SessionFields ==
  ASSUME NEW t \in SessionState
  PROVE  /\ t.ref \in Nat /\ t.flags \in SUBSET SessionFlags
         /\ t.table \in SUBSET Data /\ t.system \in BOOLEAN /\ t.opened \in Nat
         /\ t.timeout \in {"none", "auth", "negotiate"}
         /\ t.ping \in BOOLEAN /\ t.pinging \in BOOLEAN
         /\ t.native \in BOOLEAN /\ t.private \in BOOLEAN
         /\ t.pcClose \in BOOLEAN /\ t.answered \in BOOLEAN
         /\ t.cref \in [Chan -> Nat] /\ t.cflags \in [Chan -> SUBSET ChannelFlags]
         /\ t.incoming \in SUBSET Data /\ t.sent \in SUBSET SentKinds
         /\ t.exec \in Seq(Commands) /\ t.executor \in BOOLEAN
         /\ t.fault \in FaultNames
  BY DEF SessionState

\* The live channels of a session can be counted.
LEMMA LiveFinite ==
  ASSUME NEW t
  PROVE  /\ IsFiniteSet(LiveChannels(t)) /\ Cardinality(LiveChannels(t)) \in Nat
         /\ Cardinality(LiveChannels(t)) = 0 <=> LiveChannels(t) = {}
<1>1. LiveChannels(t) \subseteq Chan
  BY DEF LiveChannels
<1>2. IsFiniteSet(LiveChannels(t))
  BY <1>1, Channels, FS_Subset
<1>3. QED
  BY <1>2, FS_CardinalityType, FS_EmptySet

\* The queue of commands when a session gives up its native session.
EndQueue(t) == IF t.native /\ t.executor THEN Append(t.exec, Destroy) ELSE t.exec

\* What the destruction of the native session changes.
LEMMA DestroyForm ==
  ASSUME NEW t \in SessionState
  PROVE  DestroyNativeSession(t) = [t EXCEPT !.native = FALSE, !.exec = EndQueue(t)]
<1>1. CASE t.native /\ t.executor
  <2>1. ExecutorSubmit(t, Destroy) = [t EXCEPT !.exec = Append(t.exec, Destroy)]
    BY <1>1 DEF ExecutorSubmit
  <2>2. DestroyNativeSession(t) = [ExecutorSubmit(t, Destroy) EXCEPT !.native = FALSE]
    BY <1>1 DEF DestroyNativeSession, Destroy
  <2>3. QED
    BY <1>1, <2>1, <2>2 DEF EndQueue, SessionState
<1>2. CASE t.native /\ ~t.executor
  BY <1>2 DEF DestroyNativeSession, ExecutorSubmit, EndQueue, SessionState
<1>3. CASE ~t.native
  BY <1>3 DEF DestroyNativeSession, EndQueue, SessionState
<1>4. QED
  BY <1>1, <1>2, <1>3

\* The commands left by that destruction are commands.
LEMMA EndQueueType ==
  ASSUME NEW t \in SessionState
  PROVE  EndQueue(t) \in Seq(Commands)
<1>1. t.exec \in Seq(Commands)
  BY SessionFields
<1>2. Append(t.exec, Destroy) \in Seq(Commands)
  BY <1>1, CommandTypes, AppendForm
<1>3. QED
  BY <1>1, <1>2 DEF EndQueue

\* What session_cleanup changes.
LEMMA CleanupForm ==
  ASSUME NEW t \in SessionState
  PROVE  /\ SessionCleanup(t) \in SessionState
         /\ SessionCleanup(t) =
              [t EXCEPT !.native = FALSE, !.exec = EndQueue(t), !.ref = 0,
                        !.flags = {}, !.table = {}, !.system = FALSE,
                        !.opened = 0, !.timeout = "none", !.ping = FALSE,
                        !.pcClose = TRUE]
<1>1. SessionCleanup(t) =
        [t EXCEPT !.native = FALSE, !.exec = EndQueue(t), !.ref = 0,
                  !.flags = {}, !.table = {}, !.system = FALSE,
                  !.opened = 0, !.timeout = "none", !.ping = FALSE,
                  !.pcClose = TRUE]
  BY DestroyForm DEF SessionCleanup, SessionState
<1> DEFINE q == EndQueue(t)
<1>2. q \in Seq(Commands)
  BY EndQueueType
<1> HIDE DEF q
<1>3. [t EXCEPT !.native = FALSE, !.exec = q, !.ref = 0,
                !.flags = {}, !.table = {}, !.system = FALSE,
                !.opened = 0, !.timeout = "none", !.ping = FALSE,
                !.pcClose = TRUE] \in SessionState
  BY <1>2 DEF SessionState
<1>4. QED
  BY <1>1, <1>3 DEF q

\* How a function that winds the session down changes it.  The native session is
\* given up only by a session that is no longer active.
Winds(t, u) ==
  /\ u.flags \subseteq t.flags
  /\ u.ref > 0 => t.ref > 0
  /\ u.ref > 0 => t.flags \ {"ACTIVE", "WS_ACTIVE", "PC_ACTIVE"} \subseteq u.flags
  /\ u.table \subseteq t.table /\ (u.system => t.system)
  /\ \A c \in Chan : u.cflags[c] \subseteq t.cflags[c]
  /\ \/ (u.native <=> t.native) /\ u.exec = t.exec
     \/ t.native /\ ~u.native /\ u.exec = EndQueue(t) /\ ~Active(u)
  /\ (u.executor <=> t.executor) /\ (u.private <=> t.private)
  /\ t.pcClose => u.pcClose
  /\ u.fault = t.fault /\ (u.answered <=> t.answered) /\ u.sent = t.sent
  /\ Active(u) => /\ (u.pcClose <=> t.pcClose)
                  /\ u.table = t.table /\ (u.system <=> t.system)

\* Winding down twice is winding down.
LEMMA WindsTransitive ==
  ASSUME NEW t \in SessionState, NEW u \in SessionState, NEW v \in SessionState,
         Winds(t, u), Winds(u, v)
  PROVE  Winds(t, v)
<1>1. Active(v) => Active(u)
  BY DEF Winds, Active
<1>2. \/ (v.native <=> t.native) /\ v.exec = t.exec
      \/ t.native /\ ~v.native /\ v.exec = EndQueue(t) /\ ~Active(v)
  BY <1>1 DEF Winds, EndQueue
<1>3. /\ v.flags \subseteq t.flags
      /\ v.table \subseteq t.table /\ (v.system => t.system)
      /\ \A c \in Chan : v.cflags[c] \subseteq t.cflags[c]
  BY DEF Winds
<1>4. v.ref > 0 => t.ref > 0 /\ t.flags \ {"ACTIVE", "WS_ACTIVE", "PC_ACTIVE"} \subseteq v.flags
  BY DEF Winds
<1>5. /\ t.pcClose => v.pcClose
      /\ (v.executor <=> t.executor) /\ (v.private <=> t.private)
      /\ v.fault = t.fault /\ (v.answered <=> t.answered) /\ v.sent = t.sent
  BY DEF Winds
<1>6. Active(v) => /\ (v.pcClose <=> t.pcClose)
                   /\ v.table = t.table /\ (v.system <=> t.system)
  BY <1>1 DEF Winds
<1>7. QED
  BY <1>2, <1>3, <1>4, <1>5, <1>6 DEF Winds

\* session_cleanup winds a session down to nothing.
LEMMA CleanupWinds ==
  ASSUME NEW t \in SessionState
  PROVE  LET u == SessionCleanup(t)
         IN /\ u \in SessionState /\ Winds(t, u)
            /\ u.ref = 0 /\ u.flags = {} /\ u.table = {} /\ ~u.native
            /\ u.cref = t.cref /\ u.cflags = t.cflags
            /\ u.incoming = t.incoming
            /\ u.timeout = "none" /\ u.pcClose
<1> DEFINE u == SessionCleanup(t)
<1>1. u \in SessionState
  BY CleanupForm
<1>2. /\ u.ref = 0 /\ u.flags = {} /\ u.table = {} /\ ~u.native /\ ~u.system
      /\ u.cref = t.cref /\ u.cflags = t.cflags /\ u.exec = EndQueue(t)
      /\ u.executor = t.executor /\ u.private = t.private
      /\ u.incoming = t.incoming
      /\ u.fault = t.fault /\ u.answered = t.answered /\ u.sent = t.sent
      /\ u.timeout = "none" /\ u.pcClose
  <2> DEFINE q == EndQueue(t)
  <2>1. u = [t EXCEPT !.native = FALSE, !.exec = q, !.ref = 0,
                      !.flags = {}, !.table = {}, !.system = FALSE,
                      !.opened = 0, !.timeout = "none", !.ping = FALSE,
                      !.pcClose = TRUE]
    BY CleanupForm
  <2> HIDE DEF u, q
  <2>2. /\ u.ref = 0 /\ u.flags = {} /\ u.table = {} /\ ~u.native /\ ~u.system
        /\ u.timeout = "none" /\ u.pcClose /\ u.exec = q
    BY <2>1 DEF SessionState
  <2>3. /\ u.cref = t.cref /\ u.cflags = t.cflags
        /\ u.executor = t.executor /\ u.private = t.private
        /\ u.incoming = t.incoming
        /\ u.fault = t.fault /\ u.answered = t.answered /\ u.sent = t.sent
    BY <2>1 DEF SessionState
  <2>4. QED
    BY <2>2, <2>3 DEF q
<1>3. t.native \/ EndQueue(t) = t.exec
  BY DEF EndQueue
<1> HIDE DEF u
<1>4. Winds(t, u)
  BY <1>2, <1>3 DEF Winds, Active
<1>5. QED
  BY <1>1, <1>2, <1>4 DEF u

\* n of e references are dropped; a session that is cleaned up has no others,
\* so it is closed, and so are its channels.
LEMMA UnrefEffect ==
  ASSUME NEW t, NEW e \in Nat, NEW w, NEW n \in Nat, n <= e, Fits(t, e, w)
  PROVE  LET u == SessionUnref(t, n)
         IN /\ Fits(u, e - n, w) /\ Winds(t, u)
            /\ u.cref = t.cref /\ u.cflags = t.cflags /\ u.incoming = t.incoming
            /\ u.ref = t.ref - n /\ (Active(u) <=> Active(t))
            /\ u.timeout = t.timeout \/ u.timeout = "none"
<1> DEFINE u == SessionUnref(t, n)
<1>1. /\ t \in SessionState /\ Whole(t) /\ RefsAre(t, e) /\ TableFits(t, w)
      /\ t.ref \in Nat
  BY SessionFields DEF Fits, Whole
<1>2. /\ Count(Active(t)) \in Nat /\ Cardinality(LiveChannels(t)) \in Nat
      /\ Active(t) => Count(Active(t)) = 1
  BY ActiveCount, LiveFinite
<1>3. t.ref = e + Count(Active(t)) + Cardinality(LiveChannels(t))
  BY <1>1 DEF RefsAre
<1>4. CASE t.ref > n \/ n = 0
  <2>1. u = [t EXCEPT !.ref = t.ref - n]
    BY <1>1, <1>4 DEF SessionUnref, SessionState
  <2>2. t.ref - n \in Nat /\ (n # 0 => t.ref - n > 0) /\ (t.ref - n = 0 => t.ref = 0)
    BY <1>1, <1>3, <1>2, <1>4
  <2> DEFINE m == t.ref - n
  <2>3. u = [t EXCEPT !.ref = m]
    BY <2>1
  <2>4. m \in Nat /\ (m = 0 => t.ref = 0) /\ m = t.ref - n /\ (m > 0 => t.ref > 0)
    BY <1>1, <2>2
  <2> HIDE DEF m, u
  <2>5. u \in SessionState
    BY <1>1, <2>3, <2>4 DEF SessionState
  <2>6. /\ u.ref = m /\ u.flags = t.flags /\ u.table = t.table /\ u.system = t.system
        /\ u.cref = t.cref /\ u.cflags = t.cflags /\ u.exec = t.exec
        /\ u.native = t.native /\ u.opened = t.opened
        /\ u.executor = t.executor /\ u.private = t.private
        /\ u.incoming = t.incoming /\ u.timeout = t.timeout
        /\ u.pcClose = t.pcClose
        /\ u.fault = t.fault /\ u.answered = t.answered /\ u.sent = t.sent
    BY <1>1, <2>3 DEF SessionState
  <2>7. LiveChannels(u) = LiveChannels(t) /\ (Active(u) <=> Active(t))
    BY <2>6 DEF LiveChannels, ChannelLive, Active
  <2>8. Winds(t, u)
    BY <2>4, <2>6 DEF Winds, Active
  <2>9. Whole(u)
    BY <1>1, <2>4, <2>5, <2>6, <2>7 DEF Whole
  <2>10. RefsAre(u, e - n)
    <3>1. Count(Active(u)) = Count(Active(t))
      BY <2>6 DEF Active
    <3>2. QED
      BY <1>2, <1>3, <2>4, <2>6, <2>7, <3>1 DEF RefsAre
  <2>11. TableFits(u, w)
    BY <1>1, <2>6 DEF TableFits
  <2>12. QED
    BY <2>4, <2>6, <2>7, <2>8, <2>9, <2>10, <2>11 DEF Fits, u
<1>5. CASE ~(t.ref > n \/ n = 0)
  <2>1. u = SessionCleanup(t)
    BY <1>1, <1>5 DEF SessionUnref
  <2>2. /\ t.ref = n /\ e = n /\ ~Active(t) /\ Count(Active(t)) = 0
        /\ Cardinality(LiveChannels(t)) = 0
    BY <1>1, <1>2, <1>3, <1>5
  <2>3. LiveChannels(t) = {}
    BY <2>2, LiveFinite
  <2> HIDE DEF u
  <2>4. /\ u \in SessionState /\ Winds(t, u)
        /\ u.ref = 0 /\ u.flags = {} /\ u.table = {} /\ ~u.native
        /\ u.cref = t.cref /\ u.cflags = t.cflags /\ u.incoming = t.incoming
        /\ u.timeout = "none"
    BY <1>1, <2>1, CleanupWinds
  <2>5. LiveChannels(u) = {} /\ ~Active(u) /\ Cardinality(LiveChannels(u)) = 0
    BY <2>2, <2>3, <2>4 DEF LiveChannels, ChannelLive, Active
  <2>6. Whole(u)
    BY <1>1, <2>4, <2>5 DEF Whole
  <2>7. RefsAre(u, e - n)
    <3>1. Count(Active(u)) = 0
      BY <2>5 DEF Count
    <3>2. QED
      BY <2>2, <2>4, <2>5, <3>1 DEF RefsAre
  <2>8. TableFits(u, w)
    BY <2>4 DEF TableFits
  <2>9. QED
    BY <1>1, <2>2, <2>4, <2>5, <2>6, <2>7, <2>8 DEF Fits, u
<1>6. QED
  BY <1>4, <1>5

\* A reference of each channel in C is dropped, and some are released, none of
\* which is in the array.
LEMMA ChannelUnrefEffect ==
  ASSUME NEW t, NEW e \in Nat, NEW w \in [Chan -> Nat], NEW v \in [Chan -> Nat],
         NEW C \in SUBSET LiveChannels(t), Fits(t, e, v),
         \A c \in t.table : v[c] >= w[c] /\ (c \in C => v[c] >= w[c] + 1)
  PROVE  LET u == ChannelUnref(t, C)
         IN /\ Fits(u, e, w) /\ Winds(t, u)
            /\ Active(u) <=> Active(t)
            /\ \A c \in Chan : u.cflags[c] = IF c \in C /\ t.cref[c] = 1
                                               THEN {} ELSE t.cflags[c]
            /\ u.timeout = t.timeout \/ u.timeout = "none"
<1> DEFINE D == {c \in C : t.cref[c] = 1}
           r == [c \in Chan |-> IF c \in C THEN t.cref[c] - 1 ELSE t.cref[c]]
           f == [c \in Chan |-> IF c \in D THEN {} ELSE t.cflags[c]]
           z == t.incoming \ D
           less == [t EXCEPT !.cref = r]
           t2 == [t EXCEPT !.cref = r, !.cflags = f, !.incoming = z]
           n == Cardinality(D)
           u == ChannelUnref(t, C)
<1>1. /\ t \in SessionState /\ Whole(t) /\ RefsAre(t, e) /\ TableFits(t, v)
      /\ t.cref \in [Chan -> Nat] /\ t.cflags \in [Chan -> SUBSET ChannelFlags]
      /\ t.incoming \in SUBSET Data /\ t.ref \in Nat /\ t.table \in SUBSET Data
  BY SessionFields DEF Fits, Whole
<1>2. /\ C \subseteq Chan /\ \A c \in C : t.cref[c] \in Nat /\ t.cref[c] > 0
      /\ D \subseteq LiveChannels(t) /\ D \subseteq Chan
  BY <1>1 DEF LiveChannels, ChannelLive
<1>3. IsFiniteSet(D) /\ n \in Nat
  BY <1>2, LiveFinite, FS_Subset, FS_CardinalityType
<1>4. r \in [Chan -> Nat]
  BY <1>1, <1>2
<1>5. f \in [Chan -> SUBSET ChannelFlags]
  BY <1>1
<1>6. u = SessionUnref(t2, n)
  <2>1. /\ less.cref = r /\ less.cflags = t.cflags /\ less.incoming = t.incoming
        /\ less \in SessionState
    BY <1>1, <1>4 DEF SessionState
  <2>2. r = [c \in Chan |-> IF c \in D THEN 0 ELSE r[c]]
    BY <1>1, <1>2
  <2>3. u = ChannelCleanup(less, D)
    BY DEF ChannelUnref
  <2> HIDE DEF D, r, u
  <2>4. ChannelCleanup(less, D) = SessionUnref(t2, n)
    <3>1. [less EXCEPT
             !.cref = [c \in Chan |-> IF c \in D THEN 0 ELSE less.cref[c]],
             !.cflags = [c \in Chan |-> IF c \in D THEN {} ELSE less.cflags[c]],
             !.incoming = less.incoming \ D] = t2
      <4>1. [less EXCEPT !.cref = r, !.cflags = f, !.incoming = z] = t2
        BY <1>1 DEF SessionState
      <4>2. QED
        BY <2>1, <2>2, <4>1
    <3>2. QED
      BY <3>1 DEF ChannelCleanup
  <2>5. QED
    BY <2>3, <2>4
<1>7. /\ t2 \in SessionState
      /\ t2.cref = r /\ t2.cflags = f /\ t2.incoming = z
      /\ t2.ref = t.ref /\ t2.flags = t.flags /\ t2.table = t.table
      /\ t2.system = t.system /\ t2.exec = t.exec /\ t2.opened = t.opened
      /\ t2.native = t.native /\ t2.executor = t.executor
      /\ t2.private = t.private /\ t2.timeout = t.timeout
      /\ t2.pcClose = t.pcClose /\ t2.fault = t.fault
      /\ t2.answered = t.answered /\ t2.sent = t.sent
  <2> HIDE DEF r, f, D
  <2>1. z \in SUBSET Data
    BY <1>1
  <2>2. t2 \in SessionState
    BY <1>1, <1>4, <1>5, <2>1 DEF SessionState
  <2>3. QED
    BY <1>1, <2>2 DEF SessionState
<1>8. LiveChannels(t2) = LiveChannels(t) \ D
  <2>1. \A c \in Chan : r[c] > 0 <=> t.cref[c] > 0 /\ c \notin D
    BY <1>1, <1>2
  <2>2. QED
    BY <1>7, <2>1 DEF LiveChannels, ChannelLive
<1> HIDE DEF t2, D
<1>9. Cardinality(LiveChannels(t)) = Cardinality(LiveChannels(t2)) + n
  <2>1. LiveChannels(t) \cap D = D
    BY <1>2
  <2>2. Cardinality(LiveChannels(t) \ D) = Cardinality(LiveChannels(t)) - Cardinality(D)
    BY <2>1, LiveFinite, FS_Difference
  <2>3. QED
    BY <1>3, <1>8, <2>2, LiveFinite
<1>10. Active(t2) <=> Active(t)
  BY <1>7 DEF Active
<1>11. Fits(t2, e + n, w)
  <2>1. Whole(t2)
    <3>1. \A c \in Chan : r[c] = 0 => f[c] = {}
      BY <1>1, <1>2 DEF D, Whole
    <3>2. \A c \in Chan : "ACTIVE" \in f[c] <=> "DC_ACTIVE" \in f[c]
      BY <1>1 DEF Whole
    <3> HIDE DEF r, f
    <3>3. QED
      BY <1>1, <1>7, <1>8, <3>1, <3>2 DEF Whole
  <2>2. RefsAre(t2, e + n)
    <3>1. Count(Active(t2)) = Count(Active(t))
      BY <1>10 DEF Count
    <3>2. QED
      BY <1>1, <1>3, <1>7, <1>9, <3>1, LiveFinite, ActiveCount DEF RefsAre
  <2>3. TableFits(t2, w)
    <3> SUFFICES ASSUME NEW c \in t.table
                 PROVE  r[c] >= 1 + Count("ACTIVE" \in f[c]) + w[c]
      BY <1>7 DEF TableFits
    <3>1. /\ c \in Chan /\ t.cref[c] \in Nat /\ v[c] \in Nat /\ w[c] \in Nat
          /\ t.cref[c] >= 1 + Count("ACTIVE" \in t.cflags[c]) + v[c]
          /\ v[c] >= w[c] /\ (c \in C => v[c] >= w[c] + 1)
      BY <1>1, Channels DEF TableFits
    <3>2. Count("ACTIVE" \in t.cflags[c]) \in Nat
      BY DEF Count
    <3>3. CASE c \in C
      <4>1. c \notin D
        BY <3>1, <3>2, <3>3 DEF D
      <4>2. f[c] = t.cflags[c] /\ r[c] = t.cref[c] - 1
        BY <3>1, <3>3, <4>1
      <4> HIDE DEF r, f
      <4>3. QED
        BY <3>1, <3>2, <3>3, <4>2
    <3>4. CASE c \notin C
      <4>1. f[c] = t.cflags[c] /\ r[c] = t.cref[c]
        BY <3>1, <3>4 DEF D
      <4> HIDE DEF r, f
      <4>2. QED
        BY <3>1, <3>2, <4>1
    <3>5. QED
      BY <3>3, <3>4
  <2>4. QED
    BY <2>1, <2>2, <2>3 DEF Fits
<1>12. Winds(t, t2)
  <2>1. \A c \in Chan : f[c] \subseteq t.cflags[c]
    OBVIOUS
  <2> HIDE DEF f, r
  <2>2. QED
    BY <1>7, <2>1 DEF Winds, Active
<1> HIDE DEF n, r, f, u
<1>13. /\ Fits(u, e, w) /\ Winds(t2, u) /\ u.cref = r /\ u.cflags = f
       /\ u.ref = t.ref - n /\ (Active(u) <=> Active(t))
       /\ u.timeout = t.timeout \/ u.timeout = "none"
  <2>1. e + n \in Nat /\ n <= e + n /\ (e + n) - n = e
    BY <1>3
  <2>2. QED
    BY <1>3, <1>6, <1>7, <1>10, <1>11, <2>1, UnrefEffect
<1>14. Winds(t, u)
  <2>1. u \in SessionState /\ u.ref \in Nat
    BY <1>13, SessionFields DEF Fits, Whole
  <2>2. QED
    BY <1>1, <1>7, <1>12, <1>13, <2>1, WindsTransitive
<1>15. QED
  BY <1>13, <1>14 DEF u, f, D

\* The channels of C that are active are closed, and each drops a reference.
LEMMA ChannelCloseEffect ==
  ASSUME NEW t, NEW e \in Nat, NEW w \in [Chan -> Nat], NEW C \in SUBSET Chan,
         Fits(t, e, w)
  PROVE  LET u == ChannelClose(t, C)
         IN /\ Fits(u, e, w) /\ Winds(t, u)
            /\ Active(u) <=> Active(t)
            /\ \A c \in C : "DC_ACTIVE" \notin u.cflags[c]
            /\ u.timeout = t.timeout \/ u.timeout = "none"
<1> DEFINE D == {c \in C : "ACTIVE" \in t.cflags[c]}
           f == [c \in Chan |-> IF c \in D THEN t.cflags[c] \ {"ACTIVE", "DC_ACTIVE"}
                                           ELSE t.cflags[c]]
           t1 == [t EXCEPT !.cflags = f]
           v == [c \in Chan |-> IF c \in D THEN w[c] + 1 ELSE w[c]]
           u == ChannelClose(t, C)
<1>1. /\ t \in SessionState /\ Whole(t) /\ RefsAre(t, e) /\ TableFits(t, w)
      /\ t.cref \in [Chan -> Nat] /\ t.cflags \in [Chan -> SUBSET ChannelFlags]
      /\ t.ref \in Nat /\ t.table \in SUBSET Data
  BY SessionFields DEF Fits, Whole
<1>2. f \in [Chan -> SUBSET ChannelFlags]
  BY <1>1
<1>3. u = ChannelUnref(t1, D)
  BY <1>1 DEF ChannelClose
<1>4. D \in SUBSET LiveChannels(t)
  BY <1>1 DEF LiveChannels, ChannelLive, Whole
<1>5. v \in [Chan -> Nat]
  OBVIOUS
<1> HIDE DEF f, u
<1>6. /\ t1 \in SessionState /\ t1.cflags = f /\ t1.cref = t.cref
      /\ t1.ref = t.ref /\ t1.flags = t.flags /\ t1.table = t.table
      /\ t1.system = t.system /\ t1.exec = t.exec /\ t1.opened = t.opened
      /\ t1.native = t.native /\ t1.executor = t.executor
      /\ t1.private = t.private /\ t1.timeout = t.timeout
      /\ t1.pcClose = t.pcClose /\ t1.fault = t.fault
      /\ t1.answered = t.answered /\ t1.sent = t.sent
  BY <1>1, <1>2 DEF SessionState
<1> HIDE DEF t1
<1>7. LiveChannels(t1) = LiveChannels(t) /\ (Active(t1) <=> Active(t))
  BY <1>6 DEF LiveChannels, ChannelLive, Active
<1>8. Fits(t1, e, v)
  <2>1. Whole(t1)
    <3>1. \A c \in Chan : t.cflags[c] = {} => f[c] = {}
      BY <1>1 DEF f
    <3>2. \A c \in Chan : "ACTIVE" \in f[c] <=> "DC_ACTIVE" \in f[c]
      BY <1>1 DEF f, Whole
    <3>3. QED
      BY <1>1, <1>6, <1>7, <3>1, <3>2 DEF Whole
  <2>2. RefsAre(t1, e)
    BY <1>1, <1>6, <1>7 DEF RefsAre, Count
  <2>3. TableFits(t1, v)
    <3> SUFFICES ASSUME NEW c \in t.table
                 PROVE  t.cref[c] >= 1 + Count("ACTIVE" \in f[c]) + v[c]
      BY <1>6 DEF TableFits
    <3>1. /\ c \in Chan /\ t.cref[c] \in Nat /\ w[c] \in Nat
          /\ t.cref[c] >= 1 + Count("ACTIVE" \in t.cflags[c]) + w[c]
      BY <1>1, Channels DEF TableFits
    <3>2. CASE c \in D
      <4>1. v[c] = w[c] + 1 /\ "ACTIVE" \notin f[c] /\ "ACTIVE" \in t.cflags[c]
        BY <3>1, <3>2 DEF f
      <4>2. Count("ACTIVE" \in t.cflags[c]) = 1 /\ Count("ACTIVE" \in f[c]) = 0
        BY <4>1 DEF Count
      <4> HIDE DEF v
      <4>3. QED
        BY <3>1, <4>1, <4>2
    <3>3. CASE c \notin D
      <4>1. v[c] = w[c] /\ f[c] = t.cflags[c]
        BY <3>1, <3>3 DEF f
      <4> HIDE DEF v
      <4>2. QED
        BY <3>1, <4>1
    <3>4. QED
      BY <3>2, <3>3
  <2>4. QED
    BY <2>1, <2>2, <2>3 DEF Fits
<1>9. Winds(t, t1)
  <2>1. \A c \in Chan : f[c] \subseteq t.cflags[c]
    BY DEF f
  <2>2. QED
    BY <1>6, <2>1 DEF Winds, Active
<1>10. /\ Fits(u, e, w) /\ Winds(t1, u) /\ (Active(u) <=> Active(t1))
       /\ u.timeout = t1.timeout \/ u.timeout = "none"
       /\ \A c \in Chan : u.cflags[c] \subseteq f[c]
  <2>1. \A c \in t1.table : v[c] >= w[c] /\ (c \in D => v[c] >= w[c] + 1)
    <3>1. \A c \in Chan : w[c] \in Nat
      OBVIOUS
    <3>2. QED
      BY <1>1, <1>6, <3>1, Channels
  <2>2. D \in SUBSET LiveChannels(t1)
    BY <1>4, <1>7
  <2> HIDE DEF v, D
  <2>3. /\ Fits(u, e, w) /\ Winds(t1, u) /\ (Active(u) <=> Active(t1))
        /\ u.timeout = t1.timeout \/ u.timeout = "none"
    BY <1>3, <1>5, <1>8, <2>1, <2>2, ChannelUnrefEffect
  <2>4. \A c \in Chan : u.cflags[c] \subseteq f[c]
    BY <1>6, <2>3 DEF Winds
  <2>5. QED
    BY <2>3, <2>4
<1>11. Winds(t, u)
  <2>1. u \in SessionState
    BY <1>10 DEF Fits, Whole
  <2>2. QED
    BY <1>1, <1>6, <1>9, <1>10, <2>1, WindsTransitive
<1>12. \A c \in C : "DC_ACTIVE" \notin u.cflags[c]
  <2>1. \A c \in C : "DC_ACTIVE" \notin f[c]
    BY <1>1 DEF f, Whole
  <2>2. QED
    BY <1>10, <2>1
<1>13. QED
  BY <1>6, <1>7, <1>10, <1>11, <1>12 DEF u

\* An active session is closed with its channels, gives up its native session
\* and drops its own reference.
LEMMA SessionCloseEffect ==
  ASSUME NEW t, NEW e \in Nat, NEW w \in [Chan -> Nat], Fits(t, e, w)
  PROVE  LET u == SessionClose(t)
         IN /\ Fits(u, e, w) /\ Winds(t, u)
            /\ ~Active(u)
            /\ Active(t) => /\ ~u.native /\ u.pcClose /\ "WS_ACTIVE" \notin u.flags
                            /\ \A c \in OwnedChannels(t) : "DC_ACTIVE" \notin u.cflags[c]
            /\ u.timeout = t.timeout \/ u.timeout = "none"
            /\ ~Active(t) => u = t
<1>1. /\ t \in SessionState /\ Whole(t) /\ RefsAre(t, e) /\ TableFits(t, w)
      /\ t.ref \in Nat /\ t.table \in SUBSET Data /\ t.flags \in SUBSET SessionFlags
  BY SessionFields DEF Fits, Whole
<1>2. CASE ~Active(t)
  <2>1. SessionClose(t) = t
    BY <1>2 DEF SessionClose
  <2>2. Winds(t, t)
    BY DEF Winds
  <2>3. QED
    BY <1>2, <2>1, <2>2
<1>3. CASE Active(t)
  <2> DEFINE a == t.flags \ {"ACTIVE"}
             quiet == StopPing([t EXCEPT !.flags = a])
             closed == ChannelClose(quiet, OwnedChannels(t))
             b == closed.flags \ {"WS_ACTIVE", "PC_ACTIVE"}
             cut == [closed EXCEPT !.flags = b, !.pcClose = TRUE]
             d == DestroyNativeSession(cut)
             u == SessionUnref(d, 1)
  <2>1. SessionClose(t) = u
    BY <1>3 DEF SessionClose
  <2>2. /\ quiet \in SessionState /\ quiet.flags = a /\ quiet.cref = t.cref
        /\ quiet.cflags = t.cflags /\ quiet.ref = t.ref /\ quiet.table = t.table
        /\ quiet.system = t.system /\ quiet.exec = t.exec
        /\ quiet.opened = t.opened /\ quiet.native = t.native
        /\ quiet.executor = t.executor /\ quiet.private = t.private
        /\ quiet.timeout = t.timeout /\ quiet.pcClose = t.pcClose
        /\ quiet.fault = t.fault
        /\ quiet.answered = t.answered /\ quiet.sent = t.sent
    <3>1. a \in SUBSET SessionFlags
      BY <1>1
    <3> HIDE DEF a
    <3>2. quiet = IF t.ping THEN [t EXCEPT !.flags = a, !.ping = FALSE, !.pinging = FALSE]
                            ELSE [t EXCEPT !.flags = a]
      BY <1>1 DEF StopPing, SessionState
    <3> HIDE DEF quiet
    <3>3. CASE t.ping
      BY <1>1, <3>1, <3>2, <3>3, ZenonT(60) DEF SessionState
    <3>4. CASE ~t.ping
      BY <1>1, <3>1, <3>2, <3>4 DEF SessionState
    <3>5. QED
      BY <3>3, <3>4
  <2> HIDE DEF quiet
  <2>3. /\ LiveChannels(quiet) = LiveChannels(t) /\ ~Active(quiet)
        /\ OwnedChannels(quiet) = OwnedChannels(t)
        /\ OwnedChannels(t) \in SUBSET Chan
    BY <1>1, <2>2, Channels DEF LiveChannels, ChannelLive, Active, OwnedChannels
  <2>4. Fits(quiet, e + 1, w)
    <3>1. Whole(quiet)
      BY <1>1, <2>2, <2>3 DEF Whole
    <3>2. RefsAre(quiet, e + 1)
      <4>1. Count(Active(t)) = 1 /\ Count(Active(quiet)) = 0
        BY <1>3, <2>3, ActiveCount
      <4>2. QED
        BY <1>1, <2>2, <2>3, <4>1, LiveFinite DEF RefsAre
    <3>3. TableFits(quiet, w)
      BY <1>1, <2>2 DEF TableFits
    <3>4. QED
      BY <3>1, <3>2, <3>3 DEF Fits
  <2>5. Winds(t, quiet)
    BY <2>2, <2>3 DEF Winds
  <2>6. /\ Fits(closed, e + 1, w) /\ Winds(quiet, closed) /\ ~Active(closed)
        /\ \A c \in OwnedChannels(t) : "DC_ACTIVE" \notin closed.cflags[c]
        /\ closed.timeout = quiet.timeout \/ closed.timeout = "none"
    <3>1. e + 1 \in Nat
      OBVIOUS
    <3>2. QED
      BY <2>3, <2>4, <3>1, ChannelCloseEffect
  <2> HIDE DEF closed
  <2>7. /\ closed \in SessionState /\ Whole(closed) /\ RefsAre(closed, e + 1)
        /\ TableFits(closed, w) /\ closed.flags \in SUBSET SessionFlags
    BY <2>6, SessionFields DEF Fits, Whole
  <2>8. /\ cut \in SessionState /\ cut.flags = b /\ cut.pcClose
        /\ cut.cref = closed.cref
        /\ cut.cflags = closed.cflags /\ cut.ref = closed.ref
        /\ cut.table = closed.table
        /\ cut.system = closed.system /\ cut.exec = closed.exec
        /\ cut.opened = closed.opened /\ cut.native = closed.native
        /\ cut.executor = closed.executor /\ cut.private = closed.private
        /\ cut.timeout = closed.timeout /\ cut.fault = closed.fault
        /\ cut.answered = closed.answered /\ cut.sent = closed.sent
    <3>1. b \in SUBSET SessionFlags
      BY <2>7
    <3> HIDE DEF b
    <3>2. QED
      BY <2>7, <3>1 DEF SessionState
  <2> HIDE DEF cut
  <2>9. /\ d \in SessionState /\ ~d.native /\ d.exec = EndQueue(cut)
        /\ d.flags = cut.flags /\ d.pcClose = cut.pcClose
        /\ d.cref = cut.cref
        /\ d.cflags = cut.cflags /\ d.ref = cut.ref
        /\ d.table = cut.table
        /\ d.system = cut.system
        /\ d.opened = cut.opened
        /\ d.executor = cut.executor /\ d.private = cut.private
        /\ d.timeout = cut.timeout /\ d.fault = cut.fault
        /\ d.answered = cut.answered /\ d.sent = cut.sent
    <3> DEFINE q == EndQueue(cut)
    <3>1. q \in Seq(Commands)
      BY <2>8, EndQueueType
    <3>2. d = [cut EXCEPT !.native = FALSE, !.exec = q]
      BY <2>8, DestroyForm
    <3> HIDE DEF d, q
    <3>3. d \in SessionState
      BY <2>8, <3>1, <3>2 DEF SessionState
    <3>4. d.exec = q /\ ~d.native
      BY <2>8, <3>2 DEF SessionState
    <3>5. QED
      BY <2>8, <3>2, <3>3, <3>4, ZenonT(60) DEF SessionState, q
  <2> HIDE DEF d, b
  <2>10. Winds(closed, cut)
    BY <2>6, <2>8 DEF Winds, Active, b
  <2>11. ~Active(cut) /\ ~Active(d)
    BY <2>6, <2>8, <2>9 DEF Active, b
  <2>12. Winds(cut, d)
    <3>1. cut.native \/ EndQueue(cut) = cut.exec
      BY DEF EndQueue
    <3>2. \/ (d.native <=> cut.native) /\ d.exec = cut.exec
          \/ cut.native /\ ~d.native /\ d.exec = EndQueue(cut) /\ ~Active(d)
      BY <2>9, <2>11, <3>1
    <3>3. QED
      BY <2>9, <2>11, <3>2 DEF Winds
  <2>13. LiveChannels(d) = LiveChannels(closed)
    BY <2>8, <2>9 DEF LiveChannels, ChannelLive
  <2>14. Fits(d, e + 1, w)
    <3>1. Whole(d)
      <4>1. "WS_AUTHENTICATED" \in closed.flags => "WS_AUTHENTICATED" \in d.flags
        BY <2>8, <2>9 DEF b
      <4>2. "ALL_CHANNELS_OPENED" \in d.flags => "ALL_CHANNELS_OPENED" \in closed.flags
        BY <2>8, <2>9 DEF b
      <4>3. closed.flags = {} => d.flags = {}
        BY <2>8, <2>9 DEF b
      <4>4. QED
        BY <2>7, <2>8, <2>9, <2>13, <4>1, <4>2, <4>3 DEF Whole
    <3>2. RefsAre(d, e + 1)
      <4>1. Count(Active(d)) = Count(Active(closed))
        BY <2>6, <2>11 DEF Count
      <4>2. QED
        BY <2>7, <2>8, <2>9, <2>13, <4>1 DEF RefsAre
    <3>3. TableFits(d, w)
      BY <2>7, <2>8, <2>9 DEF TableFits
    <3>4. QED
      BY <3>1, <3>2, <3>3 DEF Fits
  <2>15. /\ Fits(u, e, w) /\ Winds(d, u) /\ u.cflags = d.cflags
         /\ Active(u) <=> Active(d)
         /\ u.timeout = d.timeout \/ u.timeout = "none"
    <3>1. e + 1 \in Nat /\ 1 \in Nat /\ 1 <= e + 1 /\ (e + 1) - 1 = e
      OBVIOUS
    <3>2. QED
      BY <2>14, <3>1, UnrefEffect
  <2> HIDE DEF u
  <2>16. u \in SessionState
    BY <2>15 DEF Fits, Whole
  <2>17. Winds(t, u)
    <3>1. Winds(t, closed)
      BY <1>1, <2>2, <2>5, <2>6, <2>7, WindsTransitive
    <3>2. Winds(t, cut)
      BY <1>1, <2>7, <2>8, <2>10, <3>1, WindsTransitive
    <3>3. Winds(t, d)
      BY <1>1, <2>8, <2>9, <2>12, <3>2, WindsTransitive
    <3>4. QED
      BY <1>1, <2>9, <2>15, <2>16, <3>3, WindsTransitive
  <2>18. ~u.native /\ u.pcClose /\ "WS_ACTIVE" \notin u.flags
    <3>1. ~u.native
      BY <2>9, <2>15 DEF Winds
    <3>2. u.pcClose
      BY <2>8, <2>9, <2>15 DEF Winds
    <3>3. "WS_ACTIVE" \notin u.flags
      BY <2>8, <2>9, <2>15 DEF Winds, b
    <3>4. QED
      BY <3>1, <3>2, <3>3
  <2>19. \A c \in OwnedChannels(t) : "DC_ACTIVE" \notin u.cflags[c]
    BY <2>6, <2>8, <2>9, <2>15
  <2>20. QED
    BY <1>3, <2>1, <2>2, <2>6, <2>8, <2>9, <2>11, <2>15, <2>17, <2>18, <2>19
<1>4. QED
  BY <1>2, <1>3

\* The same, for functions that do not only wind the session down: none asks
\* for a native session, receives, or takes the answer.
Moves(t, u) ==
  /\ u.ref > 0 =>
       /\ t.ref > 0
       /\ t.flags \cap {"READY_SIGNAL_RECEIVED", "ALL_CHANNELS_OPENED"} \subseteq u.flags
  /\ Unknown(u) => Unknown(t)
  /\ \/ (u.native <=> t.native) /\ u.exec = t.exec
     \/ t.native /\ ~u.native /\ u.exec = EndQueue(t)
  /\ (u.executor <=> t.executor) /\ (u.private <=> t.private)
  /\ Found(t.fault) => Found(u.fault)

\* A session that is wound down moves towards its end.
LEMMA WindsMoves ==
  ASSUME NEW t, NEW u, Winds(t, u), Whole(u)
  PROVE  Moves(t, u)
<1>1. u.ref \in Nat
  BY SessionFields DEF Whole
<1>2. Unknown(u) => Unknown(t)
  BY <1>1 DEF Winds, Whole, Unknown
<1>3. t.flags \cap {"READY_SIGNAL_RECEIVED", "ALL_CHANNELS_OPENED"}
        \subseteq t.flags \ {"ACTIVE", "WS_ACTIVE", "PC_ACTIVE"}
  OBVIOUS
<1>4. QED
  BY <1>2, <1>3 DEF Winds, Moves

\* Moves compose.
LEMMA MovesTransitive ==
  ASSUME NEW t, NEW u, NEW v, Moves(t, u), Moves(u, v)
  PROVE  Moves(t, v)
<1>1. \/ (v.native <=> t.native) /\ v.exec = t.exec
      \/ t.native /\ ~v.native /\ v.exec = EndQueue(t)
  BY DEF Moves, EndQueue
<1>2. v.ref > 0 =>
        /\ t.ref > 0
        /\ t.flags \cap {"READY_SIGNAL_RECEIVED", "ALL_CHANNELS_OPENED"} \subseteq v.flags
  BY DEF Moves
<1>3. QED
  BY <1>1, <1>2 DEF Moves

\* Commands of different kinds, channels or handles differ.
LEMMA CommandIdentity ==
  /\ Create # Destroy
  /\ \A c, h : Receive(c, h) # Create /\ Receive(c, h) # Destroy
  /\ \A c, d, g, h : Receive(c, g) = Receive(d, h) => c = d /\ g = h
  /\ \A c : Create \notin Receives(c) /\ Destroy \notin Receives(c)
  BY DEF Create, Destroy, Receive, Receives

\* What becomes of the commands: they stay, and the end of the native session
\* may be queued behind them.
LEMMA CommandsMove ==
  ASSUME NEW t \in SessionState, NEW u, Moves(t, u),
         t.native => ~Has(t.exec, Destroy)
  PROVE  /\ \A x : x # Destroy => (Has(u.exec, x) <=> Has(t.exec, x))
         /\ Has(u.exec, Destroy) => Has(t.exec, Destroy) \/ (t.native /\ ~u.native)
         /\ Has(t.exec, Destroy) => Has(u.exec, Destroy)
         /\ u.native => t.native
         /\ Single(t.exec, Create) => Single(u.exec, Create)
         /\ Single(t.exec, Destroy) => Single(u.exec, Destroy)
         /\ \A c : Among(u.exec, Receives(c)) = Among(t.exec, Receives(c))
         /\ \A c : Follows(t.exec, Receive(c, TRUE), Destroy)
                     => Follows(u.exec, Receive(c, TRUE), Destroy)
         /\ ~Has(t.exec, Destroy) /\ Has(u.exec, Destroy) =>
              \A c : Follows(u.exec, Receive(c, TRUE), Destroy)
<1>1. t.exec \in Seq(Commands)
  BY SessionFields
<1>2. CASE u.exec = t.exec
  BY <1>2 DEF Moves
<1>3. CASE u.exec # t.exec
  <2>1. /\ t.native /\ ~u.native /\ u.exec = Append(t.exec, Destroy)
        /\ ~Has(t.exec, Destroy)
    BY <1>3 DEF Moves, EndQueue
  <2>2. \A x : Has(u.exec, x) <=> Has(t.exec, x) \/ x = Destroy
    BY <1>1, <2>1, CommandTypes, HasAppend
  <2>3. /\ Single(t.exec, Create) => Single(u.exec, Create)
        /\ Single(t.exec, Destroy) => Single(u.exec, Destroy)
    BY <1>1, <2>1, CommandTypes, CommandIdentity, SingleAppend
  <2>4. \A c : Among(u.exec, Receives(c)) = Among(t.exec, Receives(c))
    BY <1>1, <2>1, CommandTypes, CommandIdentity, AmongAppend
  <2>5. ASSUME NEW c PROVE Follows(u.exec, Receive(c, TRUE), Destroy)
    <3>1. Receive(c, TRUE) # Destroy
      BY CommandIdentity
    <3>2. Follows(Append(t.exec, Destroy), Receive(c, TRUE), Destroy)
      BY <1>1, <3>1, CommandTypes, FollowsAppend
    <3>3. QED
      BY <2>1, <3>2
  <2>6. QED
    BY <2>1, <2>2, <2>3, <2>4, <2>5
<1>4. QED
  BY <1>2, <1>3
-----------------------------------------------------------------------------
(***************************************************************************)
(* The queue of the plugin thread.                                         *)
(***************************************************************************)
LEMMA TaskIdentity ==
  /\ \A op, c, p, d : OnChannel(op, c) = OnChannel(p, d) <=> op = p /\ c = d
  /\ \A op : Plain(op) = OnChannel(op, 0)
  /\ \A op, c : OnChannel(op, c).op = op /\ OnChannel(op, c).c = c
  BY DEF OnChannel, Plain

\* A task record is its operation and its channel.
LEMMA TaskTypes ==
  /\ \A op \in TaskOps, c \in Chan : OnChannel(op, c) \in TaskRecords
  /\ \A x \in TaskRecords :
       x = OnChannel(x.op, x.c) /\ x.op \in TaskOps /\ x.c \in Chan
  BY DEF OnChannel, TaskRecords

\* The current task is op of channel c.
Taken(op, c) == tasks # <<>> /\ Head(tasks) = OnChannel(op, c) /\ tasks' = Tail(tasks)

\* A handler takes the task at the head of the queue.
LEMMA TakesTaken ==
  ASSUME Types, QueueFits, NEW op, Takes(op)
  PROVE  /\ Taken(op, Head(tasks).c) /\ Head(tasks).c \in Chan /\ op \in TaskOps
         /\ op \notin ChannelOps => Taken(op, 0)
         /\ env' = env
<1>1. /\ tasks \in Seq(TaskRecords) /\ tasks # <<>> /\ Head(tasks).op = op
      /\ tasks' = Tail(tasks) /\ env' = env
  BY DEF Types, Takes
<1>2. Head(tasks) \in TaskRecords /\ Has(tasks, Head(tasks))
  BY <1>1, TailForm, HasTail
<1>3. Head(tasks) = OnChannel(op, Head(tasks).c) /\ Head(tasks).c \in Chan /\ op \in TaskOps
  BY <1>1, <1>2, TaskTypes
<1>4. op \notin ChannelOps => Head(tasks).c = 0
  BY <1>1, <1>2 DEF QueueFits
<1>5. QED
  BY <1>1, <1>3, <1>4 DEF Taken

\* What taking the head leaves queued, and in which order.
LEMMA TakeEffect ==
  ASSUME tasks \in Seq(TaskRecords), NEW op, NEW c, Taken(op, c)
  PROVE  /\ tasks' \in Seq(TaskRecords) /\ Queued(op, c)
         /\ \A p, d : Queued(p, d) <=> Queued(p, d)' \/ (p = op /\ d = c)
         /\ \A x : Single(tasks, x) => Single(tasks', x)
         /\ Single(tasks, OnChannel(op, c)) => ~Queued(op, c)'
         /\ \A x, y : Follows(tasks, x, y) => Follows(tasks', x, y)
         /\ \A y : Follows(tasks, OnChannel(op, c), y) => Has(tasks', y)
         /\ \A y : ~Leads(tasks, y, OnChannel(op, c))
         /\ \A x, y : y # OnChannel(op, c) /\ Leads(tasks, y, x) => Leads(tasks', y, x)
<1>1. tasks # <<>> /\ Head(tasks) = OnChannel(op, c) /\ tasks' = Tail(tasks)
  BY DEF Taken
<1>2. tasks' \in Seq(TaskRecords)
  BY <1>1, TailForm
<1>3. \A p, d : Queued(p, d) <=> Queued(p, d)' \/ (p = op /\ d = c)
  BY <1>1, HasTail, TaskIdentity DEF Queued
<1>4. \A x : Single(tasks, x) => Single(tasks', x)
  BY <1>1, SingleTail
<1>5. Single(tasks, OnChannel(op, c)) => ~Queued(op, c)'
  BY <1>1, SingleTail DEF Queued
<1>6. /\ \A x, y : Follows(tasks, x, y) => Follows(tasks', x, y)
      /\ \A y : Follows(tasks, OnChannel(op, c), y) => Has(tasks', y)
  BY <1>1, FollowsTail
<1>7. /\ \A y : ~Leads(tasks, y, OnChannel(op, c))
      /\ \A x, y : y # OnChannel(op, c) /\ Leads(tasks, y, x) => Leads(tasks', y, x)
  BY <1>1, LeadsTail
<1>8. QED
  BY <1>2, <1>3, <1>4, <1>5, <1>6, <1>7

\* How many receives of channel d are complete when the current task is taken.
LEMMA TakeAmong ==
  ASSUME tasks \in Seq(TaskRecords), NEW op, NEW c, Taken(op, c), NEW d
  PROVE  LET done == {OnChannel("receiveDone", d)}
         IN /\ Among(tasks', done) \in Nat
            /\ op = "receiveDone" /\ c = d => Among(tasks, done) = Among(tasks', done) + 1
            /\ op # "receiveDone" \/ c # d => Among(tasks, done) = Among(tasks', done)
<1> DEFINE done == {OnChannel("receiveDone", d)}
<1>1. /\ tasks # <<>> /\ Head(tasks) = OnChannel(op, c) /\ tasks' = Tail(tasks)
  BY DEF Taken
<1>2. OnChannel(op, c) \in done <=> op = "receiveDone" /\ c = d
  BY TaskIdentity
<1>3. Tail(tasks) \in Seq(TaskRecords)
  BY <1>1, TailForm
<1> HIDE DEF done
<1>4. Among(Tail(tasks), done) \in Nat
  BY <1>3, AmongType
<1>5. /\ Head(tasks) \in done => Among(tasks, done) = Among(Tail(tasks), done) + 1
      /\ Head(tasks) \notin done => Among(tasks, done) = Among(Tail(tasks), done)
  BY <1>1, AmongTail
<1>6. QED
  BY <1>1, <1>2, <1>4, <1>5 DEF done

\* What the queue is after a task was taken that is not the answer of the native
\* thread, or when a timer fired.
Shrinks ==
  /\ tasks' \in Seq(TaskRecords)
  /\ \A x : Has(tasks', x) => Has(tasks, x)
  /\ Queued("created", 0) => Queued("created", 0)'
  /\ \A x : Single(tasks, x) => Single(tasks', x)
  /\ \A x, y : Follows(tasks, x, y) => Follows(tasks', x, y)
  /\ \A x : Leads(tasks, Plain("created"), x) => Leads(tasks', Plain("created"), x)
  /\ \A d : Among(tasks', {OnChannel("receiveDone", d)})
              <= Among(tasks, {OnChannel("receiveDone", d)})

\* Taking a task, other than the answer to a creation, leaves the others in order.
LEMMA TakenShrinks ==
  ASSUME tasks \in Seq(TaskRecords), NEW op, NEW c, Taken(op, c), op # "created"
  PROVE  Shrinks
<1>1. \A x : Has(tasks', x) => Has(tasks, x)
  BY HasTail DEF Taken
<1>2. Queued("created", 0) => Queued("created", 0)'
  BY TakeEffect
<1>3. Plain("created") # OnChannel(op, c)
  BY TaskIdentity
<1>4. \A d : Among(tasks', {OnChannel("receiveDone", d)})
              <= Among(tasks, {OnChannel("receiveDone", d)})
  <2> TAKE d
  <2> DEFINE done == {OnChannel("receiveDone", d)}
  <2>1. /\ Among(tasks', done) \in Nat
        /\ Among(tasks, done) = Among(tasks', done) + 1 \/ Among(tasks, done) = Among(tasks', done)
    BY TakeAmong
  <2> HIDE DEF done
  <2>2. Among(tasks', done) <= Among(tasks, done)
    BY <2>1
  <2>3. QED
    BY <2>2 DEF done
<1>5. QED
  BY <1>1, <1>2, <1>3, <1>4, TakeEffect DEF Shrinks

\* So does leaving the queue alone.
LEMMA UnchangedShrinks ==
  ASSUME tasks \in Seq(TaskRecords), UNCHANGED tasks
  PROVE  Shrinks
<1>1. \A d : Among(tasks, {OnChannel("receiveDone", d)}) \in Nat
  BY AmongType
<1>2. Queued("created", 0)' <=> Queued("created", 0)
  BY DEF Queued
<1>3. QED
  BY <1>1, <1>2 DEF Shrinks

\* The receives under way of a channel can be counted.
LEMMA WaitingType ==
  ASSUME Types, NEW c
  PROVE  /\ Among(s.exec, Receives(c)) \in Nat
         /\ Among(tasks, {OnChannel("receiveDone", c)}) \in Nat
         /\ Waiting(c) \in Nat
<1>1. s.exec \in Seq(Commands) /\ tasks \in Seq(TaskRecords)
  BY SessionFields DEF Types
<1>2. Among(s.exec, Receives(c)) \in Nat /\ Among(tasks, {OnChannel("receiveDone", c)}) \in Nat
  BY <1>1, AmongType
<1>3. QED
  BY <1>2 DEF Waiting

\* The lemma every handler uses: a step that takes at most a task, moves the session
\* onwards and leaves it fitting what still refers to it keeps the invariant.
LEMMA MoveKeeps ==
  ASSUME SessionInv, Shrinks, Moves(s, s'), env' = env, Fits(s', Holders', Waits')
  PROVE  SessionInv'
<1>1. /\ Types /\ QueueFits /\ NativeFits /\ HandleFits /\ EventFits
      /\ Unknown(s) => \A c \in Chan : Waiting(c) = 0
      /\ Found(s.fault)
      /\ s \in SessionState /\ s.ref \in Nat /\ s' \in SessionState /\ s'.ref \in Nat
  BY SessionFields DEF SessionInv, Types, Fits, Whole
<1>2. \A p, d : Queued(p, d)' => Queued(p, d)
  BY DEF Shrinks, Queued
<1>3. /\ \A x : x # Destroy => (Has(s'.exec, x) <=> Has(s.exec, x))
      /\ Has(s'.exec, Destroy) => Has(s.exec, Destroy) \/ (s.native /\ ~s'.native)
      /\ Has(s.exec, Destroy) => Has(s'.exec, Destroy)
      /\ s'.native => s.native
      /\ Single(s.exec, Create) => Single(s'.exec, Create)
      /\ Single(s.exec, Destroy) => Single(s'.exec, Destroy)
      /\ \A c : Among(s'.exec, Receives(c)) = Among(s.exec, Receives(c))
      /\ \A c : Follows(s.exec, Receive(c, TRUE), Destroy)
                  => Follows(s'.exec, Receive(c, TRUE), Destroy)
      /\ ~Has(s.exec, Destroy) /\ Has(s'.exec, Destroy) =>
           \A c : Follows(s'.exec, Receive(c, TRUE), Destroy)
  BY <1>1, CommandsMove DEF NativeFits
<1>4. /\ s'.private <=> s.private
      /\ Unknown(s') => Unknown(s)
      /\ Found(s'.fault)
      /\ s'.ref > 0 =>
           /\ s.ref > 0
           /\ s.flags \cap {"READY_SIGNAL_RECEIVED", "ALL_CHANNELS_OPENED"} \subseteq s'.flags
  BY <1>1 DEF Moves
<1>5. Types'
  BY <1>1 DEF Types, Shrinks
<1>6. QueueFits'
  BY <1>1, <1>2, <1>3, CommandIdentity DEF QueueFits, Shrinks
<1>7. NativeFits'
  <2>1. Has(s'.exec, Create) <=> Has(s.exec, Create)
    BY <1>3, CommandIdentity
  <2>2. /\ Queued("created", 0)' <=> Queued("created", 0)
        /\ Queued("createFailed", 0)' => Queued("createFailed", 0)
    BY <1>2 DEF Shrinks
  <2>3. s'.native => s'.private /\ env.native = "alive" /\ ~Has(s'.exec, Destroy)
    BY <1>1, <1>3, <1>4 DEF NativeFits
  <2>4. Has(s'.exec, Destroy) => s'.private /\ env.native = "alive"
    BY <1>1, <1>3, <1>4 DEF NativeFits
  <2>5. Has(s.exec, Create) \/ env.native # "none" =>
       s'.ref = 0 \/ {"READY_SIGNAL_RECEIVED", "ALL_CHANNELS_OPENED"} \subseteq s'.flags
    BY <1>1, <1>4 DEF NativeFits
  <2>6. QED
    BY <1>1, <1>4, <2>1, <2>2, <2>3, <2>4, <2>5 DEF NativeFits
<1>8. HandleFits'
  BY <1>1, <1>3, CommandIdentity DEF HandleFits
<1>9. EventFits'
  BY <1>1, <1>4 DEF EventFits, Shrinks
<1>10. Unknown(s') => \A c \in Chan : Waiting(c)' = 0
  <2> SUFFICES ASSUME Unknown(s'), NEW c \in Chan PROVE Waiting(c)' = 0
    OBVIOUS
  <2>1. Waiting(c) = 0
    BY <1>1, <1>4
  <2>2. Among(s.exec, Receives(c)) = 0 /\ Among(tasks, {OnChannel("receiveDone", c)}) = 0
    BY <1>1, <2>1, WaitingType DEF Waiting
  <2>3. /\ Among(s'.exec, Receives(c)) = 0
        /\ Among(tasks', {OnChannel("receiveDone", c)}) = 0
    <3>1. Among(tasks', {OnChannel("receiveDone", c)}) \in Nat
      BY AmongType DEF Shrinks
    <3>2. Among(tasks', {OnChannel("receiveDone", c)})
            <= Among(tasks, {OnChannel("receiveDone", c)})
      BY DEF Shrinks
    <3>3. QED
      BY <1>3, <2>2, <3>1, <3>2
  <2>4. QED
    BY <2>3 DEF Waiting
<1>11. QED
  BY <1>4, <1>5, <1>6, <1>7, <1>8, <1>9, <1>10 DEF SessionInv

Answers == {"created", "createFailed"}

\* The number of holders is a natural number, and at least one while any holds.
LEMMA HoldersType ==
  /\ Holders \in Nat /\ Holders' \in Nat
  /\ WsHolds \/ PcHolds \/ Asking => Holders >= 1
  BY DEF Holders, Count

\* So are the receives under way, channel by channel.
LEMMA WaitsType ==
  ASSUME Types
  PROVE  Waits \in [Chan -> Nat]
  BY WaitingType DEF Waits

\* What holds the session after a task was taken.
LEMMA TakenHolders ==
  ASSUME SessionInv, NEW op, NEW c, Taken(op, c), Moves(s, s'), env' = env,
         op \in Answers \cup {"wsClosed", "pcClosed"} => c = 0
  PROVE  /\ op \notin Answers \cup {"wsClosed", "pcClosed"} => Holders' = Holders
         /\ op \in {"wsClosed", "pcClosed", "createFailed"} => Holders' = Holders - 1
<1>1. /\ tasks \in Seq(TaskRecords) /\ QueueFits /\ NativeFits /\ s \in SessionState
  BY DEF SessionInv, Types
<1>2. Has(s'.exec, Create) <=> Has(s.exec, Create)
  BY <1>1, CommandsMove, CommandIdentity DEF NativeFits
<1>3. \A p, d : Queued(p, d) <=> Queued(p, d)' \/ (p = op /\ d = c)
  BY <1>1, TakeEffect
<1>4. op \in Answers \cup {"wsClosed", "pcClosed"} => Queued(op, 0) /\ ~Queued(op, 0)'
  BY <1>1, TakeEffect, TaskIdentity DEF QueueFits, Answers
<1>5. op # "wsClosed" => (WsHolds' <=> WsHolds)
  BY <1>3 DEF WsHolds
<1>6. op # "pcClosed" => (PcHolds' <=> PcHolds)
  BY <1>3 DEF PcHolds
<1>7. op \notin Answers => (Asking' <=> Asking)
  BY <1>2, <1>3 DEF Asking, Answers
<1>8. op = "wsClosed" => WsHolds /\ ~WsHolds'
  BY <1>1, <1>4 DEF WsHolds, QueueFits
<1>9. op = "pcClosed" => PcHolds /\ ~PcHolds'
  BY <1>1, <1>4 DEF PcHolds, QueueFits
<1>10. op = "createFailed" => Asking /\ ~Asking'
  <2>1. op = "createFailed" => /\ ~Has(s.exec, Create) /\ ~Queued("created", 0)
                               /\ env.native \notin {"orphan", "lost"}
    BY <1>1, <1>4 DEF NativeFits, Answers
  <2>2. QED
    BY <1>2, <1>3, <1>4, <2>1 DEF Asking, Answers
<1>11. CASE op \notin Answers \cup {"wsClosed", "pcClosed"}
  <2>1. op # "wsClosed" /\ op # "pcClosed" /\ op \notin Answers
    BY <1>11
  <2>2. (WsHolds' <=> WsHolds) /\ (PcHolds' <=> PcHolds) /\ (Asking' <=> Asking)
    BY <1>5, <1>6, <1>7, <2>1
  <2>3. Holders' = Holders
    BY <2>2 DEF Holders, Count
  <2>4. QED
    BY <2>1, <2>3 DEF Answers
<1>12. CASE op = "wsClosed"
  <2>1. (PcHolds' <=> PcHolds) /\ (Asking' <=> Asking) /\ WsHolds /\ ~WsHolds'
    BY <1>6, <1>7, <1>8, <1>12 DEF Answers
  <2>2. QED
    BY <1>12, <2>1 DEF Holders, Count, Answers
<1>13. CASE op = "pcClosed"
  <2>1. (WsHolds' <=> WsHolds) /\ (Asking' <=> Asking) /\ PcHolds /\ ~PcHolds'
    BY <1>5, <1>7, <1>9, <1>13 DEF Answers
  <2>2. QED
    BY <1>13, <2>1 DEF Holders, Count, Answers
<1>14. CASE op = "createFailed"
  <2>1. (WsHolds' <=> WsHolds) /\ (PcHolds' <=> PcHolds) /\ Asking /\ ~Asking'
    BY <1>5, <1>6, <1>10, <1>14
  <2>2. QED
    BY <1>14, <2>1 DEF Holders, Count, Answers
<1>15. QED
  BY <1>11, <1>12, <1>13, <1>14 DEF Answers

\* A channel waits for one receive less only when its end is taken.
LEMMA TakenWaits ==
  ASSUME SessionInv, NEW op, NEW c, Taken(op, c), Moves(s, s')
  PROVE  /\ op # "receiveDone" => Waits' = Waits
         /\ \A d \in Chan : op # "receiveDone" \/ d # c => Waits'[d] = Waits[d]
         /\ op = "receiveDone" /\ c \in Chan => Waits[c] = Waits'[c] + 1
<1>1. /\ Types /\ tasks \in Seq(TaskRecords) /\ NativeFits /\ s \in SessionState
  BY DEF SessionInv, Types
<1>2. \A d : Among(s'.exec, Receives(d)) = Among(s.exec, Receives(d))
  BY <1>1, CommandsMove DEF NativeFits
<1>3. ASSUME NEW d, op # "receiveDone" \/ d # c PROVE Waiting(d)' = Waiting(d)
  <2>1. Among(tasks, {OnChannel("receiveDone", d)})
          = Among(tasks', {OnChannel("receiveDone", d)})
    BY <1>1, <1>3, TakeAmong
  <2>2. QED
    BY <1>2, <2>1 DEF Waiting
<1>4. ASSUME op = "receiveDone" PROVE Waiting(c) = Waiting(c)' + 1
  <2>1. /\ Among(tasks, {OnChannel("receiveDone", c)})
             = Among(tasks', {OnChannel("receiveDone", c)}) + 1
        /\ Among(tasks', {OnChannel("receiveDone", c)}) \in Nat
    BY <1>1, <1>4, TakeAmong
  <2>2. Among(s.exec, Receives(c)) \in Nat
    BY <1>1, WaitingType
  <2>3. QED
    BY <1>2, <2>1, <2>2 DEF Waiting
<1>5. /\ \A d \in Chan : Waits[d] = Waiting(d) /\ Waits'[d] = Waiting(d)'
  BY DEF Waits
<1>6. op # "receiveDone" => Waits' = Waits
  BY <1>3 DEF Waits
<1>7. QED
  BY <1>3, <1>4, <1>5, <1>6

\* A timer changes no holder and no receive under way.
LEMMA UnchangedHolders ==
  ASSUME SessionInv, UNCHANGED <<tasks, env>>, Moves(s, s')
  PROVE  Holders' = Holders /\ Waits' = Waits
<1>1. NativeFits /\ s \in SessionState
  BY DEF SessionInv, Types
<1>2. /\ Has(s'.exec, Create) <=> Has(s.exec, Create)
      /\ \A d : Among(s'.exec, Receives(d)) = Among(s.exec, Receives(d))
  BY <1>1, CommandsMove, CommandIdentity DEF NativeFits
<1>3. (WsHolds' <=> WsHolds) /\ (PcHolds' <=> PcHolds) /\ (Asking' <=> Asking)
  BY <1>2 DEF WsHolds, PcHolds, Asking, Queued
<1>4. Holders' = Holders
  BY <1>3 DEF Holders, Count
<1>5. \A d : Waiting(d)' = Waiting(d)
  BY <1>2 DEF Waiting
<1>6. QED
  BY <1>4, <1>5 DEF Waits

\* A function that winds the session down, drops n of its references and does
\* nothing else, keeps the invariant, if what held them has ended.
LEMMA TakenKeeps ==
  ASSUME SessionInv, NEW op, NEW c, Taken(op, c), env' = env,
         op \notin Answers \cup {"wsClosed", "pcClosed", "receiveDone"},
         Moves(s, s'), Fits(s', Holders, Waits)
  PROVE  SessionInv'
<1>1. tasks \in Seq(TaskRecords)
  BY DEF SessionInv, Types
<1>2. Shrinks
  BY <1>1, TakenShrinks DEF Answers
<1>3. Holders' = Holders /\ Waits' = Waits
  BY TakenHolders, TakenWaits
<1>4. QED
  BY <1>2, <1>3, MoveKeeps

\* The same as MoveKeeps for a timer, which takes no task.
LEMMA TimerKeeps ==
  ASSUME SessionInv, UNCHANGED <<tasks, env>>,
         Moves(s, s'), Fits(s', Holders, Waits)
  PROVE  SessionInv'
<1>1. Shrinks
  BY UnchangedShrinks DEF SessionInv, Types
<1>2. Holders' = Holders /\ Waits' = Waits
  BY UnchangedHolders
<1>3. QED
  BY <1>1, <1>2, MoveKeeps
-----------------------------------------------------------------------------
(***************************************************************************)
(* Every step keeps the invariant.                                         *)
(***************************************************************************)
\* u is t but for what Fits does not look at, and flags of the negotiation.
Resembles(t, u) ==
  /\ u \in SessionState
  /\ t.flags \subseteq u.flags
  /\ u.flags \subseteq t.flags \cup {"READY_SIGNAL_RECEIVED", "ALL_CHANNELS_OPENED"}
  /\ t.ref = 0 => u.flags = {}
  /\ "ALL_CHANNELS_OPENED" \in u.flags => u.opened >= N + 1
  /\ u.ref = t.ref /\ u.table = t.table /\ u.cref = t.cref /\ u.cflags = t.cflags
  /\ (u.native <=> t.native) /\ u.exec = t.exec
  /\ (u.executor <=> t.executor) /\ (u.private <=> t.private)
  /\ Found(t.fault) => Found(u.fault)

\* A session that resembles a fitting one fits, moves and is as active.
LEMMA ResemblesEffect ==
  ASSUME NEW t, NEW u, NEW e \in Nat, NEW w, Fits(t, e, w), Resembles(t, u)
  PROVE  Fits(u, e, w) /\ Moves(t, u) /\ (Active(u) <=> Active(t))
<1>1. Whole(t) /\ RefsAre(t, e) /\ TableFits(t, w)
  BY DEF Fits
<1>2. LiveChannels(u) = LiveChannels(t)
  BY DEF Resembles, LiveChannels, ChannelLive
<1>3. Active(u) <=> Active(t)
  BY DEF Resembles, Active
<1>4. Whole(u)
  BY <1>1, <1>2 DEF Whole, Resembles
<1>5. RefsAre(u, e)
  BY <1>1, <1>2, <1>3 DEF RefsAre, Resembles, Count
<1>6. TableFits(u, w)
  BY <1>1 DEF TableFits, Resembles
<1>7. Moves(t, u)
  BY DEF Moves, Resembles, Unknown
<1>8. QED
  BY <1>3, <1>4, <1>5, <1>6, <1>7 DEF Fits

\* Closing a session and dropping one reference of it, as every holder's end does.
LEMMA CloseUnrefEffect ==
  ASSUME NEW t, NEW e \in Nat, NEW w \in [Chan -> Nat], e >= 1, Fits(t, e, w)
  PROVE  LET u == SessionUnref(SessionClose(t), 1)
         IN /\ Fits(u, e - 1, w) /\ Winds(t, u) /\ ~Active(u)
            /\ Active(t) => /\ ~u.native /\ u.pcClose /\ "WS_ACTIVE" \notin u.flags
                            /\ \A c \in OwnedChannels(t) : "DC_ACTIVE" \notin u.cflags[c]
<1> DEFINE d == SessionClose(t)
           u == SessionUnref(d, 1)
<1>1. /\ Fits(d, e, w) /\ Winds(t, d) /\ ~Active(d)
      /\ Active(t) => /\ ~d.native /\ d.pcClose /\ "WS_ACTIVE" \notin d.flags
                      /\ \A c \in OwnedChannels(t) : "DC_ACTIVE" \notin d.cflags[c]
  BY SessionCloseEffect
<1> HIDE DEF d
<1>2. /\ Fits(u, e - 1, w) /\ Winds(d, u) /\ ~Active(u) /\ u.cflags = d.cflags
  BY <1>1, UnrefEffect
<1> HIDE DEF u
<1>3. Winds(t, u)
  BY <1>1, <1>2, WindsTransitive DEF Fits, Whole
<1>4. Active(t) => ~u.native /\ u.pcClose /\ "WS_ACTIVE" \notin u.flags
  BY <1>1, <1>2 DEF Winds
<1>5. QED
  BY <1>1, <1>2, <1>3, <1>4 DEF u, d

\* The parts of the invariant, for citing.
LEMMA Invariants ==
  ASSUME SessionInv
  PROVE  /\ Types /\ s \in SessionState /\ tasks \in Seq(TaskRecords)
         /\ QueueFits /\ NativeFits /\ HandleFits /\ EventFits
         /\ Fits(s, Holders, Waits) /\ Holders \in Nat /\ Waits \in [Chan -> Nat]
         /\ Found(s.fault)
         /\ Unknown(s) => \A c \in Chan : Waiting(c) = 0
  BY HoldersType, WaitsType DEF SessionInv, Types

\* What is held is live.
LEMMA HeldIsLive ==
  ASSUME SessionInv, WsHolds \/ PcHolds \/ Asking
  PROVE  Live(s) /\ Holders >= 1
<1>1. s.ref = Holders + Count(Active(s)) + Cardinality(LiveChannels(s))
  BY Invariants DEF Fits, RefsAre
<1>2. Holders \in Nat /\ Holders >= 1
  BY HoldersType
<1>3. QED
  BY <1>1, <1>2, ActiveCount, LiveFinite DEF Live

\* An event of a peer connection finds its session.
LEMMA PcEventHeld ==
  ASSUME SessionInv, NEW op, NEW c \in Chan, Taken(op, c),
         op \in PcOps \cup {"pcClosed"}, op = "pcClosed" => c = 0
  PROVE  Live(s) /\ Holders >= 1
<1>1. PcHolds
  <2>1. CASE env.pc # "closed"
    BY <2>1 DEF PcHolds
  <2>2. CASE env.pc = "closed" /\ op = "pcClosed"
    BY <2>2, Invariants, TakeEffect DEF PcHolds
  <2>3. CASE env.pc = "closed" /\ op \in PcOps
    <3>1. Follows(tasks, OnChannel(op, c), Plain("pcClosed"))
      BY <2>3, Invariants DEF EventFits
    <3>2. Queued("pcClosed", 0)'
      BY <3>1, Invariants, TakeEffect, TaskIdentity DEF Queued
    <3>3. QED
      BY <3>2, Invariants, TakeEffect DEF PcHolds
  <2>4. QED
    BY <2>1, <2>2, <2>3
<1>2. QED
  BY <1>1, HeldIsLive

\* A call of the application finds the session.
LEMMA UserFindsSession ==
  ASSUME "untold" \notin Faults, SessionInv, NEW op \in UserOps, NEW c \in Chan, Taken(op, c)
  PROVE  s.private
<1>1. ~Leads(tasks, Plain("created"), OnChannel(op, c))
  BY Invariants, TakeEffect
<1>2. QED
  BY <1>1, Invariants DEF EventFits

\* The close of the WebSocket or of the peer connection, or a refusal, closes
\* the session and drops a reference.
LEMMA EndKeeps ==
  ASSUME SessionInv, NEW op \in {"wsClosed", "pcClosed", "createFailed"}, Takes(op),
         s' = SessionUnref(SessionClose(s), 1)
  PROVE  SessionInv'
<1>1. Taken(op, 0) /\ env' = env /\ op \notin ChannelOps
  BY Invariants, TakesTaken DEF ChannelOps
<1>2. Holders >= 1
  <2>1. WsHolds \/ PcHolds \/ Asking
    BY <1>1, Invariants, TakeEffect DEF WsHolds, PcHolds, Asking
  <2>2. QED
    BY <2>1, HeldIsLive
<1>3. Fits(s', Holders - 1, Waits) /\ Winds(s, s')
  BY <1>2, Invariants, CloseUnrefEffect
<1>4. Moves(s, s')
  BY <1>3, WindsMoves DEF Fits
<1>5. Holders' = Holders - 1 /\ Waits' = Waits
  BY <1>1, <1>4, TakenHolders, TakenWaits
<1>6. Shrinks
  BY <1>1, Invariants, TakenShrinks
<1>7. QED
  BY <1>1, <1>3, <1>4, <1>5, <1>6, MoveKeeps

\* `OnWsClosed` keeps the invariant.
LEMMA OnWsClosedKeeps == SessionInv /\ OnWsClosed => SessionInv'
<1> SUFFICES ASSUME SessionInv, OnWsClosed PROVE SessionInv'
  OBVIOUS
<1>1. Takes("wsClosed") /\ s' = IF Live(s) THEN SessionUnref(SessionClose(s), 1) ELSE s
  BY DEF OnWsClosed
<1>2. Live(s)
  <2>1. Taken("wsClosed", 0)
    BY <1>1, Invariants, TakesTaken DEF ChannelOps
  <2>2. QED
    BY <2>1, Invariants, TakeEffect, HeldIsLive DEF WsHolds
<1>3. QED
  BY <1>1, <1>2, EndKeeps

\* `OnPcClosed` keeps the invariant.
LEMMA OnPcClosedKeeps == SessionInv /\ OnPcClosed => SessionInv'
<1> SUFFICES ASSUME SessionInv, OnPcClosed PROVE SessionInv'
  OBVIOUS
<1>1. /\ Takes("pcClosed")
      /\ s' = IF Live(s) THEN SessionUnref(SessionClose(s), 1) ELSE Fail(s, "nullSession")
  BY DEF OnPcClosed, OfSession
<1>2. Live(s)
  <2>1. Taken("pcClosed", 0)
    BY <1>1, Invariants, TakesTaken DEF ChannelOps
  <2>2. QED
    BY <2>1, PcEventHeld, Channels
<1>3. QED
  BY <1>1, <1>2, EndKeeps

\* `OnNativeRefused` keeps the invariant.
LEMMA OnNativeRefusedKeeps == SessionInv /\ OnNativeRefused => SessionInv'
<1> SUFFICES ASSUME SessionInv, OnNativeRefused PROVE SessionInv'
  OBVIOUS
<1>1. /\ Takes("createFailed")
      /\ s' = IF Live(s) THEN SessionUnref(SessionClose(s), 1)
                         ELSE Fail(s, "releasedSession")
  BY DEF OnNativeRefused
<1>2. Live(s)
  <2>1. Taken("createFailed", 0)
    BY <1>1, Invariants, TakesTaken DEF ChannelOps
  <2>2. QED
    BY <2>1, Invariants, TakeEffect, HeldIsLive DEF Asking
<1>3. QED
  BY <1>1, <1>2, EndKeeps

EndOps == Answers \cup {"wsClosed", "pcClosed", "receiveDone"}

\* A session resembles itself, and so does a failed one.
LEMMA ResemblesSelf ==
  ASSUME SessionInv
  PROVE  /\ Resembles(s, s)
         /\ \A name \in FaultNames : Found(name) => Resembles(s, Fail(s, name))
<1>1. s \in SessionState /\ Whole(s)
  BY Invariants DEF Fits
<1>2. Resembles(s, s)
  BY <1>1 DEF Resembles, Whole
<1>3. ASSUME NEW name \in FaultNames, Found(name)
      PROVE  Resembles(s, Fail(s, name))
  <2> DEFINE u == Fail(s, name)
  <2>1. /\ u \in SessionState /\ u.fault = name
        /\ u.flags = s.flags /\ u.ref = s.ref /\ u.opened = s.opened
        /\ u.table = s.table /\ u.cref = s.cref /\ u.cflags = s.cflags
        /\ u.native = s.native /\ u.exec = s.exec
        /\ u.executor = s.executor /\ u.private = s.private
    BY <1>1 DEF Fail, SessionState
  <2> HIDE DEF u
  <2>2. QED
    BY <1>1, <1>3, <2>1 DEF Resembles, Whole, u
<1>4. QED
  BY <1>2, <1>3

\* A task that changes nothing the invariant is about.
LEMMA QuietKeeps ==
  ASSUME SessionInv, NEW op, Takes(op), op \notin EndOps, Resembles(s, s')
  PROVE  SessionInv'
<1>1. Taken(op, Head(tasks).c) /\ env' = env
  BY Invariants, TakesTaken
<1>2. Fits(s', Holders, Waits) /\ Moves(s, s')
  BY Invariants, ResemblesEffect
<1>3. QED
  BY <1>1, <1>2, TakenKeeps DEF EndOps

\* A task that closes the session.
LEMMA ClosingKeeps ==
  ASSUME SessionInv, NEW op, Takes(op), op \notin EndOps, s' = SessionClose(s)
  PROVE  SessionInv'
<1>1. Taken(op, Head(tasks).c) /\ env' = env
  BY Invariants, TakesTaken
<1>2. Fits(s', Holders, Waits) /\ Winds(s, s')
  BY Invariants, SessionCloseEffect
<1>3. Moves(s, s')
  BY <1>2, WindsMoves DEF Fits
<1>4. QED
  BY <1>1, <1>2, <1>3, TakenKeeps DEF EndOps

\* The session of an event of the peer connection is there.
LEMMA OfSessionLive ==
  ASSUME SessionInv, NEW op \in PcOps, Takes(op), NEW next, OfSession(next)
  PROVE  s' = next
<1>1. Taken(op, Head(tasks).c) /\ Head(tasks).c \in Chan
  BY Invariants, TakesTaken
<1>2. Live(s)
  BY <1>1, PcEventHeld DEF PcOps
<1>3. QED
  BY <1>2 DEF OfSession

\* A call of the application finds the private data of its session, or fails as
\* it may: the native session is destroyed, or the call came too early.
LEMMA OfNativeKnown ==
  ASSUME SessionInv, NEW op \in UserOps, NEW next, OfNative(op, next)
  PROVE  /\ Takes(op)
         /\ s' = next \/ \E name \in FaultNames : Found(name) /\ s' = Fail(s, name)
<1>1. /\ Takes(op)
      /\ \/ s' = next \/ s' = Fail(s, "deadNative")
         \/ ~s.private /\ s' = Fail(s, "nullSession")
  BY DEF OfNative
<1>2. ~s.private => "untold" \in Faults
  BY <1>1, Invariants, TakesTaken, UserFindsSession
<1>3. Found("deadNative") /\ ("untold" \in Faults => Found("nullSession"))
  BY DEF Found
<1>4. {"deadNative", "nullSession"} \subseteq FaultNames
  BY DEF FaultNames
<1>5. QED
  BY <1>1, <1>2, <1>3, <1>4

\* `OnPcDown` keeps the invariant.
LEMMA OnPcDownKeeps == SessionInv /\ OnPcDown => SessionInv'
<1> SUFFICES ASSUME SessionInv, OnPcDown PROVE SessionInv'
  OBVIOUS
<1>1. Takes("pcDown") /\ s' = [s EXCEPT !.pcClose = TRUE]
  BY OfSessionLive DEF OnPcDown, PcOps
<1>2. Resembles(s, s')
  <2>1. s \in SessionState
    BY Invariants
  <2>2. /\ s' \in SessionState /\ s'.fault = s.fault
        /\ s'.flags = s.flags /\ s'.ref = s.ref /\ s'.opened = s.opened
        /\ s'.table = s.table /\ s'.cref = s.cref /\ s'.cflags = s.cflags
        /\ s'.native = s.native /\ s'.exec = s.exec
        /\ s'.executor = s.executor /\ s'.private = s.private
    BY <1>1, <2>1 DEF SessionState
  <2>3. QED
    BY <2>2, ResemblesSelf DEF Resembles
<1>3. QED
  BY <1>1, <1>2, QuietKeeps DEF EndOps, Answers

\* `OnLocalCandidate` keeps the invariant.
LEMMA OnLocalCandidateKeeps == SessionInv /\ OnLocalCandidate => SessionInv'
<1> SUFFICES ASSUME SessionInv, OnLocalCandidate PROVE SessionInv'
  OBVIOUS
<1>1. Takes("localCandidate") /\ s' = s
  BY OfSessionLive DEF OnLocalCandidate, PcOps
<1>2. QED
  BY <1>1, ResemblesSelf, QuietKeeps DEF EndOps, Answers

\* `OnBadChannel` keeps the invariant.
LEMMA OnBadChannelKeeps == SessionInv /\ OnBadChannel => SessionInv'
<1> SUFFICES ASSUME SessionInv, OnBadChannel PROVE SessionInv'
  OBVIOUS
<1>1. Takes("badChannel") /\ s' = SessionClose(s)
  BY OfSessionLive DEF OnBadChannel, PcOps
<1>2. QED
  BY <1>1, ClosingKeeps DEF EndOps, Answers

\* `OnDataChannel` keeps the invariant.
LEMMA OnDataChannelKeeps ==
  ASSUME SessionInv, NEW c \in Data, OnDataChannel(c)
  PROVE  SessionInv'
<1> DEFINE next == IF c \notin s.table \/ c \in s.incoming THEN s
                   ELSE [s EXCEPT !.incoming = @ \cup {c}]
<1>1. Takes("dataChannel") /\ s' = next
  BY OfSessionLive DEF OnDataChannel, PcOps
<1>2. Resembles(s, s')
  <2>1. s \in SessionState /\ s.incoming \in SUBSET Data
    BY Invariants, SessionFields
  <2>2. CASE s' = s
    BY <2>2, ResemblesSelf
  <2>3. CASE s' = [s EXCEPT !.incoming = s.incoming \cup {c}]
    <3> DEFINE z == s.incoming \cup {c}
    <3>1. z \in SUBSET Data /\ s' = [s EXCEPT !.incoming = z]
      BY <2>1, <2>3
    <3> HIDE DEF z
    <3>2. /\ s' \in SessionState /\ s'.fault = s.fault
          /\ s'.flags = s.flags /\ s'.ref = s.ref /\ s'.opened = s.opened
          /\ s'.table = s.table /\ s'.cref = s.cref /\ s'.cflags = s.cflags
          /\ s'.native = s.native /\ s'.exec = s.exec
          /\ s'.executor = s.executor /\ s'.private = s.private
      BY <2>1, <3>1 DEF SessionState
    <3>3. QED
      BY <3>2, ResemblesSelf DEF Resembles
  <2>4. QED
    BY <1>1, <2>2, <2>3
<1>3. QED
  BY <1>1, <1>2, QuietKeeps DEF EndOps, Answers

\* `OnDescription` keeps the invariant.
LEMMA OnDescriptionKeeps == SessionInv /\ OnDescription => SessionInv'
<1> SUFFICES ASSUME SessionInv, OnDescription PROVE SessionInv'
  OBVIOUS
<1>1. Takes("description") /\ (s' = s \/ s' = [s EXCEPT !.answered = TRUE])
  BY DEF OnDescription
<1>2. Resembles(s, s')
  <2>1. s \in SessionState
    BY Invariants
  <2>2. CASE s' = [s EXCEPT !.answered = TRUE]
    <3>1. /\ s' \in SessionState /\ s'.fault = s.fault
          /\ s'.flags = s.flags /\ s'.ref = s.ref /\ s'.opened = s.opened
          /\ s'.table = s.table /\ s'.cref = s.cref /\ s'.cflags = s.cflags
          /\ s'.native = s.native /\ s'.exec = s.exec
          /\ s'.executor = s.executor /\ s'.private = s.private
      BY <2>1, <2>2 DEF SessionState
    <3>2. QED
      BY <3>1, ResemblesSelf DEF Resembles
  <2>3. QED
    BY <1>1, <2>2, ResemblesSelf
<1>3. QED
  BY <1>1, <1>2, QuietKeeps DEF EndOps, Answers

\* `OnSystemMessage` keeps the invariant.
LEMMA OnSystemMessageKeeps == SessionInv /\ OnSystemMessage => SessionInv'
<1> SUFFICES ASSUME SessionInv, OnSystemMessage PROVE SessionInv'
  OBVIOUS
<1>1. Takes("systemMessage") /\ s' = s
  BY DEF OnSystemMessage, OfChannel
<1>2. QED
  BY <1>1, ResemblesSelf, QuietKeeps DEF EndOps, Answers

\* `OnDisconnect` keeps the invariant.
LEMMA OnDisconnectKeeps == SessionInv /\ OnDisconnect => SessionInv'
<1> SUFFICES ASSUME SessionInv, OnDisconnect PROVE SessionInv'
  OBVIOUS
<1>1. Takes("disconnect") /\ (s' = SessionClose(s) \/ Resembles(s, s'))
  BY OfNativeKnown, ResemblesSelf DEF OnDisconnect, UserOps
<1>2. QED
  BY <1>1, ClosingKeeps, QuietKeeps DEF EndOps, Answers

\* `OnSetMode` keeps the invariant.
LEMMA OnSetModeKeeps == SessionInv /\ OnSetMode => SessionInv'
<1> SUFFICES ASSUME SessionInv, OnSetMode PROVE SessionInv'
  OBVIOUS
<1>1. Takes("setMode") /\ Resembles(s, s')
  BY OfNativeKnown, ResemblesSelf DEF OnSetMode, UserOps
<1>2. QED
  BY <1>1, QuietKeeps DEF EndOps, Answers

\* `OnSend` keeps the invariant.
LEMMA OnSendKeeps ==
  ASSUME SessionInv, NEW c \in Data, OnSend(c)
  PROVE  SessionInv'
<1> DEFINE next == IF c \in s.table /\ ~ChannelLive(s, c) THEN Fail(s, "releasedChannel")
                                                          ELSE s
<1>1. Takes("send") /\ (s' = next \/ Resembles(s, s'))
  BY OfNativeKnown, ResemblesSelf DEF OnSend, UserOps
<1>2. Resembles(s, s')
  BY <1>1, ResemblesSelf DEF FaultNames, Found
<1>3. QED
  BY <1>1, <1>2, QuietKeeps DEF EndOps, Answers

\* `OnStop` keeps the invariant.
LEMMA OnStopKeeps == SessionInv /\ OnStop => SessionInv'
<1> SUFFICES ASSUME SessionInv, OnStop PROVE SessionInv'
  OBVIOUS
<1>1. Takes("stop") /\ s' = SessionClose(s)
  BY DEF OnStop
<1>2. QED
  BY <1>1, ClosingKeeps DEF EndOps, Answers

\* `PingFires` keeps the invariant.
LEMMA PingFiresKeeps == SessionInv /\ PingFires => SessionInv'
<1> SUFFICES ASSUME SessionInv, PingFires PROVE SessionInv'
  OBVIOUS
<1>1. Resembles(s, s') /\ UNCHANGED <<tasks, env>>
  BY ResemblesSelf DEF PingFires, SendPing, FaultNames, Found
<1>2. QED
  BY <1>1, Invariants, ResemblesEffect, TimerKeeps

\* A timeout closes the session, and an invalid token does so too.
LEMMA UntimedCloses ==
  ASSUME SessionInv
  PROVE  LET t == [s EXCEPT !.timeout = "none"]
             u == SessionClose(t)
         IN /\ Resembles(s, t) /\ t \in SessionState /\ Fits(t, Holders, Waits)
            /\ t.pcClose = s.pcClose /\ t.system = s.system
            /\ t.answered = s.answered /\ t.sent = s.sent /\ t.fault = s.fault
            /\ Fits(u, Holders, Waits) /\ Winds(t, u) /\ Moves(s, u)
<1> DEFINE t == [s EXCEPT !.timeout = "none"]
           u == SessionClose(t)
<1>1. s \in SessionState
  BY Invariants
<1>2. /\ t \in SessionState /\ t.fault = s.fault
      /\ t.flags = s.flags /\ t.ref = s.ref /\ t.opened = s.opened
      /\ t.table = s.table /\ t.cref = s.cref /\ t.cflags = s.cflags
      /\ t.native = s.native /\ t.exec = s.exec
      /\ t.executor = s.executor /\ t.private = s.private
      /\ t.pcClose = s.pcClose /\ t.system = s.system
      /\ t.answered = s.answered /\ t.sent = s.sent
  BY <1>1 DEF SessionState
<1> HIDE DEF t
<1>3. Resembles(s, t)
  BY <1>2, ResemblesSelf DEF Resembles
<1>4. Fits(t, Holders, Waits) /\ Moves(s, t)
  BY <1>3, Invariants, ResemblesEffect
<1>5. Fits(u, Holders, Waits) /\ Winds(t, u)
  BY <1>4, Invariants, SessionCloseEffect
<1>6. Moves(t, u)
  BY <1>5, WindsMoves DEF Fits
<1> HIDE DEF u
<1>7. Moves(s, u)
  BY <1>4, <1>6, MovesTransitive
<1>8. QED
  BY <1>2, <1>3, <1>4, <1>5, <1>7 DEF t, u

\* `TimeoutFires` keeps the invariant.
LEMMA TimeoutFiresKeeps == SessionInv /\ TimeoutFires => SessionInv'
<1> SUFFICES ASSUME SessionInv, TimeoutFires PROVE SessionInv'
  OBVIOUS
<1>1. UNCHANGED <<tasks, env>> /\ s' = SessionClose([s EXCEPT !.timeout = "none"])
  BY DEF TimeoutFires
<1>2. QED
  BY <1>1, UntimedCloses, TimerKeeps

\* `OnAuthBad` keeps the invariant.
LEMMA OnAuthBadKeeps == SessionInv /\ OnAuthBad => SessionInv'
<1> SUFFICES ASSUME SessionInv, OnAuthBad PROVE SessionInv'
  OBVIOUS
<1>1. /\ Takes("authBad")
      /\ s' = SessionClose([s EXCEPT !.timeout = "none"]) \/ s' = s
  BY DEF OnAuthBad, AuthRefused
<1>2. CASE s' = s
  BY <1>1, <1>2, ResemblesSelf, QuietKeeps DEF EndOps, Answers
<1>3. CASE s' = SessionClose([s EXCEPT !.timeout = "none"])
  <2>1. Taken("authBad", Head(tasks).c) /\ env' = env
    BY <1>1, Invariants, TakesTaken
  <2>2. QED
    BY <1>3, <2>1, UntimedCloses, TakenKeeps DEF Answers
<1>4. QED
  BY <1>1, <1>2, <1>3

\* A session fits fewer receives under way.
LEMMA FitsLess ==
  ASSUME NEW t, NEW e, NEW v \in [Chan -> Nat], NEW w \in [Chan -> Nat], Fits(t, e, v),
         \A c \in Chan : w[c] <= v[c]
  PROVE  Fits(t, e, w)
<1>1. t.table \subseteq Chan /\ \A c \in t.table : t.cref[c] \in Nat
  BY Channels, SessionFields DEF Fits, Whole
<1>2. TableFits(t, w)
  <2> SUFFICES ASSUME NEW c \in t.table
               PROVE  t.cref[c] >= 1 + Count("ACTIVE" \in t.cflags[c]) + w[c]
    BY DEF TableFits
  <2>1. /\ t.cref[c] >= 1 + Count("ACTIVE" \in t.cflags[c]) + v[c]
        /\ t.cref[c] \in Nat /\ v[c] \in Nat /\ w[c] \in Nat /\ w[c] <= v[c]
    BY <1>1 DEF Fits, TableFits
  <2>2. Count("ACTIVE" \in t.cflags[c]) \in Nat
    BY DEF Count
  <2>3. QED
    BY <2>1, <2>2
<1>3. QED
  BY <1>2 DEF Fits

\* `OnDcError` keeps the invariant.
LEMMA OnDcErrorKeeps ==
  ASSUME SessionInv, NEW c \in Chan, OnDcError(c)
  PROVE  SessionInv'
<1>1. Takes("dcError") /\ (s' = ChannelClose(s, {c}) \/ s' = s)
  BY DEF OnDcError, OfChannel
<1>2. CASE s' = s
  BY <1>1, <1>2, ResemblesSelf, QuietKeeps DEF EndOps, Answers
<1>3. CASE s' = ChannelClose(s, {c})
  <2>1. Taken("dcError", Head(tasks).c) /\ env' = env
    BY <1>1, Invariants, TakesTaken
  <2>2. Fits(s', Holders, Waits) /\ Winds(s, s')
    BY <1>3, Invariants, ChannelCloseEffect
  <2>3. Moves(s, s')
    BY <2>2, WindsMoves DEF Fits
  <2>4. QED
    BY <2>1, <2>2, <2>3, TakenKeeps DEF Answers
<1>4. QED
  BY <1>1, <1>2, <1>3

\* The entry of channel c is removed, and a reference of it dropped.
LEMMA DcClosedEffect ==
  ASSUME NEW t, NEW e \in Nat, NEW w \in [Chan -> Nat], NEW c \in Chan,
         ChannelLive(t, c), Fits(t, e, w)
  PROVE  LET t1 == [t EXCEPT !.table = t.table \ {c}]
             u  == DcClosed(t, c)
         IN /\ Fits(u, e, w) /\ Moves(t, u)
            /\ Winds(t1, u) /\ (Active(u) <=> Active(t))
            /\ t1 \in SessionState /\ t1.table = t.table \ {c}
            /\ t1.ref = t.ref /\ t1.flags = t.flags /\ t1.cref = t.cref
            /\ t1.cflags = t.cflags /\ t1.system = t.system
            /\ t1.exec = t.exec /\ t1.native = t.native
            /\ t1.executor = t.executor /\ t1.private = t.private
            /\ t1.fault = t.fault /\ t1.pcClose = t.pcClose
            /\ t1.answered = t.answered /\ t1.sent = t.sent
            /\ \A d \in Chan : d # c => u.cflags[d] = t.cflags[d]
<1> DEFINE z == t.table \ {c}
           t1 == [t EXCEPT !.table = z]
           u == DcClosed(t, c)
<1>1. /\ t \in SessionState /\ Whole(t) /\ RefsAre(t, e) /\ TableFits(t, w)
      /\ t.table \in SUBSET Data
  BY SessionFields DEF Fits, Whole
<1>2. u = ChannelUnref(t1, {c})
  BY DEF DcClosed
<1>3. z \in SUBSET Data /\ c \notin z /\ z \subseteq t.table
  BY <1>1
<1> HIDE DEF z, u
<1>4. /\ t1 \in SessionState /\ t1.table = z
      /\ t1.ref = t.ref /\ t1.flags = t.flags /\ t1.cref = t.cref
      /\ t1.cflags = t.cflags /\ t1.system = t.system /\ t1.opened = t.opened
      /\ t1.exec = t.exec /\ t1.native = t.native
      /\ t1.executor = t.executor /\ t1.private = t.private
      /\ t1.fault = t.fault /\ t1.pcClose = t.pcClose
      /\ t1.answered = t.answered /\ t1.sent = t.sent
  BY <1>1, <1>3 DEF SessionState
<1> HIDE DEF t1
<1>5. LiveChannels(t1) = LiveChannels(t) /\ (Active(t1) <=> Active(t))
  BY <1>4 DEF LiveChannels, ChannelLive, Active
<1>6. Fits(t1, e, w)
  <2>1. Whole(t1)
    BY <1>1, <1>3, <1>4, <1>5 DEF Whole
  <2>2. RefsAre(t1, e)
    BY <1>1, <1>4, <1>5 DEF RefsAre, Count
  <2>3. TableFits(t1, w)
    BY <1>1, <1>3, <1>4 DEF TableFits
  <2>4. QED
    BY <2>1, <2>2, <2>3 DEF Fits
<1>7. {c} \in SUBSET LiveChannels(t1)
  BY <1>5 DEF LiveChannels
<1>8. \A d \in t1.table : w[d] >= w[d] /\ (d \in {c} => w[d] >= w[d] + 1)
  <2>1. \A d \in Chan : w[d] \in Nat
    OBVIOUS
  <2>2. t1.table \subseteq Chan /\ c \notin t1.table
    BY <1>3, <1>4, Channels
  <2>3. QED
    BY <2>1, <2>2
<1>9. /\ Fits(u, e, w) /\ Winds(t1, u) /\ (Active(u) <=> Active(t1))
      /\ \A d \in Chan : u.cflags[d] = IF d \in {c} /\ t1.cref[d] = 1
                                         THEN {} ELSE t1.cflags[d]
  BY <1>2, <1>6, <1>7, <1>8, ChannelUnrefEffect
<1>10. Moves(t, u)
  <2>1. Moves(t1, u)
    BY <1>9, WindsMoves DEF Fits
  <2>2. Moves(t, t1)
    BY <1>4 DEF Moves, Unknown
  <2>3. QED
    BY <2>1, <2>2, MovesTransitive
<1>11. \A d \in Chan : d # c => u.cflags[d] = t.cflags[d]
  BY <1>4, <1>9
<1>12. QED
  BY <1>4, <1>5, <1>9, <1>10, <1>11 DEF u, t1, z

\* Both closed events of a channel drop the channel's reference.
LEMMA DcClosedKeeps ==
  ASSUME SessionInv, NEW c \in Chan, NEW op, Takes(op), op \notin EndOps,
         ChannelLive(s, c), s' = DcClosed(s, c)
  PROVE  SessionInv'
<1>1. Taken(op, Head(tasks).c) /\ env' = env
  BY Invariants, TakesTaken
<1>2. Fits(s', Holders, Waits) /\ Moves(s, s')
  BY Invariants, DcClosedEffect
<1>3. QED
  BY <1>1, <1>2, TakenKeeps DEF EndOps

\* `OnOutClosed` keeps the invariant.
LEMMA OnOutClosedKeeps ==
  ASSUME SessionInv, NEW c \in Chan, OnOutClosed(c)
  PROVE  SessionInv'
<1>1. /\ Takes("outClosed")
      /\ \/ ChannelLive(s, c) /\ s' = DcClosed(s, c)
         \/ s' = s
  BY DEF OnOutClosed, OfChannel
<1>2. QED
  BY <1>1, ResemblesSelf, QuietKeeps, DcClosedKeeps DEF EndOps, Answers

\* `OnInClosed` keeps the invariant.
LEMMA OnInClosedKeeps ==
  ASSUME SessionInv, NEW c \in Data, OnInClosed(c)
  PROVE  SessionInv'
<1>1. /\ Takes("inClosed")
      /\ \/ ChannelLive(s, c) /\ s' = DcClosed(s, c)
         \/ s' = s
  BY DEF OnInClosed, OfChannel
<1>2. QED
  BY <1>1, ResemblesSelf, QuietKeeps, DcClosedKeeps, Channels DEF EndOps, Answers

\* A receive is complete: the reference that it held is dropped.
LEMMA OnReceiveDoneKeeps ==
  ASSUME SessionInv, NEW c \in Data, OnReceiveDone(c)
  PROVE  SessionInv'
<1>1. /\ Takes("receiveDone") /\ Head(tasks).c = c
      /\ \/ ChannelLive(s, c) /\ s' = ChannelUnref(s, {c})
         \/ s' = Fail(s, "releasedChannel")
  BY DEF OnReceiveDone
<1>2. Taken("receiveDone", c) /\ env' = env /\ c \in Chan
  BY <1>1, Invariants, TakesTaken
<1> DEFINE done(d) == {OnChannel("receiveDone", d)}
           w == [d \in Chan |-> Among(s.exec, Receives(d)) + Among(tasks', done(d))]
<1>3. \A d \in Chan : /\ w[d] \in Nat /\ Waits[d] \in Nat
                      /\ d = c => Waits[d] = w[d] + 1
                      /\ d # c => Waits[d] = w[d]
  <2> TAKE d \in Chan
  <2>1. /\ Among(tasks', done(d)) \in Nat
        /\ d = c => Among(tasks, done(d)) = Among(tasks', done(d)) + 1
        /\ d # c => Among(tasks, done(d)) = Among(tasks', done(d))
    BY <1>2, Invariants, TakeAmong
  <2>2. /\ Among(s.exec, Receives(d)) \in Nat
        /\ Waits[d] = Among(s.exec, Receives(d)) + Among(tasks, done(d))
    BY Invariants, WaitingType DEF Waits, Waiting
  <2>3. w[d] = Among(s.exec, Receives(d)) + Among(tasks', done(d))
    OBVIOUS
  <2> HIDE DEF w, done
  <2>4. QED
    BY <2>1, <2>2, <2>3
<1>4. w \in [Chan -> Nat]
  <2>1. w = [d \in Chan |-> w[d]]
    OBVIOUS
  <2> HIDE DEF w
  <2>2. QED
    BY <1>3, <2>1
<1>5. ASSUME Moves(s, s') PROVE Holders' = Holders /\ Waits' = w
  <2>1. Holders' = Holders
    BY <1>2, <1>5, TakenHolders DEF Answers
  <2>2. \A d : Among(s'.exec, Receives(d)) = Among(s.exec, Receives(d))
    BY <1>5, Invariants, CommandsMove DEF NativeFits
  <2>3. Waits' = w
    BY <2>2 DEF Waits, Waiting
  <2>4. QED
    BY <2>1, <2>3
<1> HIDE DEF w
<1>6. Moves(s, s') /\ Fits(s', Holders, w)
  <2>1. CASE ChannelLive(s, c) /\ s' = ChannelUnref(s, {c})
    <3>1. {c} \in SUBSET LiveChannels(s)
      BY <1>2, <2>1 DEF LiveChannels
    <3>2. \A d \in s.table : Waits[d] >= w[d] /\ (d \in {c} => Waits[d] >= w[d] + 1)
      <4>1. s.table \subseteq Chan
        BY Invariants, SessionFields, Channels
      <4>2. QED
        BY <1>3, <4>1
    <3>3. Fits(s', Holders, w) /\ Winds(s, s')
      BY <1>4, <2>1, <3>1, <3>2, Invariants, ChannelUnrefEffect
    <3>4. QED
      BY <3>3, WindsMoves DEF Fits
  <2>2. CASE s' = Fail(s, "releasedChannel")
    <3>1. Resembles(s, s')
      BY <2>2, ResemblesSelf DEF FaultNames, Found
    <3>2. Fits(s', Holders, Waits) /\ Moves(s, s')
      BY <3>1, Invariants, ResemblesEffect
    <3>3. \A d \in Chan : w[d] <= Waits[d]
      BY <1>3
    <3>4. QED
      BY <1>4, <3>2, <3>3, Invariants, FitsLess
  <2>3. QED
    BY <1>1, <2>1, <2>2
<1>7. Shrinks
  BY <1>2, Invariants, TakenShrinks
<1>8. QED
  BY <1>2, <1>5, <1>6, <1>7, MoveKeeps

\* A session record that differs in nothing the invariant speaks of, but for
\* whether the executor takes commands.
Alike(t, u) ==
  /\ u \in SessionState
  /\ u.ref = t.ref /\ u.flags = t.flags /\ u.opened = t.opened
  /\ u.table = t.table /\ u.cref = t.cref /\ u.cflags = t.cflags
  /\ (u.native <=> t.native) /\ (u.private <=> t.private)
  /\ u.exec = t.exec /\ u.fault = t.fault

\* A thread submits a task and reports nothing twice, nothing after the close,
\* and nothing of a native session that does not live.
Submission(op, c) ==
  /\ op \in TaskOps \ (Answers \cup {"receiveDone"}) /\ c \in Chan
  /\ op \in ChannelOps \/ c = 0
  /\ tasks' = Append(tasks, OnChannel(op, c))
  /\ Alike(s, s')
  /\ env' \in EnvState /\ env'.native = env.native
  /\ env'.ws = IF op = "wsClosed" THEN "closed" ELSE env.ws
  /\ op = "wsClosed" => env.ws = "open"
  /\ env'.pc = "closed" <=> env.pc = "closed" \/ op = "pcClosed"
  /\ op \in PcOps \cup {"pcClosed"} => env.pc # "closed"
  /\ op \in UserOps => env.native = "alive" \/ "untold" \in Faults

\* What submitting a task leaves queued, and in which order.
LEMMA AppendEffect ==
  ASSUME tasks \in Seq(TaskRecords), NEW op \in TaskOps, NEW c \in Chan,
         tasks' = Append(tasks, OnChannel(op, c))
  PROVE  LET t == OnChannel(op, c)
         IN /\ tasks' \in Seq(TaskRecords)
            /\ \A x : Has(tasks', x) <=> Has(tasks, x) \/ x = t
            /\ \A p, d : Queued(p, d)' <=> Queued(p, d) \/ (p = op /\ d = c)
            /\ \A x : Single(tasks, x) /\ (x = t => ~Has(tasks, x)) => Single(tasks', x)
            /\ \A x, y : x # t /\ Follows(tasks, x, y) => Follows(tasks', x, y)
            /\ \A x, y : x # t /\ Leads(tasks, y, x) => Leads(tasks', y, x)
            /\ op # "receiveDone" => \A d : Among(tasks', {OnChannel("receiveDone", d)})
                                              = Among(tasks, {OnChannel("receiveDone", d)})
<1> DEFINE t == OnChannel(op, c)
<1>1. t \in TaskRecords /\ tasks' = Append(tasks, t)
  BY TaskTypes
<1>2. op # "receiveDone" => \A d : t # OnChannel("receiveDone", d)
  BY TaskIdentity
<1>3. \A p, d : OnChannel(p, d) = t <=> p = op /\ d = c
  BY TaskIdentity
<1> HIDE DEF t
<1>4. tasks' \in Seq(TaskRecords)
  BY <1>1, AppendForm
<1>5. \A x : Has(tasks', x) <=> Has(tasks, x) \/ x = t
  BY <1>1, HasAppend
<1>6. \A p, d : Queued(p, d)' <=> Queued(p, d) \/ (p = op /\ d = c)
  BY <1>3, <1>5 DEF Queued
<1>7. /\ \A x : Single(tasks, x) /\ (x = t => ~Has(tasks, x)) => Single(tasks', x)
      /\ \A x, y : x # t /\ Follows(tasks, x, y) => Follows(tasks', x, y)
      /\ \A x, y : x # t /\ Leads(tasks, y, x) => Leads(tasks', y, x)
  BY <1>1, SingleAppend, FollowsAppend, LeadsAppend
<1>8. ASSUME op # "receiveDone", NEW d
      PROVE  Among(tasks', {OnChannel("receiveDone", d)})
               = Among(tasks, {OnChannel("receiveDone", d)})
  <2>1. t \notin {OnChannel("receiveDone", d)}
    BY <1>2, <1>8
  <2>2. QED
    BY <1>1, <2>1, AmongAppend
<1>9. QED
  BY <1>4, <1>5, <1>6, <1>7, <1>8 DEF t

\* The same in the terms of the invariant.
LEMMA SubmissionEffect ==
  ASSUME SessionInv, NEW op, NEW c, Submission(op, c)
  PROVE  /\ tasks' \in Seq(TaskRecords)
         /\ \A x : Has(tasks', x) <=> Has(tasks, x) \/ x = OnChannel(op, c)
         /\ \A p, d : Queued(p, d)' <=> Queued(p, d) \/ (p = op /\ d = c)
         /\ \A x : Single(tasks, x) /\ x # OnChannel(op, c) => Single(tasks', x)
         /\ \A d : Among(tasks', {OnChannel("receiveDone", d)})
                     = Among(tasks, {OnChannel("receiveDone", d)})
<1>1. tasks' = Append(tasks, OnChannel(op, c)) /\ op # "receiveDone"
  BY DEF Submission
<1>2. op \in TaskOps /\ c \in Chan
  BY DEF Submission
<1>3. QED
  BY <1>1, <1>2, Invariants, AppendEffect

\* A session with the same references, flags and handles fits the same.
LEMMA AlikeEffect ==
  ASSUME NEW t, NEW u, NEW e, NEW w, Fits(t, e, w), Alike(t, u)
  PROVE  Fits(u, e, w)
<1>1. Whole(t) /\ RefsAre(t, e) /\ TableFits(t, w)
  BY DEF Fits
<1>2. LiveChannels(u) = LiveChannels(t)
  BY DEF Alike, LiveChannels, ChannelLive
<1>3. Whole(u)
  BY <1>1, <1>2 DEF Whole, Alike
<1>4. RefsAre(u, e)
  BY <1>1, <1>2 DEF RefsAre, Alike, Count, Active
<1>5. TableFits(u, w)
  BY <1>1 DEF TableFits, Alike
<1>6. QED
  BY <1>3, <1>4, <1>5 DEF Fits

\* The lemma every outside event uses: submitting a task that refers to what is there
\* keeps the invariant.
LEMMA SubmissionKeeps ==
  ASSUME SessionInv, NEW op, NEW c, Submission(op, c)
  PROVE  SessionInv'
<1> DEFINE t == OnChannel(op, c)
<1>1. /\ tasks \in Seq(TaskRecords) /\ t \in TaskRecords /\ tasks' = Append(tasks, t)
      /\ op \notin Answers /\ op # "receiveDone" /\ c \in Chan
      /\ op \in ChannelOps \/ c = 0
  BY Invariants, TaskTypes DEF Submission
<1>2. /\ tasks' \in Seq(TaskRecords)
      /\ \A x : Has(tasks', x) <=> Has(tasks, x) \/ x = t
      /\ \A p, d : Queued(p, d)' <=> Queued(p, d) \/ (p = op /\ d = c)
      /\ \A x : Single(tasks, x) /\ x # t => Single(tasks', x)
      /\ \A d : Among(tasks', {OnChannel("receiveDone", d)})
                  = Among(tasks, {OnChannel("receiveDone", d)})
  BY SubmissionEffect
<1>3. /\ s'.exec = s.exec /\ (s'.native <=> s.native) /\ (s'.private <=> s.private)
      /\ s'.ref = s.ref /\ s'.flags = s.flags /\ s'.fault = s.fault
      /\ s' \in SessionState
  BY DEF Submission, Alike
<1>4. \A p, d : OnChannel(p, d) = t <=> p = op /\ d = c
  BY TaskIdentity
<1>5. t.op = op /\ t.c = c
  BY TaskIdentity
<1> HIDE DEF t
<1>6. Types'
  BY <1>2, <1>3 DEF Types, Submission
<1>7. QueueFits'
  <2>1. \A x \in TaskRecords : Has(tasks', x) => x.op \in ChannelOps \/ x.c = 0
    BY <1>1, <1>2, <1>5, Invariants DEF QueueFits
  <2>2. \A x \in Commands : Has(s'.exec, x) =>
          x \in {Create, Destroy} \/ x.op = "receive"
    BY <1>3, Invariants DEF QueueFits
  <2>3. \A p \in {"wsClosed", "pcClosed", "created", "createFailed"} :
          Single(tasks', Plain(p))
    <3> TAKE p \in {"wsClosed", "pcClosed", "created", "createFailed"}
    <3>1. Single(tasks, Plain(p))
      BY Invariants DEF QueueFits
    <3>2. CASE p # op
      BY <1>2, <1>4, <3>1, <3>2, TaskIdentity
    <3>3. CASE p = op
      <4>1. op \in {"wsClosed", "pcClosed"} /\ c = 0
        BY <1>1, <3>3 DEF Answers, ChannelOps
      <4>2. ~Queued(op, 0)
        <5>1. op = "wsClosed" => env.ws # "closed"
          BY DEF Submission
        <5>2. op = "pcClosed" => env.pc # "closed"
          BY DEF Submission
        <5>3. QED
          BY <4>1, <5>1, <5>2, Invariants DEF QueueFits
      <4>3. ~Has(tasks, t)
        BY <4>1, <4>2 DEF Queued, t
      <4>4. QED
        BY <1>1, <3>1, <4>3, SingleAppend
    <3>4. QED
      BY <3>2, <3>3
  <2>4. Single(s'.exec, Create) /\ Single(s'.exec, Destroy)
    BY <1>3, Invariants DEF QueueFits
  <2>5. Queued("wsClosed", 0)' => env'.ws = "closed"
    BY <1>2, Invariants DEF QueueFits, Submission
  <2>6. Queued("pcClosed", 0)' => env'.pc = "closed"
    BY <1>2, Invariants DEF QueueFits, Submission
  <2>7. QED
    BY <2>1, <2>2, <2>3, <2>4, <2>5, <2>6 DEF QueueFits
<1>8. /\ Queued("created", 0)' <=> Queued("created", 0)
      /\ Queued("createFailed", 0)' <=> Queued("createFailed", 0)
  BY <1>1, <1>2 DEF Answers
<1>9. NativeFits'
  <2>1. env'.native = env.native
    BY DEF Submission
  <2>2. QED
    BY <1>3, <1>8, <2>1, Invariants DEF NativeFits
<1>10. HandleFits'
  BY <1>3, Invariants DEF HandleFits, Submission
<1>11. EventFits'
  <2>1. ASSUME env'.pc = "closed", NEW d \in Chan, NEW p \in PcOps
        PROVE  Follows(tasks', OnChannel(p, d), Plain("pcClosed"))
    <3>1. env.pc = "closed" \/ op = "pcClosed"
      BY <2>1 DEF Submission
    <3>2. p # op
      BY <2>1, <3>1 DEF Submission, PcOps
    <3>3. OnChannel(p, d) # t
      BY <1>4, <3>2
    <3>4. Follows(tasks, OnChannel(p, d), Plain("pcClosed")) \/ Plain("pcClosed") = t
      <4>1. op = "pcClosed" => c = 0
        BY <1>1 DEF ChannelOps
      <4>2. QED
        BY <3>1, <4>1, Invariants, TaskIdentity DEF EventFits, t
    <3>5. QED
      BY <1>1, <3>3, <3>4, FollowsAppend
  <2>2. ASSUME ~s'.private, "untold" \notin Faults, NEW d \in Chan, NEW p \in UserOps
        PROVE  Leads(tasks', Plain("created"), OnChannel(p, d))
    <3>1. Leads(tasks, Plain("created"), OnChannel(p, d))
      BY <1>3, <2>2, Invariants DEF EventFits
    <3>2. OnChannel(p, d) = t => Has(tasks, Plain("created"))
      <4> SUFFICES ASSUME OnChannel(p, d) = t PROVE Has(tasks, Plain("created"))
        OBVIOUS
      <4>1. env.native = "alive"
        BY <1>4, <2>2 DEF Submission
      <4>2. Queued("created", 0)
        BY <1>3, <2>2, <4>1, Invariants DEF NativeFits
      <4>3. QED
        BY <4>2, TaskIdentity DEF Queued
    <3>3. QED
      BY <1>1, <3>1, <3>2, LeadsAppend
  <2>3. QED
    BY <2>1, <2>2 DEF EventFits
<1>12. \A d : Waiting(d)' = Waiting(d)
  BY <1>2, <1>3 DEF Waiting
<1>13. Fits(s', Holders', Waits')
  <2>1. WsHolds' <=> WsHolds
    <3>1. CASE op = "wsClosed"
      <4>1. c = 0
        BY <1>1, <3>1 DEF ChannelOps
      <4>2. QED
        BY <1>2, <3>1, <4>1 DEF WsHolds, Submission
    <3>2. CASE op # "wsClosed"
      BY <1>2, <3>2 DEF WsHolds, Submission
    <3>3. QED
      BY <3>1, <3>2
  <2>2. PcHolds' <=> PcHolds
    <3>1. CASE op = "pcClosed"
      <4>1. c = 0
        BY <1>1, <3>1 DEF ChannelOps
      <4>2. QED
        BY <1>2, <3>1, <4>1 DEF PcHolds, Submission
    <3>2. CASE op # "pcClosed"
      BY <1>2, <3>2 DEF PcHolds, Submission
    <3>3. QED
      BY <3>1, <3>2
  <2>3. Asking' <=> Asking
    BY <1>3, <1>8 DEF Asking, Submission
  <2>4. Holders' = Holders
    BY <2>1, <2>2, <2>3 DEF Holders, Count
  <2>5. Waits' = Waits
    BY <1>12 DEF Waits
  <2>6. Alike(s, s')
    BY DEF Submission
  <2>7. QED
    BY <2>4, <2>5, <2>6, Invariants, AlikeEffect
<1>14. Unknown(s') => \A d \in Chan : Waiting(d)' = 0
  BY <1>3, <1>12, Invariants DEF Unknown
<1>15. QED
  BY <1>3, <1>6, <1>7, <1>9, <1>10, <1>11, <1>13, <1>14, Invariants DEF SessionInv

\* A session is like itself.
LEMMA AlikeSelf ==
  ASSUME SessionInv
  PROVE  Alike(s, s) /\ env \in EnvState
  BY Invariants DEF Alike, Types

\* A task whose submission leaves libdatachannel and the native library as they
\* are: nothing is reported for the last time.
LEMMA EventKeeps ==
  ASSUME SessionInv, NEW op, NEW c, Event(OnChannel(op, c)),
         op \in TaskOps \ (Answers \cup {"receiveDone", "wsClosed", "pcClosed"}),
         c \in Chan, op \in ChannelOps \/ c = 0,
         env' \in EnvState, env'.native = env.native,
         env'.ws = env.ws, env'.pc = "closed" <=> env.pc = "closed",
         op \in PcOps => env.pc # "closed",
         op \in UserOps => env.native = "alive" \/ "untold" \in Faults
  PROVE  SessionInv'
<1>1. Alike(s, s')
  BY AlikeSelf DEF Event
<1>2. tasks' = Append(tasks, OnChannel(op, c))
  BY DEF Event, Submits
<1>3. Submission(op, c)
  BY <1>1, <1>2 DEF Submission
<1>4. QED
  BY <1>3, SubmissionKeeps

\* A refused task that ends no holder keeps the invariant.
LEMMA RefusalKeeps ==
  ASSUME SessionInv, tasks' = tasks, Alike(s, s'),
         env' \in EnvState, env'.native = env.native,
         env'.ws = "closed" <=> env.ws = "closed",
         env'.pc = "closed" <=> env.pc = "closed"
  PROVE  SessionInv'
<1>1. /\ s'.exec = s.exec /\ (s'.native <=> s.native) /\ (s'.private <=> s.private)
      /\ s'.ref = s.ref /\ s'.flags = s.flags /\ s'.fault = s.fault
      /\ s' \in SessionState
  BY DEF Alike
<1>2. \A p, d : Queued(p, d)' <=> Queued(p, d)
  BY DEF Queued
<1>3. Types'
  BY <1>1, Invariants DEF Types
<1>4. QueueFits'
  BY <1>1, <1>2, Invariants DEF QueueFits
<1>5. NativeFits'
  BY <1>1, <1>2, Invariants DEF NativeFits
<1>6. HandleFits'
  BY <1>1, Invariants DEF HandleFits
<1>7. EventFits'
  BY <1>1, Invariants DEF EventFits
<1>8. \A d : Waiting(d)' = Waiting(d)
  BY <1>1 DEF Waiting
<1>9. Fits(s', Holders', Waits')
  <2>1. (WsHolds' <=> WsHolds) /\ (PcHolds' <=> PcHolds) /\ (Asking' <=> Asking)
    BY <1>1, <1>2 DEF WsHolds, PcHolds, Asking
  <2>2. Holders' = Holders
    BY <2>1 DEF Holders, Count
  <2>3. Waits' = Waits
    BY <1>8 DEF Waits
  <2>4. QED
    BY <2>2, <2>3, Invariants, AlikeEffect
<1>10. Unknown(s') => \A d \in Chan : Waiting(d)' = 0
  BY <1>1, <1>8, Invariants DEF Unknown
<1>11. QED
  BY <1>1, <1>3, <1>4, <1>5, <1>6, <1>7, <1>9, <1>10, Invariants DEF SessionInv

\* e is as the environment was, but for what the invariant does not look at.
Outside(e) ==
  /\ e \in EnvState /\ e.native = env.native /\ e.ws = env.ws
  /\ e.pc = "closed" <=> env.pc = "closed"

\* An event whose task is submitted or refused, and that ends no holder, keeps the
\* invariant.
LEMMA ReportKeeps ==
  ASSUME SessionInv, NEW op, NEW c, NEW e, Report(OnChannel(op, c), e, e),
         op \in TaskOps \ (Answers \cup {"receiveDone", "wsClosed", "pcClosed"}),
         c \in Chan, op \in ChannelOps \/ c = 0, Outside(e),
         op \in PcOps => env.pc # "closed", op \notin UserOps
  PROVE  SessionInv'
<1>1. /\ env' = e
      /\ \/ Event(OnChannel(op, c))
         \/ tasks' = tasks /\ s' = s
  BY DEF Report, Refused
<1>2. CASE Event(OnChannel(op, c))
  BY <1>1, <1>2, EventKeeps DEF Outside
<1>3. CASE tasks' = tasks /\ s' = s
  BY <1>1, <1>3, AlikeSelf, RefusalKeeps DEF Outside
<1>4. QED
  BY <1>1, <1>2, <1>3

\* An event of the WebSocket keeps the invariant.
LEMMA WsEventKeeps ==
  ASSUME SessionInv, (\E m \in Messages : WsMessage(m)) \/ WsClose
  PROVE  SessionInv'
<1>1. CASE \E m \in Messages : WsMessage(m)
  <2>1. PICK m \in Messages : WsMessage(m)
    BY <1>1
  <2>2. m \in MessageKinds
    BY SessionAssumption
  <2>3. /\ m \in TaskOps \ (Answers \cup {"receiveDone", "wsClosed", "pcClosed"})
        /\ m \notin PcOps /\ m \notin UserOps
    BY <2>2 DEF TaskOps, MessageKinds, Answers, PcOps, UserOps
  <2>4. Event(OnChannel(m, 0)) /\ env' = env
    BY <2>1, TaskIdentity DEF WsMessage
  <2>5. QED
    BY <2>3, <2>4, EventKeeps, AlikeSelf, Channels
<1>2. CASE WsClose
  <2>1. /\ env.ws = "open" /\ s' = s
        /\ \/ /\ env' = [env EXCEPT !.ws = "closed"]
              /\ tasks' = Append(tasks, OnChannel("wsClosed", 0))
           \/ env' = [env EXCEPT !.ws = "lost"] /\ tasks' = tasks
    BY <1>2, TaskIdentity DEF WsClose, Report, Refused, Event, Submits
  <2>2. /\ env' \in EnvState /\ env'.native = env.native
        /\ env'.ws = IF tasks' = tasks THEN "lost" ELSE "closed"
        /\ env'.pc = env.pc
    <3>1. Append(tasks, OnChannel("wsClosed", 0)) # tasks
      BY Invariants, AppendForm
    <3>2. QED
      BY <2>1, <3>1, AlikeSelf DEF EnvState
  <2>3. Alike(s, s')
    BY <2>1, AlikeSelf
  <2>4. /\ "wsClosed" \in TaskOps \ (Answers \cup {"receiveDone"})
        /\ "wsClosed" \notin PcOps \cup {"pcClosed"} /\ "wsClosed" \notin UserOps
    BY DEF TaskOps, Answers, PcOps, UserOps
  <2>5. CASE tasks' = tasks
    BY <2>1, <2>2, <2>3, <2>5, RefusalKeeps
  <2>6. CASE tasks' # tasks
    <3>1. Submission("wsClosed", 0)
      BY <2>1, <2>2, <2>3, <2>4, <2>6, Channels DEF Submission
    <3>2. QED
      BY <3>1, SubmissionKeeps
  <2>7. QED
    BY <2>5, <2>6
<1>3. QED
  BY <1>1, <1>2

\* An event of the peer connection keeps the invariant.
LEMMA PcEventKeeps ==
  ASSUME SessionInv, \/ PcCandidate \/ PcDown \/ PcClose \/ PcBadChannel
                     \/ \E c \in Data : PcDataChannel(c)
  PROVE  SessionInv'
<1>1. CASE PcCandidate
  <2>1. env.pc # "closed" /\ env' = env /\ Event(OnChannel("localCandidate", 0))
    BY <1>1, TaskIdentity DEF PcCandidate
  <2>2. QED
    BY <2>1, EventKeeps, AlikeSelf, Channels DEF TaskOps, Answers, UserOps
<1>2. CASE PcBadChannel
  <2>1. env.pc # "closed" /\ env' = env /\ Event(OnChannel("badChannel", 0))
    BY <1>2, TaskIdentity DEF PcBadChannel
  <2>2. QED
    BY <2>1, EventKeeps, AlikeSelf, Channels DEF TaskOps, Answers, UserOps
<1>3. CASE PcDown
  <2> DEFINE e == [env EXCEPT !.pc = "down"]
  <2>1. env.pc = "open" /\ Report(OnChannel("pcDown", 0), e, e)
    BY <1>3, TaskIdentity DEF PcDown
  <2>2. Outside(e)
    BY <2>1, AlikeSelf DEF EnvState, Outside
  <2> HIDE DEF e
  <2>3. QED
    BY <2>1, <2>2, ReportKeeps, Channels DEF TaskOps, Answers, UserOps
<1>4. CASE PcClose
  <2>1. /\ env.pc # "closed" /\ s' = s
        /\ \/ /\ env' = [env EXCEPT !.pc = "closed"]
              /\ tasks' = Append(tasks, OnChannel("pcClosed", 0))
           \/ env' = [env EXCEPT !.pc = "lost"] /\ tasks' = tasks
    BY <1>4, TaskIdentity DEF PcClose, Report, Refused, Event, Submits
  <2>2. /\ env' \in EnvState /\ env'.native = env.native /\ env'.ws = env.ws
        /\ env'.pc = IF tasks' = tasks THEN "lost" ELSE "closed"
    <3>1. Append(tasks, OnChannel("pcClosed", 0)) # tasks
      BY Invariants, AppendForm
    <3>2. QED
      BY <2>1, <3>1, AlikeSelf DEF EnvState
  <2>3. Alike(s, s')
    BY <2>1, AlikeSelf
  <2>4. /\ "pcClosed" \in TaskOps \ (Answers \cup {"receiveDone"})
        /\ "pcClosed" \notin UserOps
    BY DEF TaskOps, Answers, UserOps
  <2>5. CASE tasks' = tasks
    BY <2>1, <2>2, <2>3, <2>5, RefusalKeeps
  <2>6. CASE tasks' # tasks
    <3>1. Submission("pcClosed", 0)
      BY <2>1, <2>2, <2>3, <2>4, <2>6, Channels DEF Submission
    <3>2. QED
      BY <3>1, SubmissionKeeps
  <2>7. QED
    BY <2>5, <2>6
<1>5. CASE \E c \in Data : PcDataChannel(c)
  <2>1. PICK c \in Data : PcDataChannel(c)
    BY <1>5
  <2> DEFINE e == [env EXCEPT !.in[c] = "open"]
  <2>2. env.pc = "open" /\ Report(OnChannel("dataChannel", c), e, e)
    BY <2>1 DEF PcDataChannel
  <2>3. Outside(e)
    BY AlikeSelf DEF EnvState, Outside
  <2> HIDE DEF e
  <2>4. QED
    BY <2>2, <2>3, ReportKeeps, Channels DEF TaskOps, Answers, UserOps, ChannelOps
<1>6. QED
  BY <1>1, <1>2, <1>3, <1>4, <1>5

\* An event of a data channel keeps the invariant.
LEMMA DcEventKeeps ==
  ASSUME SessionInv,
         \/ DcSystemMessage
         \/ \E c \in Data : InClose(c) \/ DcMessage(c)
         \/ \E c \in Chan : DcOpen(c) \/ DcError(c) \/ OutClose(c)
  PROVE  SessionInv'
<1> DEFINE Ops == {"systemMessage", "inClosed", "message", "dcOpen", "dcError", "outClosed"}
<1>1. \E op \in Ops, c \in Chan : \E e :
        /\ \/ Event(OnChannel(op, c)) /\ env' = e
           \/ Report(OnChannel(op, c), e, e)
        /\ Outside(e)
  <2>1. env \in EnvState /\ Outside(env)
    BY AlikeSelf DEF Outside
  <2>2. CASE DcSystemMessage
    BY <2>1, <2>2, Channels DEF DcSystemMessage
  <2>3. CASE \E c \in Data : InClose(c) \/ DcMessage(c)
    <3>1. PICK c \in Data : InClose(c) \/ DcMessage(c)
      BY <2>3
    <3>2. CASE DcMessage(c)
      BY <2>1, <3>1, <3>2, Channels DEF DcMessage
    <3>3. CASE InClose(c)
      <4> DEFINE e == [env EXCEPT !.in[c] = "closed"]
      <4>1. Report(OnChannel("inClosed", c), e, e)
        BY <3>3 DEF InClose
      <4>2. Outside(e)
        BY <2>1 DEF EnvState, Outside
      <4> HIDE DEF e
      <4>3. QED
        BY <4>1, <4>2, Channels
    <3>4. QED
      BY <3>1, <3>2, <3>3
  <2>4. CASE \E c \in Chan : DcOpen(c) \/ DcError(c) \/ OutClose(c)
    <3>1. PICK c \in Chan : DcOpen(c) \/ DcError(c) \/ OutClose(c)
      BY <2>4
    <3>2. CASE DcOpen(c)
      <4> DEFINE e == [env EXCEPT !.out[c] = "open"]
      <4>1. Report(OnChannel("dcOpen", c), e, e)
        BY <3>2 DEF DcOpen
      <4>2. Outside(e)
        BY <2>1 DEF EnvState, Outside
      <4> HIDE DEF e
      <4>3. QED
        BY <4>1, <4>2
    <3>3. CASE DcError(c)
      BY <2>1, <3>3 DEF DcError
    <3>4. CASE OutClose(c)
      <4> DEFINE e == [env EXCEPT !.out[c] = "closed"]
      <4>1. Report(OnChannel("outClosed", c), e, e)
        BY <3>4 DEF OutClose
      <4>2. Outside(e)
        BY <2>1 DEF EnvState, Outside
      <4> HIDE DEF e
      <4>3. QED
        BY <4>1, <4>2
    <3>5. QED
      BY <3>1, <3>2, <3>3, <3>4
  <2>5. QED
    BY <2>2, <2>3, <2>4
<1>2. PICK op \in Ops, c \in Chan : \E e :
        /\ \/ Event(OnChannel(op, c)) /\ env' = e
           \/ Report(OnChannel(op, c), e, e)
        /\ Outside(e)
  BY <1>1
<1>3. /\ op \in TaskOps \ (Answers \cup {"receiveDone", "wsClosed", "pcClosed"})
      /\ op \in ChannelOps /\ op \notin PcOps /\ op \notin UserOps
  BY DEF TaskOps, Answers, ChannelOps, PcOps, UserOps
<1> HIDE DEF Ops
<1>4. PICK e : /\ \/ Event(OnChannel(op, c)) /\ env' = e
                  \/ Report(OnChannel(op, c), e, e)
               /\ Outside(e)
  BY <1>2
<1>5. CASE Event(OnChannel(op, c)) /\ env' = e
  BY <1>3, <1>4, <1>5, EventKeeps DEF Outside
<1>6. CASE Report(OnChannel(op, c), e, e)
  BY <1>3, <1>4, <1>6, ReportKeeps
<1>7. QED
  BY <1>4, <1>5, <1>6

\* An event of libdatachannel keeps the invariant.
LEMMA EnvironmentKeeps == SessionInv /\ Environment => SessionInv'
  BY WsEventKeeps, PcEventKeeps, DcEventKeeps DEF Environment

\* A call of the application keeps the invariant.
LEMMA HostKeeps == SessionInv /\ Host => SessionInv'
<1> SUFFICES ASSUME SessionInv, Host PROVE SessionInv'
  OBVIOUS
<1>1. CASE NativeDisconnect
  <2>1. /\ env.native = "alive" \/ "untold" \in Faults
        /\ env' = env /\ Event(OnChannel("disconnect", 0))
    BY <1>1, TaskIdentity DEF NativeDisconnect, Event, Callable
  <2>2. QED
    BY <2>1, EventKeeps, AlikeSelf, Channels DEF TaskOps, Answers, PcOps
<1>2. CASE NativeSetMode
  <2>1. /\ env.native = "alive" \/ "untold" \in Faults
        /\ env' = env /\ Event(OnChannel("setMode", 0))
    BY <1>2, TaskIdentity DEF NativeSetMode, Event, Callable
  <2>2. QED
    BY <2>1, EventKeeps, AlikeSelf, Channels DEF TaskOps, Answers, PcOps
<1>3. CASE NativeGetRtt
  <2>1. Resembles(s, s') /\ UNCHANGED <<tasks, env>>
    BY <1>3, ResemblesSelf DEF NativeGetRtt, FaultNames, Found
  <2>2. QED
    BY <2>1, Invariants, ResemblesEffect, TimerKeeps
<1>4. CASE SocketStop
  <2>1. /\ env' = [env EXCEPT !.socket = "stopped"]
        /\ tasks' = Append(tasks, OnChannel("stop", 0)) \/ tasks' = tasks
        /\ s' = [s EXCEPT !.executor = s.executor /\ "executor" \notin Faults]
    BY <1>4, TaskIdentity DEF SocketStop, Submits, Refused
  <2>2. /\ env' \in EnvState /\ env'.native = env.native /\ env'.ws = env.ws
        /\ env'.pc = env.pc
    BY <2>1, AlikeSelf DEF EnvState
  <2>3. Alike(s, s')
    <3> DEFINE b == s.executor /\ "executor" \notin Faults
    <3>1. s \in SessionState /\ b \in BOOLEAN /\ s' = [s EXCEPT !.executor = b]
      BY <2>1, Invariants
    <3> HIDE DEF b
    <3>2. QED
      BY <3>1 DEF Alike, SessionState
  <2>4. /\ "stop" \in TaskOps \ (Answers \cup {"receiveDone"})
        /\ "stop" \notin PcOps \cup {"pcClosed"} /\ "stop" \notin UserOps
    BY DEF TaskOps, Answers, PcOps, UserOps
  <2>5. CASE tasks' = tasks
    BY <2>2, <2>3, <2>5, RefusalKeeps
  <2>6. CASE tasks' # tasks
    <3>1. Submission("stop", 0)
      BY <2>1, <2>2, <2>3, <2>4, <2>6, Channels DEF Submission
    <3>2. QED
      BY <3>1, SubmissionKeeps
  <2>7. QED
    BY <2>5, <2>6
<1>5. CASE \E c \in Data : NativeSend(c)
  <2>1. PICK c \in Data : NativeSend(c)
    BY <1>5
  <2>2. /\ env.native = "alive" \/ "untold" \in Faults
        /\ env' = env /\ c \in Chan
        /\ Event(OnChannel("send", c))
    BY <2>1, Channels DEF NativeSend, Event, Callable
  <2>3. QED
    BY <2>2, EventKeeps, AlikeSelf DEF TaskOps, Answers, PcOps, ChannelOps
<1>6. QED
  BY <1>1, <1>2, <1>3, <1>4, <1>5 DEF Host

(* The native thread takes a command. *)
LEMMA CommandEffect ==
  ASSUME SessionInv, NEW op, Command(op)
  PROVE  LET x == Head(s.exec)
         IN /\ x \in Commands /\ x.op = op
            /\ op = "create" => x = Create
            /\ op = "destroy" => x = Destroy
            /\ op = "receive" => x = Receive(x.c, x.handle) /\ x \in Receives(x.c)
            /\ s' \in SessionState
            /\ (s'.private <=> s.private) /\ (s'.native <=> s.native)
            /\ s'.flags = s.flags /\ s'.ref = s.ref /\ s'.fault = s.fault
            /\ \A e, w : Fits(s, e, w) => Fits(s', e, w)
            /\ \A y : Has(s.exec, y) <=> y = x \/ Has(s'.exec, y)
            /\ \A y : Single(s.exec, y) => Single(s'.exec, y)
            /\ Single(s.exec, x) => ~Has(s'.exec, x)
            /\ \A y, z : Follows(s.exec, y, z) => Follows(s'.exec, y, z)
            /\ \A X : /\ x \in X => Among(s.exec, X) = Among(s'.exec, X) + 1
                      /\ x \notin X => Among(s.exec, X) = Among(s'.exec, X)
<1> DEFINE x == Head(s.exec)
           q == Tail(s.exec)
<1>1. s \in SessionState /\ s.exec \in Seq(Commands)
  BY Invariants, SessionFields
<1>2. s.exec # <<>> /\ x.op = op /\ s' = [s EXCEPT !.exec = q]
  BY DEF Command
<1>3. q \in Seq(Commands) /\ x \in Commands
  BY <1>1, <1>2, TailForm
<1>4. Has(s.exec, x)
  BY <1>1, <1>2, HasTail
<1>5. x \in {Create, Destroy} \/ x.op = "receive"
  BY <1>3, <1>4, Invariants DEF QueueFits
<1>6. /\ op = "create" => x = Create
      /\ op = "destroy" => x = Destroy
      /\ op = "receive" => x = Receive(x.c, x.handle) /\ x \in Receives(x.c)
  <2> HIDE DEF x
  <2>0. x.op = op /\ Create.op = "create" /\ Destroy.op = "destroy"
    BY <1>2 DEF Create, Destroy
  <2>1. op = "create" => x = Create
    BY <1>5, <2>0
  <2>2. op = "destroy" => x = Destroy
    BY <1>5, <2>0
  <2>3. ASSUME op = "receive" PROVE x = Receive(x.c, x.handle) /\ x \in Receives(x.c)
    <3>1. x = Receive(x.c, x.handle) /\ x.handle \in BOOLEAN
      BY <1>3, <2>0, <2>3 DEF Receive, Commands
    <3>2. x.handle = TRUE \/ x.handle = FALSE
      BY <3>1
    <3>3. QED
      BY <3>1, <3>2 DEF Receives
  <2>4. QED
    BY <2>1, <2>2, <2>3
<1>7. /\ \A y : Has(s.exec, y) <=> y = x \/ Has(q, y)
      /\ \A y : Single(s.exec, y) => Single(q, y)
      /\ Single(s.exec, x) => ~Has(q, x)
      /\ \A y, z : Follows(s.exec, y, z) => Follows(q, y, z)
  BY <1>1, <1>2, HasTail, SingleTail, FollowsTail
<1>8. \A X : /\ x \in X => Among(s.exec, X) = Among(q, X) + 1
             /\ x \notin X => Among(s.exec, X) = Among(q, X)
  BY <1>1, <1>2, AmongTail
<1> HIDE DEF x, q
<1>9. /\ s' \in SessionState /\ s'.exec = q /\ s'.opened = s.opened
      /\ (s'.private <=> s.private) /\ (s'.native <=> s.native)
      /\ s'.flags = s.flags /\ s'.ref = s.ref /\ s'.fault = s.fault
      /\ s'.table = s.table /\ s'.cref = s.cref /\ s'.cflags = s.cflags
  BY <1>1, <1>2, <1>3 DEF SessionState
<1>10. ASSUME NEW e, NEW w, Fits(s, e, w) PROVE Fits(s', e, w)
  <2>1. Whole(s) /\ RefsAre(s, e) /\ TableFits(s, w)
    BY <1>10 DEF Fits
  <2>2. LiveChannels(s') = LiveChannels(s)
    BY <1>9 DEF LiveChannels, ChannelLive
  <2>3. Whole(s')
    BY <1>9, <2>1, <2>2 DEF Whole
  <2>4. RefsAre(s', e)
    BY <1>9, <2>1, <2>2 DEF RefsAre, Count, Active
  <2>5. TableFits(s', w)
    BY <1>9, <2>1 DEF TableFits
  <2>6. QED
    BY <2>3, <2>4, <2>5 DEF Fits
<1>11. QED
  BY <1>2, <1>3, <1>6, <1>7, <1>8, <1>9, <1>10 DEF x

\* A native session that nobody is told of keeps the invariant.
LEMMA UnansweredKeeps ==
  ASSUME SessionInv, Command("create"), tasks' = tasks,
         env' \in EnvState, env'.ws = env.ws, env'.pc = env.pc,
         env'.native \in {"orphan", "lost"}
  PROVE  SessionInv'
<1>1. /\ s' \in SessionState
      /\ (s'.private <=> s.private) /\ (s'.native <=> s.native)
      /\ s'.flags = s.flags /\ s'.ref = s.ref /\ s'.fault = s.fault
      /\ \A e, w : Fits(s, e, w) => Fits(s', e, w)
      /\ \A y : Has(s.exec, y) <=> y = Create \/ Has(s'.exec, y)
      /\ \A y : Single(s.exec, y) => Single(s'.exec, y)
      /\ Single(s.exec, Create) => ~Has(s'.exec, Create)
  BY CommandEffect
<1>2. \A c : Among(s'.exec, Receives(c)) = Among(s.exec, Receives(c))
  BY CommandEffect, CommandIdentity
<1>3. /\ Has(s.exec, Create) /\ ~Has(s'.exec, Create)
      /\ env.native = "none"
  BY <1>1, Invariants DEF QueueFits, NativeFits
<1>4. /\ ~Queued("created", 0) /\ ~Queued("createFailed", 0)
      /\ ~s.private /\ ~s.native
      /\ ~Has(s.exec, Destroy) /\ ~Has(s'.exec, Destroy)
      /\ \A c \in Chan : ~Has(s.exec, Receive(c, TRUE))
  BY <1>1, <1>3, Invariants DEF NativeFits, HandleFits
<1>5. \A p, d : Queued(p, d)' <=> Queued(p, d)
  BY DEF Queued
<1>6. Types'
  BY <1>1, Invariants DEF Types
<1>7. QueueFits'
  BY <1>1, <1>5, Invariants DEF QueueFits
<1>8. NativeFits'
  <2>1. s'.ref = 0 \/ {"READY_SIGNAL_RECEIVED", "ALL_CHANNELS_OPENED"} \subseteq s'.flags
    BY <1>1, <1>3, Invariants DEF NativeFits
  <2>2. QED
    BY <1>1, <1>3, <1>4, <1>5, <2>1 DEF NativeFits
<1>9. HandleFits'
  BY <1>1, <1>4 DEF HandleFits
<1>10. EventFits'
  BY <1>1, Invariants DEF EventFits
<1>11. \A c : Waiting(c)' = Waiting(c)
  BY <1>2 DEF Waiting
<1>12. Fits(s', Holders', Waits')
  <2>1. /\ WsHolds' <=> WsHolds
        /\ PcHolds' <=> PcHolds
    BY <1>5 DEF WsHolds, PcHolds
  <2>2. Asking' <=> Asking
    BY <1>3 DEF Asking
  <2>3. Holders' = Holders
    BY <2>1, <2>2 DEF Holders, Count
  <2>4. Waits' = Waits
    BY <1>11 DEF Waits
  <2>5. QED
    BY <1>1, <2>3, <2>4, Invariants
<1>13. Unknown(s') => \A d \in Chan : Waiting(d)' = 0
  BY <1>1, <1>11, Invariants DEF Unknown
<1>14. QED
  BY <1>1, <1>6, <1>7, <1>8, <1>9, <1>10, <1>12, <1>13, Invariants DEF SessionInv

\* The answer of the native thread keeps the invariant.
LEMMA AnswerKeeps ==
  ASSUME SessionInv, Command("create"), NEW op \in Answers,
         tasks' = Append(tasks, OnChannel(op, 0)),
         env' \in EnvState, env'.ws = env.ws, env'.pc = env.pc,
         op = "created" => env'.native = "alive",
         op = "createFailed" => env'.native = "failed"
  PROVE  SessionInv'
<1>1. Command("create")
  OBVIOUS
<1>2. tasks' = Append(tasks, OnChannel(op, 0))
  OBVIOUS
<1>3. /\ env' \in EnvState /\ env'.ws = env.ws /\ env'.pc = env.pc
      /\ op = "created" => env'.native = "alive"
      /\ op = "createFailed" => env'.native = "failed"
  OBVIOUS
<1>4. /\ s' \in SessionState
      /\ (s'.private <=> s.private) /\ (s'.native <=> s.native)
      /\ s'.flags = s.flags /\ s'.ref = s.ref /\ s'.fault = s.fault
      /\ \A e, w : Fits(s, e, w) => Fits(s', e, w)
      /\ \A y : Has(s.exec, y) <=> y = Create \/ Has(s'.exec, y)
      /\ \A y : Single(s.exec, y) => Single(s'.exec, y)
      /\ Single(s.exec, Create) => ~Has(s'.exec, Create)
  BY <1>1, CommandEffect
<1>5. \A c : Among(s'.exec, Receives(c)) = Among(s.exec, Receives(c))
  BY <1>1, CommandEffect, CommandIdentity
<1>6. /\ Has(s.exec, Create) /\ ~Has(s'.exec, Create)
      /\ env.native = "none"
  BY <1>4, Invariants DEF QueueFits, NativeFits
<1>7. /\ ~Queued("created", 0) /\ ~Queued("createFailed", 0)
      /\ ~s.private /\ ~s.native
      /\ ~Has(s.exec, Destroy) /\ ~Has(s'.exec, Destroy)
      /\ \A c \in Chan : ~Has(s.exec, Receive(c, TRUE))
  BY <1>4, <1>6, Invariants DEF NativeFits, HandleFits
<1>8. /\ op \in TaskOps /\ 0 \in Chan
      /\ op # "receiveDone" /\ op # "wsClosed" /\ op # "pcClosed"
      /\ op \notin PcOps /\ op \notin UserOps
  BY Channels DEF Answers, TaskOps, PcOps, UserOps
<1>9. /\ tasks' \in Seq(TaskRecords)
      /\ \A x : Has(tasks', x) <=> Has(tasks, x) \/ x = OnChannel(op, 0)
      /\ \A p, d : Queued(p, d)' <=> Queued(p, d) \/ (p = op /\ d = 0)
      /\ \A x : Single(tasks, x) /\ (x = OnChannel(op, 0) => ~Has(tasks, x))
                  => Single(tasks', x)
      /\ \A x, y : x # OnChannel(op, 0) /\ Follows(tasks, x, y) => Follows(tasks', x, y)
      /\ \A x, y : x # OnChannel(op, 0) /\ Leads(tasks, y, x) => Leads(tasks', y, x)
      /\ op # "receiveDone" => \A d : Among(tasks', {OnChannel("receiveDone", d)})
                                        = Among(tasks, {OnChannel("receiveDone", d)})
  BY <1>2, <1>8, Invariants, AppendEffect
<1>10. Types'
  BY <1>3, <1>4, <1>9 DEF Types
<1>11. QueueFits'
  <2>1. \A x \in TaskRecords : Has(tasks', x) => x.op \in ChannelOps \/ x.c = 0
    BY <1>9, Invariants, TaskIdentity DEF QueueFits
  <2>2. \A x \in Commands : Has(s'.exec, x) =>
          x \in {Create, Destroy} \/ x.op = "receive"
    BY <1>4, Invariants DEF QueueFits
  <2>3. \A p \in {"wsClosed", "pcClosed", "created", "createFailed"} :
          Single(tasks', Plain(p))
    <3> TAKE p \in {"wsClosed", "pcClosed", "created", "createFailed"}
    <3>1. Single(tasks, Plain(p)) /\ Plain(p) = OnChannel(p, 0)
      BY Invariants, TaskIdentity DEF QueueFits
    <3>2. Plain(p) = OnChannel(op, 0) => ~Has(tasks, Plain(p))
      BY <1>7, <3>1, TaskIdentity DEF Queued, Answers
    <3>3. QED
      BY <1>9, <3>1, <3>2
  <2>4. Single(s'.exec, Create) /\ Single(s'.exec, Destroy)
    BY <1>4, Invariants DEF QueueFits
  <2>5. /\ Queued("wsClosed", 0)' => env'.ws = "closed"
        /\ Queued("pcClosed", 0)' => env'.pc = "closed"
    BY <1>3, <1>8, <1>9, Invariants DEF QueueFits
  <2>6. QED
    BY <2>1, <2>2, <2>3, <2>4, <2>5 DEF QueueFits
<1>12. NativeFits'
  <2>1. /\ op = "created" => Queued("created", 0)' /\ ~Queued("createFailed", 0)'
        /\ op = "createFailed" => Queued("createFailed", 0)' /\ ~Queued("created", 0)'
    BY <1>7, <1>9
  <2>2. s'.ref = 0 \/ {"READY_SIGNAL_RECEIVED", "ALL_CHANNELS_OPENED"} \subseteq s'.flags
    BY <1>4, <1>6, Invariants DEF NativeFits
  <2>3. op = "created" \/ op = "createFailed"
    BY DEF Answers
  <2>4. QED
    BY <1>3, <1>4, <1>6, <1>7, <2>1, <2>2, <2>3 DEF NativeFits
<1>13. HandleFits'
  BY <1>4, <1>7 DEF HandleFits
<1>14. EventFits'
  <2>1. ASSUME env'.pc = "closed", NEW d \in Chan, NEW p \in PcOps
        PROVE  Follows(tasks', OnChannel(p, d), Plain("pcClosed"))
    <3>1. Follows(tasks, OnChannel(p, d), Plain("pcClosed"))
      BY <1>3, <2>1, Invariants DEF EventFits
    <3>2. OnChannel(p, d) # OnChannel(op, 0)
      BY <1>8, TaskIdentity
    <3>3. QED
      BY <1>9, <3>1, <3>2
  <2>2. ASSUME ~s'.private, "untold" \notin Faults, NEW d \in Chan, NEW p \in UserOps
        PROVE  Leads(tasks', Plain("created"), OnChannel(p, d))
    <3>1. Leads(tasks, Plain("created"), OnChannel(p, d))
      BY <1>4, <2>2, Invariants DEF EventFits
    <3>2. OnChannel(p, d) # OnChannel(op, 0)
      BY <1>8, TaskIdentity
    <3>3. QED
      BY <1>9, <3>1, <3>2
  <2>3. QED
    BY <2>1, <2>2 DEF EventFits
<1>15. \A c : Waiting(c)' = Waiting(c)
  BY <1>5, <1>8, <1>9 DEF Waiting
<1>16. Fits(s', Holders', Waits')
  <2>1. /\ WsHolds' <=> WsHolds
        /\ PcHolds' <=> PcHolds
    BY <1>3, <1>8, <1>9 DEF WsHolds, PcHolds
  <2>2. Asking' <=> Asking
    <3>1. Asking
      BY <1>6 DEF Asking
    <3>2. Asking'
      BY <1>9 DEF Asking, Answers
    <3>3. QED
      BY <3>1, <3>2
  <2>3. Holders' = Holders
    BY <2>1, <2>2 DEF Holders, Count
  <2>4. Waits' = Waits
    BY <1>15 DEF Waits
  <2>5. QED
    BY <1>4, <2>3, <2>4, Invariants
<1>17. Unknown(s') => \A d \in Chan : Waiting(d)' = 0
  BY <1>4, <1>15, Invariants DEF Unknown
<1>18. QED
  BY <1>4, <1>10, <1>11, <1>12, <1>13, <1>14, <1>16, <1>17, Invariants DEF SessionInv

\* `NativeCreate` keeps the invariant.
LEMMA NativeCreateKeeps == SessionInv /\ NativeCreate => SessionInv'
<1> SUFFICES ASSUME SessionInv, NativeCreate PROVE SessionInv'
  OBVIOUS
<1>1. Command("create")
  BY DEF NativeCreate
<1>2. PICK native \in {"alive", "failed", "orphan", "lost"} :
        /\ env' = [env EXCEPT !.native = native]
        /\ native = "alive" => tasks' = Append(tasks, OnChannel("created", 0))
        /\ native = "failed" => tasks' = Append(tasks, OnChannel("createFailed", 0))
        /\ native \in {"orphan", "lost"} => tasks' = tasks
  BY TaskIdentity DEF NativeCreate, Submits, Refused
<1>3. /\ env' \in EnvState /\ env'.ws = env.ws /\ env'.pc = env.pc
      /\ env'.native = native
  BY <1>2, AlikeSelf DEF EnvState
<1>4. CASE native = "alive"
  BY <1>1, <1>2, <1>3, <1>4, AnswerKeeps DEF Answers
<1>5. CASE native = "failed"
  BY <1>1, <1>2, <1>3, <1>5, AnswerKeeps DEF Answers
<1>6. CASE native \in {"orphan", "lost"}
  BY <1>1, <1>2, <1>3, <1>6, UnansweredKeeps
<1>7. QED
  BY <1>4, <1>5, <1>6

\* `NativeDestroy` keeps the invariant.
LEMMA NativeDestroyKeeps == SessionInv /\ NativeDestroy => SessionInv'
<1> SUFFICES ASSUME SessionInv, NativeDestroy PROVE SessionInv'
  OBVIOUS
<1>1. Command("destroy") /\ tasks' = tasks /\ env' = [env EXCEPT !.native = "dead"]
  BY DEF NativeDestroy
<1>2. /\ env' \in EnvState /\ env'.ws = env.ws /\ env'.pc = env.pc
      /\ env'.native = "dead"
  BY <1>1, AlikeSelf DEF EnvState
<1>3. /\ s' \in SessionState
      /\ (s'.private <=> s.private) /\ (s'.native <=> s.native)
      /\ s'.flags = s.flags /\ s'.ref = s.ref /\ s'.fault = s.fault
      /\ \A e, w : Fits(s, e, w) => Fits(s', e, w)
      /\ \A y : Has(s.exec, y) <=> y = Destroy \/ Has(s'.exec, y)
      /\ \A y : Single(s.exec, y) => Single(s'.exec, y)
      /\ Single(s.exec, Destroy) => ~Has(s'.exec, Destroy)
      /\ \A y, z : Follows(s.exec, y, z) => Follows(s'.exec, y, z)
  BY <1>1, CommandEffect
<1>4. \A c : Among(s'.exec, Receives(c)) = Among(s.exec, Receives(c))
  BY <1>1, CommandEffect, CommandIdentity
<1>5. /\ Has(s.exec, Destroy) /\ ~Has(s'.exec, Destroy)
      /\ env.native = "alive" /\ s.private /\ ~s.native
  BY <1>3, Invariants DEF QueueFits, NativeFits
<1>6. /\ ~Queued("created", 0) /\ ~Queued("createFailed", 0)
      /\ ~Has(s.exec, Create) /\ ~Has(s'.exec, Create)
  BY <1>3, <1>5, Invariants DEF NativeFits
<1>7. \A p, d : Queued(p, d)' <=> Queued(p, d)
  BY <1>1 DEF Queued
<1>8. Types'
  BY <1>1, <1>2, <1>3, Invariants DEF Types
<1>9. QueueFits'
  BY <1>1, <1>2, <1>3, <1>7, Invariants DEF QueueFits
<1>10. NativeFits'
  <2>1. s'.ref = 0 \/ {"READY_SIGNAL_RECEIVED", "ALL_CHANNELS_OPENED"} \subseteq s'.flags
    BY <1>3, <1>5, Invariants DEF NativeFits
  <2>2. QED
    BY <1>2, <1>3, <1>5, <1>6, <1>7, <2>1 DEF NativeFits
<1>11. HandleFits'
  <2> SUFFICES ASSUME NEW c \in Chan PROVE ~Has(s'.exec, Receive(c, TRUE))
    BY <1>5 DEF HandleFits
  <2>1. Follows(s.exec, Receive(c, TRUE), Destroy)
    BY <1>5, Invariants DEF HandleFits
  <2>2. Follows(s'.exec, Receive(c, TRUE), Destroy)
    BY <1>3, <2>1
  <2>3. QED
    BY <1>5, <2>2, FollowsHas
<1>12. EventFits'
  BY <1>1, <1>2, <1>3, Invariants DEF EventFits
<1>13. \A c : Waiting(c)' = Waiting(c)
  BY <1>1, <1>4 DEF Waiting
<1>14. Fits(s', Holders', Waits')
  <2>1. /\ WsHolds' <=> WsHolds
        /\ PcHolds' <=> PcHolds
        /\ Asking' <=> Asking
    BY <1>2, <1>5, <1>6, <1>7 DEF WsHolds, PcHolds, Asking
  <2>2. Holders' = Holders
    BY <2>1 DEF Holders, Count
  <2>3. Waits' = Waits
    BY <1>13 DEF Waits
  <2>4. QED
    BY <1>3, <2>2, <2>3, Invariants
<1>15. Unknown(s') => \A d \in Chan : Waiting(d)' = 0
  BY <1>3, <1>13, Invariants DEF Unknown
<1>16. QED
  BY <1>3, <1>8, <1>9, <1>10, <1>11, <1>12, <1>14, <1>15, Invariants DEF SessionInv

\* A receive whose completion is refused keeps the invariant.
LEMMA UnfinishedKeeps ==
  ASSUME SessionInv, Command("receive"), UNCHANGED <<tasks, env>>
  PROVE  SessionInv'
<1> DEFINE h == Head(s.exec)
<1>1. /\ h \in Commands /\ h = Receive(h.c, h.handle)
      /\ s' \in SessionState
      /\ (s'.private <=> s.private) /\ (s'.native <=> s.native)
      /\ s'.flags = s.flags /\ s'.ref = s.ref /\ s'.fault = s.fault
      /\ \A e, w : Fits(s, e, w) => Fits(s', e, w)
      /\ \A y : Has(s.exec, y) <=> y = h \/ Has(s'.exec, y)
      /\ \A y : Single(s.exec, y) => Single(s'.exec, y)
      /\ \A y, z : Follows(s.exec, y, z) => Follows(s'.exec, y, z)
      /\ \A X : /\ h \in X => Among(s.exec, X) = Among(s'.exec, X) + 1
                /\ h \notin X => Among(s.exec, X) = Among(s'.exec, X)
  BY CommandEffect
<1>2. h # Create /\ h # Destroy
  BY <1>1, CommandIdentity
<1> HIDE DEF h
<1>3. /\ Has(s.exec, Create) <=> Has(s'.exec, Create)
      /\ Has(s.exec, Destroy) <=> Has(s'.exec, Destroy)
  BY <1>1, <1>2
<1>4. \A p, d : Queued(p, d)' <=> Queued(p, d)
  BY DEF Queued
<1>5. Types'
  BY <1>1, Invariants, AlikeSelf DEF Types
<1>6. QueueFits'
  BY <1>1, <1>4, Invariants DEF QueueFits
<1>7. NativeFits'
  BY <1>1, <1>3, <1>4, Invariants DEF NativeFits
<1>8. HandleFits'
  BY <1>1, <1>3, Invariants DEF HandleFits
<1>9. EventFits'
  BY <1>1, Invariants DEF EventFits
<1>10. \A d : Waiting(d)' \in Nat /\ Waiting(d) \in Nat /\ Waiting(d)' <= Waiting(d)
  <2> TAKE d
  <2> DEFINE a == Among(s.exec, Receives(d))
             b == Among(tasks, {OnChannel("receiveDone", d)})
             a1 == Among(s'.exec, Receives(d))
  <2>1. a \in Nat /\ b \in Nat /\ a1 \in Nat
    <3>1. s'.exec \in Seq(Commands)
      BY <1>1, SessionFields
    <3>2. QED
      BY <3>1, AmongType, Invariants, WaitingType
  <2>2. a = a1 + 1 \/ a = a1
    BY <1>1
  <2>3. Waiting(d) = a + b /\ Waiting(d)' = a1 + b
    BY DEF Waiting
  <2> HIDE DEF a, b, a1
  <2>4. QED
    BY <2>1, <2>2, <2>3
<1>11. Fits(s', Holders', Waits')
  <2>1. /\ WsHolds' <=> WsHolds
        /\ PcHolds' <=> PcHolds
        /\ Asking' <=> Asking
    BY <1>3, <1>4 DEF WsHolds, PcHolds, Asking
  <2>2. Holders' = Holders
    BY <2>1 DEF Holders, Count
  <2>3. Fits(s', Holders, Waits)
    BY <1>1, Invariants
  <2>4. /\ Waits \in [Chan -> Nat] /\ Waits' \in [Chan -> Nat]
        /\ \A d \in Chan : Waits'[d] <= Waits[d]
    BY <1>10 DEF Waits
  <2>5. QED
    BY <2>2, <2>3, <2>4, FitsLess
<1>12. Unknown(s') => \A d \in Chan : Waiting(d)' = 0
  <2> SUFFICES ASSUME Unknown(s'), NEW d \in Chan PROVE Waiting(d)' = 0
    OBVIOUS
  <2>1. Waiting(d) = 0
    BY <1>1, Invariants DEF Unknown
  <2>2. QED
    BY <1>10, <2>1
<1>13. QED
  BY <1>1, <1>5, <1>6, <1>7, <1>8, <1>9, <1>11, <1>12, Invariants DEF SessionInv

\* A receive that is told to be complete keeps the invariant.
LEMMA FinishedKeeps ==
  ASSUME SessionInv, Command("receive"), env' = env,
         tasks' = Append(tasks, OnChannel("receiveDone", Head(s.exec).c))
  PROVE  SessionInv'
<1> DEFINE h == Head(s.exec)
           c == h.c
           t == OnChannel("receiveDone", c)
<1>1. Command("receive") /\ env' = env /\ tasks' = Append(tasks, t)
  OBVIOUS
<1>2. /\ h \in Commands /\ h = Receive(c, h.handle) /\ h \in Receives(c)
      /\ s' \in SessionState
      /\ (s'.private <=> s.private) /\ (s'.native <=> s.native)
      /\ s'.flags = s.flags /\ s'.ref = s.ref /\ s'.fault = s.fault
      /\ \A e, w : Fits(s, e, w) => Fits(s', e, w)
      /\ \A y : Has(s.exec, y) <=> y = h \/ Has(s'.exec, y)
      /\ \A y : Single(s.exec, y) => Single(s'.exec, y)
      /\ \A y, z : Follows(s.exec, y, z) => Follows(s'.exec, y, z)
  BY <1>1, CommandEffect
<1>3. \A X : /\ h \in X => Among(s.exec, X) = Among(s'.exec, X) + 1
             /\ h \notin X => Among(s.exec, X) = Among(s'.exec, X)
  BY <1>1, CommandEffect
<1>4. /\ c \in Chan /\ h # Create /\ h # Destroy
      /\ \A d : d # c => h \notin Receives(d)
  <2>1. c \in Chan
    BY <1>2 DEF Commands
  <2>2. h # Create /\ h # Destroy
    BY <1>2, CommandIdentity
  <2>3. ASSUME NEW d, d # c PROVE h \notin Receives(d)
    <3> HIDE DEF h, c
    <3>1. \A g : h # Receive(d, g)
      BY <1>2, <2>3, CommandIdentity
    <3>2. QED
      BY <3>1 DEF Receives
  <2>4. QED
    BY <2>1, <2>2, <2>3
<1> HIDE DEF h, c
<1>5. /\ tasks' \in Seq(TaskRecords)
      /\ \A x : Has(tasks', x) <=> Has(tasks, x) \/ x = t
      /\ \A p, d : Queued(p, d)' <=> Queued(p, d) \/ (p = "receiveDone" /\ d = c)
      /\ \A x : Single(tasks, x) /\ (x = t => ~Has(tasks, x)) => Single(tasks', x)
      /\ \A x, y : x # t /\ Follows(tasks, x, y) => Follows(tasks', x, y)
      /\ \A x, y : x # t /\ Leads(tasks, y, x) => Leads(tasks', y, x)
  BY <1>1, <1>4, Invariants, AppendEffect, ZenonT(60) DEF TaskOps
<1>6. \A d : t \in {OnChannel("receiveDone", d)} <=> d = c
  BY TaskIdentity
<1>7. \A d : /\ d = c => Among(tasks', {OnChannel("receiveDone", d)})
                           = Among(tasks, {OnChannel("receiveDone", d)}) + 1
             /\ d # c => Among(tasks', {OnChannel("receiveDone", d)})
                           = Among(tasks, {OnChannel("receiveDone", d)})
  <2> TAKE d
  <2>1. t \in TaskRecords /\ tasks \in Seq(TaskRecords)
    BY <1>4, Invariants, TaskTypes DEF TaskOps
  <2>2. QED
    BY <1>1, <1>6, <2>1, AmongAppend
<1>8. \A p, d : p # "receiveDone" => (Queued(p, d)' <=> Queued(p, d)) /\ OnChannel(p, d) # t
  BY <1>5, TaskIdentity
<1>9. Types'
  BY <1>1, <1>2, <1>5, AlikeSelf DEF Types
<1>10. /\ Has(s.exec, Create) <=> Has(s'.exec, Create)
       /\ Has(s.exec, Destroy) <=> Has(s'.exec, Destroy)
  BY <1>2, <1>4
<1>11. QueueFits'
  <2>1. \A x \in TaskRecords : Has(tasks', x) => x.op \in ChannelOps \/ x.c = 0
    BY <1>5, Invariants, TaskIdentity DEF QueueFits, ChannelOps
  <2>2. \A x \in Commands : Has(s'.exec, x) =>
          x \in {Create, Destroy} \/ x.op = "receive"
    BY <1>2, Invariants DEF QueueFits
  <2>3. \A p \in {"wsClosed", "pcClosed", "created", "createFailed"} :
          Single(tasks', Plain(p))
    <3> TAKE p \in {"wsClosed", "pcClosed", "created", "createFailed"}
    <3>1. Single(tasks, Plain(p)) /\ Plain(p) = OnChannel(p, 0)
      BY Invariants, TaskIdentity DEF QueueFits
    <3>2. p # "receiveDone"
      OBVIOUS
    <3>3. QED
      BY <1>5, <1>8, <3>1, <3>2
  <2>4. Single(s'.exec, Create) /\ Single(s'.exec, Destroy)
    BY <1>2, Invariants DEF QueueFits
  <2>5. /\ Queued("wsClosed", 0)' => env'.ws = "closed"
        /\ Queued("pcClosed", 0)' => env'.pc = "closed"
    BY <1>1, <1>8, Invariants DEF QueueFits
  <2>6. QED
    BY <2>1, <2>2, <2>3, <2>4, <2>5 DEF QueueFits
<1>12. /\ Queued("created", 0)' <=> Queued("created", 0)
       /\ Queued("createFailed", 0)' <=> Queued("createFailed", 0)
  BY <1>8
<1>13. NativeFits'
  BY <1>1, <1>2, <1>10, <1>12, Invariants DEF NativeFits
<1>14. HandleFits'
  BY <1>1, <1>2, <1>10, Invariants DEF HandleFits
<1>15. EventFits'
  <2>1. ASSUME env'.pc = "closed", NEW d \in Chan, NEW p \in PcOps
        PROVE  Follows(tasks', OnChannel(p, d), Plain("pcClosed"))
    <3>1. Follows(tasks, OnChannel(p, d), Plain("pcClosed")) /\ p # "receiveDone"
      BY <1>1, <2>1, Invariants DEF EventFits, PcOps
    <3>2. QED
      BY <1>5, <1>8, <3>1
  <2>2. ASSUME ~s'.private, "untold" \notin Faults, NEW d \in Chan, NEW p \in UserOps
        PROVE  Leads(tasks', Plain("created"), OnChannel(p, d))
    <3>1. Leads(tasks, Plain("created"), OnChannel(p, d)) /\ p # "receiveDone"
      BY <1>2, <2>2, Invariants DEF EventFits, UserOps
    <3>2. QED
      BY <1>5, <1>8, <3>1
  <2>3. QED
    BY <2>1, <2>2 DEF EventFits
<1>16. \A d : Waiting(d)' = Waiting(d)
  <2> TAKE d
  <2> DEFINE a == Among(s.exec, Receives(d))
             b == Among(tasks, {OnChannel("receiveDone", d)})
             a1 == Among(s'.exec, Receives(d))
             b1 == Among(tasks', {OnChannel("receiveDone", d)})
  <2>1. a \in Nat /\ b \in Nat /\ a1 \in Nat
    <3>1. s'.exec \in Seq(Commands)
      BY <1>2, SessionFields
    <3>2. QED
      BY <3>1, AmongType, Invariants, WaitingType
  <2>2. d = c => a = a1 + 1 /\ b1 = b + 1
    BY <1>2, <1>3, <1>7
  <2>3. d # c => a = a1 /\ b1 = b
    BY <1>3, <1>4, <1>7
  <2>4. Waiting(d) = a + b /\ Waiting(d)' = a1 + b1
    BY DEF Waiting
  <2> HIDE DEF a, b, a1, b1
  <2>5. QED
    BY <2>1, <2>2, <2>3, <2>4
<1>17. Fits(s', Holders', Waits')
  <2>1. /\ WsHolds' <=> WsHolds
        /\ PcHolds' <=> PcHolds
        /\ Asking' <=> Asking
    BY <1>1, <1>8, <1>10 DEF WsHolds, PcHolds, Asking
  <2>2. Holders' = Holders
    BY <2>1 DEF Holders, Count
  <2>3. Waits' = Waits
    BY <1>16 DEF Waits
  <2>4. QED
    BY <1>2, <2>2, <2>3, Invariants
<1>18. Unknown(s') => \A d \in Chan : Waiting(d)' = 0
  BY <1>2, <1>16, Invariants DEF Unknown
<1>19. QED
  BY <1>2, <1>9, <1>11, <1>13, <1>14, <1>15, <1>17, <1>18, Invariants DEF SessionInv

\* `NativeReceive` keeps the invariant.
LEMMA NativeReceiveKeeps == SessionInv /\ NativeReceive => SessionInv'
  BY UnfinishedKeeps, FinishedKeeps DEF NativeReceive, Submits, Refused

\* A task that submits a command other than the end of the native session.
LEMMA CommandKeeps ==
  ASSUME SessionInv, Shrinks, env' = env, s' \in SessionState,
         NEW x \in Commands, s'.exec = Append(s.exec, x),
         x = Create \/ x.op = "receive",
         x = Create => ~Has(s.exec, Create), x # Destroy,
         s'.private <=> s.private, Found(s'.fault),
         NativeFits', HandleFits', Fits(s', Holders', Waits'),
         Unknown(s') => \A c \in Chan : Waiting(c)' = 0
  PROVE  SessionInv'
<1>1. /\ \A y : Has(s'.exec, y) <=> Has(s.exec, y) \/ y = x
      /\ \A y : Single(s.exec, y) /\ (y = x => ~Has(s.exec, x)) => Single(s'.exec, y)
  <2>1. s.exec \in Seq(Commands)
    BY Invariants, SessionFields
  <2>2. QED
    BY <2>1, HasAppend, SingleAppend
<1>2. \A p, d : Queued(p, d)' => Queued(p, d)
  BY DEF Shrinks, Queued
<1>3. Types'
  BY AlikeSelf DEF Types, Shrinks
<1>4. QueueFits'
  <2>1. Single(s'.exec, Create) /\ Single(s'.exec, Destroy)
    BY <1>1, Invariants DEF QueueFits
  <2>2. \A y \in Commands : Has(s'.exec, y) => y \in {Create, Destroy} \/ y.op = "receive"
    BY <1>1, Invariants DEF QueueFits
  <2>3. QED
    BY <1>2, <2>1, <2>2, Invariants DEF QueueFits, Shrinks
<1>5. EventFits'
  BY Invariants DEF EventFits, Shrinks
<1>6. QED
  BY <1>3, <1>4, <1>5 DEF SessionInv

\* Asking for the native session takes a reference and submits a command, and keeps
\* the invariant if no native session was asked for before.
LEMMA AskKeeps ==
  ASSUME SessionInv, NEW op, Takes(op), op \notin EndOps, NEW t, Resembles(s, t),
         s.ref > 0, ~({"READY_SIGNAL_RECEIVED", "ALL_CHANNELS_OPENED"} \subseteq s.flags),
         {"READY_SIGNAL_RECEIVED", "ALL_CHANNELS_OPENED"} \subseteq t.flags,
         s' = [t EXCEPT !.ref = t.ref + 1, !.exec = Append(t.exec, Create)]
  PROVE  SessionInv'
<1>1. Taken(op, Head(tasks).c) /\ env' = env
  BY Invariants, TakesTaken
<1>2. Shrinks
  BY <1>1, Invariants, TakenShrinks DEF EndOps, Answers
<1>3. /\ ~Has(s.exec, Create) /\ env.native = "none"
      /\ ~Queued("created", 0) /\ ~Queued("createFailed", 0)
      /\ ~s.private /\ ~s.native /\ ~Has(s.exec, Destroy)
      /\ \A c \in Chan : ~Has(s.exec, Receive(c, TRUE))
  <2>1. s.ref # 0
    OBVIOUS
  <2>2. ~Has(s.exec, Create) /\ env.native = "none"
    BY <2>1, Invariants DEF NativeFits
  <2>3. /\ ~Queued("created", 0) /\ ~Queued("createFailed", 0)
        /\ ~s.private /\ ~Has(s.exec, Destroy)
    BY <2>2, Invariants DEF NativeFits
  <2>4. ~s.native
    BY <2>3, Invariants DEF NativeFits
  <2>5. \A c \in Chan : ~Has(s.exec, Receive(c, TRUE))
    BY <2>2, Invariants DEF HandleFits
  <2>6. QED
    BY <2>2, <2>3, <2>4, <2>5
<1>4. Fits(t, Holders, Waits) /\ Moves(s, t)
  BY Invariants, ResemblesEffect
<1>5. /\ t \in SessionState /\ t.ref \in Nat /\ t.ref = s.ref /\ t.exec = s.exec
      /\ s.exec \in Seq(Commands) /\ (t.private <=> s.private)
      /\ (t.native <=> s.native) /\ Found(t.fault)
  BY Invariants, SessionFields DEF Resembles
<1>6. /\ s' \in SessionState /\ s'.ref = t.ref + 1 /\ s'.exec = Append(s.exec, Create)
      /\ s'.flags = t.flags /\ s'.opened = t.opened /\ s'.table = t.table
      /\ s'.cref = t.cref /\ s'.cflags = t.cflags
      /\ (s'.native <=> t.native) /\ (s'.private <=> t.private)
      /\ s'.fault = t.fault
  <2> DEFINE q == Append(s.exec, Create)
             n == t.ref + 1
  <2>1. q \in Seq(Commands) /\ n \in Nat /\ s' = [t EXCEPT !.ref = n, !.exec = q]
    BY <1>5, CommandTypes, AppendForm
  <2> HIDE DEF q, n
  <2>2. /\ s' \in SessionState /\ s'.ref = n /\ s'.exec = q
        /\ s'.flags = t.flags /\ s'.opened = t.opened /\ s'.table = t.table
        /\ s'.cref = t.cref /\ s'.cflags = t.cflags
        /\ (s'.native <=> t.native) /\ (s'.private <=> t.private)
        /\ s'.fault = t.fault
    BY <1>5, <2>1, ZenonT(60) DEF SessionState
  <2>3. QED
    BY <2>2 DEF q, n
<1>7. /\ \A y : Has(s'.exec, y) <=> Has(s.exec, y) \/ y = Create
      /\ \A c : Among(s'.exec, Receives(c)) = Among(s.exec, Receives(c))
  BY <1>5, <1>6, CommandTypes, CommandIdentity, HasAppend, AmongAppend
<1>8. \A p, d : Queued(p, d)' => Queued(p, d)
  BY <1>2 DEF Shrinks, Queued
<1>9. NativeFits'
  <2>1. ~Queued("created", 0)' /\ ~Queued("createFailed", 0)'
    BY <1>3, <1>8
  <2>2. /\ env'.native = "none" /\ ~s'.private /\ ~s'.native
        /\ {"READY_SIGNAL_RECEIVED", "ALL_CHANNELS_OPENED"} \subseteq s'.flags
    BY <1>1, <1>3, <1>5, <1>6
  <2>3. ~Has(s'.exec, Destroy)
    BY <1>3, <1>7, CommandIdentity
  <2>4. QED
    BY <2>1, <2>2, <2>3 DEF NativeFits
<1>10. HandleFits'
  BY <1>3, <1>7, CommandIdentity DEF HandleFits
<1>11. Fits(s', Holders + 1, Waits)
  <2>1. Whole(t) /\ RefsAre(t, Holders) /\ TableFits(t, Waits)
    BY <1>4 DEF Fits
  <2>2. LiveChannels(s') = LiveChannels(t) /\ (Active(s') <=> Active(t))
    BY <1>6 DEF LiveChannels, ChannelLive, Active
  <2>3. Whole(s')
    <3>1. s'.ref # 0
      BY <1>5, <1>6
    <3>2. QED
      BY <1>6, <2>1, <2>2, <3>1 DEF Whole
  <2>4. RefsAre(s', Holders + 1)
    <3>1. Count(Active(s')) = Count(Active(t))
      BY <2>2 DEF Count
    <3>2. QED
      BY <1>5, <1>6, <2>1, <2>2, <3>1, Invariants, ActiveCount, LiveFinite DEF RefsAre
  <2>5. TableFits(s', Waits)
    BY <1>6, <2>1 DEF TableFits
  <2>6. QED
    BY <2>3, <2>4, <2>5 DEF Fits
<1>13. Holders' = Holders + 1
  <2>1. \A p, d : Queued(p, d) <=> Queued(p, d)' \/ (p = op /\ d = Head(tasks).c)
    BY <1>1, Invariants, TakeEffect
  <2>2. (WsHolds' <=> WsHolds) /\ (PcHolds' <=> PcHolds)
    BY <1>1, <2>1 DEF WsHolds, PcHolds, EndOps
  <2>3. ~Asking /\ Asking'
    BY <1>3, <1>7 DEF Asking
  <2>4. /\ Count(WsHolds') = Count(WsHolds) /\ Count(PcHolds') = Count(PcHolds)
        /\ Count(Asking) = 0 /\ Count(Asking') = 1
    BY <2>2, <2>3 DEF Count
  <2>5. Count(WsHolds) \in Nat /\ Count(PcHolds) \in Nat
    BY DEF Count
  <2>6. /\ Holders = Count(WsHolds) + Count(PcHolds) + Count(Asking)
        /\ Holders' = Count(WsHolds') + Count(PcHolds') + Count(Asking')
    BY DEF Holders, Count
  <2>7. QED
    BY <2>4, <2>5, <2>6
<1>14. \A d : Waiting(d)' = Waiting(d)
  <2>1. \A d : Among(tasks, {OnChannel("receiveDone", d)})
                 = Among(tasks', {OnChannel("receiveDone", d)})
    BY <1>1, Invariants, TakeAmong DEF EndOps
  <2>2. QED
    BY <1>7, <2>1 DEF Waiting
<1>15. Waits' = Waits
  BY <1>14 DEF Waits
<1>16. Unknown(s') => \A c \in Chan : Waiting(c)' = 0
  <2>1. Unknown(s') => Unknown(t)
    BY <1>6 DEF Unknown
  <2>2. Unknown(t) => Unknown(s)
    BY <1>4 DEF Moves
  <2>3. QED
    BY <1>14, <2>1, <2>2, Invariants
<1>17. QED
  BY <1>1, <1>2, <1>3, <1>5, <1>6, <1>9, <1>10, <1>11, <1>13, <1>15, <1>16,
     CommandTypes, CommandIdentity, CommandKeeps

\* A handler that may have completed the handshake keeps the invariant.
LEMMA OpenKeeps ==
  ASSUME SessionInv, NEW op, Takes(op), op \notin EndOps, NEW t, Resembles(s, t),
         s.ref > 0, ~({"READY_SIGNAL_RECEIVED", "ALL_CHANNELS_OPENED"} \subseteq s.flags),
         s' = ReadyIfConnected(t)
  PROVE  SessionInv'
<1>1. CASE ~IsConnected(t)
  BY <1>1, QuietKeeps DEF ReadyIfConnected
<1>2. CASE IsConnected(t)
  <2> DEFINE u == [t EXCEPT !.timeout = "none"]
  <2>1. t \in SessionState
    BY DEF Resembles
  <2>2. /\ u \in SessionState /\ u.fault = t.fault
        /\ u.flags = t.flags /\ u.ref = t.ref /\ u.opened = t.opened
        /\ u.table = t.table /\ u.cref = t.cref /\ u.cflags = t.cflags
        /\ u.native = t.native /\ u.exec = t.exec
        /\ u.executor = t.executor /\ u.private = t.private
    BY <2>1 DEF SessionState
  <2>3. s' = PluginOpen(u)
    BY <1>2 DEF ReadyIfConnected, OnReady
  <2> HIDE DEF u
  <2>4. Resembles(s, u)
    BY <2>2 DEF Resembles
  <2>5. CASE u.native
    <3>1. s' = [u EXCEPT !.fault = "nativeSet"]
      BY <2>3, <2>5 DEF PluginOpen, Fail
    <3>2. /\ s' \in SessionState /\ s'.fault = "nativeSet"
          /\ s'.flags = u.flags /\ s'.ref = u.ref /\ s'.opened = u.opened
          /\ s'.table = u.table /\ s'.cref = u.cref /\ s'.cflags = u.cflags
          /\ s'.native = u.native /\ s'.exec = u.exec
          /\ s'.executor = u.executor /\ s'.private = u.private
      BY <2>2, <3>1, ZenonT(60) DEF SessionState, FaultNames
    <3>3. Resembles(s, s')
      BY <2>4, <3>2 DEF Resembles, Found
    <3>4. QED
      BY <3>3, QuietKeeps
  <2>6. CASE ~u.native /\ ~u.executor
    <3>1. s' = u
      BY <2>3, <2>6 DEF PluginOpen
    <3>2. QED
      BY <2>4, <3>1, QuietKeeps
  <2>7. CASE ~u.native /\ u.executor
    <3> DEFINE v == [u EXCEPT !.ref = u.ref + 1]
    <3>1. s' = ExecutorSubmit(v, Create)
      BY <2>3, <2>7 DEF PluginOpen, Create
    <3>2. v.executor /\ v.exec = u.exec
      BY <2>2, <2>7 DEF SessionState
    <3>3. s' = [v EXCEPT !.exec = Append(u.exec, Create)]
      BY <3>1, <3>2 DEF ExecutorSubmit
    <3>4. s' = [u EXCEPT !.ref = u.ref + 1, !.exec = Append(u.exec, Create)]
      BY <2>2, <3>3 DEF SessionState
    <3>5. {"READY_SIGNAL_RECEIVED", "ALL_CHANNELS_OPENED"} \subseteq u.flags
      BY <1>2, <2>2 DEF IsConnected
    <3>6. QED
      BY <2>4, <3>4, <3>5, AskKeeps
  <2>8. QED
    BY <2>5, <2>6, <2>7
<1>3. QED
  BY <1>1, <1>2

\* `OnReadyMessage` keeps the invariant.
LEMMA OnReadyMessageKeeps == SessionInv /\ OnReadyMessage => SessionInv'
<1> SUFFICES ASSUME SessionInv, OnReadyMessage PROVE SessionInv'
  OBVIOUS
<1>1. Takes("ready") /\ "ready" \notin EndOps
  BY DEF OnReadyMessage, EndOps, Answers
<1>2. CASE s' = s
  BY <1>1, <1>2, ResemblesSelf, QuietKeeps
<1>3. CASE s' # s
  <2> DEFINE z == s.flags \cup {"READY_SIGNAL_RECEIVED"}
             t == [s EXCEPT !.flags = z]
  <2>1. /\ "WS_ACTIVE" \in s.flags /\ "READY_SIGNAL_RECEIVED" \notin s.flags
        /\ s' = ReadyIfConnected(t)
    BY <1>3 DEF OnReadyMessage, RecvReady, Understands
  <2>2. s \in SessionState /\ Whole(s) /\ s.ref \in Nat /\ s.flags \in SUBSET SessionFlags
    BY Invariants, SessionFields DEF Fits
  <2>3. s.ref > 0
    BY <2>1, <2>2 DEF Whole
  <2>4. z \in SUBSET SessionFlags
    BY <2>2 DEF SessionFlags
  <2>5. /\ s.flags \subseteq z
        /\ z \subseteq s.flags \cup {"READY_SIGNAL_RECEIVED", "ALL_CHANNELS_OPENED"}
        /\ "ALL_CHANNELS_OPENED" \in z => s.opened >= N + 1
    BY <2>2 DEF Whole
  <2> HIDE DEF z
  <2>6. /\ t \in SessionState /\ t.fault = s.fault
        /\ t.flags = z /\ t.ref = s.ref /\ t.opened = s.opened
        /\ t.table = s.table /\ t.cref = s.cref /\ t.cflags = s.cflags
        /\ t.native = s.native /\ t.exec = s.exec
        /\ t.executor = s.executor /\ t.private = s.private
    BY <2>2, <2>4 DEF SessionState
  <2> HIDE DEF t
  <2>7. Resembles(s, t)
    BY <2>3, <2>5, <2>6 DEF Resembles
  <2>8. QED
    BY <1>1, <2>1, <2>3, <2>7, OpenKeeps
<1>4. QED
  BY <1>2, <1>3

\* A live channel belongs to a live and authenticated session.
LEMMA ChannelsHold ==
  ASSUME SessionInv, NEW c \in Chan, ChannelLive(s, c)
  PROVE  s.ref > 0 /\ "WS_AUTHENTICATED" \in s.flags
<1>1. c \in LiveChannels(s)
  BY DEF LiveChannels
<1>2. Cardinality(LiveChannels(s)) # 0 /\ Cardinality(LiveChannels(s)) \in Nat
  BY <1>1, LiveFinite
<1>3. s.ref = Holders + Count(Active(s)) + Cardinality(LiveChannels(s))
  BY Invariants DEF Fits, RefsAre
<1>4. s.ref > 0
  BY <1>2, <1>3, HoldersType, ActiveCount
<1>5. QED
  BY <1>1, <1>4, Invariants DEF Fits, Whole

\* `OnDcOpen` keeps the invariant.
LEMMA OnDcOpenKeeps ==
  ASSUME SessionInv, NEW c \in Chan, OnDcOpen(c)
  PROVE  SessionInv'
<1>1. Takes("dcOpen") /\ "dcOpen" \notin EndOps
  BY DEF OnDcOpen, OfChannel, EndOps, Answers
<1>2. CASE s' = s
  BY <1>1, <1>2, ResemblesSelf, QuietKeeps
<1>3. CASE s' # s
  <2>1. PICK scheduled \in BOOLEAN : s' = OnChannelOpened(s, scheduled)
    BY <1>3 DEF OnDcOpen, OfChannel
  <2>2. ChannelLive(s, c)
    BY <1>3 DEF OnDcOpen, OfChannel
  <2>3. /\ s \in SessionState /\ Whole(s) /\ s.ref \in Nat /\ s.opened \in Nat
        /\ s.flags \in SUBSET SessionFlags /\ s.sent \in SUBSET SentKinds
        /\ s.pinging \in BOOLEAN
    BY Invariants, SessionFields DEF Fits
  <2>4. s.ref > 0
    BY <2>2, ChannelsHold
  <2> DEFINE n == s.opened + 1
             u == [s EXCEPT !.opened = n]
  <2>5. n \in Nat /\ N \in Nat
    BY <2>3, Channels
  <2>6. "ALL_CHANNELS_OPENED" \in s.flags => n >= N + 1 /\ n # N + 1
    BY <2>3, Channels DEF Whole
  <2>7. s' = IF u.opened = N + 1 THEN OnAllChannelsOpened(u, scheduled) ELSE u
    BY <2>1 DEF OnChannelOpened
  <2> HIDE DEF n
  <2>8. /\ u \in SessionState /\ u.fault = s.fault
        /\ u.flags = s.flags /\ u.ref = s.ref /\ u.opened = n
        /\ u.table = s.table /\ u.cref = s.cref /\ u.cflags = s.cflags
        /\ u.native = s.native /\ u.exec = s.exec
        /\ u.executor = s.executor /\ u.private = s.private
        /\ u.sent = s.sent /\ u.pinging = s.pinging
    BY <2>3, <2>5 DEF SessionState
  <2> HIDE DEF u
  <2>9. CASE n # N + 1
    <3>1. Resembles(s, u)
      BY <2>4, <2>6, <2>8 DEF Resembles
    <3>2. QED
      BY <1>1, <2>7, <2>8, <2>9, <3>1, QuietKeeps
  <2>10. CASE n = N + 1
    <3> DEFINE m == IF "WS_ACTIVE" \in u.flags THEN u.sent \cup {"READY"} ELSE u.sent
               z == u.flags \cup {"ALL_CHANNELS_OPENED"}
               p == u.pinging \/ scheduled
               t == [u EXCEPT !.sent = m, !.ping = scheduled, !.pinging = p,
                              !.flags = z]
    <3>1. m \in SUBSET SentKinds /\ z \in SUBSET SessionFlags /\ p \in BOOLEAN
      BY <2>3, <2>8 DEF SentKinds, SessionFlags
    <3>2. Send(u, "READY") = [u EXCEPT !.sent = m]
      BY <2>8 DEF Send, SessionState
    <3>3. s' = ReadyIfConnected([Send(u, "READY")
                 EXCEPT !.ping = scheduled,
                        !.pinging = Send(u, "READY").pinging \/ scheduled,
                        !.flags = Send(u, "READY").flags \cup {"ALL_CHANNELS_OPENED"}])
      BY <2>7, <2>8, <2>10 DEF OnAllChannelsOpened
    <3>4. /\ Send(u, "READY").pinging = u.pinging
          /\ Send(u, "READY").flags = u.flags
      BY <2>8, <3>2 DEF SessionState
    <3>5. s' = ReadyIfConnected([Send(u, "READY") EXCEPT !.ping = scheduled,
                                   !.pinging = p, !.flags = z])
      BY <3>3, <3>4
    <3>6. z = s.flags \cup {"ALL_CHANNELS_OPENED"}
      BY <2>8
    <3> HIDE DEF m, z, p
    <3>7. [Send(u, "READY") EXCEPT !.ping = scheduled, !.pinging = p, !.flags = z] = t
      BY <2>8, <3>2 DEF SessionState
    <3>8. /\ t \in SessionState /\ t.fault = u.fault
          /\ t.flags = z /\ t.ref = u.ref /\ t.opened = u.opened
          /\ t.table = u.table /\ t.cref = u.cref /\ t.cflags = u.cflags
          /\ t.native = u.native /\ t.exec = u.exec
          /\ t.executor = u.executor /\ t.private = u.private
      BY <2>8, <3>1, ZenonT(60) DEF SessionState
    <3>9. s' = ReadyIfConnected(t)
      BY <3>5, <3>7
    <3> HIDE DEF t
    <3>10. Resembles(s, t)
      BY <2>4, <2>5, <2>8, <2>10, <3>6, <3>8 DEF Resembles
    <3>11. "ALL_CHANNELS_OPENED" \notin s.flags
      BY <2>6, <2>10
    <3>12. QED
      BY <1>1, <2>4, <3>9, <3>10, <3>11, OpenKeeps
  <2>11. QED
    BY <2>9, <2>10
<1>4. QED
  BY <1>2, <1>3

\* A message is handed on: its channel is referenced until that is complete.
LEMMA OnMessageKeeps ==
  ASSUME SessionInv, NEW c \in Data, OnMessage(c)
  PROVE  SessionInv'
<1>1. Takes("message") /\ "message" \notin EndOps /\ c \in Chan
  BY Channels DEF OnMessage, OfChannel, EndOps, Answers
<1>2. Taken("message", Head(tasks).c) /\ env' = env
  BY <1>1, Invariants, TakesTaken
<1>3. CASE s' = s
  BY <1>1, <1>3, ResemblesSelf, QuietKeeps
<1>4. CASE s' # s
  <2> DEFINE n == s.cref[c] + 1
             x == Receive(c, s.native)
             q == Append(s.exec, x)
             f == [s.cref EXCEPT ![c] = n]
  <2>1. ChannelLive(s, c) /\ s.executor
    BY <1>4 DEF OnMessage, OfChannel, ProcessMessage, ChannelReceive
  <2>2. s' = ExecutorSubmit([s EXCEPT !.cref[c] = n], x)
    BY <1>4 DEF OnMessage, OfChannel, ProcessMessage, ChannelReceive, Receive
  <2>3. /\ s \in SessionState /\ s.cref \in [Chan -> Nat] /\ s.native \in BOOLEAN
        /\ s.exec \in Seq(Commands) /\ s.table \in SUBSET Data
    BY Invariants, SessionFields
  <2>4. x \in Commands /\ n \in Nat /\ f \in [Chan -> Nat]
    BY <1>1, <2>3, CommandTypes
  <2>5. q \in Seq(Commands)
    BY <2>3, <2>4, AppendForm
  <2>6. s' = [s EXCEPT !.cref = f, !.exec = q]
    <3>1. /\ [s EXCEPT !.cref[c] = n].executor = s.executor
          /\ [s EXCEPT !.cref[c] = n].exec = s.exec
      BY <2>3 DEF SessionState
    <3>2. s' = [[s EXCEPT !.cref[c] = n] EXCEPT !.exec = q]
      BY <2>1, <2>2, <3>1 DEF ExecutorSubmit
    <3> HIDE DEF q
    <3>3. QED
      BY <2>3, <3>2 DEF SessionState
  <2>7. /\ \A y : Has(q, y) <=> Has(s.exec, y) \/ y = x
        /\ x \in Receives(c) => Among(q, Receives(c)) = Among(s.exec, Receives(c)) + 1
        /\ \A d : x \notin Receives(d) => Among(q, Receives(d)) = Among(s.exec, Receives(d))
        /\ \A y, z : y # x /\ Follows(s.exec, y, z) => Follows(q, y, z)
    BY <2>3, <2>4, HasAppend, AmongAppend, FollowsAppend
  <2>8. x \in Receives(c)
    <3>1. s.native = TRUE \/ s.native = FALSE
      BY <2>3
    <3>2. QED
      BY <3>1 DEF Receives
  <2>9. x # Create /\ x # Destroy /\ x.op = "receive"
    BY CommandIdentity DEF Receive
  <2>10. \A d : d # c => x \notin Receives(d)
    <3> SUFFICES ASSUME NEW d, d # c PROVE x \notin Receives(d)
      OBVIOUS
    <3>1. \A g : x # Receive(d, g)
      BY CommandIdentity
    <3>2. QED
      BY <3>1 DEF Receives
  <2>11. s.native => env.native = "alive" /\ ~Has(s.exec, Destroy)
    BY Invariants DEF NativeFits
  <2>12. \A d : x = Receive(d, TRUE) => s.native
    <3> SUFFICES ASSUME NEW d, x = Receive(d, TRUE) PROVE s.native
      OBVIOUS
    <3>1. x.handle = s.native
      BY DEF Receive
    <3>2. Receive(d, TRUE).handle = TRUE
      BY DEF Receive
    <3>3. QED
      BY <3>1, <3>2
  <2>13. f[c] = n /\ \A d \in Chan : d # c => f[d] = s.cref[d]
    BY <1>1, <2>3
  <2> HIDE DEF x, q, f
  <2>14. /\ s' \in SessionState /\ s'.cref = f /\ s'.exec = q
         /\ s'.flags = s.flags /\ s'.ref = s.ref /\ s'.opened = s.opened
         /\ s'.table = s.table /\ s'.cflags = s.cflags
         /\ (s'.native <=> s.native) /\ (s'.private <=> s.private)
         /\ s'.fault = s.fault
    BY <2>3, <2>4, <2>5, <2>6 DEF SessionState
  <2>15. Shrinks
    BY <1>1, <1>2, Invariants, TakenShrinks DEF EndOps, Answers
  <2>16. \A p, d : Queued(p, d)' => Queued(p, d)
    BY <2>15 DEF Shrinks, Queued
  <2>17. \A y : y # x => (Has(s'.exec, y) <=> Has(s.exec, y))
    BY <2>7, <2>14
  <2>18. NativeFits'
    <3>1. Queued("created", 0)' <=> Queued("created", 0)
      BY <2>15, <2>16 DEF Shrinks
    <3>2. /\ Has(s'.exec, Create) <=> Has(s.exec, Create)
          /\ Has(s'.exec, Destroy) <=> Has(s.exec, Destroy)
      BY <2>9, <2>17
    <3>3. QED
      BY <1>2, <2>14, <2>16, <3>1, <3>2, Invariants DEF NativeFits
  <2>19. HandleFits'
    <3> SUFFICES ASSUME NEW d \in Chan
                 PROVE  /\ Has(s'.exec, Receive(d, TRUE)) => env.native = "alive"
                        /\ Has(s'.exec, Destroy) => Follows(s'.exec, Receive(d, TRUE), Destroy)
      BY <1>2 DEF HandleFits
    <3>1. CASE Receive(d, TRUE) # x
      BY <2>7, <2>9, <2>14, <2>17, <3>1, Invariants DEF HandleFits
    <3>2. CASE Receive(d, TRUE) = x
      BY <2>9, <2>11, <2>12, <2>17, <3>2
    <3>3. QED
      BY <3>1, <3>2
  <2> DEFINE w == [d \in Chan |-> IF d = c THEN Waits[d] + 1 ELSE Waits[d]]
  <2>20. Waits' = w
    <3>1. ASSUME NEW d \in Chan PROVE Waiting(d)' = w[d]
      <4>1. /\ Among(tasks', {OnChannel("receiveDone", d)})
                 = Among(tasks, {OnChannel("receiveDone", d)})
            /\ Among(tasks, {OnChannel("receiveDone", d)}) \in Nat
            /\ Among(s.exec, Receives(d)) \in Nat
        BY <1>2, Invariants, TakeAmong, WaitingType
      <4>2. /\ d = c => Among(s'.exec, Receives(d)) = Among(s.exec, Receives(d)) + 1
            /\ d # c => Among(s'.exec, Receives(d)) = Among(s.exec, Receives(d))
        BY <2>7, <2>8, <2>10, <2>14
      <4>3. Waits[d] = Among(s.exec, Receives(d)) + Among(tasks, {OnChannel("receiveDone", d)})
        BY DEF Waits, Waiting
      <4>4. Waiting(d)' = Among(s'.exec, Receives(d))
                            + Among(tasks', {OnChannel("receiveDone", d)})
        BY DEF Waiting
      <4>5. w[d] = IF d = c THEN Waits[d] + 1 ELSE Waits[d]
        OBVIOUS
      <4> HIDE DEF w
      <4>6. CASE d = c
        BY <4>1, <4>2, <4>3, <4>4, <4>5, <4>6
      <4>7. CASE d # c
        BY <4>1, <4>2, <4>3, <4>4, <4>5, <4>7
      <4>8. QED
        BY <4>6, <4>7
    <3>2. Waits' = [d \in Chan |-> Waiting(d)']
      BY DEF Waits
    <3>3. w = [d \in Chan |-> w[d]]
      OBVIOUS
    <3> HIDE DEF w
    <3>4. QED
      BY <3>1, <3>2, <3>3
  <2>21. Holders' = Holders
    <3>1. \A p, d : Queued(p, d) <=> Queued(p, d)' \/ (p = "message" /\ d = Head(tasks).c)
      BY <1>2, Invariants, TakeEffect
    <3>2. (WsHolds' <=> WsHolds) /\ (PcHolds' <=> PcHolds)
      BY <1>2, <3>1 DEF WsHolds, PcHolds
    <3>3. Asking' <=> Asking
      BY <1>2, <2>9, <2>17, <3>1 DEF Asking
    <3>4. QED
      BY <3>2, <3>3 DEF Holders, Count
  <2>22. Fits(s', Holders, w)
    <3>1. Whole(s) /\ RefsAre(s, Holders) /\ TableFits(s, Waits) /\ Waits \in [Chan -> Nat]
      BY Invariants DEF Fits
    <3>2. LiveChannels(s') = LiveChannels(s)
      <4>1. \A d \in Chan : s'.cref[d] > 0 <=> s.cref[d] > 0
        BY <2>1, <2>3, <2>13, <2>14 DEF ChannelLive
      <4>2. QED
        BY <4>1 DEF LiveChannels, ChannelLive
    <3>3. Whole(s')
      <4>1. \A d \in Chan : s'.cref[d] = 0 => s.cref[d] = 0
        BY <2>3, <2>13, <2>14
      <4>2. QED
        BY <2>14, <3>1, <3>2, <4>1 DEF Whole
    <3>4. RefsAre(s', Holders)
      BY <2>14, <3>1, <3>2 DEF RefsAre, Count, Active
    <3>5. TableFits(s', w)
      <4> SUFFICES ASSUME NEW d \in s.table
                   PROVE  f[d] >= 1 + Count("ACTIVE" \in s.cflags[d]) + w[d]
        BY <2>14 DEF TableFits
      <4>1. d \in Chan
        BY <2>3, Channels
      <4>2. /\ s.cref[d] >= 1 + Count("ACTIVE" \in s.cflags[d]) + Waits[d]
            /\ s.cref[d] \in Nat /\ Waits[d] \in Nat
            /\ Count("ACTIVE" \in s.cflags[d]) \in Nat
        BY <2>3, <3>1, <4>1 DEF TableFits, Count
      <4>3. w[d] = IF d = c THEN Waits[d] + 1 ELSE Waits[d]
        BY <4>1
      <4>4. f[d] = IF d = c THEN s.cref[d] + 1 ELSE s.cref[d]
        BY <2>13, <4>1
      <4> HIDE DEF w
      <4>5. CASE d = c
        BY <4>2, <4>3, <4>4, <4>5
      <4>6. CASE d # c
        BY <4>2, <4>3, <4>4, <4>6
      <4>7. QED
        BY <4>5, <4>6
    <3>6. QED
      BY <3>3, <3>4, <3>5 DEF Fits
  <2> HIDE DEF w
  <2>23. Fits(s', Holders', Waits')
    BY <2>20, <2>21, <2>22
  <2>24. ~Unknown(s')
    BY <1>1, <2>1, <2>14, ChannelsHold DEF Unknown
  <2>25. s'.exec = Append(s.exec, x) /\ Found(s'.fault)
    BY <2>14, Invariants DEF q
  <2>26. QED
    BY <1>2, <2>4, <2>9, <2>14, <2>15, <2>18, <2>19, <2>23, <2>24, <2>25, CommandKeeps
<1>5. QED
  BY <1>3, <1>4

\* The first k channels are created for a client that was unknown.
LEMMA CreateEffect ==
  ASSUME SessionInv, Unknown(s), NEW k \in 0 .. N + 1
  PROVE  LET u == CreateChannels([s EXCEPT !.flags = @ \cup {"WS_AUTHENTICATED"},
                                           !.timeout = "none"], k)
         IN /\ Fits(u, Holders, Waits) /\ Moves(s, u)
            /\ ~Unknown(u) /\ (Active(u) <=> Active(s))
            /\ u.flags = s.flags \cup {"WS_AUTHENTICATED"}
            /\ u.table = {c \in Data : c < k} /\ (k = N + 1 => u.table = Data)
            /\ u.system <=> k = N + 1
            /\ \A c \in Chan : c < k => u.cflags[c] = {"ACTIVE", "DC_ACTIVE"}
            /\ \A c \in Chan : c >= k => u.cflags[c] = {}
            /\ u.native = s.native /\ u.private = s.private /\ u.exec = s.exec
            /\ u.pcClose = s.pcClose /\ u.answered = s.answered
            /\ u.sent = s.sent /\ u.fault = s.fault
<1> DEFINE z == s.flags \cup {"WS_AUTHENTICATED"}
           a == [s EXCEPT !.flags = z, !.timeout = "none"]
           f == [c \in Chan |-> IF c < k THEN ChannelInit.ref ELSE 0]
           g == [c \in Chan |-> IF c < k THEN ChannelInit.flags ELSE {}]
           b == {c \in Data : c < k}
           n == s.ref + k
           u == CreateChannels(a, k)
<1>1. /\ s \in SessionState /\ Whole(s) /\ RefsAre(s, Holders) /\ s.ref \in Nat
      /\ s.flags \in SUBSET SessionFlags
  BY Invariants, SessionFields DEF Fits
<1>2. /\ "WS_ACTIVE" \in s.flags /\ s.ref # 0 /\ LiveChannels(s) = {}
  BY <1>1 DEF Unknown, Whole
<1>3. z \in SUBSET SessionFlags /\ k \in Nat /\ n \in Nat /\ b \in SUBSET Data
  BY <1>1, Channels DEF SessionFlags
<1>4. ChannelInit.ref = 2 /\ ChannelInit.flags = {"ACTIVE", "DC_ACTIVE"}
  BY DEF ChannelInit, ChannelDcInit
<1>5. /\ f \in [Chan -> Nat]
      /\ \A c \in Chan : /\ c < k => f[c] = 2
                         /\ ~(c < k) => f[c] = 0
  BY <1>4
<1>6. /\ g \in [Chan -> SUBSET ChannelFlags]
      /\ \A c \in Chan : /\ c < k => g[c] = {"ACTIVE", "DC_ACTIVE"}
                         /\ ~(c < k) => g[c] = {}
  BY <1>4 DEF ChannelFlags
<1>7. /\ \A c \in b : c \in Chan /\ c < k
      /\ k = N + 1 => b = Data
  BY Channels DEF Data, Chan
<1>8. "ALL_CHANNELS_OPENED" \in z => "ALL_CHANNELS_OPENED" \in s.flags
  OBVIOUS
<1>9. "WS_AUTHENTICATED" \in z /\ s.flags \subseteq z /\ ("ACTIVE" \in z <=> "ACTIVE" \in s.flags)
  OBVIOUS
<1>10. {c \in Chan : f[c] > 0} = 0 .. k - 1
  <2>1. \A c \in Chan : f[c] > 0 <=> c < k
    BY <1>5
  <2>2. 0 .. k - 1 = {c \in Chan : c < k}
    BY <1>3, Channels DEF Chan
  <2>3. QED
    BY <2>1, <2>2
<1>11. z = s.flags \cup {"WS_AUTHENTICATED"}
  OBVIOUS
<1> HIDE DEF z, f, g, b, n
<1>12. /\ a \in SessionState /\ a.flags = z
       /\ a.ref = s.ref /\ a.opened = s.opened /\ a.exec = s.exec
       /\ a.native = s.native /\ a.private = s.private /\ a.executor = s.executor
       /\ a.fault = s.fault /\ a.pcClose = s.pcClose /\ a.sent = s.sent
       /\ a.answered = s.answered
  BY <1>1, <1>3 DEF SessionState
<1> HIDE DEF a
<1>13. u = [a EXCEPT !.cref = f, !.cflags = g, !.table = b, !.system = (k = N + 1),
                     !.ref = n]
  BY <1>12 DEF CreateChannels, f, g, b, n
<1> HIDE DEF u
<1> DEFINE sys == k = N + 1
<1>14. sys \in BOOLEAN /\ (sys <=> k = N + 1)
       /\ u = [a EXCEPT !.cref = f, !.cflags = g, !.table = b, !.system = sys, !.ref = n]
  BY <1>13
<1> HIDE DEF sys
<1>15. /\ u \in SessionState /\ u.cref = f /\ u.cflags = g /\ u.table = b
       /\ u.system = sys /\ u.ref = n /\ u.flags = a.flags
       /\ u.opened = a.opened /\ u.exec = a.exec
       /\ u.native = a.native /\ u.private = a.private /\ u.executor = a.executor
       /\ u.fault = a.fault /\ u.pcClose = a.pcClose /\ u.sent = a.sent
       /\ u.answered = a.answered
  BY <1>3, <1>5, <1>6, <1>12, <1>14, ZenonT(60) DEF SessionState
<1>16. LiveChannels(u) = 0 .. k - 1
  BY <1>10, <1>15 DEF LiveChannels, ChannelLive
<1>17. Cardinality(LiveChannels(u)) = k
  <2>1. Cardinality(0 .. k - 1) = IF k - 1 < 0 THEN 0 ELSE k - 1 - 0 + 1
    BY <1>3, FS_Interval
  <2>2. QED
    BY <1>3, <1>16, <2>1
<1>18. Active(u) <=> Active(s)
  BY <1>9, <1>12, <1>15 DEF Active
<1>19. Whole(u)
  <2>1. \A c \in Chan : /\ u.cref[c] = 0 => u.cflags[c] = {}
                        /\ "ACTIVE" \in u.cflags[c] <=> "DC_ACTIVE" \in u.cflags[c]
    <3> TAKE c \in Chan
    <3>1. CASE c < k
      BY <1>5, <1>6, <1>15, <3>1
    <3>2. CASE ~(c < k)
      BY <1>5, <1>6, <1>15, <3>2
    <3>3. QED
      BY <3>1, <3>2
  <2>2. n # 0
    BY <1>1, <1>2, <1>3 DEF n
  <2>3. "ALL_CHANNELS_OPENED" \in u.flags => u.opened >= N + 1
    BY <1>1, <1>8, <1>12, <1>15 DEF Whole
  <2>4. QED
    BY <1>9, <1>12, <1>15, <2>1, <2>2, <2>3 DEF Whole
<1>20. RefsAre(u, Holders)
  <2>1. s.ref = Holders + Count(Active(s)) + 0
    BY <1>1, <1>2, LiveFinite DEF RefsAre
  <2>2. Count(Active(u)) = Count(Active(s))
    BY <1>18 DEF Count
  <2>3. QED
    BY <1>3, <1>15, <1>17, <2>1, <2>2, Invariants, ActiveCount DEF RefsAre, n
<1>21. TableFits(u, Waits)
  <2> SUFFICES ASSUME NEW c \in b
               PROVE  f[c] >= 1 + Count("ACTIVE" \in g[c]) + Waits[c]
    BY <1>15 DEF TableFits
  <2>1. f[c] = 2 /\ c \in Chan
    BY <1>5, <1>7
  <2>2. Waits[c] = 0
    BY <2>1, Invariants DEF Waits
  <2>3. Count("ACTIVE" \in g[c]) = 1
    BY <1>6, <1>7 DEF Count
  <2>4. QED
    BY <2>1, <2>2, <2>3
<1>22. Moves(s, u)
  <2>1. s.ref > 0
    BY <1>1, <1>2
  <2>2. ~Unknown(u)
    BY <1>9, <1>12, <1>15 DEF Unknown
  <2>3. QED
    BY <1>9, <1>12, <1>15, <2>1, <2>2 DEF Moves
<1>23. ~Unknown(u) /\ (u.system <=> k = N + 1)
  BY <1>9, <1>12, <1>14, <1>15 DEF Unknown
<1>24. k = N + 1 => u.table = Data /\ u.system
  BY <1>7, <1>15, <1>23
<1>25. /\ \A c \in Chan : c < k => u.cflags[c] = {"ACTIVE", "DC_ACTIVE"}
       /\ \A c \in Chan : c >= k => u.cflags[c] = {}
  <2>1. \A c \in Chan : c \in Nat
    BY DEF Chan
  <2>2. \A c \in Chan : c >= k => ~(c < k)
    BY <1>3, <2>1
  <2>3. QED
    BY <1>6, <1>15, <2>2
<1>26. u.table = {c \in Data : c < k}
  BY <1>15 DEF b
<1>27. QED
  BY <1>11, <1>12, <1>15, <1>18, <1>19, <1>20, <1>21, <1>22, <1>23, <1>24, <1>25, <1>26
     DEF Fits, u, a, z

\* `OnAuth` keeps the invariant.
LEMMA OnAuthKeeps == SessionInv /\ OnAuth => SessionInv'
<1> SUFFICES ASSUME SessionInv, OnAuth PROVE SessionInv'
  OBVIOUS
<1>1. PICK op \in {"auth", "authForever"}, scheduled \in BOOLEAN, buffered \in BOOLEAN,
           k \in 0 .. N + 1 :
        /\ Takes(op)
        /\ s' = IF Understands(s, FALSE)
                  THEN AuthAccepted(s, op = "auth", k, scheduled, buffered)
                  ELSE s
  BY DEF OnAuth
<1>2. op \notin EndOps
  BY DEF EndOps, Answers
<1>3. CASE ~Understands(s, FALSE)
  BY <1>1, <1>2, <1>3, ResemblesSelf, QuietKeeps
<1>4. CASE Understands(s, FALSE)
  <2>1. Unknown(s)
    BY <1>4 DEF Understands, Unknown
  <2> DEFINE u == CreateChannels([s EXCEPT !.flags = @ \cup {"WS_AUTHENTICATED"},
                                           !.timeout = "none"], k)
  <2>2. Fits(u, Holders, Waits) /\ Moves(s, u)
    BY <2>1, CreateEffect
  <2>3. \/ s' = SessionClose(u)
        \/ s' = [u EXCEPT !.timeout = IF op = "auth" THEN "negotiate" ELSE "none",
                          !.sent = IF buffered THEN @ \cup {"DESCRIPTION"} ELSE @]
    BY <1>1, <1>4 DEF AuthAccepted
  <2> HIDE DEF u
  <2>4. Fits(s', Holders, Waits) /\ Moves(s, s')
    <3>1. CASE s' = SessionClose(u)
      <4>1. Fits(s', Holders, Waits) /\ Winds(u, s')
        BY <2>2, <3>1, Invariants, SessionCloseEffect
      <4>2. Moves(u, s')
        BY <4>1, WindsMoves DEF Fits
      <4>3. QED
        BY <2>2, <4>1, <4>2, MovesTransitive
    <3>2. CASE s' # SessionClose(u)
      <4> DEFINE m == IF buffered THEN u.sent \cup {"DESCRIPTION"} ELSE u.sent
                 d == IF op = "auth" THEN "negotiate" ELSE "none"
      <4>1. u \in SessionState /\ Whole(u) /\ u.sent \in SUBSET SentKinds
        BY <2>2, SessionFields DEF Fits, Whole
      <4>2. m \in SUBSET SentKinds /\ d \in {"none", "auth", "negotiate"}
        BY <4>1 DEF SentKinds
      <4>3. s' = [u EXCEPT !.timeout = d, !.sent = m]
        BY <2>3, <3>2, <4>1 DEF SessionState
      <4> HIDE DEF m, d
      <4>4. /\ s' \in SessionState /\ s'.fault = u.fault
            /\ s'.flags = u.flags /\ s'.ref = u.ref /\ s'.opened = u.opened
            /\ s'.table = u.table /\ s'.cref = u.cref /\ s'.cflags = u.cflags
            /\ s'.native = u.native /\ s'.exec = u.exec
            /\ s'.executor = u.executor /\ s'.private = u.private
        BY <4>1, <4>2, <4>3 DEF SessionState
      <4>5. Resembles(u, s')
        BY <4>1, <4>4 DEF Resembles, Whole
      <4>6. Fits(s', Holders, Waits) /\ Moves(u, s')
        BY <2>2, <4>5, Invariants, ResemblesEffect
      <4>7. QED
        BY <2>2, <4>6, MovesTransitive
    <3>3. QED
      BY <3>1, <3>2
  <2>5. Taken(op, Head(tasks).c) /\ env' = env
    BY <1>1, Invariants, TakesTaken
  <2>6. QED
    BY <1>2, <2>4, <2>5, TakenKeeps DEF EndOps
<1>5. QED
  BY <1>3, <1>4

\* The session learns of its native session.
LEMMA ConnectedEffect ==
  ASSUME SessionInv, s.ref > 0
  PROVE  LET v == OnConnected([s EXCEPT !.native = TRUE, !.private = TRUE])
         IN /\ Fits(v, Holders, Waits) /\ v.exec = s.exec /\ v.native /\ v.private
            /\ v.flags = s.flags /\ v.table = s.table /\ v.ref = s.ref
            /\ v.system = s.system /\ v.pcClose = s.pcClose
            /\ v.answered = s.answered
            /\ v.fault \in {s.fault, "nullChannel", "releasedChannel"}
            /\ v.executor = s.executor
            /\ \A c \in Chan : "DC_ACTIVE" \in v.cflags[c] <=> "DC_ACTIVE" \in s.cflags[c]
            /\ "CONNECTED" \in v.sent \ s.sent =>
                 /\ s.table = Data /\ "WS_ACTIVE" \in s.flags
                 /\ \A c \in Chan : ChannelLive(s, c) => "DC_RECEIVE" \in v.cflags[c]
<1> DEFINE t == [s EXCEPT !.native = TRUE, !.private = TRUE]
           g == [c \in Chan |-> IF s.cref[c] > 0 THEN s.cflags[c] \cup {"DC_RECEIVE"}
                                                 ELSE s.cflags[c]]
           m == IF "WS_ACTIVE" \in s.flags THEN s.sent \cup {"CONNECTED"} ELSE s.sent
           v == OnConnected(t)
<1>1. /\ s \in SessionState /\ Whole(s) /\ RefsAre(s, Holders) /\ TableFits(s, Waits)
      /\ s.cref \in [Chan -> Nat] /\ s.cflags \in [Chan -> SUBSET ChannelFlags]
      /\ s.sent \in SUBSET SentKinds
  BY Invariants, SessionFields DEF Fits
<1>2. /\ t \in SessionState /\ t.native /\ t.private /\ t.exec = s.exec
      /\ t.flags = s.flags /\ t.ref = s.ref /\ t.opened = s.opened
      /\ t.table = s.table /\ t.cref = s.cref /\ t.cflags = s.cflags
      /\ t.sent = s.sent /\ t.fault = s.fault /\ t.system = s.system
      /\ t.pcClose = s.pcClose /\ t.answered = s.answered
      /\ t.executor = s.executor
  BY <1>1 DEF SessionState
<1> HIDE DEF t
<1>3. /\ g \in [Chan -> SUBSET ChannelFlags] /\ m \in SUBSET SentKinds
      /\ \A c \in Chan : /\ s.cref[c] > 0 => g[c] = s.cflags[c] \cup {"DC_RECEIVE"}
                         /\ ~(s.cref[c] > 0) => g[c] = s.cflags[c]
  BY <1>1 DEF ChannelFlags, SentKinds
<1> HIDE DEF g, m
<1>4. CASE s.table # Data \/ ~s.system \/ ~ChannelLive(t, Sys)
  <2>1. PICK name \in {"nullChannel", "releasedChannel"} : v = [t EXCEPT !.fault = name]
    BY <1>2, <1>4 DEF OnConnected, Fail
  <2> HIDE DEF v
  <2>2. /\ v \in SessionState /\ v.native /\ v.private /\ v.exec = t.exec
        /\ v.flags = t.flags /\ v.ref = t.ref /\ v.opened = t.opened
        /\ v.table = t.table /\ v.cref = t.cref /\ v.cflags = t.cflags
        /\ v.sent = t.sent /\ v.fault = name /\ v.system = t.system
        /\ v.pcClose = t.pcClose /\ v.answered = t.answered
        /\ v.executor = t.executor
    BY <1>2, <2>1 DEF SessionState, FaultNames
  <2>3. LiveChannels(v) = LiveChannels(s) /\ (Active(v) <=> Active(s))
    BY <1>2, <2>2 DEF LiveChannels, ChannelLive, Active
  <2>4. Whole(v)
    BY <1>1, <1>2, <2>2, <2>3 DEF Whole
  <2>5. RefsAre(v, Holders)
    BY <1>1, <1>2, <2>2, <2>3 DEF RefsAre, Count
  <2>6. TableFits(v, Waits)
    BY <1>1, <1>2, <2>2 DEF TableFits
  <2>7. QED
    BY <1>2, <2>2, <2>4, <2>5, <2>6 DEF Fits, t, v
<1>5. CASE ~(s.table # Data \/ ~s.system \/ ~ChannelLive(t, Sys))
  <2>1. v = [t EXCEPT !.cflags = g, !.sent = m]
    <3> DEFINE r == [t EXCEPT !.cflags = g]
    <3>1. v = Send(r, "CONNECTED")
      BY <1>2, <1>5 DEF OnConnected, ChannelLive, g
    <3>2. r.flags = s.flags /\ r.sent = s.sent
      BY <1>2 DEF SessionState
    <3>3. v = [r EXCEPT !.sent = m] \/ (m = s.sent /\ v = r)
      BY <3>1, <3>2 DEF Send, m
    <3>4. QED
      BY <1>2, <3>2, <3>3 DEF SessionState
  <2> HIDE DEF v
  <2>2. /\ v \in SessionState /\ v.native /\ v.private /\ v.exec = t.exec
        /\ v.flags = t.flags /\ v.ref = t.ref /\ v.opened = t.opened
        /\ v.table = t.table /\ v.cref = t.cref /\ v.cflags = g
        /\ v.sent = m /\ v.fault = t.fault /\ v.system = t.system
        /\ v.pcClose = t.pcClose /\ v.answered = t.answered
        /\ v.executor = t.executor
    BY <1>2, <1>3, <2>1 DEF SessionState
  <2>3. LiveChannels(v) = LiveChannels(s) /\ (Active(v) <=> Active(s))
    BY <1>2, <2>2 DEF LiveChannels, ChannelLive, Active
  <2>4. \A c \in Chan : /\ "ACTIVE" \in g[c] <=> "ACTIVE" \in s.cflags[c]
                        /\ "DC_ACTIVE" \in g[c] <=> "DC_ACTIVE" \in s.cflags[c]
                        /\ s.cref[c] = 0 => g[c] = s.cflags[c]
    <3> TAKE c \in Chan
    <3>1. CASE s.cref[c] > 0
      BY <1>3, <3>1
    <3>2. CASE ~(s.cref[c] > 0)
      BY <1>3, <3>2
    <3>3. QED
      BY <3>1, <3>2
  <2>5. Whole(v)
    BY <1>1, <1>2, <2>2, <2>3, <2>4 DEF Whole
  <2>6. RefsAre(v, Holders)
    BY <1>1, <1>2, <2>2, <2>3 DEF RefsAre, Count
  <2>7. TableFits(v, Waits)
    <3> SUFFICES ASSUME NEW c \in s.table
                 PROVE  s.cref[c] >= 1 + Count("ACTIVE" \in g[c]) + Waits[c]
      BY <1>2, <2>2 DEF TableFits
    <3>1. c \in Chan
      BY <1>5, Channels
    <3>2. Count("ACTIVE" \in g[c]) = Count("ACTIVE" \in s.cflags[c])
      BY <2>4, <3>1 DEF Count
    <3>3. QED
      BY <1>1, <3>2 DEF TableFits
  <2>8. \A c \in Chan : ChannelLive(s, c) => "DC_RECEIVE" \in v.cflags[c]
    BY <1>3, <2>2 DEF ChannelLive
  <2>9. \A c \in Chan : "DC_ACTIVE" \in v.cflags[c] <=> "DC_ACTIVE" \in s.cflags[c]
    BY <2>2, <2>4
  <2>10. "CONNECTED" \in v.sent \ s.sent => "WS_ACTIVE" \in s.flags
    BY <2>2 DEF m
  <2>11. QED
    BY <1>2, <1>5, <2>2, <2>5, <2>6, <2>7, <2>8, <2>9, <2>10 DEF Fits, t, v
<1>6. QED
  BY <1>4, <1>5

\* `OnNativeCreated` keeps the invariant.
LEMMA OnNativeCreatedKeeps == SessionInv /\ OnNativeCreated => SessionInv'
<1> SUFFICES ASSUME SessionInv, OnNativeCreated PROVE SessionInv'
  OBVIOUS
<1>1. Takes("created")
  BY DEF OnNativeCreated
<1>2. Taken("created", 0) /\ env' = env
  BY <1>1, Invariants, TakesTaken DEF ChannelOps
<1>3. /\ tasks' \in Seq(TaskRecords) /\ Queued("created", 0)
      /\ \A p, d : Queued(p, d) <=> Queued(p, d)' \/ (p = "created" /\ d = 0)
      /\ \A x : Single(tasks, x) => Single(tasks', x)
      /\ Single(tasks, OnChannel("created", 0)) => ~Queued("created", 0)'
      /\ \A x, y : Follows(tasks, x, y) => Follows(tasks', x, y)
  BY <1>2, Invariants, TakeEffect
<1>4. ~Queued("created", 0)'
  BY <1>3, Invariants, TaskIdentity DEF QueueFits
<1>5. /\ env.native = "alive" /\ ~s.private
      /\ ~Has(s.exec, Create) /\ ~Queued("createFailed", 0)
      /\ ~s.native /\ ~Has(s.exec, Destroy)
  BY <1>3, Invariants DEF NativeFits
<1>6. Live(s) /\ Holders >= 1 /\ Asking
  BY <1>3, HeldIsLive DEF Asking
<1> DEFINE v == OnConnected([s EXCEPT !.native = TRUE, !.private = TRUE])
<1>7. s' = SessionUnref(v, 1)
  BY <1>6 DEF OnNativeCreated, OnCreated
<1>8. /\ Fits(v, Holders, Waits) /\ v.exec = s.exec /\ v.native /\ v.private
      /\ v.flags = s.flags /\ v.ref = s.ref
      /\ v.fault \in {s.fault, "nullChannel", "releasedChannel"}
  BY <1>6, ConnectedEffect DEF Live
<1> HIDE DEF v
<1>9. Fits(s', Holders - 1, Waits) /\ Winds(v, s')
  BY <1>6, <1>7, <1>8, Invariants, UnrefEffect
<1>10. Moves(v, s')
  BY <1>9, WindsMoves DEF Fits
<1>11. v \in SessionState /\ s' \in SessionState
  BY <1>8, <1>9 DEF Fits, Whole
<1>12. /\ \A x : x # Destroy => (Has(s'.exec, x) <=> Has(s.exec, x))
       /\ Has(s'.exec, Destroy) => ~s'.native
       /\ Single(s'.exec, Create) /\ Single(s'.exec, Destroy)
       /\ \A c : Among(s'.exec, Receives(c)) = Among(s.exec, Receives(c))
       /\ Has(s'.exec, Destroy) => \A c : Follows(s'.exec, Receive(c, TRUE), Destroy)
  <2>1. /\ \A x : x # Destroy => (Has(s'.exec, x) <=> Has(v.exec, x))
        /\ Has(s'.exec, Destroy) => Has(v.exec, Destroy) \/ (v.native /\ ~s'.native)
        /\ Single(v.exec, Create) => Single(s'.exec, Create)
        /\ Single(v.exec, Destroy) => Single(s'.exec, Destroy)
        /\ \A c : Among(s'.exec, Receives(c)) = Among(v.exec, Receives(c))
        /\ ~Has(v.exec, Destroy) /\ Has(s'.exec, Destroy) =>
             \A c : Follows(s'.exec, Receive(c, TRUE), Destroy)
    <3>1. v.native => ~Has(v.exec, Destroy)
      BY <1>5, <1>8
    <3>2. QED
      BY <1>10, <1>11, <3>1, CommandsMove
  <2>2. Single(v.exec, Create) /\ Single(v.exec, Destroy)
    BY <1>8, Invariants DEF QueueFits
  <2>3. QED
    BY <1>5, <1>8, <2>1, <2>2
<1>13. /\ s'.private /\ Found(s'.fault) /\ (Unknown(s') => Unknown(s))
       /\ s'.ref > 0 => s.flags \cap {"READY_SIGNAL_RECEIVED", "ALL_CHANNELS_OPENED"}
                          \subseteq s'.flags
  <2>1. Found(v.fault)
    BY <1>8, Invariants DEF Found
  <2>2. QED
    BY <1>8, <1>10, <2>1 DEF Moves, Unknown
<1>14. Types'
  BY <1>2, <1>3, <1>11, AlikeSelf DEF Types
<1>15. QueueFits'
  <2>1. \A x \in TaskRecords : Has(tasks', x) => x.op \in ChannelOps \/ x.c = 0
    <3>1. \A x \in TaskRecords : Has(tasks', x) => Has(tasks, x)
      BY <1>2, Invariants, HasTail DEF Taken
    <3>2. QED
      BY <3>1, Invariants DEF QueueFits
  <2>2. \A x \in Commands : Has(s'.exec, x) => x \in {Create, Destroy} \/ x.op = "receive"
    BY <1>12, Invariants DEF QueueFits
  <2>3. \A op \in {"wsClosed", "pcClosed", "created", "createFailed"} :
          Single(tasks', Plain(op))
    BY <1>3, Invariants DEF QueueFits
  <2>4. /\ Queued("wsClosed", 0)' => env'.ws = "closed"
        /\ Queued("pcClosed", 0)' => env'.pc = "closed"
    BY <1>2, <1>3, Invariants DEF QueueFits
  <2>5. QED
    BY <1>12, <2>1, <2>2, <2>3, <2>4 DEF QueueFits
<1>16. NativeFits'
  <2>1. ~Has(s'.exec, Create) /\ ~Queued("createFailed", 0)'
    BY <1>3, <1>5, <1>12, CommandIdentity
  <2>2. s'.ref = 0 \/ {"READY_SIGNAL_RECEIVED", "ALL_CHANNELS_OPENED"} \subseteq s'.flags
    <3>1. {"READY_SIGNAL_RECEIVED", "ALL_CHANNELS_OPENED"} \subseteq s.flags
      BY <1>5, <1>6, Invariants DEF NativeFits, Live
    <3>2. s'.ref \in Nat
      BY <1>11, SessionFields
    <3>3. QED
      BY <1>13, <3>1, <3>2
  <2>3. QED
    BY <1>2, <1>4, <1>5, <1>12, <1>13, <2>1, <2>2 DEF NativeFits
<1>17. HandleFits'
  BY <1>2, <1>5, <1>12 DEF HandleFits
<1>18. EventFits'
  BY <1>2, <1>3, <1>13, Invariants DEF EventFits
<1>19. \A d : Waiting(d)' = Waiting(d)
  <2>1. \A d : Among(tasks, {OnChannel("receiveDone", d)})
                 = Among(tasks', {OnChannel("receiveDone", d)})
    BY <1>2, Invariants, TakeAmong
  <2>2. QED
    BY <1>12, <2>1 DEF Waiting
<1>20. Fits(s', Holders', Waits')
  <2>1. Waits' = Waits
    BY <1>19 DEF Waits
  <2>2. /\ WsHolds' <=> WsHolds
        /\ PcHolds' <=> PcHolds
    BY <1>2, <1>3 DEF WsHolds, PcHolds
  <2>3. ~Asking'
    <3>1. ~Has(s'.exec, Create) /\ ~Queued("createFailed", 0)'
      BY <1>3, <1>5, <1>12, CommandIdentity
    <3>2. env'.native \notin {"orphan", "lost"}
      BY <1>2, <1>5
    <3>3. QED
      BY <1>4, <3>1, <3>2 DEF Asking
  <2>4. Holders' = Holders - 1
    <3>1. /\ Count(WsHolds') = Count(WsHolds) /\ Count(PcHolds') = Count(PcHolds)
          /\ Count(Asking) = 1 /\ Count(Asking') = 0
          /\ Count(WsHolds) \in Nat /\ Count(PcHolds) \in Nat
      BY <1>6, <2>2, <2>3 DEF Count
    <3>2. /\ Holders = Count(WsHolds) + Count(PcHolds) + Count(Asking)
          /\ Holders' = Count(WsHolds') + Count(PcHolds') + Count(Asking')
      BY DEF Holders, Count
    <3>3. QED
      BY <3>1, <3>2
  <2>5. QED
    BY <1>9, <2>1, <2>4
<1>21. Unknown(s') => \A d \in Chan : Waiting(d)' = 0
  BY <1>13, <1>19, Invariants
<1>22. QED
  BY <1>13, <1>14, <1>15, <1>16, <1>17, <1>18, <1>20, <1>21 DEF SessionInv
-----------------------------------------------------------------------------
(***************************************************************************)
(* The invariant holds, and what follows from it.                          *)
(***************************************************************************)
LEMMA SessionInvInit == Init => SessionInv
<1> SUFFICES ASSUME Init PROVE SessionInv
  OBVIOUS
<1> DEFINE f == [c \in Chan |-> 0]
           g == [c \in Chan |-> {}]
<1>1. /\ s = [ref |-> 3, flags |-> {"ACTIVE", "WS_ACTIVE", "PC_ACTIVE"},
              table |-> {}, system |-> FALSE, opened |-> 0, timeout |-> "auth",
              ping |-> FALSE, pinging |-> FALSE, native |-> FALSE,
              private |-> FALSE, pcClose |-> FALSE, answered |-> FALSE,
              cref |-> f, cflags |-> g,
              incoming |-> {}, sent |-> {}, exec |-> <<>>, executor |-> TRUE,
              fault |-> "none"]
      /\ tasks = <<>>
      /\ env = [ws |-> "open", pc |-> "open", out |-> [c \in Chan |-> "idle"],
                in |-> [c \in Data |-> "none"], native |-> "none",
                socket |-> "open"]
  BY DEF Init
<1>2. /\ f \in [Chan -> Nat] /\ \A c \in Chan : f[c] = 0
      /\ g \in [Chan -> SUBSET ChannelFlags] /\ \A c \in Chan : g[c] = {}
  OBVIOUS
<1> HIDE DEF f, g
<1>3. s \in SessionState
  <2>1. {"ACTIVE", "WS_ACTIVE", "PC_ACTIVE"} \in SUBSET SessionFlags
    BY DEF SessionFlags
  <2>2. <<>> \in Seq(Commands) /\ "none" \in FaultNames
    BY DEF FaultNames
  <2>3. QED
    BY <1>1, <1>2, <2>1, <2>2 DEF SessionState
<1>4. /\ s.ref = 3 /\ s.flags = {"ACTIVE", "WS_ACTIVE", "PC_ACTIVE"} /\ s.table = {}
      /\ ~s.native /\ ~s.private /\ s.cref = f /\ s.cflags = g /\ s.exec = <<>>
      /\ s.fault = "none"
  BY <1>1
<1>5. env \in EnvState /\ env.ws = "open" /\ env.pc = "open" /\ env.native = "none"
  BY <1>1 DEF EnvState
<1>6. /\ \A x : ~Has(<<>>, x) /\ Single(<<>>, x)
      /\ \A x, y : Follows(<<>>, x, y) /\ Leads(<<>>, y, x)
  BY DEF Has, Single, Follows, Leads
<1>7. \A X : Among(<<>>, X) = 0
  <2> TAKE X
  <2>1. {i \in 1 .. Len(<<>>) : <<>>[i] \in X} = {}
    OBVIOUS
  <2>2. QED
    BY <2>1, FS_EmptySet DEF Among
<1>8. Types
  BY <1>1, <1>3, <1>5 DEF Types
<1>9. QueueFits
  BY <1>1, <1>4, <1>6 DEF QueueFits, Queued
<1>10. NativeFits
  BY <1>1, <1>4, <1>5, <1>6 DEF NativeFits, Queued
<1>11. HandleFits
  BY <1>4, <1>6 DEF HandleFits
<1>12. EventFits
  BY <1>1, <1>6 DEF EventFits
<1>13. \A c : Waiting(c) = 0
  BY <1>1, <1>4, <1>7 DEF Waiting
<1>14. Fits(s, Holders, Waits)
  <2>1. LiveChannels(s) = {}
    BY <1>2, <1>4 DEF LiveChannels, ChannelLive
  <2>2. Whole(s)
    BY <1>2, <1>3, <1>4, <2>1 DEF Whole
  <2>3. Holders = 2
    <3>1. WsHolds /\ PcHolds /\ ~Asking
      BY <1>1, <1>4, <1>5, <1>6 DEF WsHolds, PcHolds, Asking, Queued
    <3>2. QED
      BY <3>1 DEF Holders, Count
  <2>4. RefsAre(s, Holders)
    <3>1. Cardinality(LiveChannels(s)) = 0
      BY <2>1, LiveFinite
    <3>2. Count(Active(s)) = 1
      BY <1>4 DEF Count, Active
    <3>3. QED
      BY <1>4, <2>3, <3>1, <3>2 DEF RefsAre
  <2>5. TableFits(s, Waits)
    BY <1>4 DEF TableFits
  <2>6. QED
    BY <2>2, <2>4, <2>5 DEF Fits
<1>15. QED
  BY <1>4, <1>8, <1>9, <1>10, <1>11, <1>12, <1>13, <1>14 DEF SessionInv, Found

\* A task run by the plugin thread keeps the invariant.
LEMMA RunTaskKeeps == SessionInv /\ RunTask => SessionInv'
<1> SUFFICES ASSUME SessionInv, RunTask PROVE SessionInv'
  OBVIOUS
<1>1. CASE \E c \in Chan : OnDcOpen(c) \/ OnOutClosed(c) \/ OnDcError(c)
  BY <1>1, OnDcOpenKeeps, OnOutClosedKeeps, OnDcErrorKeeps
<1>2. CASE \E c \in Data : \/ OnDataChannel(c) \/ OnInClosed(c) \/ OnMessage(c)
                           \/ OnReceiveDone(c) \/ OnSend(c)
  BY <1>2, OnDataChannelKeeps, OnInClosedKeeps, OnMessageKeeps, OnReceiveDoneKeeps,
     OnSendKeeps
<1>3. CASE OnAuth \/ OnAuthBad \/ OnDescription \/ OnReadyMessage
  BY <1>3, OnAuthKeeps, OnAuthBadKeeps, OnDescriptionKeeps,
     OnReadyMessageKeeps
<1>4. CASE OnWsClosed \/ OnPcDown \/ OnPcClosed \/ OnLocalCandidate \/ OnBadChannel
           \/ OnSystemMessage
  BY <1>4, OnWsClosedKeeps, OnPcDownKeeps, OnPcClosedKeeps, OnLocalCandidateKeeps,
     OnBadChannelKeeps, OnSystemMessageKeeps
<1>5. CASE OnNativeCreated \/ OnNativeRefused \/ OnDisconnect \/ OnSetMode \/ OnStop
  BY <1>5, OnNativeCreatedKeeps, OnNativeRefusedKeeps, OnDisconnectKeeps,
     OnSetModeKeeps, OnStopKeeps
<1>6. QED
  BY <1>1, <1>2, <1>3, <1>4, <1>5 DEF RunTask, Unshort

\* Every step keeps the invariant.
LEMMA SessionInvStep == SessionInv /\ [Next]_vars => SessionInv'
<1> SUFFICES ASSUME SessionInv, [Next]_vars PROVE SessionInv'
  OBVIOUS
<1>1. CASE RunTask
  BY <1>1, RunTaskKeeps
<1>2. CASE TimeoutFires \/ PingFires
  BY <1>2, TimeoutFiresKeeps, PingFiresKeeps
<1>3. CASE NativeThread
  BY <1>3, NativeCreateKeeps, NativeDestroyKeeps, NativeReceiveKeeps DEF NativeThread
<1>4. CASE Host \/ Environment
  BY <1>4, HostKeeps, EnvironmentKeeps
<1>5. CASE UNCHANGED vars
  <2>1. Resembles(s, s') /\ UNCHANGED <<tasks, env>>
    BY <1>5, ResemblesSelf DEF vars
  <2>2. QED
    BY <2>1, Invariants, ResemblesEffect, TimerKeeps
<1>6. QED
  BY <1>1, <1>2, <1>3, <1>4, <1>5 DEF Next

\* The invariant holds in every reachable state.
LEMMA SessionInvHolds == Spec => []SessionInv
  BY SessionInvInit, SessionInvStep, PTL DEF Spec

\* No step counts more failed allocations than there may be.
Counted == shortages \in 0 .. MaxShortages

LEMMA ShortagesStep == Counted /\ [Next]_vars => Counted'
<1> SUFFICES ASSUME shortages \in 0 .. MaxShortages, [Next]_vars
             PROVE  shortages' \in 0 .. MaxShortages
  BY DEF Counted
<1>1. ASSUME NEW n \in Nat, Lacks(n) PROVE shortages' \in 0 .. MaxShortages
  BY <1>1, SessionAssumption DEF Lacks
<1>2. ASSUME NEW t, NEW e, Submits(t) \/ Refused(e)
      PROVE  shortages' \in 0 .. MaxShortages
  BY <1>1, <1>2 DEF Submits, Refused
<1>3. ASSUME NEW t, NEW e, NEW f, Event(t) \/ Report(t, e, f)
      PROVE  shortages' \in 0 .. MaxShortages
  BY <1>2, <1>3 DEF Event, Report
<1>4. CASE RunTask
  <2>1. CASE OnAuth
    <3>1. PICK n \in Nat : Lacks(n)
      <4>1. \A a, b, c \in BOOLEAN : Count(a) + Count(b) + Count(c) \in Nat
        BY DEF Count
      <4>2. PICK k \in 0 .. N + 1, scheduled \in BOOLEAN, buffered \in BOOLEAN :
              Lacks(Count(k <= N) + Count(~scheduled) + Count(~buffered))
        BY <2>1 DEF OnAuth
      <4>3. (k <= N) \in BOOLEAN /\ (~scheduled) \in BOOLEAN /\ (~buffered) \in BOOLEAN
        OBVIOUS
      <4>4. QED
        BY <4>1, <4>2, <4>3
    <3>2. QED
      BY <1>1, <3>1
  <2>2. CASE \E c \in Chan : OnDcOpen(c)
    <3>1. PICK scheduled \in BOOLEAN : Lacks(Count(~scheduled))
      BY <2>2 DEF OnDcOpen
    <3>2. Count(~scheduled) \in Nat
      BY DEF Count
    <3>3. QED
      BY <1>1, <3>1, <3>2
  <2>3. QED
    BY <1>4, <2>1, <2>2 DEF RunTask
<1>5. CASE TimeoutFires \/ PingFires \/ UNCHANGED vars
  BY <1>5 DEF TimeoutFires, PingFires, vars
<1>6. CASE NativeThread
  BY <1>2, <1>6 DEF NativeThread, NativeCreate, NativeDestroy, NativeReceive
<1>7. CASE Host
  BY <1>2, <1>7 DEF Host, NativeDisconnect, NativeSend, NativeSetMode, NativeGetRtt, SocketStop
<1>8. CASE Environment
  BY <1>3, <1>8 DEF Environment, WsMessage, WsClose, PcCandidate, PcDown, PcClose,
     PcDataChannel, PcBadChannel, DcOpen, DcError, OutClose, InClose, DcMessage,
     DcSystemMessage
<1>9. QED
  BY <1>4, <1>5, <1>6, <1>7, <1>8 DEF Next

\* Type correctness.
THEOREM SessionTypes == Spec => []TypeOK
<1>1. SessionInv => Types
  BY DEF SessionInv
<1>2. Spec => []Counted
  <2>1. Init => Counted
    BY SessionAssumption DEF Init, Counted
  <2>2. QED
    BY <2>1, ShortagesStep, PTL DEF Spec
<1>3. Types /\ Counted => TypeOK
  BY DEF Types, TypeOK, Counted
<1>4. QED
  BY <1>1, <1>2, <1>3, SessionInvHolds, PTL

\* Every reference of a session is accounted for: by the session itself while it
\* is active (session.c:197), by the WebSocket and the peer connection until
\* their closes are handled (session-ws.c:580, session-pc.c:375), by its channels
\* (channel.c:81) and by the creation of the native session while it is under
\* way (session-plugin.c:24, 214); for ever by one whose task was refused.
THEOREM SessionReferences == Spec => []SessionRefs
<1>1. ASSUME SessionInv PROVE SessionRefs
  <2>1. \A op \in TaskOps \ ChannelOps : Queued(op, 0) <=> TasksOf(tasks, {op}) # {}
    <3> TAKE op \in TaskOps \ ChannelOps
    <3>1. ASSUME Queued(op, 0) PROVE TasksOf(tasks, {op}) # {}
      BY <3>1, TaskIdentity DEF Queued, Has, TasksOf
    <3>2. ASSUME NEW i \in TasksOf(tasks, {op}) PROVE Queued(op, 0)
      <4>1. i \in 1 .. Len(tasks) /\ tasks[i].op = op
        BY DEF TasksOf
      <4>2. tasks[i] \in TaskRecords /\ Has(tasks, tasks[i])
        BY <1>1, <4>1, Invariants DEF Has
      <4>3. tasks[i].c = 0
        BY <1>1, <4>1, <4>2, Invariants DEF QueueFits
      <4>4. tasks[i] = OnChannel(op, 0)
        BY <4>1, <4>2, <4>3, TaskTypes
      <4>5. QED
        BY <4>1, <4>4 DEF Queued, Has
    <3>3. QED
      BY <3>1, <3>2
  <2>2. {"wsClosed", "pcClosed", "created", "createFailed"} \subseteq TaskOps \ ChannelOps
    BY DEF TaskOps, ChannelOps
  <2>3. /\ WsHolds <=> env.ws # "closed" \/ TasksOf(tasks, {"wsClosed"}) # {}
        /\ PcHolds <=> env.pc # "closed" \/ TasksOf(tasks, {"pcClosed"}) # {}
    BY <2>1, <2>2 DEF WsHolds, PcHolds
  <2>4. Has(s.exec, Create) <=> CommandsOf("create") # {}
    <3>1. ASSUME Has(s.exec, Create) PROVE CommandsOf("create") # {}
      BY <3>1 DEF Has, CommandsOf, Create
    <3>2. ASSUME NEW i \in CommandsOf("create") PROVE Has(s.exec, Create)
      <4>1. i \in 1 .. Len(s.exec) /\ s.exec[i].op = "create"
        BY DEF CommandsOf
      <4>2. s.exec[i] \in Commands /\ Has(s.exec, s.exec[i])
        <5>1. s.exec \in Seq(Commands)
          BY <1>1, Invariants, SessionFields
        <5>2. QED
          BY <4>1, <5>1 DEF Has
      <4>3. s.exec[i] \in {Create, Destroy}
        BY <1>1, <4>1, <4>2, Invariants DEF QueueFits
      <4>4. s.exec[i] = Create
        BY <4>1, <4>3 DEF Destroy
      <4>5. QED
        BY <4>2, <4>4
    <3>3. QED
      BY <3>1, <3>2
  <2>5. Asking <=> CreatePending
    <3>1. TasksOf(tasks, {"created", "createFailed"})
            = TasksOf(tasks, {"created"}) \cup TasksOf(tasks, {"createFailed"})
      BY DEF TasksOf
    <3>2. QED
      BY <2>1, <2>2, <2>4, <3>1 DEF Asking, CreatePending
  <2>6. Holders = Count(env.ws # "closed" \/ TasksOf(tasks, {"wsClosed"}) # {})
                    + Count(env.pc # "closed" \/ TasksOf(tasks, {"pcClosed"}) # {})
                    + Count(CreatePending)
    BY <2>3, <2>5 DEF Holders, Count
  <2>7. s.ref = Holders + Count(Active(s)) + Cardinality(LiveChannels(s))
    BY <1>1, Invariants DEF Fits, RefsAre
  <2>8. Cardinality({c \in Chan : ChannelLive(s, c)}) = Cardinality(LiveChannels(s))
    BY DEF LiveChannels
  <2> DEFINE a == Count(env.ws # "closed" \/ TasksOf(tasks, {"wsClosed"}) # {})
             b == Count(env.pc # "closed" \/ TasksOf(tasks, {"pcClosed"}) # {})
             d == Count(CreatePending)
             k == Cardinality(LiveChannels(s))
             l == Count(Active(s))
  <2>9. a \in Nat /\ b \in Nat /\ d \in Nat /\ k \in Nat /\ l \in Nat
    BY LiveFinite DEF Count
  <2>10. s.ref = a + b + d + l + k
    BY <2>6, <2>7
  <2>11. SessionRefs <=> (s.fault = "none" => s.ref = l + a + b + k + d)
    BY <2>8 DEF SessionRefs
  <2> HIDE DEF a, b, d, k, l
  <2>12. QED
    BY <2>9, <2>10, <2>11
<1>2. QED
  BY <1>1, SessionInvHolds, PTL

\* An event of the peer connection finds its session, and a call of the
\* application the private data of its native session (session-pc.c:38, 100,
\* 158, session-plugin.c:80, channel-plugin.c:59), if the application calls about
\* no native session that the plugin thread has not been told of.
THEOREM SessionIsFound ==
  ASSUME "untold" \notin Faults
  PROVE  Spec => []NeverNullSession
<1>1. SessionInv => NeverNullSession
  BY DEF SessionInv, Found, NeverNullSession
<1>2. QED
  BY <1>1, SessionInvHolds, PTL

\* The entries of session->channels have not gone back to the pool
\* (session.c:209), whichever data channel closed or failed first.
THEOREM ChannelsAreLive == Spec => []TableLive
<1>1. ASSUME SessionInv PROVE TableLive
  <2> SUFFICES ASSUME NEW c \in s.table PROVE s.cref[c] > 0
    BY DEF TableLive, ChannelLive
  <2>1. s.cref \in [Chan -> Nat] /\ s.table \in SUBSET Data /\ c \in Chan
    BY <1>1, Invariants, SessionFields, Channels
  <2>2. s.cref[c] >= 1 + Count("ACTIVE" \in s.cflags[c]) + Waits[c]
    BY <1>1, Invariants DEF Fits, TableFits
  <2>3. Count("ACTIVE" \in s.cflags[c]) \in Nat /\ Waits[c] \in Nat
    BY <1>1, <2>1, Invariants DEF Count
  <2>4. QED
    BY <2>1, <2>2, <2>3
<1>2. QED
  BY <1>1, SessionInvHolds, PTL

\* The native session is destroyed once and used by nobody afterwards
\* (session-plugin.c:256-270, channel.c:201).
THEOREM NativeIsDestroyedOnce == Spec => []NativeHandleValid
<1>1. ASSUME SessionInv PROVE NativeHandleValid
  <2>1. s.exec \in Seq(Commands) /\ Len(s.exec) \in Nat
    BY <1>1, Invariants, SessionFields
  <2>2. ASSUME NEW i \in CommandsOf("destroy")
        PROVE  i \in 1 .. Len(s.exec) /\ s.exec[i] = Destroy
    <3>1. i \in 1 .. Len(s.exec) /\ s.exec[i].op = "destroy"
      BY DEF CommandsOf
    <3>2. s.exec[i] \in Commands /\ Has(s.exec, s.exec[i])
      BY <2>1, <3>1 DEF Has
    <3>3. s.exec[i] \in {Create, Destroy}
      BY <1>1, <3>1, <3>2, Invariants DEF QueueFits
    <3>4. QED
      BY <3>1, <3>3 DEF Create
  <2>3. ASSUME NEW j \in CommandsOf("receive"), s.exec[j].handle
        PROVE  \E c \in Chan : j \in 1 .. Len(s.exec) /\ s.exec[j] = Receive(c, TRUE)
    <3>1. j \in 1 .. Len(s.exec) /\ s.exec[j].op = "receive"
      BY DEF CommandsOf
    <3>2. s.exec[j] \in Commands
      BY <2>1, <3>1
    <3>3. s.exec[j].handle = TRUE
      BY <2>3, <3>2 DEF Commands
    <3>4. s.exec[j] = Receive(s.exec[j].c, TRUE) /\ s.exec[j].c \in Chan
      BY <3>1, <3>2, <3>3 DEF Commands, Receive
    <3>5. QED
      BY <3>1, <3>4
  <2>4. CommandsOf("destroy") # {} => Has(s.exec, Destroy)
    BY <2>2 DEF Has
  <2>5. s.native => env.native = "alive" /\ CommandsOf("destroy") = {}
    BY <1>1, <2>4, Invariants DEF NativeFits
  <2>6. Cardinality(CommandsOf("destroy")) <= 1
    <3>1. CASE CommandsOf("destroy") = {}
      BY <3>1, FS_EmptySet
    <3>2. ASSUME NEW i \in CommandsOf("destroy")
          PROVE  Cardinality(CommandsOf("destroy")) <= 1
      <4>1. Single(s.exec, Destroy)
        BY <1>1, Invariants DEF QueueFits
      <4>2. \A j \in CommandsOf("destroy") : j = i
        BY <2>2, <4>1 DEF Single
      <4>3. CommandsOf("destroy") = {i}
        BY <4>2
      <4>4. QED
        BY <4>3, FS_Singleton
    <3>3. QED
      BY <3>1, <3>2
  <2>7. ASSUME NEW i \in CommandsOf("destroy")
        PROVE  /\ env.native = "alive"
               /\ \A j \in CommandsOf("receive") : j > i => ~s.exec[j].handle
    <3>1. Has(s.exec, Destroy) /\ env.native = "alive"
      BY <1>1, <2>4, Invariants DEF NativeFits
    <3>2. ASSUME NEW j \in CommandsOf("receive"), j > i, s.exec[j].handle PROVE FALSE
      <4>1. PICK c \in Chan : j \in 1 .. Len(s.exec) /\ s.exec[j] = Receive(c, TRUE)
        BY <2>3, <3>2
      <4>2. Follows(s.exec, Receive(c, TRUE), Destroy)
        BY <1>1, <3>1, Invariants DEF HandleFits
      <4>3. PICK k \in 1 .. Len(s.exec) : k > j /\ s.exec[k] = Destroy
        BY <4>1, <4>2 DEF Follows
      <4>4. k = i
        <5>1. Single(s.exec, Destroy)
          BY <1>1, Invariants DEF QueueFits
        <5>2. QED
          BY <2>2, <4>3, <5>1 DEF Single
      <4>5. i \in 1 .. Len(s.exec)
        BY <2>2
      <4>6. QED
        BY <2>1, <3>2, <4>1, <4>3, <4>4, <4>5
    <3>3. QED
      BY <3>1, <3>2
  <2>8. ASSUME NEW j \in CommandsOf("receive"), s.exec[j].handle
        PROVE  env.native = "alive"
    <3>1. PICK c \in Chan : j \in 1 .. Len(s.exec) /\ s.exec[j] = Receive(c, TRUE)
      BY <2>3, <2>8
    <3>2. Has(s.exec, Receive(c, TRUE))
      BY <3>1 DEF Has
    <3>3. QED
      BY <1>1, <3>2, Invariants DEF HandleFits
  <2>9. QED
    BY <2>5, <2>6, <2>7, <2>8 DEF NativeHandleValid
<1>2. QED
  BY <1>1, SessionInvHolds, PTL
=============================================================================
