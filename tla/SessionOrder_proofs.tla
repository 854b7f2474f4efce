------------------------ MODULE SessionOrder_proofs ------------------------
(***************************************************************************)
(* Proofs about the order in which a session opens, serves and closes: that *)
(* the application is handed messages under its native session only, that  *)
(* CONNECTED is the truth, and that the session implements SessionLife.     *)
(***************************************************************************)
EXTENDS Session_proofs

(***************************************************************************)
(* The inductive invariants.                                               *)
(***************************************************************************)
ChannelOpen(t, c) == "DC_ACTIVE" \in t.cflags[c]

\* A session record by itself: a data channel is open only while its session is
\* active and knows it, and receives only under the native session.
Tidy(t) ==
  /\ "WS_ACTIVE" \in t.flags => Active(t)
  /\ Active(t) => ~t.pcClose
  /\ \A c \in Chan : ChannelOpen(t, c) =>
       /\ Active(t) /\ c \in OwnedChannels(t)
       /\ "DC_RECEIVE" \in t.cflags[c] => t.native

\* While no client closes single data channels and no peer connection fails,
\* closes are reported of channels that were told to close.
OrderlyInv ==
  /\ Tidy(s)
  /\ Active(s) => env.pc = "open"
  /\ \A c \in Chan :
       /\ Queued("outClosed", c) \/ Queued("inClosed", c) => ~ChannelOpen(s, c)
       /\ ~Queued("pcDown", c)
       /\ ~Has(s.exec, Receive(c, FALSE))
  /\ Unknown(s) => /\ ~s.answered
                   /\ \A c \in Data : env.in[c] = "none"
                   /\ \A c \in Chan :
                        ~Queued("outClosed", c) /\ ~Queued("inClosed", c)

\* All channels of an active session are open.
Wide(t) == Active(t) => \A c \in OwnedChannels(t) : ChannelOpen(t, c)

\* While no data channel fails either, they stay open.
ConnectedInv == Wide(s) /\ \A c \in Chan : ~Queued("dcError", c)
-----------------------------------------------------------------------------
(***************************************************************************)
(* What the functions of the plugin thread do to the session record.       *)
(***************************************************************************)
\* The session closes at most, gives its native session up only when it is
\* closed, opens channels only for a client that was unknown, and does not say
\* that it is connected.
Serves(t, u) ==
  /\ Active(u) => Active(t)
  /\ Active(t) /\ ~Active(u) => ~u.native
  /\ t.native /\ ~u.native => ~Active(u)
  /\ u.native => t.native
  /\ Unknown(u) => Unknown(t) /\ (u.answered <=> t.answered)
  /\ "CONNECTED" \in u.sent => "CONNECTED" \in t.sent
  /\ \A c \in Chan : ChannelOpen(u, c) => ChannelOpen(t, c) \/ Unknown(t)
  /\ u.executor <=> t.executor

Neat(t, u) == (Tidy(t) => Tidy(u)) /\ (Wide(t) => Wide(u))

\* Serving composes.
LEMMA ServesTransitive ==
  ASSUME NEW t, NEW u, NEW v, Serves(t, u), Serves(u, v)
  PROVE  Serves(t, v)
  BY DEF Serves

\* u is t but for what these proofs do not speak of.
Agrees(t, u) ==
  /\ Active(u) <=> Active(t)
  /\ "WS_ACTIVE" \in u.flags <=> "WS_ACTIVE" \in t.flags
  /\ "WS_AUTHENTICATED" \in u.flags <=> "WS_AUTHENTICATED" \in t.flags
  /\ u.table = t.table /\ (u.system <=> t.system) /\ u.cflags = t.cflags
  /\ (u.native <=> t.native) /\ (u.pcClose <=> t.pcClose)
  /\ Unknown(u) => (u.answered <=> t.answered)
  /\ "CONNECTED" \in u.sent => "CONNECTED" \in t.sent
  /\ u.executor <=> t.executor

\* A session that agrees with the former on what the native library sees serves it.
LEMMA AgreesServes ==
  ASSUME NEW t, NEW u, Agrees(t, u)
  PROVE  Serves(t, u) /\ Neat(t, u)
<1>1. OwnedChannels(u) = OwnedChannels(t)
  BY DEF Agrees, OwnedChannels
<1>2. \A c : ChannelOpen(u, c) <=> ChannelOpen(t, c)
  BY DEF Agrees, ChannelOpen
<1>3. Serves(t, u)
  BY <1>2 DEF Agrees, Serves, Unknown
<1>4. Tidy(t) => Tidy(u)
  BY <1>1, <1>2 DEF Agrees, Tidy
<1>5. Wide(t) => Wide(u)
  BY <1>1, <1>2 DEF Agrees, Wide
<1>6. QED
  BY <1>3, <1>4, <1>5 DEF Neat

\* So does one that is wound down, if closing it destroys the native session.
LEMMA WindsServes ==
  ASSUME NEW t, NEW u, Winds(t, u), Whole(u),
         Active(t) /\ ~Active(u) => ~u.native
  PROVE  Serves(t, u)
<1>1. Unknown(u) => Unknown(t)
  BY WindsMoves DEF Moves
<1>2. Active(u) => Active(t)
  BY DEF Winds, Active
<1>3. \A c \in Chan : ChannelOpen(u, c) => ChannelOpen(t, c)
  BY DEF Winds, ChannelOpen
<1>4. QED
  BY <1>1, <1>2, <1>3 DEF Winds, Serves

\* A session that stays as active as it was.
LEMMA WindsTidy ==
  ASSUME NEW t, NEW u, Winds(t, u), Active(u) <=> Active(t), Tidy(t)
  PROVE  Tidy(u)
<1>1. "WS_ACTIVE" \in u.flags => Active(u)
  BY DEF Winds, Tidy
<1>2. Active(u) => ~u.pcClose
  BY DEF Winds, Tidy
<1>3. ASSUME NEW c \in Chan, ChannelOpen(u, c)
      PROVE  /\ Active(u) /\ c \in OwnedChannels(u)
             /\ "DC_RECEIVE" \in u.cflags[c] => u.native
  <2>1. ChannelOpen(t, c)
    BY <1>3 DEF Winds, ChannelOpen
  <2>2. Active(t) /\ c \in OwnedChannels(t) /\ ("DC_RECEIVE" \in t.cflags[c] => t.native)
    BY <2>1 DEF Tidy
  <2>3. /\ u.table = t.table /\ (u.system <=> t.system)
        /\ (u.native <=> t.native) /\ u.cflags[c] \subseteq t.cflags[c]
    BY <2>2 DEF Winds
  <2>4. QED
    BY <2>2, <2>3 DEF OwnedChannels
<1>4. QED
  BY <1>1, <1>2, <1>3 DEF Tidy

\* A session that is not active.
LEMMA IdleNeat ==
  ASSUME NEW u, ~Active(u), "WS_ACTIVE" \notin u.flags,
         \A c \in Chan : ~ChannelOpen(u, c)
  PROVE  Tidy(u) /\ Wide(u)
  BY DEF Tidy, Wide

\* Closing a session, and dropping a reference of it.
LEMMA ClosedNeat ==
  ASSUME NEW t, NEW u, Winds(t, u), ~Active(u), Tidy(t),
         Active(t) => /\ "WS_ACTIVE" \notin u.flags
                      /\ \A c \in OwnedChannels(t) : "DC_ACTIVE" \notin u.cflags[c]
  PROVE  Tidy(u) /\ Wide(u)
<1>1. "WS_ACTIVE" \notin u.flags
  BY DEF Winds, Tidy
<1>2. ASSUME NEW c \in Chan, ChannelOpen(u, c) PROVE FALSE
  <2>1. ChannelOpen(t, c)
    BY <1>2 DEF Winds, ChannelOpen
  <2>2. Active(t) /\ c \in OwnedChannels(t)
    BY <2>1 DEF Tidy
  <2>3. QED
    BY <1>2, <2>2 DEF ChannelOpen
<1>3. QED
  BY <1>1, <1>2, IdleNeat

\* session_close serves, and leaves a tidy session tidy.
LEMMA CloseServes ==
  ASSUME NEW t, NEW e \in Nat, NEW w \in [Chan -> Nat], Fits(t, e, w)
  PROVE  LET u == SessionClose(t)
         IN Serves(t, u) /\ ~Active(u) /\ (Tidy(t) => Tidy(u) /\ Wide(u))
<1> DEFINE u == SessionClose(t)
<1>1. /\ Fits(u, e, w) /\ Winds(t, u) /\ ~Active(u)
      /\ Active(t) => /\ ~u.native /\ "WS_ACTIVE" \notin u.flags
                      /\ \A c \in OwnedChannels(t) : "DC_ACTIVE" \notin u.cflags[c]
  BY SessionCloseEffect
<1> HIDE DEF u
<1>2. Serves(t, u)
  BY <1>1, WindsServes DEF Fits
<1>3. Tidy(t) => Tidy(u) /\ Wide(u)
  BY <1>1, ClosedNeat
<1>4. QED
  BY <1>1, <1>2, <1>3 DEF u

\* So does closing and dropping a reference.
LEMMA CloseUnrefServes ==
  ASSUME NEW t, NEW e \in Nat, NEW w \in [Chan -> Nat], e >= 1, Fits(t, e, w)
  PROVE  LET u == SessionUnref(SessionClose(t), 1)
         IN Serves(t, u) /\ ~Active(u) /\ (Tidy(t) => Tidy(u) /\ Wide(u))
<1> DEFINE u == SessionUnref(SessionClose(t), 1)
<1>1. /\ Fits(u, e - 1, w) /\ Winds(t, u) /\ ~Active(u)
      /\ Active(t) => /\ ~u.native /\ "WS_ACTIVE" \notin u.flags
                      /\ \A c \in OwnedChannels(t) : "DC_ACTIVE" \notin u.cflags[c]
  BY CloseUnrefEffect
<1> HIDE DEF u
<1>2. Serves(t, u)
  BY <1>1, WindsServes DEF Fits
<1>3. Tidy(t) => Tidy(u) /\ Wide(u)
  BY <1>1, ClosedNeat
<1>4. QED
  BY <1>1, <1>2, <1>3 DEF u
-----------------------------------------------------------------------------
(***************************************************************************)
(* The handlers.                                                           *)
(***************************************************************************)
\* What becomes of the commands.
Commanded(t, u) ==
  \/ u.exec = t.exec /\ (u.native <=> t.native)
  \/ u.exec = EndQueue(t) /\ t.native /\ ~u.native
  \/ /\ u.exec = Append(t.exec, Create) /\ (u.native <=> t.native)
     /\ Active(u) <=> Active(t)
  \/ /\ u.native <=> t.native
     /\ \E c \in Chan : /\ {"DC_ACTIVE", "DC_RECEIVE"} \subseteq t.cflags[c]
                        /\ u.exec = Append(t.exec, Receive(c, t.native))

Handled ==
  /\ Serves(s, s')
  /\ Commanded(s, s')
  /\ OrderlyInv => Tidy(s')
  /\ OrderlyInv /\ ConnectedInv => Wide(s')

\* A handler that changes nothing the native library sees is handled.
LEMMA AgreesHandled ==
  ASSUME Agrees(s, s'), Commanded(s, s')
  PROVE  Handled
<1>1. Serves(s, s') /\ Neat(s, s')
  BY AgreesServes
<1>2. QED
  BY <1>1 DEF Handled, Neat, OrderlyInv, ConnectedInv

\* So is one that changes nothing at all, or fails.
LEMMA SameHandled ==
  ASSUME SessionInv, s' = s \/ \E name \in FaultNames : s' = Fail(s, name)
  PROVE  Handled
<1>1. s \in SessionState
  BY Invariants
<1>2. /\ s'.flags = s.flags /\ s'.table = s.table /\ s'.system = s.system
      /\ s'.cflags = s.cflags /\ s'.native = s.native /\ s'.pcClose = s.pcClose
      /\ s'.answered = s.answered /\ s'.sent = s.sent
      /\ s'.executor = s.executor /\ s'.exec = s.exec
  <2>1. CASE s' = s
    BY <2>1
  <2>2. CASE \E name \in FaultNames : s' = Fail(s, name)
    <3>1. PICK name \in FaultNames : s' = [s EXCEPT !.fault = name]
      BY <2>2 DEF Fail
    <3>2. QED
      BY <1>1, <3>1 DEF SessionState
  <2>3. QED
    BY <2>1, <2>2
<1>3. Agrees(s, s') /\ Commanded(s, s')
  BY <1>2 DEF Agrees, Commanded, Active
<1>4. QED
  BY <1>3, AgreesHandled

\* What moves onwards submits commands in their order.
LEMMA MovesCommanded ==
  ASSUME NEW t, NEW u, Moves(t, u)
  PROVE  Commanded(t, u)
  BY DEF Moves, Commanded

\* A handler that closes the session.
LEMMA CloseHandled ==
  ASSUME SessionInv, \/ s' = SessionClose(s)
                     \/ Holders >= 1 /\ s' = SessionUnref(SessionClose(s), 1)
  PROVE  Handled
<1>1. Fits(s, Holders, Waits) /\ Holders \in Nat /\ Waits \in [Chan -> Nat]
  BY Invariants
<1>2. Serves(s, s') /\ (Tidy(s) => Tidy(s') /\ Wide(s'))
  BY <1>1, CloseServes, CloseUnrefServes
<1>3. Commanded(s, s')
  <2>1. Winds(s, s') /\ Whole(s')
    BY <1>1, SessionCloseEffect, CloseUnrefEffect DEF Fits
  <2>2. QED
    BY <2>1, WindsMoves, MovesCommanded
<1>4. QED
  BY <1>2, <1>3 DEF Handled, OrderlyInv

\* A timer, or a refused token, ends the timeout and closes the session.
LEMMA UntimedHandled ==
  ASSUME SessionInv, s' = SessionClose([s EXCEPT !.timeout = "none"])
  PROVE  Handled
<1> DEFINE t == [s EXCEPT !.timeout = "none"]
<1>1. /\ Resembles(s, t) /\ t \in SessionState /\ Fits(t, Holders, Waits)
      /\ t.pcClose = s.pcClose /\ t.system = s.system
      /\ t.answered = s.answered /\ t.sent = s.sent
      /\ Moves(s, s')
  BY UntimedCloses
<1>2. t.flags = s.flags
  BY Invariants DEF SessionState
<1> HIDE DEF t
<1>3. Agrees(s, t)
  BY <1>1, <1>2 DEF Agrees, Resembles, Active
<1>4. Serves(t, s') /\ (Tidy(t) => Tidy(s') /\ Wide(s'))
  BY <1>1, Invariants, CloseServes DEF t
<1>5. Serves(s, s') /\ (Tidy(s) => Tidy(s') /\ Wide(s'))
  BY <1>3, <1>4, AgreesServes, ServesTransitive DEF Neat
<1>6. Commanded(s, s')
  BY <1>1, MovesCommanded
<1>7. QED
  BY <1>5, <1>6 DEF Handled, OrderlyInv

\* The handlers that send, answer or ignore are handled.
LEMMA QuietHandled ==
  ASSUME SessionInv, \/ OnLocalCandidate \/ OnSystemMessage
                     \/ OnSetMode \/ PingFires \/ \E c \in Data : OnSend(c)
  PROVE  Handled
<1>1. s' = s \/ \E name \in FaultNames : s' = Fail(s, name)
  BY DEF OnLocalCandidate, OnSystemMessage, OnSetMode, PingFires,
         OnSend, OfSession, OfChannel, OfNative, SendPing, FaultNames
<1>2. QED
  BY <1>1, SameHandled

\* The handlers that close the session are handled.
LEMMA ClosingHandled ==
  ASSUME SessionInv,
         \/ OnAuthBad \/ OnWsClosed \/ OnPcClosed \/ OnBadChannel
         \/ OnNativeRefused \/ OnDisconnect \/ OnStop \/ TimeoutFires
  PROVE  Handled
<1>1. CASE s' = s \/ \E name \in FaultNames : s' = Fail(s, name)
  BY <1>1, SameHandled
<1>2. CASE OnAuthBad \/ TimeoutFires
  <2>1. s' = s \/ s' = SessionClose([s EXCEPT !.timeout = "none"])
    BY <1>2 DEF OnAuthBad, TimeoutFires, AuthRefused
  <2>2. QED
    BY <1>1, <2>1, UntimedHandled
<1>3. CASE OnBadChannel \/ OnDisconnect \/ OnStop
  <2>1. \/ s' = SessionClose(s)
        \/ \E name \in FaultNames : s' = Fail(s, name)
    BY <1>3 DEF OnBadChannel, OnDisconnect, OnStop, OfSession, OfNative, FaultNames
  <2>2. QED
    BY <1>1, <2>1, CloseHandled
<1>4. CASE OnWsClosed \/ OnPcClosed \/ OnNativeRefused
  <2>1. PICK op \in {"wsClosed", "pcClosed", "createFailed"} : Takes(op)
    BY <1>4 DEF OnWsClosed, OnPcClosed, OnNativeRefused
  <2>2. Taken(op, 0)
    BY <2>1, Invariants, TakesTaken DEF ChannelOps
  <2>3. WsHolds \/ PcHolds \/ Asking
    BY <2>2, Invariants, TakeEffect DEF WsHolds, PcHolds, Asking
  <2>4. Live(s) /\ Holders >= 1
    BY <2>3, HeldIsLive
  <2>5. s' = SessionUnref(SessionClose(s), 1)
    BY <1>4, <2>4 DEF OnWsClosed, OnPcClosed, OnNativeRefused, OfSession
  <2>6. QED
    BY <2>4, <2>5, CloseHandled
<1>5. QED
  BY <1>2, <1>3, <1>4

\* Handlers that set one field.
LEMMA SettingHandled ==
  ASSUME SessionInv, OnPcDown \/ OnDescription \/ \E c \in Data : OnDataChannel(c)
  PROVE  Handled
<1>1. s \in SessionState
  BY Invariants
<1>2. CASE s' = s \/ \E name \in FaultNames : s' = Fail(s, name)
  BY <1>2, SameHandled
<1>3. CASE OnDescription
  <2>1. s' = s \/ (~Unknown(s) /\ s' = [s EXCEPT !.answered = TRUE])
    BY <1>3 DEF OnDescription, Understands, Unknown
  <2>2. CASE ~Unknown(s) /\ s' = [s EXCEPT !.answered = TRUE]
    <3>1. /\ s'.flags = s.flags /\ s'.table = s.table /\ s'.system = s.system
          /\ s'.cflags = s.cflags /\ s'.native = s.native /\ s'.pcClose = s.pcClose
          /\ s'.sent = s.sent /\ s'.executor = s.executor /\ s'.exec = s.exec
      BY <1>1, <2>2 DEF SessionState
    <3>2. Agrees(s, s') /\ Commanded(s, s')
      BY <2>2, <3>1 DEF Agrees, Commanded, Active, Unknown
    <3>3. QED
      BY <3>2, AgreesHandled
  <2>3. QED
    BY <1>2, <2>1, <2>2
<1>4. CASE \E c \in Data : OnDataChannel(c)
  <2>1. PICK c \in Data : OnDataChannel(c)
    BY <1>4
  <2> DEFINE z == s.incoming \cup {c}
  <2>2. \/ s' = [s EXCEPT !.incoming = z]
        \/ s' = s \/ \E name \in FaultNames : s' = Fail(s, name)
    BY <2>1 DEF OnDataChannel, OfSession, FaultNames
  <2> HIDE DEF z
  <2>3. CASE s' = [s EXCEPT !.incoming = z]
    <3>1. /\ s'.flags = s.flags /\ s'.table = s.table /\ s'.system = s.system
          /\ s'.cflags = s.cflags /\ s'.native = s.native /\ s'.pcClose = s.pcClose
          /\ s'.sent = s.sent /\ s'.executor = s.executor /\ s'.exec = s.exec
          /\ s'.answered = s.answered
      BY <1>1, <2>3 DEF SessionState
    <3>2. Agrees(s, s') /\ Commanded(s, s')
      BY <3>1 DEF Agrees, Commanded, Active
    <3>3. QED
      BY <3>2, AgreesHandled
  <2>4. QED
    BY <1>2, <2>2, <2>3
<1>5. CASE OnPcDown
  <2>1. Taken("pcDown", 0) /\ Queued("pcDown", 0)
    BY <1>5, Invariants, TakesTaken, TakeEffect DEF OnPcDown, ChannelOps
  <2>2. ~OrderlyInv
    BY <2>1, Channels DEF OrderlyInv
  <2>3. CASE s' = [s EXCEPT !.pcClose = TRUE]
    <3>1. /\ s'.flags = s.flags /\ s'.table = s.table /\ s'.system = s.system
          /\ s'.cflags = s.cflags /\ s'.native = s.native
          /\ s'.sent = s.sent /\ s'.executor = s.executor /\ s'.exec = s.exec
          /\ s'.answered = s.answered
      BY <1>1, <2>3 DEF SessionState
    <3>2. Serves(s, s') /\ Commanded(s, s')
      BY <3>1 DEF Serves, Commanded, Active, Unknown, ChannelOpen
    <3>3. QED
      BY <2>2, <3>2 DEF Handled
  <2>4. QED
    BY <1>2, <1>5, <2>3 DEF OnPcDown, OfSession, FaultNames
<1>6. QED
  BY <1>3, <1>4, <1>5

\* The session asks for its native session, or not.
LEMMA ReadyAgrees ==
  ASSUME NEW t \in SessionState
  PROVE  LET u == ReadyIfConnected(t)
         IN /\ Agrees(t, u) /\ (u.native <=> t.native)
            /\ u.exec = t.exec \/ u.exec = Append(t.exec, Create)
<1> DEFINE u == ReadyIfConnected(t)
           v == [t EXCEPT !.timeout = "none"]
           n == t.ref + 1
           q == Append(t.exec, Create)
<1>1. /\ v \in SessionState /\ v.flags = t.flags /\ v.table = t.table
      /\ v.system = t.system /\ v.cflags = t.cflags /\ v.native = t.native
      /\ v.pcClose = t.pcClose /\ v.sent = t.sent /\ v.executor = t.executor
      /\ v.exec = t.exec /\ v.answered = t.answered /\ v.ref = t.ref
  BY DEF SessionState
<1>2. \/ u = t \/ u = v \/ u = Fail(v, "nativeSet")
      \/ u = [[v EXCEPT !.ref = n] EXCEPT !.exec = Append([v EXCEPT !.ref = n].exec, Create)]
  BY <1>1 DEF ReadyIfConnected, OnReady, PluginOpen, ExecutorSubmit, Create
<1> HIDE DEF u, v, n
<1>3. /\ u.flags = t.flags /\ u.table = t.table
      /\ u.system = t.system /\ u.cflags = t.cflags /\ u.native = t.native
      /\ u.pcClose = t.pcClose /\ u.sent = t.sent /\ u.executor = t.executor
      /\ u.answered = t.answered
      /\ u.exec = t.exec \/ u.exec = q
  <2>1. CASE u = t \/ u = v
    BY <1>1, <2>1
  <2>2. CASE u = Fail(v, "nativeSet")
    BY <1>1, <2>2 DEF Fail, SessionState
  <2>3. CASE u = [[v EXCEPT !.ref = n] EXCEPT !.exec = Append([v EXCEPT !.ref = n].exec, Create)]
    <3>1. [v EXCEPT !.ref = n].exec = t.exec
      BY <1>1 DEF SessionState
    <3>2. u = [[v EXCEPT !.ref = n] EXCEPT !.exec = q]
      BY <2>3, <3>1
    <3> HIDE DEF q
    <3>3. QED
      BY <1>1, <3>2 DEF SessionState
  <2>4. QED
    BY <1>2, <2>1, <2>2, <2>3
<1>4. QED
  BY <1>3 DEF Agrees, Active, u

\* Agreeing composes.
LEMMA AgreesTransitive ==
  ASSUME NEW t, NEW u, NEW v, Agrees(t, u), Agrees(u, v)
  PROVE  Agrees(t, v)
  BY DEF Agrees, Unknown

\* So is the end of the handshake: the native session is asked for.
LEMMA ReadyHandled ==
  ASSUME SessionInv, NEW t \in SessionState, Agrees(s, t),
         t.exec = s.exec, s' = ReadyIfConnected(t)
  PROVE  Handled
<1>1. /\ Agrees(t, s') /\ (s'.native <=> t.native)
      /\ s'.exec = t.exec \/ s'.exec = Append(t.exec, Create)
  BY ReadyAgrees
<1>2. Agrees(s, s')
  BY <1>1, AgreesTransitive
<1>3. Commanded(s, s')
  BY <1>1, <1>2 DEF Commanded, Agrees
<1>4. QED
  BY <1>2, <1>3, AgreesHandled

\* `OnReadyMessage` is handled.
LEMMA OnReadyMessageHandled ==
  ASSUME SessionInv, OnReadyMessage
  PROVE  Handled
<1> DEFINE z == s.flags \cup {"READY_SIGNAL_RECEIVED"}
           t == [s EXCEPT !.flags = z]
<1>1. s \in SessionState /\ s.flags \in SUBSET SessionFlags
  BY Invariants, SessionFields
<1>2. z \in SUBSET SessionFlags
  BY <1>1 DEF SessionFlags
<1>3. s' = s \/ s' = ReadyIfConnected(t)
  BY DEF OnReadyMessage, RecvReady
<1>4. /\ "ACTIVE" \in z <=> "ACTIVE" \in s.flags
      /\ "WS_ACTIVE" \in z <=> "WS_ACTIVE" \in s.flags
      /\ "WS_AUTHENTICATED" \in z <=> "WS_AUTHENTICATED" \in s.flags
  OBVIOUS
<1> HIDE DEF z
<1>5. /\ t \in SessionState /\ t.flags = z /\ t.table = s.table
      /\ t.system = s.system /\ t.cflags = s.cflags /\ t.native = s.native
      /\ t.pcClose = s.pcClose /\ t.sent = s.sent /\ t.executor = s.executor
      /\ t.exec = s.exec /\ t.answered = s.answered
  BY <1>1, <1>2 DEF SessionState
<1> HIDE DEF t
<1>6. Agrees(s, t)
  BY <1>4, <1>5 DEF Agrees, Active
<1>7. QED
  BY <1>3, <1>5, <1>6, ReadyHandled, SameHandled

\* `OnDcOpen` is handled.
LEMMA OnDcOpenHandled ==
  ASSUME SessionInv, NEW c \in Chan, OnDcOpen(c)
  PROVE  Handled
<1>1. CASE s' = s
  BY <1>1, SameHandled
<1>2. CASE s' # s
  <2>1. PICK scheduled \in BOOLEAN : s' = OnChannelOpened(s, scheduled)
    BY <1>2 DEF OnDcOpen, OfChannel
  <2> DEFINE n == s.opened + 1
             u == [s EXCEPT !.opened = n]
  <2>2. /\ s \in SessionState /\ n \in Nat /\ s.flags \in SUBSET SessionFlags
        /\ s.sent \in SUBSET SentKinds /\ s.pinging \in BOOLEAN
    BY Invariants, SessionFields
  <2>3. s' = IF u.opened = N + 1 THEN OnAllChannelsOpened(u, scheduled) ELSE u
    BY <2>1 DEF OnChannelOpened
  <2> HIDE DEF n
  <2>4. /\ u \in SessionState /\ u.flags = s.flags /\ u.table = s.table
        /\ u.system = s.system /\ u.cflags = s.cflags /\ u.native = s.native
        /\ u.pcClose = s.pcClose /\ u.sent = s.sent /\ u.executor = s.executor
        /\ u.exec = s.exec /\ u.answered = s.answered /\ u.pinging = s.pinging
    BY <2>2 DEF SessionState
  <2> HIDE DEF u
  <2>5. Agrees(s, u)
    BY <2>4 DEF Agrees, Active
  <2>6. CASE s' = u
    <3>1. Commanded(s, s')
      BY <2>4, <2>6 DEF Commanded
    <3>2. QED
      BY <2>5, <2>6, <3>1, AgreesHandled
  <2>7. CASE s' = OnAllChannelsOpened(u, scheduled)
    <3> DEFINE r == Send(u, "READY")
               m == IF "WS_ACTIVE" \in u.flags THEN u.sent \cup {"READY"} ELSE u.sent
               z == u.flags \cup {"ALL_CHANNELS_OPENED"}
               p == u.pinging \/ scheduled
               t == [u EXCEPT !.sent = m, !.ping = scheduled, !.pinging = p, !.flags = z]
    <3>1. /\ m \in SUBSET SentKinds /\ z \in SUBSET SessionFlags /\ p \in BOOLEAN
          /\ "CONNECTED" \in m => "CONNECTED" \in u.sent
      BY <2>2, <2>4 DEF SentKinds, SessionFlags
    <3>2. /\ "ACTIVE" \in z <=> "ACTIVE" \in u.flags
          /\ "WS_ACTIVE" \in z <=> "WS_ACTIVE" \in u.flags
          /\ "WS_AUTHENTICATED" \in z <=> "WS_AUTHENTICATED" \in u.flags
      OBVIOUS
    <3>3. r = [u EXCEPT !.sent = m]
      BY <2>4 DEF Send, SessionState
    <3>4. r.pinging = u.pinging /\ r.flags = u.flags
      BY <2>4, <3>3 DEF SessionState
    <3>5. s' = ReadyIfConnected([r EXCEPT !.ping = scheduled, !.pinging = p, !.flags = z])
      BY <2>7, <3>4 DEF OnAllChannelsOpened
    <3> HIDE DEF m, z, p, r
    <3>6. [r EXCEPT !.ping = scheduled, !.pinging = p, !.flags = z] = t
      BY <2>4, <3>3 DEF SessionState
    <3>7. /\ t \in SessionState /\ t.flags = z /\ t.table = u.table
          /\ t.system = u.system /\ t.cflags = u.cflags /\ t.native = u.native
          /\ t.pcClose = u.pcClose /\ t.sent = m /\ t.executor = u.executor
          /\ t.exec = u.exec /\ t.answered = u.answered
      BY <2>4, <3>1, ZenonT(60) DEF SessionState
    <3> HIDE DEF t
    <3>8. Agrees(u, t)
      BY <3>1, <3>2, <3>7 DEF Agrees, Active
    <3>9. QED
      BY <2>4, <2>5, <3>5, <3>6, <3>7, <3>8, AgreesTransitive, ReadyHandled
  <2>8. QED
    BY <2>3, <2>6, <2>7
<1>3. QED
  BY <1>1, <1>2

\* `OnMessage` is handled.
LEMMA OnMessageHandled ==
  ASSUME SessionInv, NEW c \in Data, OnMessage(c)
  PROVE  Handled
<1>1. CASE s' = s
  BY <1>1, SameHandled
<1>2. CASE s' # s
  <2> DEFINE n == s.cref[c] + 1
             x == Receive(c, s.native)
             q == Append(s.exec, x)
             f == [s.cref EXCEPT ![c] = n]
             t == [s EXCEPT !.cref = f]
  <2>1. s.executor /\ {"DC_ACTIVE", "DC_RECEIVE"} \subseteq s.cflags[c]
    BY <1>2 DEF OnMessage, OfChannel, ProcessMessage, ChannelReceive
  <2>2. s \in SessionState /\ c \in Chan /\ s.cref \in [Chan -> Nat]
    BY Invariants, SessionFields, Channels
  <2>3. s' = ExecutorSubmit([s EXCEPT !.cref[c] = n], x)
    BY <1>2 DEF OnMessage, OfChannel, ProcessMessage, ChannelReceive, Receive
  <2>4. [s EXCEPT !.cref[c] = n] = t
    BY <2>2 DEF SessionState
  <2> HIDE DEF f
  <2>5. /\ t.flags = s.flags /\ t.table = s.table
        /\ t.system = s.system /\ t.cflags = s.cflags /\ t.native = s.native
        /\ t.pcClose = s.pcClose /\ t.sent = s.sent /\ t.executor = s.executor
        /\ t.exec = s.exec /\ t.answered = s.answered
    BY <2>2 DEF SessionState
  <2>6. s' = [t EXCEPT !.exec = q]
    BY <2>1, <2>3, <2>4, <2>5 DEF ExecutorSubmit
  <2> HIDE DEF q
  <2>7. /\ s'.flags = s.flags /\ s'.table = s.table
        /\ s'.system = s.system /\ s'.cflags = s.cflags /\ s'.native = s.native
        /\ s'.pcClose = s.pcClose /\ s'.sent = s.sent /\ s'.executor = s.executor
        /\ s'.exec = q /\ s'.answered = s.answered
    BY <2>2, <2>5, <2>6 DEF SessionState
  <2>8. Agrees(s, s') /\ Commanded(s, s')
    BY <2>1, <2>2, <2>7 DEF Agrees, Commanded, Active, q
  <2>9. QED
    BY <2>8, AgreesHandled
<1>3. QED
  BY <1>1, <1>2

\* `OnDcError` is handled.
LEMMA OnDcErrorHandled ==
  ASSUME SessionInv, NEW c \in Chan, OnDcError(c)
  PROVE  Handled
<1>1. CASE s' = s
  BY <1>1, SameHandled
<1>2. CASE s' # s
  <2>1. s' = ChannelClose(s, {c})
    BY <1>2 DEF OnDcError, OfChannel
  <2>2. /\ Fits(s', Holders, Waits) /\ Winds(s, s')
        /\ Active(s') <=> Active(s)
    BY <2>1, Invariants, ChannelCloseEffect, ZenonT(60)
  <2>3. Serves(s, s') /\ Commanded(s, s')
    BY <2>2, WindsServes, WindsMoves, MovesCommanded DEF Fits
  <2>4. OrderlyInv => Tidy(s')
    BY <2>2, WindsTidy DEF OrderlyInv
  <2>5. ~ConnectedInv
    <3>1. Taken("dcError", c)
      BY Invariants, TakesTaken DEF OnDcError, OfChannel
    <3>2. Queued("dcError", c)
      BY <3>1, Invariants, TakeEffect
    <3>3. QED
      BY <3>2 DEF ConnectedInv
  <2>6. QED
    BY <2>3, <2>4, <2>5 DEF Handled
<1>3. QED
  BY <1>1, <1>2

\* In an orderly session a data channel is closed when it is not open, so that
\* nothing is missing from the array of an active session.
LEMMA DcClosedHandled ==
  ASSUME SessionInv, NEW c \in Chan, NEW op \in {"outClosed", "inClosed"},
         Taken(op, c), ChannelLive(s, c), s' = DcClosed(s, c)
  PROVE  Handled
<1> DEFINE t == [s EXCEPT !.table = s.table \ {c}]
           u == DcClosed(s, c)
<1>0. /\ Fits(u, Holders, Waits) /\ Moves(s, u) /\ Winds(t, u)
      /\ Active(u) <=> Active(s)
      /\ t \in SessionState /\ t.table = s.table \ {c}
      /\ t.ref = s.ref /\ t.flags = s.flags /\ t.cref = s.cref
      /\ t.cflags = s.cflags /\ t.system = s.system
      /\ t.exec = s.exec /\ t.native = s.native
      /\ t.executor = s.executor /\ t.private = s.private
      /\ t.fault = s.fault /\ t.pcClose = s.pcClose
      /\ t.answered = s.answered /\ t.sent = s.sent
      /\ \A d \in Chan : d # c => u.cflags[d] = s.cflags[d]
  <2>1. Fits(s, Holders, Waits) /\ Holders \in Nat /\ Waits \in [Chan -> Nat]
    BY Invariants
  <2> HIDE DEF t, u
  <2>2. QED
    BY <2>1, DcClosedEffect DEF t, u
<1> HIDE DEF u
<1>1. /\ Fits(s', Holders, Waits) /\ Moves(s, s') /\ Winds(t, s')
      /\ Active(s') <=> Active(s)
      /\ t \in SessionState /\ t.table = s.table \ {c}
      /\ t.ref = s.ref /\ t.flags = s.flags /\ t.cref = s.cref
      /\ t.cflags = s.cflags /\ t.system = s.system
      /\ t.exec = s.exec /\ t.native = s.native
      /\ t.executor = s.executor /\ t.private = s.private
      /\ t.fault = s.fault /\ t.pcClose = s.pcClose
      /\ t.answered = s.answered /\ t.sent = s.sent
      /\ \A d \in Chan : d # c => s'.cflags[d] = s.cflags[d]
  BY <1>0 DEF u
<1> HIDE DEF t
<1>2. Active(t) <=> Active(s)
  BY <1>1 DEF Active
<1>3. Serves(s, s') /\ Commanded(s, s')
  <2>1. Serves(t, s')
    BY <1>1, <1>2, WindsServes DEF Fits
  <2>2. Serves(s, t)
    BY <1>1, <1>2 DEF Serves, Unknown, ChannelOpen
  <2>3. QED
    BY <1>1, <2>1, <2>2, ServesTransitive, MovesCommanded
<1>4. OrderlyInv => ~ChannelOpen(s, c)
  <2>1. Queued(op, c)
    BY Invariants, TakeEffect
  <2>2. QED
    BY <2>1 DEF OrderlyInv
<1>5. OrderlyInv => Tidy(s')
  <2>1. ASSUME OrderlyInv PROVE Tidy(t)
    <3>1. ASSUME NEW d \in Chan, ChannelOpen(t, d)
          PROVE  /\ Active(t) /\ d \in OwnedChannels(t)
                 /\ "DC_RECEIVE" \in t.cflags[d] => t.native
      <4>1. ChannelOpen(s, d) /\ d # c
        BY <1>1, <1>4, <2>1, <3>1 DEF ChannelOpen
      <4>2. /\ Active(s) /\ d \in OwnedChannels(s)
            /\ "DC_RECEIVE" \in s.cflags[d] => s.native
        BY <2>1, <4>1 DEF OrderlyInv, Tidy
      <4>3. QED
        BY <1>1, <1>2, <4>1, <4>2 DEF OwnedChannels
    <3>2. QED
      BY <1>1, <1>2, <2>1, <3>1 DEF OrderlyInv, Tidy
  <2>2. QED
    BY <1>1, <1>2, <2>1, WindsTidy
<1>6. OrderlyInv /\ ConnectedInv => Wide(s')
  <2> SUFFICES ASSUME OrderlyInv, ConnectedInv, Active(s'), NEW d \in OwnedChannels(s')
               PROVE  ChannelOpen(s', d)
    BY DEF Wide
  <2>1. c \notin OwnedChannels(s)
    BY <1>1, <1>4 DEF ConnectedInv, Wide
  <2>2. OwnedChannels(s') \subseteq OwnedChannels(s)
    BY <1>1 DEF Winds, OwnedChannels
  <2>3. d # c /\ d \in Chan /\ ChannelOpen(s, d)
    <3>1. s.table \in SUBSET Data
      BY Invariants, SessionFields
    <3>2. QED
      BY <1>1, <2>1, <2>2, <3>1, Channels DEF ConnectedInv, Wide, OwnedChannels
  <2>4. QED
    BY <1>1, <2>3 DEF ChannelOpen
<1>7. QED
  BY <1>3, <1>5, <1>6 DEF Handled

\* The closed events of a channel are handled.
LEMMA OnClosedHandled ==
  ASSUME SessionInv, \/ \E c \in Chan : OnOutClosed(c)
                     \/ \E c \in Data : OnInClosed(c)
  PROVE  Handled
<1>1. CASE s' = s
  BY <1>1, SameHandled
<1>2. CASE s' # s
  <2>1. PICK c \in Chan, op \in {"outClosed", "inClosed"} :
          Takes(op) /\ Head(tasks).c = c /\ ChannelLive(s, c) /\ s' = DcClosed(s, c)
    BY <1>2, Channels DEF OnOutClosed, OnInClosed, OfChannel
  <2>2. QED
    BY <2>1, Invariants, TakesTaken, DcClosedHandled
<1>3. QED
  BY <1>1, <1>2

\* A channel in the array outlives the end of a receive.
LEMMA OnReceiveDoneHandled ==
  ASSUME SessionInv, NEW c \in Data, OnReceiveDone(c)
  PROVE  Handled
<1>1. CASE \E name \in FaultNames : s' = Fail(s, name)
  BY <1>1, SameHandled
<1>2. CASE ChannelLive(s, c) /\ s' = ChannelUnref(s, {c})
  <2>1. Taken("receiveDone", c) /\ c \in Chan
    BY Invariants, TakesTaken, Channels DEF OnReceiveDone
  <2>2. Waits[c] >= 1
    <3> DEFINE done == {OnChannel("receiveDone", c)}
    <3>1. Among(tasks', done) \in Nat /\ Among(tasks, done) = Among(tasks', done) + 1
      BY <2>1, Invariants, TakeAmong
    <3>2. Waits[c] = Among(s.exec, Receives(c)) + Among(tasks, done)
      BY <2>1 DEF Waits, Waiting
    <3>3. Among(s.exec, Receives(c)) \in Nat
      BY Invariants, WaitingType
    <3> HIDE DEF done
    <3>4. QED
      BY <3>1, <3>2, <3>3
  <2> DEFINE w == [d \in Chan |-> IF d = c THEN Waits[d] - 1 ELSE Waits[d]]
  <2>3. /\ \A d \in Chan : Waits[d] \in Nat
        /\ Fits(s, Holders, Waits) /\ Holders \in Nat /\ Waits \in [Chan -> Nat]
        /\ s.table \in SUBSET Data
    BY Invariants, SessionFields
  <2>4. w \in [Chan -> Nat]
    BY <2>1, <2>2, <2>3
  <2>5. \A d \in s.table : Waits[d] >= w[d] /\ (d \in {c} => Waits[d] >= w[d] + 1)
    <3>1. s.table \subseteq Chan
      BY <2>3, Channels
    <3>2. QED
      BY <2>1, <2>2, <2>3, <3>1
  <2>6. {c} \in SUBSET LiveChannels(s)
    BY <1>2, <2>1 DEF LiveChannels
  <2> HIDE DEF w
  <2>7. /\ Fits(s', Holders, w) /\ Winds(s, s')
        /\ Active(s') <=> Active(s)
        /\ \A d \in Chan : s'.cflags[d] = IF d \in {c} /\ s.cref[d] = 1
                                            THEN {} ELSE s.cflags[d]
    BY <1>2, <2>3, <2>4, <2>5, <2>6, ChannelUnrefEffect
  <2>8. Serves(s, s') /\ Commanded(s, s')
    BY <2>7, WindsServes, WindsMoves, MovesCommanded DEF Fits
  <2>9. OrderlyInv => Tidy(s')
    BY <2>7, WindsTidy DEF OrderlyInv
  <2>10. ConnectedInv => Wide(s')
    <3> SUFFICES ASSUME Wide(s), Active(s'), NEW d \in OwnedChannels(s')
                 PROVE  ChannelOpen(s', d)
      BY DEF ConnectedInv, Wide
    <3>1. d \in OwnedChannels(s) /\ Active(s)
      BY <2>7 DEF Winds, OwnedChannels
    <3>2. d \in Chan /\ (d = c => d \in s.table)
      BY <2>3, <3>1, Channels DEF OwnedChannels
    <3>3. d = c => s.cref[d] # 1
      <4> SUFFICES ASSUME c \in s.table PROVE s.cref[c] # 1
        BY <3>2
      <4>1. s.cref[c] >= 1 + Count("ACTIVE" \in s.cflags[c]) + Waits[c]
        BY <2>3 DEF Fits, TableFits
      <4>2. s.cref[c] \in Nat /\ Count("ACTIVE" \in s.cflags[c]) \in Nat
        BY <2>1, Invariants, SessionFields DEF Count
      <4>3. QED
        BY <2>1, <2>2, <2>3, <4>1, <4>2
    <3>4. QED
      BY <2>7, <3>1, <3>2, <3>3 DEF Wide, ChannelOpen
  <2>11. QED
    BY <2>8, <2>9, <2>10 DEF Handled
<1>3. QED
  BY <1>1, <1>2 DEF OnReceiveDone, FaultNames

\* All channels are created, or the session is closed.
LEMMA OnAuthHandled ==
  ASSUME SessionInv, OnAuth
  PROVE  Handled
<1>1. CASE s' = s
  BY <1>1, SameHandled
<1>2. CASE s' # s
  <2> DEFINE made(k) == CreateChannels([s EXCEPT !.flags = @ \cup {"WS_AUTHENTICATED"},
                                                 !.timeout = "none"], k)
  <2>2. PICK timed \in BOOLEAN, scheduled \in BOOLEAN, buffered \in BOOLEAN, k \in 0 .. N + 1 :
          s' = AuthAccepted(s, timed, k, scheduled, buffered)
    BY <1>2 DEF OnAuth
  <2>3. k \in 0 .. N + 1 /\ buffered \in BOOLEAN
    BY <2>2
  <2> DEFINE u == made(k)
  <2>4. Unknown(s)
    BY <1>2 DEF OnAuth, Understands, Unknown
  <2>5. /\ Fits(u, Holders, Waits) /\ Moves(s, u)
        /\ ~Unknown(u) /\ (Active(u) <=> Active(s))
        /\ u.flags = s.flags \cup {"WS_AUTHENTICATED"}
        /\ u.table = {c \in Data : c < k}
        /\ u.system <=> k = N + 1
        /\ \A c \in Chan : c < k => u.cflags[c] = {"ACTIVE", "DC_ACTIVE"}
        /\ \A c \in Chan : c >= k => u.cflags[c] = {}
        /\ u.native = s.native /\ u.private = s.private /\ u.exec = s.exec
        /\ u.pcClose = s.pcClose /\ u.answered = s.answered
        /\ u.sent = s.sent /\ u.fault = s.fault
    <3> HIDE DEF u
    <3>1. QED
      BY <2>3, <2>4, CreateEffect DEF u
  <2>6. \/ s' = SessionClose(u)
        \/ /\ k = N + 1
           /\ s' = [u EXCEPT !.timeout = IF timed THEN "negotiate" ELSE "none",
                             !.sent = IF buffered THEN @ \cup {"DESCRIPTION"} ELSE @]
    <3>1. k < N + 1 \/ k = N + 1
      BY <2>3, Channels
    <3>2. QED
      BY <2>2, <3>1 DEF AuthAccepted
  <2> HIDE DEF u, made
  <2>7. Serves(s, u)
    BY <2>4, <2>5 DEF Serves, Moves, ChannelOpen
  <2>8. \A c \in Chan : ChannelOpen(u, c) <=> c < k
    <3> TAKE c \in Chan
    <3>1. c < k \/ c >= k
      BY <2>3, Channels DEF Chan
    <3>2. ~(c < k /\ c >= k)
      BY <2>3, Channels DEF Chan
    <3>3. QED
      BY <2>5, <3>1, <3>2 DEF ChannelOpen
  <2>9. \A c \in Chan : ChannelOpen(u, c) => c \in OwnedChannels(u)
    <3> SUFFICES ASSUME NEW c \in Chan, c < k PROVE c \in OwnedChannels(u)
      BY <2>8
    <3>1. c \in Data \/ (c = Sys /\ k = N + 1)
      BY <2>3, Channels DEF Chan, Data, Sys
    <3>2. QED
      BY <2>5, <3>1 DEF OwnedChannels
  <2>10. Wide(u)
    <3>1. \A c \in OwnedChannels(u) : c \in Chan /\ c < k
      BY <2>3, <2>5, Channels DEF OwnedChannels, Data, Sys, Chan
    <3>2. QED
      BY <2>8, <3>1 DEF Wide
  <2>11. Tidy(s) => Tidy(u)
    <3>1. "WS_ACTIVE" \in s.flags
      BY <2>4 DEF Unknown
    <3>2. \A c \in Chan : ChannelOpen(u, c) => "DC_RECEIVE" \notin u.cflags[c]
      BY <2>5, <2>8
    <3>3. QED
      BY <2>5, <2>9, <3>1, <3>2 DEF Tidy
  <2>12. CASE s' = SessionClose(u)
    <3>1. Serves(u, s') /\ (Tidy(u) => Tidy(s') /\ Wide(s'))
      BY <2>5, <2>12, Invariants, CloseServes
    <3>2. Serves(s, s')
      BY <2>7, <3>1, ServesTransitive
    <3>3. Commanded(s, s')
      <4>1. Winds(u, s') /\ Whole(s')
        BY <2>5, <2>12, Invariants, SessionCloseEffect DEF Fits
      <4>2. Moves(s, s')
        BY <2>5, <4>1, WindsMoves, MovesTransitive
      <4>3. QED
        BY <4>2, MovesCommanded
    <3>4. QED
      BY <2>11, <3>1, <3>2, <3>3 DEF Handled, OrderlyInv
  <2>13. CASE s' = [u EXCEPT !.timeout = IF timed THEN "negotiate" ELSE "none",
                             !.sent = IF buffered THEN @ \cup {"DESCRIPTION"} ELSE @]
    <3> DEFINE m == IF buffered THEN u.sent \cup {"DESCRIPTION"} ELSE u.sent
               d == IF timed THEN "negotiate" ELSE "none"
    <3>1. u \in SessionState
      BY <2>5 DEF Fits, Whole
    <3>2. s' = [u EXCEPT !.timeout = d, !.sent = m]
      BY <2>13, <3>1 DEF SessionState
    <3>3. "CONNECTED" \in m => "CONNECTED" \in u.sent
      OBVIOUS
    <3> HIDE DEF m, d
    <3>4. /\ s'.flags = u.flags /\ s'.table = u.table
          /\ s'.system = u.system /\ s'.cflags = u.cflags /\ s'.native = u.native
          /\ s'.pcClose = u.pcClose /\ s'.sent = m /\ s'.executor = u.executor
          /\ s'.exec = u.exec /\ s'.answered = u.answered
      BY <3>1, <3>2 DEF SessionState
    <3>5. Agrees(u, s')
      BY <3>3, <3>4 DEF Agrees, Active
    <3>6. Serves(u, s') /\ Neat(u, s')
      BY <3>5, AgreesServes
    <3>7. Serves(s, s')
      BY <2>7, <3>6, ServesTransitive
    <3>8. Commanded(s, s')
      BY <2>5, <3>4 DEF Commanded
    <3>9. QED
      BY <2>10, <2>11, <3>6, <3>7, <3>8 DEF Handled, Neat, OrderlyInv
  <2>14. QED
    BY <2>6, <2>12, <2>13
<1>3. QED
  BY <1>1, <1>2

\* The answer: the session has its native session, unless it gives it up.
LEMMA OnNativeCreatedEffect ==
  ASSUME SessionInv, OnNativeCreated
  PROVE  /\ Active(s') <=> Active(s)
         /\ Unknown(s') => Unknown(s) /\ (s'.answered <=> s.answered)
         /\ \A c \in Chan : ChannelOpen(s', c) => ChannelOpen(s, c)
         /\ s'.executor <=> s.executor
         /\ \/ s'.native /\ s'.exec = s.exec
            \/ ~s'.native /\ ~Active(s')
               /\ s'.exec = IF s.executor THEN Append(s.exec, Destroy) ELSE s.exec
         /\ ~s.native /\ env.native = "alive"
         /\ OrderlyInv => Tidy(s')
         /\ OrderlyInv /\ ConnectedInv => Wide(s')
         /\ "CONNECTED" \in s'.sent \ s.sent =>
              /\ s.table = Data /\ "WS_ACTIVE" \in s.flags
              /\ \A c \in Chan : ChannelLive(s, c) => "DC_RECEIVE" \in s'.cflags[c]
              /\ \A c \in Chan : ChannelOpen(s, c) => ChannelOpen(s', c)
<1> DEFINE v == OnConnected([s EXCEPT !.native = TRUE, !.private = TRUE])
<1>1. Taken("created", 0)
  BY Invariants, TakesTaken DEF OnNativeCreated, ChannelOps
<1>2. Queued("created", 0)
  BY <1>1, Invariants, TakeEffect
<1>3. Live(s) /\ Holders >= 1
  BY <1>2, HeldIsLive DEF Asking
<1>4. env.native = "alive" /\ ~s.native
  BY <1>2, Invariants DEF NativeFits
<1>5. s' = SessionUnref(v, 1)
  BY <1>3 DEF OnNativeCreated, OnCreated
<1>6. /\ Fits(v, Holders, Waits) /\ v.exec = s.exec /\ v.native /\ v.private
      /\ v.flags = s.flags /\ v.table = s.table /\ v.ref = s.ref
      /\ v.system = s.system /\ v.pcClose = s.pcClose
      /\ v.answered = s.answered
      /\ v.executor = s.executor
      /\ \A c \in Chan : "DC_ACTIVE" \in v.cflags[c] <=> "DC_ACTIVE" \in s.cflags[c]
      /\ "CONNECTED" \in v.sent \ s.sent =>
           /\ s.table = Data /\ "WS_ACTIVE" \in s.flags
           /\ \A c \in Chan : ChannelLive(s, c) => "DC_RECEIVE" \in v.cflags[c]
  BY <1>3, ConnectedEffect DEF Live
<1> HIDE DEF v
<1>7. /\ Fits(s', Holders - 1, Waits) /\ Winds(v, s')
      /\ s'.cflags = v.cflags /\ (Active(s') <=> Active(v))
  BY <1>3, <1>5, <1>6, Invariants, UnrefEffect
<1>8. Active(v) <=> Active(s)
  BY <1>6 DEF Active
<1>9. \A c \in Chan : ChannelOpen(s', c) <=> ChannelOpen(s, c)
  BY <1>6, <1>7 DEF ChannelOpen
<1>10. Moves(v, s')
  BY <1>7, WindsMoves DEF Fits
<1>11. Unknown(s') => Unknown(s) /\ (s'.answered <=> s.answered)
  BY <1>6, <1>7, <1>10 DEF Moves, Winds, Unknown
<1>12. (s'.executor <=> s.executor)
  BY <1>6, <1>7 DEF Winds
<1>13. \/ s'.native /\ s'.exec = s.exec
       \/ ~s'.native /\ ~Active(s')
          /\ s'.exec = IF s.executor THEN Append(s.exec, Destroy) ELSE s.exec
  BY <1>6, <1>7 DEF Winds, EndQueue
<1>14. OrderlyInv => Tidy(s')
  <2>1. OrderlyInv => Tidy(v)
    BY <1>6, <1>8 DEF OrderlyInv, Tidy, OwnedChannels, ChannelOpen
  <2>2. QED
    BY <1>7, <2>1, WindsTidy
<1>15. ConnectedInv => Wide(s')
  <2> SUFFICES ASSUME Wide(s), Active(s'), NEW c \in OwnedChannels(s')
               PROVE  ChannelOpen(s', c)
    BY DEF ConnectedInv, Wide
  <2>1. c \in OwnedChannels(s) /\ Active(s)
    BY <1>6, <1>7, <1>8 DEF Winds, OwnedChannels
  <2>2. c \in Chan
    <3>1. s.table \in SUBSET Data
      BY Invariants, SessionFields
    <3>2. QED
      BY <2>1, <3>1, Channels DEF OwnedChannels
  <2>3. QED
    BY <1>9, <2>1, <2>2 DEF Wide
<1>16. s'.sent = v.sent
  BY <1>7 DEF Winds
<1>17. QED
  BY <1>4, <1>6, <1>7, <1>8, <1>9, <1>11, <1>12, <1>13, <1>14, <1>15, <1>16

\* Every handler but this one and a timer's.
LEMMA RunTaskHandled ==
  ASSUME SessionInv, RunTask
  PROVE  OnNativeCreated \/ Handled
<1>1. CASE \E c \in Chan : OnDcOpen(c) \/ OnOutClosed(c) \/ OnDcError(c)
  BY <1>1, OnDcOpenHandled, OnClosedHandled, OnDcErrorHandled
<1>2. CASE \E c \in Data : \/ OnDataChannel(c) \/ OnInClosed(c) \/ OnMessage(c)
                           \/ OnReceiveDone(c) \/ OnSend(c)
  BY <1>2, SettingHandled, OnClosedHandled, OnMessageHandled, OnReceiveDoneHandled,
     QuietHandled
<1>3. CASE OnAuth \/ OnAuthBad \/ OnDescription \/ OnReadyMessage
  BY <1>3, OnAuthHandled, ClosingHandled, SettingHandled, QuietHandled,
     OnReadyMessageHandled
<1>4. CASE OnWsClosed \/ OnPcDown \/ OnPcClosed \/ OnLocalCandidate \/ OnBadChannel
           \/ OnSystemMessage
  BY <1>4, ClosingHandled, SettingHandled, QuietHandled
<1>5. CASE OnNativeCreated \/ OnNativeRefused \/ OnDisconnect \/ OnSetMode \/ OnStop
  BY <1>5, ClosingHandled, QuietHandled
<1>6. QED
  BY <1>1, <1>2, <1>3, <1>4, <1>5 DEF RunTask, Unshort

\* Both timers are handled.
LEMMA TimersHandled ==
  ASSUME SessionInv, TimeoutFires \/ PingFires
  PROVE  Handled
  BY ClosingHandled, QuietHandled
-----------------------------------------------------------------------------
(***************************************************************************)
(* The other threads.                                                      *)
(***************************************************************************)
\* They leave the session record as it is, but for commands that are taken and
\* an executor that shuts down.
Still ==
  /\ s'.flags = s.flags /\ s'.table = s.table /\ s'.system = s.system
  /\ s'.cflags = s.cflags /\ s'.native = s.native /\ s'.pcClose = s.pcClose
  /\ s'.answered = s.answered /\ s'.sent = s.sent
  /\ \A x : Has(s'.exec, x) => Has(s.exec, x)

\* Running a command leaves what the plugin thread owns, but for the queue.
LEMMA CommandStill ==
  ASSUME SessionInv, NEW op, Command(op)
  PROVE  Still /\ s'.executor = s.executor
<1> DEFINE q == Tail(s.exec)
<1>1. \A x : Has(q, x) => Has(s.exec, x)
  BY Invariants, SessionFields, HasTail DEF Command
<1>2. s \in SessionState /\ s' = [s EXCEPT !.exec = q]
  BY Invariants DEF Command
<1> HIDE DEF q
<1>3. /\ s'.flags = s.flags /\ s'.table = s.table /\ s'.system = s.system
      /\ s'.cflags = s.cflags /\ s'.native = s.native /\ s'.pcClose = s.pcClose
      /\ s'.answered = s.answered /\ s'.sent = s.sent /\ s'.exec = q
      /\ s'.executor = s.executor
  BY <1>2 DEF SessionState
<1>4. QED
  BY <1>1, <1>3 DEF Still

\* An event of libdatachannel leaves what the plugin thread owns.
LEMMA EnvironmentStill ==
  ASSUME Environment
  PROVE  s' = s
  BY DEF Environment, WsMessage, WsClose, PcCandidate, PcDown, PcClose, PcDataChannel,
         PcBadChannel, DcOpen, DcError, OutClose, InClose, DcMessage, DcSystemMessage,
         Event, Report

\* So does every step outside the plugin thread.
LEMMA OutsideStill ==
  ASSUME SessionInv, NativeThread \/ Host \/ Environment
  PROVE  Still
<1>1. CASE s' = s
  BY <1>1 DEF Still
<1>2. CASE NativeThread
  BY <1>2, CommandStill DEF NativeThread, NativeCreate, NativeDestroy, NativeReceive
<1>3. CASE NativeDisconnect \/ NativeSetMode \/ \E c \in Data : NativeSend(c)
  BY <1>1, <1>3 DEF NativeDisconnect, NativeSetMode, NativeSend
<1>4. CASE NativeGetRtt
  <2>1. s' = s \/ s' = [s EXCEPT !.fault = "nullRtt"]
    BY <1>4 DEF NativeGetRtt, Fail
  <2>2. CASE s' = [s EXCEPT !.fault = "nullRtt"]
    BY <2>2, Invariants DEF Still, SessionState
  <2>3. QED
    BY <1>1, <2>1, <2>2
<1>5. CASE SocketStop
  <2> DEFINE b == s.executor /\ "executor" \notin Faults
  <2>1. s \in SessionState /\ s' = [s EXCEPT !.executor = b]
    BY <1>5, Invariants DEF SocketStop
  <2> HIDE DEF b
  <2>2. QED
    BY <2>1 DEF Still, SessionState
<1>6. QED
  BY <1>1, <1>2, <1>3, <1>4, <1>5, EnvironmentStill DEF Host

\* What such a step preserves.
LEMMA StillEffect ==
  ASSUME Still
  PROVE  /\ Tidy(s) => Tidy(s')
         /\ Wide(s) => Wide(s')
         /\ Active(s') <=> Active(s)
         /\ Unknown(s') <=> Unknown(s)
         /\ \A c : ChannelOpen(s', c) <=> ChannelOpen(s, c)
<1>1. OwnedChannels(s') = OwnedChannels(s)
  BY DEF Still, OwnedChannels
<1>2. /\ Active(s') <=> Active(s)
      /\ Unknown(s') <=> Unknown(s)
      /\ \A c : ChannelOpen(s', c) <=> ChannelOpen(s, c)
  BY DEF Still, Active, Unknown, ChannelOpen
<1>3. Tidy(s) => Tidy(s')
  BY <1>1, <1>2 DEF Still, Tidy
<1>4. Wide(s) => Wide(s')
  BY <1>1, <1>2 DEF Wide
<1>5. QED
  BY <1>2, <1>3, <1>4

\* The application stops the executor only under its fault.
LEMMA HostExecutor ==
  ASSUME SessionInv, Host
  PROVE  /\ s'.exec = s.exec
         /\ "executor" \notin Faults => (s'.executor <=> s.executor)
<1>1. CASE s' = s \/ \E name \in FaultNames : s' = Fail(s, name)
  BY <1>1, Invariants DEF Fail, SessionState
<1>2. CASE SocketStop
  <2> DEFINE b == s.executor /\ "executor" \notin Faults
  <2>1. s \in SessionState /\ s' = [s EXCEPT !.executor = b]
    BY <1>2, Invariants DEF SocketStop
  <2>2. "executor" \notin Faults => (b <=> s.executor)
    OBVIOUS
  <2> HIDE DEF b
  <2>3. s'.exec = s.exec /\ s'.executor = b
    BY <2>1 DEF SessionState
  <2>4. QED
    BY <2>2, <2>3
<1>3. QED
  BY <1>1, <1>2
  DEF Host, NativeDisconnect, NativeSetMode, NativeGetRtt, NativeSend, FaultNames

\* What they submit, unless it is the close of something.
HarmlessOps == TaskOps \ {"pcDown", "outClosed", "inClosed"}

Harmless ==
  /\ env'.pc = env.pc /\ env'.in = env.in
  /\ env'.native = env.native \/ NativeCreate \/ NativeDestroy
  /\ \/ UNCHANGED tasks
     \/ \E op \in HarmlessOps, c \in Chan :
          /\ tasks' = Append(tasks, OnChannel(op, c))
          /\ op = "dcError" => "dcError" \in Faults
          /\ op = "createFailed" => NativeCreate

\* The tasks that report no close.
LEMMA HarmlessKinds ==
  {"created", "createFailed", "receiveDone", "disconnect", "setMode", "send", "stop",
   "wsClosed", "localCandidate", "badChannel", "systemMessage", "message", "dcOpen",
   "dcError"} \cup MessageKinds \subseteq HarmlessOps
  BY DEF HarmlessOps, TaskOps, MessageKinds

\* The tasks that do, or announce a channel, are no refusals.
LEMMA EndKinds ==
  {"pcDown", "pcClosed", "dataChannel", "inClosed", "outClosed"}
    \subseteq TaskOps \ {"createFailed"}
  BY DEF TaskOps

\* Submitting a harmless task is a harmless step.
LEMMA SubmitHarmless ==
  ASSUME env'.pc = env.pc, env'.in = env.in, NEW op \in HarmlessOps, NEW c \in Chan,
         env'.native = env.native \/ NativeCreate \/ NativeDestroy,
         tasks' = Append(tasks, OnChannel(op, c)), op = "dcError" => "dcError" \in Faults,
         op = "createFailed" => NativeCreate
  PROVE  Harmless
  BY DEF Harmless

\* So is a refused one.
LEMMA RefusalHarmless ==
  ASSUME env'.pc = env.pc, env'.in = env.in, NEW e, Refused(e),
         env'.native = env.native \/ NativeCreate \/ NativeDestroy
  PROVE  Harmless
  BY DEF Harmless, Refused

\* A step of the native library's thread is harmless.
LEMMA NativeHarmless ==
  ASSUME SessionInv, NativeThread
  PROVE  Harmless
<1>1. env \in EnvState
  BY AlikeSelf
<1>2. CASE NativeCreate
  <2>1. /\ \E x : env' = [env EXCEPT !.native = x]
        /\ \/ tasks' = Append(tasks, OnChannel("created", 0))
           \/ tasks' = Append(tasks, OnChannel("createFailed", 0))
           \/ \E e : Refused(e)
    BY <1>2, TaskIdentity DEF NativeCreate, Submits, Refused
  <2>2. env'.pc = env.pc /\ env'.in = env.in
    BY <1>1, <2>1 DEF EnvState
  <2>3. QED
    BY <1>2, <2>1, <2>2, Channels, HarmlessKinds, SubmitHarmless, RefusalHarmless
<1>3. CASE NativeDestroy
  <2>1. env' = [env EXCEPT !.native = "dead"] /\ UNCHANGED tasks
    BY <1>3 DEF NativeDestroy
  <2>2. env'.pc = env.pc /\ env'.in = env.in
    BY <1>1, <2>1 DEF EnvState
  <2>3. QED
    BY <1>3, <2>1, <2>2 DEF Harmless
<1>4. CASE NativeReceive
  <2>1. /\ Command("receive") /\ env' = env
        /\ \/ tasks' = Append(tasks, OnChannel("receiveDone", Head(s.exec).c))
           \/ Refused(env)
    BY <1>4 DEF NativeReceive, Submits, Refused
  <2>2. Head(s.exec) \in Commands
    BY <2>1, CommandEffect
  <2>3. Head(s.exec).c \in Chan
    BY <2>2 DEF Commands
  <2>4. QED
    BY <2>1, <2>3, HarmlessKinds, SubmitHarmless, RefusalHarmless
<1>5. QED
  BY <1>2, <1>3, <1>4 DEF NativeThread

\* A call of the application is harmless.
LEMMA HostHarmless ==
  ASSUME SessionInv, Host
  PROVE  Harmless
<1>1. env \in EnvState
  BY AlikeSelf
<1>2. CASE NativeDisconnect \/ NativeSetMode
  <2>1. /\ env' = env
        /\ \/ tasks' = Append(tasks, OnChannel("disconnect", 0))
           \/ tasks' = Append(tasks, OnChannel("setMode", 0))
    BY <1>2, TaskIdentity DEF NativeDisconnect, NativeSetMode, Submits
  <2>2. QED
    BY <2>1, Channels, HarmlessKinds, SubmitHarmless
<1>3. CASE NativeGetRtt
  BY <1>3 DEF NativeGetRtt, Harmless
<1>4. CASE SocketStop
  <2>1. /\ env' = [env EXCEPT !.socket = "stopped"]
        /\ tasks' = Append(tasks, OnChannel("stop", 0)) \/ \E e : Refused(e)
    BY <1>4, TaskIdentity DEF SocketStop, Submits, Refused
  <2>2. env'.pc = env.pc /\ env'.in = env.in /\ env'.native = env.native
    BY <1>1, <2>1 DEF EnvState
  <2>3. QED
    BY <2>1, <2>2, Channels, HarmlessKinds, SubmitHarmless, RefusalHarmless
<1>5. CASE \E c \in Data : NativeSend(c)
  <2>1. PICK c \in Data : NativeSend(c)
    BY <1>5
  <2>2. env' = env /\ tasks' = Append(tasks, OnChannel("send", c))
    BY <2>1 DEF NativeSend, Submits
  <2>3. QED
    BY <2>2, Channels, HarmlessKinds, SubmitHarmless
<1>6. QED
  BY <1>2, <1>3, <1>4, <1>5 DEF Host

\* What libdatachannel reports that is the end of nothing.
LEMMA ReportHarmless ==
  ASSUME SessionInv,
         \/ \E m \in Messages : WsMessage(m)
         \/ WsClose \/ PcCandidate \/ PcBadChannel \/ DcSystemMessage
         \/ \E c \in Data : DcMessage(c)
         \/ \E c \in Chan : DcOpen(c) \/ DcError(c)
  PROVE  Harmless
<1>1. env \in EnvState
  BY AlikeSelf
<1>2. CASE \E m \in Messages : WsMessage(m)
  <2>1. PICK m \in Messages : WsMessage(m)
    BY <1>2
  <2>2. m \in HarmlessOps \ {"dcError", "createFailed"}
    BY SessionAssumption, HarmlessKinds DEF MessageKinds
  <2>3. tasks' = Append(tasks, OnChannel(m, 0)) /\ env' = env
    BY <2>1, TaskIdentity DEF WsMessage, Event, Submits
  <2>4. QED
    BY <2>2, <2>3, Channels, SubmitHarmless
<1>3. CASE WsClose
  <2>1. /\ \E x : env' = [env EXCEPT !.ws = x]
        /\ tasks' = Append(tasks, OnChannel("wsClosed", 0)) \/ \E e : Refused(e)
    BY <1>3, TaskIdentity DEF WsClose, Report, Event, Submits, Refused
  <2>2. env'.pc = env.pc /\ env'.in = env.in /\ env'.native = env.native
    BY <1>1, <2>1 DEF EnvState
  <2>3. QED
    BY <2>1, <2>2, Channels, HarmlessKinds, SubmitHarmless, RefusalHarmless
<1>4. CASE PcCandidate \/ PcBadChannel
  <2>1. /\ env' = env
        /\ \/ tasks' = Append(tasks, OnChannel("localCandidate", 0))
           \/ tasks' = Append(tasks, OnChannel("badChannel", 0))
    BY <1>4, TaskIdentity DEF PcCandidate, PcBadChannel, Event, Submits
  <2>2. QED
    BY <2>1, Channels, HarmlessKinds, SubmitHarmless
<1>5. CASE DcSystemMessage \/ \E c \in Data : DcMessage(c)
  <2>1. /\ env' = env
        /\ \/ tasks' = Append(tasks, OnChannel("systemMessage", Sys))
           \/ \E c \in Data : tasks' = Append(tasks, OnChannel("message", c))
    BY <1>5 DEF DcSystemMessage, DcMessage, Event, Submits
  <2>2. QED
    BY <2>1, Channels, HarmlessKinds, SubmitHarmless
<1>6. CASE \E c \in Chan : DcOpen(c)
  <2>1. PICK c \in Chan : DcOpen(c)
    BY <1>6
  <2>2. /\ env' = [env EXCEPT !.out[c] = "open"]
        /\ tasks' = Append(tasks, OnChannel("dcOpen", c)) \/ \E e : Refused(e)
    BY <2>1 DEF DcOpen, Report, Event, Submits, Refused
  <2>3. env'.pc = env.pc /\ env'.in = env.in /\ env'.native = env.native
    BY <1>1, <2>2 DEF EnvState
  <2>4. QED
    BY <2>2, <2>3, HarmlessKinds, SubmitHarmless, RefusalHarmless
<1>7. CASE \E c \in Chan : DcError(c)
  <2>1. PICK c \in Chan : DcError(c)
    BY <1>7
  <2>2. env' = env /\ tasks' = Append(tasks, OnChannel("dcError", c)) /\ "dcError" \in Faults
    BY <2>1 DEF DcError, Event, Submits
  <2>3. QED
    BY <2>2, HarmlessKinds, SubmitHarmless
<1>8. QED
  BY <1>2, <1>3, <1>4, <1>5, <1>6, <1>7
-----------------------------------------------------------------------------
(***************************************************************************)
(* The order of a session is kept.                                         *)
(***************************************************************************)
\* What a step may not do to it.
LEMMA OrderlyStep ==
  ASSUME OrderlyInv, Tidy(s'),
         Active(s') => Active(s) /\ env'.pc = "open",
         Unknown(s') => /\ Unknown(s) /\ (s'.answered <=> s.answered)
                        /\ \A c \in Data : env'.in[c] = env.in[c],
         \A c \in Chan : ChannelOpen(s', c) => ChannelOpen(s, c) \/ Unknown(s),
         \A c \in Chan : ~Has(s'.exec, Receive(c, FALSE)),
         \A c \in Chan : ~Queued("pcDown", c)',
         \A c \in Chan : \A op \in {"outClosed", "inClosed"} :
           Queued(op, c)' => Queued(op, c) \/ (~ChannelOpen(s, c) /\ ~Unknown(s))
  PROVE  OrderlyInv'
<1>1. ASSUME NEW c \in Chan, Queued("outClosed", c)' \/ Queued("inClosed", c)'
      PROVE  ~ChannelOpen(s', c) /\ ~Unknown(s)
  BY <1>1 DEF OrderlyInv
<1>2. ASSUME Unknown(s')
      PROVE  /\ ~s'.answered /\ \A c \in Data : env'.in[c] = "none"
             /\ \A c \in Chan : ~Queued("outClosed", c)' /\ ~Queued("inClosed", c)'
  BY <1>1, <1>2 DEF OrderlyInv
<1>3. QED
  BY <1>1, <1>2 DEF OrderlyInv

\* A command that is not the one appended is queued only if it was.
LEMMA NotAppended ==
  ASSUME SessionInv, NEW x \in Commands, NEW y, s'.exec = Append(s.exec, x),
         x # y, ~Has(s.exec, y)
  PROVE  ~Has(s'.exec, y)
<1>1. s.exec \in Seq(Commands)
  BY Invariants, SessionFields
<1>2. Has(Append(s.exec, x), y) <=> Has(s.exec, y) \/ y = x
  BY <1>1, HasAppend
<1>3. QED
  BY <1>2

\* A handler.
LEMMA HandledOrderly ==
  ASSUME SessionInv, OrderlyInv, Handled, env' = env,
         \A p, c : Queued(p, c)' => Queued(p, c)
  PROVE  OrderlyInv' /\ (ConnectedInv => ConnectedInv')
<1>1. s.exec \in Seq(Commands) /\ s.native \in BOOLEAN
  BY Invariants, SessionFields
<1>2. ASSUME NEW c \in Chan, Has(s'.exec, Receive(c, FALSE)) PROVE FALSE
  <2>1. ~Has(s.exec, Receive(c, FALSE))
    BY DEF OrderlyInv
  <2>2. CASE s'.exec = s.exec
    BY <1>2, <2>1, <2>2
  <2>3. CASE s'.exec = Append(s.exec, Create) \/ s'.exec = Append(s.exec, Destroy)
    BY <1>2, <2>1, <2>3, NotAppended, CommandTypes, CommandIdentity
  <2>4. ASSUME NEW d \in Chan, {"DC_ACTIVE", "DC_RECEIVE"} \subseteq s.cflags[d],
               s'.exec = Append(s.exec, Receive(d, s.native))
        PROVE  FALSE
    <3>1. s.native
      BY <2>4 DEF OrderlyInv, Tidy, ChannelOpen
    <3>2. Receive(d, s.native) # Receive(c, FALSE)
      BY <3>1, CommandIdentity
    <3>3. QED
      BY <1>1, <1>2, <2>1, <2>4, <3>2, NotAppended, CommandTypes
  <2>5. QED
    BY <2>2, <2>3, <2>4 DEF Handled, Commanded, EndQueue
<1>3. OrderlyInv'
  BY <1>2, OrderlyStep DEF Handled, Serves, OrderlyInv
<1>4. ConnectedInv => ConnectedInv'
  BY DEF Handled, ConnectedInv
<1>5. QED
  BY <1>3, <1>4

\* The answer to a creation keeps the order: it submits at most a destroy.
LEMMA CreatedOrderly ==
  ASSUME SessionInv, OrderlyInv, OnNativeCreated
  PROVE  OrderlyInv' /\ (ConnectedInv => ConnectedInv')
<1>1. env' = env /\ \A p, c : Queued(p, c)' => Queued(p, c)
  BY Invariants, TakesTaken, TakeEffect DEF OnNativeCreated
<1>3. ASSUME NEW c \in Chan PROVE ~Has(s'.exec, Receive(c, FALSE))
  <2>1. ~Has(s.exec, Receive(c, FALSE))
    BY DEF OrderlyInv
  <2>2. s'.exec = s.exec \/ s'.exec = Append(s.exec, Destroy)
    BY OnNativeCreatedEffect
  <2>3. QED
    BY <2>1, <2>2, NotAppended, CommandTypes, CommandIdentity
<1>4. OrderlyInv'
  BY <1>1, <1>3, OnNativeCreatedEffect, OrderlyStep DEF OrderlyInv
<1>5. ConnectedInv => ConnectedInv'
  BY <1>1, OnNativeCreatedEffect DEF ConnectedInv
<1>6. QED
  BY <1>4, <1>5

\* A refusal is handled as one.
LEMMA RunTaskTakes ==
  ASSUME RunTask
  PROVE  OnNativeRefused \/ \E op : Takes(op) /\ op # "createFailed"
<1>1. CASE \E c \in Chan : OnDcOpen(c) \/ OnOutClosed(c) \/ OnDcError(c)
  BY <1>1 DEF OnDcOpen, OnOutClosed, OnDcError, OfChannel
<1>2. CASE \E c \in Data : \/ OnDataChannel(c) \/ OnInClosed(c) \/ OnMessage(c)
                           \/ OnReceiveDone(c) \/ OnSend(c)
  BY <1>2 DEF OnDataChannel, OnInClosed, OnMessage, OnReceiveDone, OnSend, OfChannel,
              OfNative
<1>3. CASE OnAuth \/ OnAuthBad \/ OnDescription \/ OnReadyMessage
  <2>1. CASE OnAuth
    <3>1. \E op \in {"auth", "authForever"} : Takes(op)
      BY <2>1 DEF OnAuth
    <3>2. QED
      BY <3>1
  <2>2. CASE OnAuthBad \/ OnDescription \/ OnReadyMessage
    <3>1. \E op \in {"authBad", "description", "ready"} : Takes(op)
      BY <2>2 DEF OnAuthBad, OnDescription, OnReadyMessage
    <3>2. QED
      BY <3>1
  <2>3. QED
    BY <1>3, <2>1, <2>2
<1>4. CASE OnWsClosed \/ OnPcDown \/ OnPcClosed \/ OnLocalCandidate \/ OnBadChannel
           \/ OnSystemMessage
  BY <1>4 DEF OnWsClosed, OnPcDown, OnPcClosed, OnLocalCandidate, OnBadChannel,
              OnSystemMessage, OfChannel
<1>5. CASE OnNativeCreated \/ OnNativeRefused \/ OnDisconnect \/ OnSetMode \/ OnStop
  BY <1>5 DEF OnNativeCreated, OnDisconnect, OnSetMode, OnStop, OfNative
<1>6. QED
  BY <1>1, <1>2, <1>3, <1>4, <1>5 DEF RunTask, Unshort

\* Every task keeps the order.
LEMMA RunTaskOrderly ==
  ASSUME SessionInv, OrderlyInv, RunTask
  PROVE  OrderlyInv' /\ (ConnectedInv => ConnectedInv')
<1>1. \E op : Takes(op)
  BY RunTaskTakes DEF OnNativeRefused
<1>2. env' = env /\ \A p, c : Queued(p, c)' => Queued(p, c)
  BY <1>1, Invariants, TakesTaken, TakeEffect
<1>3. QED
  BY <1>2, RunTaskHandled, HandledOrderly, CreatedOrderly

\* Both timers keep the order.
LEMMA TimersOrderly ==
  ASSUME SessionInv, OrderlyInv, TimeoutFires \/ PingFires
  PROVE  OrderlyInv' /\ (ConnectedInv => ConnectedInv')
<1>1. env' = env /\ \A p, c : Queued(p, c)' => Queued(p, c)
  BY DEF TimeoutFires, PingFires, Queued
<1>2. QED
  BY <1>1, TimersHandled, HandledOrderly

\* A harmless step outside the plugin thread keeps the order.
LEMMA HarmlessOrderly ==
  ASSUME SessionInv, OrderlyInv, Still, Harmless
  PROVE  OrderlyInv' /\ (ConnectedInv /\ "dcError" \notin Faults => ConnectedInv')
<1>1. \A p, c : Queued(p, c)' =>
        \/ Queued(p, c)
        \/ p \in HarmlessOps /\ (p = "dcError" => "dcError" \in Faults)
  <2>1. CASE UNCHANGED tasks
    BY <2>1 DEF Queued
  <2>2. CASE ~UNCHANGED tasks
    <3>1. PICK op \in HarmlessOps, c \in Chan :
            /\ tasks' = Append(tasks, OnChannel(op, c))
            /\ op = "dcError" => "dcError" \in Faults
      BY <2>2 DEF Harmless
    <3>2. op \in TaskOps
      BY DEF HarmlessOps
    <3>3. \A p, d : Queued(p, d)' <=> Queued(p, d) \/ (p = op /\ d = c)
      BY <3>1, <3>2, Invariants, AppendEffect
    <3>4. QED
      BY <3>1, <3>3
  <2>3. QED
    BY <2>1, <2>2
<1>2. \A p \in {"pcDown", "outClosed", "inClosed"} : \A c : Queued(p, c)' => Queued(p, c)
  BY <1>1 DEF HarmlessOps
<1>3. OrderlyInv'
  <2>1. \A c \in Chan : ~Has(s'.exec, Receive(c, FALSE))
    BY DEF Still, OrderlyInv
  <2>2. \A c \in Chan : ~Queued("pcDown", c)'
    BY <1>2 DEF OrderlyInv
  <2>3. \A c \in Chan : \A op \in {"outClosed", "inClosed"} :
          Queued(op, c)' => Queued(op, c)
    BY <1>2
  <2>4. Tidy(s') /\ (Active(s') => Active(s) /\ env'.pc = "open")
    BY StillEffect DEF OrderlyInv, Harmless
  <2>5. QED
    BY <2>1, <2>2, <2>3, <2>4, StillEffect, OrderlyStep DEF Still, Harmless
<1>4. ConnectedInv /\ "dcError" \notin Faults => ConnectedInv'
  BY <1>1, StillEffect DEF ConnectedInv
<1>5. QED
  BY <1>3, <1>4

\* In an orderly session an open channel is one that nothing makes close.
LEMMA ChannelOpenUsable ==
  ASSUME SessionInv, OrderlyInv, NEW c \in Chan, ChannelOpen(s, c)
  PROVE  Usable(c)
<1>1. s.cref[c] \in Nat /\ s.cref[c] # 0
  BY Invariants, SessionFields DEF Fits, Whole, ChannelOpen
<1>2. Active(s) /\ ~s.pcClose /\ env.pc = "open"
  BY DEF OrderlyInv, Tidy
<1>3. QED
  BY <1>1, <1>2 DEF Usable, ChannelLive, ChannelOpen

\* The client and the peer connection end channels that were told to close.
LEMMA EndOrderly ==
  ASSUME SessionInv, OrderlyInv, {"dcClosed", "pcFailed"} \cap Faults = {},
         \/ PcDown \/ PcClose
         \/ \E c \in Data : PcDataChannel(c) \/ InClose(c)
         \/ \E c \in Chan : OutClose(c)
  PROVE  OrderlyInv' /\ (ConnectedInv => ConnectedInv')
<1>1. s' = s /\ env \in EnvState
  BY AlikeSelf DEF PcDown, PcClose, PcDataChannel, InClose, OutClose, Report, Event
<1>2. Tidy(s) /\ (Active(s) => env.pc = "open")
  BY DEF OrderlyInv
<1>3. ASSUME NEW op \in {"pcClosed", "dataChannel", "outClosed", "inClosed"},
             NEW c \in Chan,
             tasks' = Append(tasks, OnChannel(op, c)) \/ UNCHANGED tasks,
             Active(s) => env'.pc = "open",
             Unknown(s) => \A d \in Data : env'.in[d] = env.in[d],
             op \in {"outClosed", "inClosed"} => ~ChannelOpen(s, c) /\ ~Unknown(s)
      PROVE  OrderlyInv' /\ (ConnectedInv => ConnectedInv')
  <2>1. \A p, d : Queued(p, d)' => Queued(p, d) \/ (p = op /\ d = c)
    <3>1. op \in TaskOps
      BY DEF TaskOps
    <3>2. CASE UNCHANGED tasks
      BY <3>2 DEF Queued
    <3>3. QED
      BY <1>3, <3>1, <3>2, Invariants, AppendEffect
  <2>2. /\ \A d \in Chan : ~Queued("pcDown", d)'
        /\ \A d \in Chan : ~Queued("dcError", d) => ~Queued("dcError", d)'
        /\ \A d \in Chan : \A p \in {"outClosed", "inClosed"} :
             Queued(p, d)' => Queued(p, d) \/ (~ChannelOpen(s, d) /\ ~Unknown(s))
    <3>1. \A d \in Chan : ~Queued("pcDown", d)'
      <4>1. \A d \in Chan : Queued("pcDown", d)' => Queued("pcDown", d)
        BY <2>1
      <4>2. QED
        BY <4>1 DEF OrderlyInv
    <3>2. \A d \in Chan : ~Queued("dcError", d) => ~Queued("dcError", d)'
      BY <2>1
    <3>3. ASSUME NEW d \in Chan, NEW p \in {"outClosed", "inClosed"}, Queued(p, d)'
          PROVE  Queued(p, d) \/ (~ChannelOpen(s, d) /\ ~Unknown(s))
      BY <1>3, <2>1, <3>3
    <3>4. QED
      BY <3>1, <3>2, <3>3
  <2>3. \A d \in Chan : ~Has(s'.exec, Receive(d, FALSE))
    BY <1>1 DEF OrderlyInv
  <2>4. OrderlyInv'
    BY <1>1, <1>2, <1>3, <2>2, <2>3, OrderlyStep
  <2>5. ConnectedInv => ConnectedInv'
    BY <1>1, <2>2 DEF ConnectedInv
  <2>6. QED
    BY <2>4, <2>5
<1>4. CASE PcDown
  BY <1>4 DEF PcDown
<1>5. CASE PcClose
  <2>1. /\ \E x : env' = [env EXCEPT !.pc = x]
        /\ s.pcClose \/ env.pc = "down"
        /\ tasks' = Append(tasks, OnChannel("pcClosed", 0)) \/ UNCHANGED tasks
    BY <1>5, TaskIdentity DEF PcClose, Report, Event, Submits, Refused
  <2>2. env'.in = env.in
    BY <1>1, <2>1 DEF EnvState
  <2>3. ~Active(s)
    BY <1>2, <2>1 DEF Tidy
  <2>4. QED
    BY <1>3, <2>1, <2>2, <2>3, Channels
<1>6. CASE \E c \in Data : PcDataChannel(c)
  <2>1. PICK c \in Data : PcDataChannel(c)
    BY <1>6
  <2>2. /\ env' = [env EXCEPT !.in[c] = "open"] /\ s.answered
        /\ tasks' = Append(tasks, OnChannel("dataChannel", c)) \/ UNCHANGED tasks
    BY <2>1 DEF PcDataChannel, Report, Event, Submits, Refused
  <2>3. env'.pc = env.pc
    BY <1>1, <2>2 DEF EnvState
  <2>4. ~Unknown(s)
    BY <2>2 DEF OrderlyInv
  <2>5. QED
    BY <1>2, <1>3, <2>2, <2>3, <2>4, Channels
<1>7. CASE \E c \in Data : InClose(c)
  <2>1. PICK c \in Data : InClose(c)
    BY <1>7
  <2>2. /\ env' = [env EXCEPT !.in[c] = "closed"] /\ env.in[c] = "open"
        /\ tasks' = Append(tasks, OnChannel("inClosed", c)) \/ UNCHANGED tasks
    BY <2>1 DEF InClose, Report, Event, Submits, Refused
  <2>3. env'.pc = env.pc
    BY <1>1, <2>2 DEF EnvState
  <2>4. ~Unknown(s)
    BY <2>2 DEF OrderlyInv
  <2>5. ~ChannelOpen(s, c)
    <3>1. s.pcClose \/ env.pc # "open" \/ ~Usable(c)
      BY <2>1 DEF InClose
    <3>2. ~ChannelOpen(s, c) \/ ~Usable(c)
      BY <1>2, <3>1, Channels DEF Tidy
    <3>3. ASSUME ChannelOpen(s, c) PROVE Usable(c)
      BY <1>2, <3>3, ChannelOpenUsable, Channels
    <3>4. QED
      BY <3>2, <3>3
  <2>6. QED
    BY <1>2, <1>3, <2>2, <2>3, <2>4, <2>5, Channels
<1>8. CASE \E c \in Chan : OutClose(c)
  <2>1. PICK c \in Chan : OutClose(c)
    BY <1>8
  <2>2. /\ env' = [env EXCEPT !.out[c] = "closed"] /\ ChannelLive(s, c) /\ ~Usable(c)
        /\ tasks' = Append(tasks, OnChannel("outClosed", c)) \/ UNCHANGED tasks
    BY <2>1 DEF OutClose, Report, Event, Submits, Refused
  <2>3. env'.pc = env.pc /\ env'.in = env.in
    BY <1>1, <2>2 DEF EnvState
  <2>4. ~ChannelOpen(s, c)
    BY <2>2, ChannelOpenUsable
  <2>5. ~Unknown(s)
    <3>1. c \in LiveChannels(s)
      BY <2>2 DEF LiveChannels
    <3>2. QED
      BY <3>1, Invariants DEF Fits, Whole, Unknown
  <2>6. QED
    BY <1>2, <1>3, <2>2, <2>3, <2>4, <2>5
<1>9. QED
  BY <1>4, <1>5, <1>6, <1>7, <1>8
-----------------------------------------------------------------------------
(***************************************************************************)
(* The invariants hold, and what follows from them.                        *)
(***************************************************************************)
OrderlyFaults == {"dcClosed", "pcFailed"} \cap Faults = {}

\* The order holds initially.
LEMMA OrderlyInit == Init => OrderlyInv /\ ConnectedInv
<1> SUFFICES ASSUME Init PROVE OrderlyInv /\ ConnectedInv
  OBVIOUS
<1>1. /\ s.flags = {"ACTIVE", "WS_ACTIVE", "PC_ACTIVE"} /\ s.table = {}
      /\ s.system = FALSE /\ s.pcClose = FALSE /\ s.answered = FALSE /\ s.exec = <<>>
      /\ s.cflags = [c \in Chan |-> {}] /\ tasks = <<>>
      /\ env.pc = "open" /\ env.in = [c \in Data |-> "none"]
  BY DEF Init
<1>2. \A c \in Chan : ~ChannelOpen(s, c)
  BY <1>1 DEF ChannelOpen
<1>3. OwnedChannels(s) = {}
  BY <1>1 DEF OwnedChannels
<1>4. \A x : ~Has(tasks, x) /\ ~Has(s.exec, x)
  BY <1>1 DEF Has
<1>5. Tidy(s) /\ Wide(s)
  BY <1>1, <1>2, <1>3 DEF Tidy, Wide, Active
<1>6. QED
  BY <1>1, <1>2, <1>4, <1>5 DEF OrderlyInv, ConnectedInv, Queued

\* Without closes and failures of libdatachannel that nobody asked for, every step
\* keeps the order.
LEMMA OrderlyKept ==
  ASSUME SessionInv, OrderlyInv, OrderlyFaults, [Next]_vars
  PROVE  /\ OrderlyInv'
         /\ ConnectedInv /\ "dcError" \notin Faults => ConnectedInv'
<1>1. CASE RunTask
  BY <1>1, RunTaskOrderly
<1>2. CASE TimeoutFires \/ PingFires
  BY <1>2, TimersOrderly
<1>3. CASE NativeThread \/ Host
  BY <1>3, OutsideStill, NativeHarmless, HostHarmless, HarmlessOrderly
<1>4. CASE Environment
  <2>1. \/ Harmless
        \/ PcDown \/ PcClose
        \/ \E c \in Data : PcDataChannel(c) \/ InClose(c)
        \/ \E c \in Chan : OutClose(c)
    BY <1>4, ReportHarmless DEF Environment
  <2>2. QED
    BY <1>4, <2>1, OutsideStill, HarmlessOrderly, EndOrderly DEF OrderlyFaults
<1>5. CASE UNCHANGED vars
  BY <1>5 DEF vars, OrderlyInv, ConnectedInv, Queued
<1>6. QED
  BY <1>1, <1>2, <1>3, <1>4, <1>5 DEF Next

\* The order holds in every reachable state.
LEMMA OrderlyInvHolds ==
  ASSUME OrderlyFaults
  PROVE  Spec => []OrderlyInv
<1>1. SessionInv /\ OrderlyInv /\ [Next]_vars => OrderlyInv'
  BY OrderlyKept
<1>2. QED
  BY <1>1, OrderlyInit, SessionInvHolds, PTL DEF Spec

\* And what the connected flag says, if channels do not fail.
LEMMA ConnectedInvHolds ==
  ASSUME OrderlyFaults, "dcError" \notin Faults
  PROVE  Spec => []ConnectedInv
<1>1. SessionInv /\ OrderlyInv /\ ConnectedInv /\ [Next]_vars => ConnectedInv'
  BY OrderlyKept
<1>2. QED
  BY <1>1, OrderlyInit, SessionInvHolds, OrderlyInvHolds, PTL DEF Spec

\* The application is never handed a message without a native session
\* (channel.c:201, channel-plugin.c:140), when clients do not close single data
\* channels and peer connections do not fail: such a close takes an open channel
\* from the array, where closing the session does not find it.
THEOREM MessagesHaveTheirSession ==
  ASSUME OrderlyFaults PROVE Spec => []NoNullReceive
<1>1. ASSUME SessionInv, OrderlyInv PROVE NoNullReceive
  <2> SUFFICES ASSUME NEW j \in CommandsOf("receive"), ~s.exec[j].handle PROVE FALSE
    BY DEF NoNullReceive
  <2>1. j \in 1 .. Len(s.exec) /\ s.exec[j].op = "receive"
    BY DEF CommandsOf
  <2>2. s.exec[j] \in Commands
    BY <1>1, <2>1, Invariants, SessionFields
  <2>3. s.exec[j].c \in Chan /\ s.exec[j].handle = FALSE
    BY <2>2 DEF Commands
  <2>4. s.exec[j] = Receive(s.exec[j].c, FALSE)
    BY <2>1, <2>2, <2>3 DEF Commands, Receive
  <2>5. Has(s.exec, Receive(s.exec[j].c, FALSE))
    BY <2>1, <2>4 DEF Has
  <2>6. QED
    BY <1>1, <2>3, <2>5 DEF OrderlyInv
<1>2. QED
  BY <1>1, SessionInvHolds, OrderlyInvHolds, PTL

\* CONNECTED is the truth (session.c:671-687): the native session lives and every
\* channel accepts messages, when no data channel fails either.
THEOREM ConnectedIsTrue ==
  ASSUME OrderlyFaults, "dcError" \notin Faults
  PROVE  Spec => ConnectedMeansReceiving
<1> DEFINE Told == "CONNECTED" \in s'.sent \ s.sent =>
             /\ s'.native
             /\ env.native = "alive"
             /\ \A c \in Data : {"DC_ACTIVE", "DC_RECEIVE"} \subseteq s'.cflags[c]
<1>1. ASSUME SessionInv, OrderlyInv, ConnectedInv, [Next]_vars PROVE Told
  <2> SUFFICES ASSUME "CONNECTED" \in s'.sent \ s.sent
               PROVE  /\ s'.native
                      /\ env.native = "alive"
                      /\ \A c \in Data : {"DC_ACTIVE", "DC_RECEIVE"} \subseteq s'.cflags[c]
    OBVIOUS
  <2>1. OnNativeCreated
    <3>1. ~Still /\ ~Handled /\ s' # s
      BY DEF Still, Handled, Serves
    <3>2. QED
      BY <1>1, <3>1, RunTaskHandled, TimersHandled, OutsideStill DEF Next, vars
  <2>2. /\ s.table = Data /\ "WS_ACTIVE" \in s.flags /\ env.native = "alive"
        /\ \A c \in Chan : ChannelLive(s, c) => "DC_RECEIVE" \in s'.cflags[c]
        /\ \A c \in Chan : ChannelOpen(s, c) => ChannelOpen(s', c)
        /\ Active(s') <=> Active(s)
        /\ s'.native \/ ~Active(s')
    BY <1>1, <2>1, OnNativeCreatedEffect
  <2>3. Active(s)
    BY <1>1, <2>2 DEF OrderlyInv, Tidy
  <2>4. ASSUME NEW c \in Data PROVE {"DC_ACTIVE", "DC_RECEIVE"} \subseteq s'.cflags[c]
    <3>1. c \in Chan /\ ChannelOpen(s, c)
      BY <1>1, <2>2, <2>3, Channels DEF ConnectedInv, Wide, OwnedChannels
    <3>2. ChannelLive(s, c)
      <4>1. s.cref[c] \in Nat /\ s.cref[c] # 0
        BY <1>1, <3>1, Invariants, SessionFields DEF Fits, Whole, ChannelOpen
      <4>2. QED
        BY <4>1 DEF ChannelLive
    <3>3. QED
      BY <2>2, <3>1, <3>2 DEF ChannelOpen
  <2>5. QED
    BY <2>2, <2>3, <2>4
<1>2. ASSUME SessionInv, OrderlyInv, ConnectedInv, [Next]_vars PROVE [Told]_vars
  BY <1>1, <1>2
<1>3. Spec => [][Told]_vars
  BY <1>2, SessionInvHolds, OrderlyInvHolds, ConnectedInvHolds, PTL DEF Spec
<1>4. QED
  BY <1>3 DEF ConnectedMeansReceiving
-----------------------------------------------------------------------------
(***************************************************************************)
(* The session implements SessionLife, as long as the executor takes        *)
(* commands.                                                               *)
(***************************************************************************)
\* How far the native session is, by what the native library has made of it.
Stages ==
  /\ env.native = "none" => Native = IF Has(s.exec, Create) THEN "asked" ELSE "none"
  /\ env.native = "failed" =>
       Native = IF Queued("createFailed", 0) THEN "refused" ELSE "over"
  /\ env.native = "alive" =>
       Native = IF s.native THEN "attached"
                ELSE IF Has(s.exec, Destroy) THEN "ending" ELSE "answered"
  /\ env.native = "dead" => Native = "over"
  /\ env.native = "orphan" => Native = "answered"
  /\ env.native = "lost" => Native = "refused"
  /\ Native \in Life!Natives

\* A task that belongs to no channel is queued as a task of channel 0.
LEMMA PlainTask ==
  ASSUME SessionInv, NEW op \in TaskOps \ ChannelOps
  PROVE  Queued(op, 0) <=> TasksOf(tasks, {op}) # {}
<1>1. ASSUME Queued(op, 0) PROVE TasksOf(tasks, {op}) # {}
  BY <1>1, TaskIdentity DEF Queued, Has, TasksOf
<1>2. ASSUME NEW i \in TasksOf(tasks, {op}) PROVE Queued(op, 0)
  <2>1. i \in 1 .. Len(tasks) /\ tasks[i].op = op
    BY DEF TasksOf
  <2>2. tasks[i] \in TaskRecords /\ Has(tasks, tasks[i])
    BY <2>1, Invariants DEF Has
  <2>3. tasks[i].c = 0
    BY <2>1, <2>2, Invariants DEF QueueFits
  <2>4. tasks[i] = OnChannel(op, 0)
    BY <2>1, <2>2, <2>3, TaskTypes
  <2>5. QED
    BY <2>1, <2>4 DEF Queued, Has
<1>3. QED
  BY <1>1, <1>2

\* Creation and destruction are commands of one form each.
LEMMA PlainCommand ==
  ASSUME SessionInv
  PROVE  /\ Has(s.exec, Create) <=> CommandsOf("create") # {}
         /\ Has(s.exec, Destroy) <=> CommandsOf("destroy") # {}
<1>1. Has(s.exec, Create) => CommandsOf("create") # {}
  BY DEF Has, CommandsOf, Create
<1>2. Has(s.exec, Destroy) => CommandsOf("destroy") # {}
  BY DEF Has, CommandsOf, Destroy
<1>3. ASSUME NEW op \in {"create", "destroy"}, NEW i \in CommandsOf(op)
      PROVE  /\ op = "create" => Has(s.exec, Create)
             /\ op = "destroy" => Has(s.exec, Destroy)
  <2>1. i \in 1 .. Len(s.exec) /\ s.exec[i].op = op
    BY DEF CommandsOf
  <2>2. s.exec[i] \in Commands /\ Has(s.exec, s.exec[i])
    <3>1. s.exec \in Seq(Commands)
      BY Invariants, SessionFields
    <3>2. QED
      BY <2>1, <3>1 DEF Has
  <2>3. s.exec[i] \in {Create, Destroy}
    BY <2>1, <2>2, Invariants DEF QueueFits
  <2>4. Create.op = "create" /\ Destroy.op = "destroy"
    BY DEF Create, Destroy
  <2>5. QED
    BY <2>1, <2>2, <2>3, <2>4
<1>4. QED
  BY <1>1, <1>2, <1>3

\* The life of the native session, from the question to its destruction.
LEMMA NativeStages == SessionInv => Stages
<1> SUFFICES ASSUME SessionInv PROVE Stages
  OBVIOUS
<1>1. Queued("createFailed", 0) <=> TasksOf(tasks, {"createFailed"}) # {}
  BY PlainTask DEF TaskOps, ChannelOps
<1>2. s.native \in BOOLEAN
  BY Invariants, SessionFields
<1>3. /\ CommandsOf("create") # {} => env.native = "none"
      /\ TasksOf(tasks, {"createFailed"}) # {} => env.native = "failed"
      /\ s.native => env.native = "alive" /\ CommandsOf("destroy") = {}
      /\ CommandsOf("destroy") # {} => env.native = "alive"
  BY <1>1, PlainCommand, Invariants DEF NativeFits
<1>4. Native \in Life!Natives
  BY DEF Native, Life!Natives
<1>5. CASE env.native = "none"
  BY <1>2, <1>3, <1>4, <1>5, PlainCommand DEF Native, Stages
<1>6. CASE env.native = "failed"
  BY <1>1, <1>2, <1>3, <1>4, <1>6 DEF Native, Stages
<1>7. CASE env.native = "alive"
  BY <1>2, <1>3, <1>4, <1>7, PlainCommand DEF Native, Stages
<1>8. CASE env.native = "dead"
  BY <1>2, <1>3, <1>4, <1>8 DEF Native, Stages
<1>9. CASE env.native \in {"orphan", "lost"}
  BY <1>2, <1>3, <1>4, <1>9 DEF Native, Stages
<1>10. env.native \in {"none", "alive", "failed", "dead", "orphan", "lost"}
  BY Invariants DEF Types, EnvState
<1>11. QED
  BY <1>5, <1>6, <1>7, <1>8, <1>9, <1>10

\* Also of the next state.
LEMMA NextStages == SessionInv' => Stages'
  BY NativeStages, PTL

\* A step of the abstract session, while the process runs.
LEMMA LifeSteps ==
  ASSUME s.fault = "none", s'.fault = "none",
         \/ Life!Ask \/ Life!Answer \/ Life!Attach \/ Life!GiveUp \/ Life!Refused
         \/ Life!Close \/ Life!Release \/ Life!Destroy
  PROVE  Life!Next
  BY DEF Life!Next, Life!Runs

\* While the commands, the answer and the handle are the same, the native session
\* is as far.
LEMMA SameStage ==
  ASSUME SessionInv, Stages, Stages', env'.native = env.native,
         s'.native <=> s.native,
         Has(s'.exec, Create) <=> Has(s.exec, Create),
         Has(s'.exec, Destroy) <=> Has(s.exec, Destroy),
         Queued("createFailed", 0)' <=> Queued("createFailed", 0)
  PROVE  Native' = Native
  BY Invariants DEF Stages, Types, EnvState

\* A handler, but those of the answers.
LEMMA HandledLives ==
  ASSUME SessionInv, SessionInv', Stages, Stages', s.executor, Handled, env' = env,
         s.fault = "none", s'.fault = "none",
         Queued("createFailed", 0)' <=> Queued("createFailed", 0)
  PROVE  Life!Next \/ UNCHANGED Life!vars
<1>1. s.exec \in Seq(Commands) /\ s.native \in BOOLEAN
  BY Invariants, SessionFields
<1>2. s'.native \in BOOLEAN
  BY SessionFields DEF SessionInv, Types
<1>3. \A x \in Commands : \A y :
        s'.exec = Append(s.exec, x) => (Has(s'.exec, y) <=> Has(s.exec, y) \/ y = x)
  BY <1>1, HasAppend
<1>4. Serves(s, s')
  BY DEF Handled
<1>5. CASE /\ Native' = Native /\ (s'.native <=> s.native)
  <2>1. CASE Active(s') <=> Active(s)
    BY <1>5, <2>1 DEF Life!vars, Active
  <2>2. CASE ~(Active(s') <=> Active(s))
    <3>1. Active(s) /\ ~Active(s') /\ ~s'.native
      BY <1>4, <2>2 DEF Serves
    <3>2. Native # "attached"
      BY <1>5, <3>1, Invariants DEF Stages, Types, EnvState
    <3>3. Life!Close
      BY <1>5, <3>1, <3>2 DEF Life!Close
    <3>4. QED
      BY <3>3, LifeSteps
  <2>3. QED
    BY <2>1, <2>2
<1>6. CASE s'.exec = s.exec /\ (s'.native <=> s.native)
  BY <1>5, <1>6, SameStage
<1>7. CASE s'.exec = EndQueue(s) /\ s.native /\ ~s'.native
  <2>1. env.native = "alive" /\ s'.exec = Append(s.exec, Destroy) /\ ~Active(s')
    BY <1>4, <1>7, Invariants DEF NativeFits, EndQueue, Serves
  <2>2. Has(s'.exec, Destroy)
    BY <1>3, <2>1, CommandTypes
  <2>3. Native = "attached" /\ Native' = "ending"
    BY <1>7, <2>1, <2>2 DEF Stages
  <2>4. Life!Close \/ Life!Release
    BY <2>1, <2>3 DEF Life!Close, Life!Release, Active
  <2>5. QED
    BY <2>4, LifeSteps
<1>8. CASE /\ s'.exec = Append(s.exec, Create) /\ (s'.native <=> s.native)
           /\ Active(s') <=> Active(s)
  <2>1. Has(s'.exec, Create) /\ Single(s'.exec, Create)
    BY <1>3, <1>8, CommandTypes DEF SessionInv, QueueFits
  <2>2. env.native = "none"
    BY <2>1 DEF SessionInv, NativeFits
  <2>3. ~Has(s.exec, Create)
    <3> SUFFICES ASSUME NEW i \in 1 .. Len(s.exec), s.exec[i] = Create PROVE FALSE
      BY DEF Has
    <3>1. /\ Len(s.exec) \in Nat /\ Len(s'.exec) = Len(s.exec) + 1
          /\ s'.exec[i] = Create /\ s'.exec[Len(s.exec) + 1] = Create
      BY <1>1, <1>8, CommandTypes
    <3>2. QED
      BY <2>1, <3>1 DEF Single
  <2>4. Native = "none" /\ Native' = "asked"
    BY <2>1, <2>2, <2>3 DEF Stages
  <2>5. Life!Ask
    BY <1>8, <2>4 DEF Life!Ask, Active
  <2>6. QED
    BY <2>5, LifeSteps
<1>9. CASE /\ s'.native <=> s.native
           /\ \E c \in Chan : s'.exec = Append(s.exec, Receive(c, s.native))
  <2>1. PICK c \in Chan : s'.exec = Append(s.exec, Receive(c, s.native))
    BY <1>9
  <2>2. /\ Has(s'.exec, Create) <=> Has(s.exec, Create)
        /\ Has(s'.exec, Destroy) <=> Has(s.exec, Destroy)
    BY <1>1, <1>3, <2>1, CommandTypes, CommandIdentity
  <2>3. QED
    BY <1>5, <1>9, <2>2, SameStage
<1>10. QED
  BY <1>6, <1>7, <1>8, <1>9 DEF Handled, Commanded

\* The answers.
LEMMA RefusedLives ==
  ASSUME SessionInv, Stages, Stages', OnNativeRefused, s'.fault = "none"
  PROVE  Life!Next
<1>1. Taken("createFailed", 0) /\ env' = env /\ s.fault = "none"
  BY Invariants, TakesTaken DEF OnNativeRefused, ChannelOps, Takes, Running
<1>2. Queued("createFailed", 0) /\ ~Queued("createFailed", 0)'
  BY <1>1, Invariants, TakeEffect DEF QueueFits, Plain, OnChannel
<1>3. env.native = "failed" /\ Live(s) /\ Holders >= 1
  BY <1>2, Invariants, HeldIsLive DEF NativeFits, Asking
<1>4. ~Active(s')
  <2>1. s' = SessionUnref(SessionClose(s), 1)
    BY <1>3 DEF OnNativeRefused
  <2>2. QED
    BY <1>3, <2>1, Invariants, CloseUnrefServes
<1>5. Native = "refused" /\ Native' = "over"
  BY <1>1, <1>2, <1>3 DEF Stages
<1>6. Life!Refused
  BY <1>4, <1>5 DEF Life!Refused
<1>7. QED
  BY <1>1, <1>6, LifeSteps

\* The answer to a creation is a step of SessionLife: the answer is taken.
LEMMA CreatedLives ==
  ASSUME SessionInv, Stages, Stages', s.executor, OnNativeCreated, s'.fault = "none"
  PROVE  Life!Next
<1>1. Taken("created", 0) /\ env' = env /\ s.fault = "none"
  BY Invariants, TakesTaken DEF OnNativeCreated, ChannelOps, Takes, Running
<1>2. Queued("created", 0) /\ s.exec \in Seq(Commands)
  BY <1>1, Invariants, TakeEffect, SessionFields
<1>3. ~s.native /\ env.native = "alive" /\ ~Has(s.exec, Destroy)
  BY <1>2, Invariants DEF NativeFits
<1>4. Native = "answered"
  BY <1>3 DEF Stages
<1>5. Active(s') <=> Active(s)
  BY OnNativeCreatedEffect
<1>6. CASE s'.native
  <2>1. Native' = "attached"
    BY <1>1, <1>3, <1>6 DEF Stages
  <2>2. Life!Attach
    BY <1>4, <1>5, <2>1 DEF Life!Attach, Active
  <2>3. QED
    BY <1>1, <2>2, LifeSteps
<1>7. CASE ~s'.native
  <2>1. ~Active(s') /\ s'.exec = Append(s.exec, Destroy)
    BY <1>7, OnNativeCreatedEffect
  <2>2. Has(s'.exec, Destroy)
    BY <1>2, <2>1, HasAppend, CommandTypes
  <2>3. Native' = "ending"
    BY <1>1, <1>3, <1>7, <2>2 DEF Stages
  <2>4. Life!GiveUp
    BY <1>4, <1>5, <2>1, <2>3 DEF Life!GiveUp, Active
  <2>5. QED
    BY <1>1, <2>4, LifeSteps
<1>8. QED
  BY <1>6, <1>7

\* The native thread answers, and destroys the native session.
LEMMA NativeThreadLives ==
  ASSUME SessionInv, Stages, Stages', NativeCreate \/ NativeDestroy,
         s'.fault = "none"
  PROVE  Life!Next
<1>1. /\ Active(s') <=> Active(s)
      /\ s'.native = s.native
      /\ \A x : Has(s'.exec, x) => Has(s.exec, x)
  BY OutsideStill, StillEffect DEF NativeThread, Still
<1>2. s.fault = "none" /\ env \in EnvState
  BY AlikeSelf DEF NativeCreate, NativeDestroy, Command, Running
<1>3. CASE NativeCreate
  <2>1. Has(s.exec, Create)
    BY <1>3, CommandEffect DEF NativeCreate
  <2>2. env.native = "none" /\ ~s.native /\ ~Has(s.exec, Destroy)
    BY <2>1, Invariants DEF NativeFits
  <2>3. Native = "asked"
    BY <2>1, <2>2 DEF Stages
  <2>4. CASE env' = [env EXCEPT !.native = "alive"]
    <3>1. env'.native = "alive"
      BY <1>2, <2>4 DEF EnvState
    <3>2. Native' = "answered"
      BY <1>1, <2>2, <3>1 DEF Stages
    <3>3. QED
      BY <1>1, <1>2, <2>3, <3>2, LifeSteps DEF Life!Answer, Active
  <2>5. CASE env' = [env EXCEPT !.native = "failed"] /\ Submits(Plain("createFailed"))
    <3>1. env'.native = "failed"
      BY <1>2, <2>5 DEF EnvState
    <3>2. tasks' = Append(tasks, OnChannel("createFailed", 0))
      BY <2>5, TaskIdentity DEF Submits
    <3>3. Queued("createFailed", 0)'
      BY <3>2, Invariants, Channels, AppendEffect DEF TaskOps
    <3>4. Native' = "refused"
      BY <3>1, <3>3 DEF Stages
    <3>5. QED
      BY <1>1, <1>2, <2>3, <3>4, LifeSteps DEF Life!Answer, Active
  <2>6. CASE env' = [env EXCEPT !.native = "orphan"]
    <3>1. env'.native = "orphan"
      BY <1>2, <2>6 DEF EnvState
    <3>2. Native' = "answered"
      BY <3>1 DEF Stages
    <3>3. QED
      BY <1>1, <1>2, <2>3, <3>2, LifeSteps DEF Life!Answer, Active
  <2>7. CASE env' = [env EXCEPT !.native = "lost"]
    <3>1. env'.native = "lost"
      BY <1>2, <2>7 DEF EnvState
    <3>2. Native' = "refused"
      BY <3>1 DEF Stages
    <3>3. QED
      BY <1>1, <1>2, <2>3, <3>2, LifeSteps DEF Life!Answer, Active
  <2>8. QED
    BY <1>3, <2>4, <2>5, <2>6, <2>7 DEF NativeCreate, Refused
<1>4. CASE NativeDestroy
  <2>1. Has(s.exec, Destroy)
    BY <1>4, CommandEffect DEF NativeDestroy
  <2>2. env.native = "alive" /\ ~s.native
    BY <2>1, Invariants DEF NativeFits
  <2>3. Native = "ending"
    BY <2>1, <2>2 DEF Stages
  <2>4. env'.native = "dead"
    BY <1>2, <1>4 DEF NativeDestroy, EnvState
  <2>5. Native' = "over"
    BY <2>4 DEF Stages
  <2>6. QED
    BY <1>1, <1>2, <2>3, <2>5, LifeSteps DEF Life!Destroy, Active
<1>5. QED
  BY <1>3, <1>4

\* What else the other threads do is not seen.
LEMMA OutsideStays ==
  ASSUME SessionInv, NativeThread \/ Host \/ Environment
  PROVE  \/ NativeCreate \/ NativeDestroy
         \/ /\ env'.native = env.native
            /\ Queued("createFailed", 0)' <=> Queued("createFailed", 0)
            /\ Has(s'.exec, Create) <=> Has(s.exec, Create)
            /\ Has(s'.exec, Destroy) <=> Has(s.exec, Destroy)
<1> SUFFICES ASSUME ~NativeCreate, ~NativeDestroy
             PROVE  /\ env'.native = env.native
                    /\ Queued("createFailed", 0)' <=> Queued("createFailed", 0)
                    /\ Has(s'.exec, Create) <=> Has(s.exec, Create)
                    /\ Has(s'.exec, Destroy) <=> Has(s.exec, Destroy)
  OBVIOUS
<1>1. \/ UNCHANGED tasks
      \/ \E op \in TaskOps \ {"createFailed"}, c \in Chan : tasks' = Append(tasks, OnChannel(op, c))
  <2>1. CASE Harmless
    BY <2>1 DEF Harmless, HarmlessOps
  <2>2. CASE PcDown \/ PcClose
    <3>1. \/ tasks' = Append(tasks, OnChannel("pcDown", 0))
          \/ tasks' = Append(tasks, OnChannel("pcClosed", 0))
          \/ UNCHANGED tasks
      BY <2>2, TaskIdentity DEF PcDown, PcClose, Report, Event, Submits, Refused
    <3>2. QED
      BY <3>1, Channels, EndKinds
  <2>3. CASE \/ \E c \in Data : PcDataChannel(c) \/ InClose(c)
             \/ \E c \in Chan : OutClose(c)
    <3>1. PICK c \in Chan :
            \/ tasks' = Append(tasks, OnChannel("dataChannel", c))
            \/ tasks' = Append(tasks, OnChannel("inClosed", c))
            \/ tasks' = Append(tasks, OnChannel("outClosed", c))
            \/ UNCHANGED tasks
      BY <2>3, Channels DEF PcDataChannel, InClose, OutClose, Report, Event, Submits, Refused
    <3>2. QED
      BY <3>1, EndKinds
  <2>4. QED
    BY <2>1, <2>2, <2>3, NativeHarmless, HostHarmless, ReportHarmless DEF Environment
<1>2. env'.native = env.native
  <2>1. CASE Harmless
    BY <2>1 DEF Harmless
  <2>2. CASE PcDown \/ PcClose
    <3>1. \E x : env' = [env EXCEPT !.pc = x]
      BY <2>2 DEF PcDown, PcClose, Report, Refused
    <3>2. QED
      BY <3>1, AlikeSelf DEF EnvState
  <2>3. CASE \/ \E c \in Data : PcDataChannel(c) \/ InClose(c)
             \/ \E c \in Chan : OutClose(c)
    <3>1. \/ \E x : env' = [env EXCEPT !.in = x]
          \/ \E x : env' = [env EXCEPT !.out = x]
      BY <2>3 DEF PcDataChannel, InClose, OutClose, Report, Refused
    <3>2. QED
      BY <3>1, AlikeSelf DEF EnvState
  <2>4. QED
    BY <2>1, <2>2, <2>3, NativeHarmless, HostHarmless, ReportHarmless DEF Environment
<1>3. Queued("createFailed", 0)' <=> Queued("createFailed", 0)
  <2>1. CASE UNCHANGED tasks
    BY <2>1 DEF Queued
  <2>2. ASSUME NEW op \in TaskOps \ {"createFailed"}, NEW c \in Chan,
               tasks' = Append(tasks, OnChannel(op, c))
        PROVE  Queued("createFailed", 0)' <=> Queued("createFailed", 0)
    BY <2>2, Invariants, AppendEffect
  <2>3. QED
    BY <1>1, <2>1, <2>2
<1>4. /\ Has(s'.exec, Create) <=> Has(s.exec, Create)
      /\ Has(s'.exec, Destroy) <=> Has(s.exec, Destroy)
  <2>1. CASE NativeReceive
    <3>1. Command("receive")
      BY <2>1 DEF NativeReceive
    <3>2. /\ Head(s.exec) = Receive(Head(s.exec).c, Head(s.exec).handle)
          /\ \A y : Has(s.exec, y) <=> y = Head(s.exec) \/ Has(s'.exec, y)
      BY <3>1, CommandEffect
    <3>3. QED
      BY <3>2, CommandIdentity
  <2>2. CASE Host \/ Environment
    <3>1. s'.exec = s.exec
      BY <2>2, EnvironmentStill, HostExecutor
    <3>2. QED
      BY <3>1
  <2>3. QED
    BY <2>1, <2>2 DEF NativeThread
<1>5. QED
  BY <1>2, <1>3, <1>4

\* The executor takes commands, as one state predicate.
Commanding == s.executor

\* The executor takes commands until the host shuts it down.
LEMMA ExecutorKept ==
  ASSUME SessionInv, s.executor, "executor" \notin Faults, [Next]_vars
  PROVE  s'.executor
<1>1. CASE RunTask
  BY <1>1, RunTaskHandled, OnNativeCreatedEffect DEF Handled, Serves
<1>2. CASE TimeoutFires \/ PingFires
  BY <1>2, TimersHandled DEF Handled, Serves
<1>3. CASE NativeThread
  BY <1>3, CommandStill DEF NativeThread, NativeCreate, NativeDestroy, NativeReceive
<1>4. CASE Host \/ Environment
  BY <1>4, EnvironmentStill, HostExecutor
<1>5. CASE UNCHANGED vars
  BY <1>5 DEF vars
<1>6. QED
  BY <1>1, <1>2, <1>3, <1>4, <1>5 DEF Next

\* Nothing happens once the process has failed.
LEMMA StepsWhileRunning ==
  ASSUME Next
  PROVE  s.fault = "none"
<1>1. CASE RunTask
  BY <1>1, RunTaskTakes DEF OnNativeRefused, Takes, Running
<1>2. CASE TimeoutFires \/ PingFires
  BY <1>2 DEF TimeoutFires, PingFires, Running
<1>3. CASE NativeThread
  BY <1>3 DEF NativeThread, NativeCreate, NativeDestroy, NativeReceive, Command, Running
<1>4. CASE Host
  BY <1>4 DEF Host, NativeDisconnect, NativeSetMode, NativeGetRtt, SocketStop,
              NativeSend, Running
<1>5. CASE Environment
  BY <1>5 DEF Environment, WsMessage, WsClose, PcCandidate, PcDown, PcClose,
              PcDataChannel, PcBadChannel, DcOpen, DcError, OutClose, InClose, DcMessage,
              DcSystemMessage, Event, Report, Running
<1>6. QED
  BY <1>1, <1>2, <1>3, <1>4, <1>5 DEF Next

\* Every step is a step of SessionLife or leaves it as it is.
LEMMA LifeStep ==
  ASSUME SessionInv, SessionInv', Stages, Stages', s.executor, [Next]_vars
  PROVE  [Life!Next]_(Life!vars)
<1>1. CASE UNCHANGED vars
  <2>1. UNCHANGED Life!vars
    BY <1>1 DEF vars, Life!vars, Active, Native, TasksOf, CommandsOf
  <2>2. QED
    BY <2>1
<1>2. CASE Next
  <2>1. s.fault = "none"
    BY <1>2, StepsWhileRunning
  <2>2. CASE s'.fault # "none"
    <3>1. Life!Fail
      BY <2>1, <2>2 DEF Stages, Life!Fail, Active
    <3>2. QED
      BY <3>1 DEF Life!Next
  <2>3. CASE s'.fault = "none" /\ (TimeoutFires \/ PingFires)
    <3>1. env' = env /\ (Queued("createFailed", 0)' <=> Queued("createFailed", 0))
      BY <2>3 DEF TimeoutFires, PingFires, Queued
    <3>2. QED
      BY <2>1, <2>3, <3>1, TimersHandled, HandledLives
  <2>4. CASE s'.fault = "none" /\ RunTask
    <3>1. CASE OnNativeCreated \/ OnNativeRefused
      BY <2>4, <3>1, CreatedLives, RefusedLives
    <3>2. CASE ~OnNativeCreated /\ ~OnNativeRefused
      <4>1. PICK op : Takes(op) /\ op # "createFailed"
        BY <2>4, <3>2, RunTaskTakes
      <4>2. Taken(op, Head(tasks).c) /\ env' = env
        BY <4>1, Invariants, TakesTaken
      <4>3. Queued("createFailed", 0)' <=> Queued("createFailed", 0)
        BY <4>1, <4>2, Invariants, TakeEffect
      <4>4. QED
        BY <2>1, <2>4, <3>2, <4>2, <4>3, RunTaskHandled, HandledLives
    <3>3. QED
      BY <3>1, <3>2
  <2>5. CASE s'.fault = "none" /\ (NativeThread \/ Host \/ Environment)
    <3>1. CASE NativeCreate \/ NativeDestroy
      BY <2>5, <3>1, NativeThreadLives
    <3>2. CASE ~(NativeCreate \/ NativeDestroy)
      <4>1. Active(s') <=> Active(s)
        BY <2>5, OutsideStill, StillEffect
      <4>2. s'.native <=> s.native
        BY <2>5, OutsideStill DEF Still
      <4>3. Native' = Native
        BY <2>5, <3>2, <4>2, OutsideStays, SameStage
      <4>4. UNCHANGED Life!vars
        BY <2>1, <2>5, <4>1, <4>3 DEF Life!vars, Active
      <4>5. QED
        BY <4>4
    <3>3. QED
      BY <3>1, <3>2
  <2>6. QED
    BY <1>2, <2>2, <2>3, <2>4, <2>5 DEF Next
<1>3. QED
  BY <1>1, <1>2

\* The native session is asked for once, its answer is taken, and it is given up
\* when the session is closed, also when that was before the answer
\* (session-plugin.c:11, 176, 256): every step of a session is one of
\* SessionLife, as long as the executor takes commands (what is refused is lost).
THEOREM SessionLives ==
  ASSUME "executor" \notin Faults
  PROVE  Spec => Life!Init /\ [][Life!Next]_(Life!vars)
<1>1. Init => Commanding
  BY DEF Init, Commanding
<1>2. SessionInv /\ Commanding /\ [Next]_vars => Commanding'
  BY ExecutorKept DEF Commanding
<1>3. Spec => []Commanding
  BY <1>1, <1>2, SessionInvHolds, PTL DEF Spec
<1>4. Init => Life!Init
  <2> SUFFICES ASSUME Init PROVE Life!Init
    OBVIOUS
  <2>1. /\ Active(s) = TRUE /\ (s.fault # "none") = FALSE /\ env.native = "none"
        /\ s.exec = <<>>
    BY DEF Init, Active
  <2>2. Stages /\ ~Has(s.exec, Create)
    BY <2>1, SessionInvInit, NativeStages DEF Has
  <2>3. QED
    BY <2>1, <2>2 DEF Life!Init, Stages
<1>5. /\ SessionInv /\ SessionInv' /\ Stages /\ Stages' /\ Commanding /\ [Next]_vars
      => [Life!Next]_(Life!vars)
  BY LifeStep DEF Commanding
<1>6. QED
  BY <1>3, <1>4, <1>5, SessionInvHolds, NativeStages, PTL DEF Spec
=============================================================================
