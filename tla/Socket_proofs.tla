---------------------------- MODULE Socket_proofs ----------------------------
(***************************************************************************)
(* Proofs about the sockets of the plugin, for any finite number of native *)
(* sockets, clients and socket objects, any queue bound and any faults.    *)
(***************************************************************************)
EXTENDS Socket, QueueLemmas, FiniteSetTheorems, TLAPS

\* Only finitely many clients connect in a run.
LEMMA ClientsFinite == IsFiniteSet(Clients)
  BY SocketAssumption

(***************************************************************************)
(* What the functions of the plugin thread do to the record g.             *)
(***************************************************************************)
Records ==
  [ map : [Natives -> Socks \cup {None}],
    sock : [Socks -> SockRecords],
    session : [Clients -> SessionRecords],
    client : [Clients -> ClientRecords] ]

\* Function f with the new value v at x.
Put(f, x, v) == [f EXCEPT ![x] = v]

\* A function stays one of its type when a value of it is set.
LEMMA PutType ==
  ASSUME NEW S, NEW T, NEW f \in [S -> T], NEW x \in S, NEW v \in T
  PROVE  Put(f, x, v) \in [S -> T]
  BY DEF Put

\* The socket objects and the socket map after a reference of k is dropped.
SockDropped(f, k) ==
  Put(f, k, IF f[k].ref = 1 THEN Pooled ELSE [f[k] EXCEPT !.ref = @ - 1])

MapDropped(m, f, k) == IF f[k].ref = 1 THEN Put(m, f[k].native, None) ELSE m

\* socket_unref: the object is emptied with the last reference.
LEMMA SocketUnrefEffect ==
  ASSUME NEW g \in Records, NEW k \in Socks, g.sock[k].ref > 0
  PROVE  /\ SocketUnref(g, k).session = g.session
         /\ SocketUnref(g, k).client = g.client
         /\ SocketUnref(g, k).sock = SockDropped(g.sock, k)
         /\ SocketUnref(g, k).map = MapDropped(g.map, g.sock, k)
<1> DEFINE less == [g EXCEPT !.sock[k].ref = @ - 1]
<1>1. /\ g.sock \in [Socks -> SockRecords] /\ g.sock[k] \in SockRecords
      /\ g.sock[k].ref \in Nat
  BY DEF Records, SockRecords
<1>2. /\ less.sock = Put(g.sock, k, [g.sock[k] EXCEPT !.ref = @ - 1])
      /\ less.map = g.map /\ less.session = g.session /\ less.client = g.client
  BY DEF Records, Put
<1>3. /\ less.sock[k] = [g.sock[k] EXCEPT !.ref = @ - 1]
      /\ less.sock[k] \in SockRecords
      /\ less.sock[k].ref = g.sock[k].ref - 1
      /\ less.sock[k].native = g.sock[k].native
  BY <1>1, <1>2 DEF SockRecords, Put
<1> USE DEF SockDropped, MapDropped
<1> HIDE DEF less
<1>4. CASE g.sock[k].ref # 1
  <2>1. SocketUnref(g, k) = less
    BY <1>1, <1>3, <1>4 DEF SocketUnref, less
  <2>2. QED
    BY <2>1, <1>2, <1>4
<1>5. CASE g.sock[k].ref = 1
  <2> DEFINE clean == SocketCleanup(less, k)
  <2>1. SocketUnref(g, k) = clean
    BY <1>1, <1>3, <1>5 DEF SocketUnref, less
  <2>2. less \in Records
    <3>1. less.sock \in [Socks -> SockRecords]
      BY <1>1, <1>2, <1>3 DEF Put
    <3>2. QED
      BY <3>1 DEF less, Records
  <2>3. /\ clean.session = less.session /\ clean.client = less.client
        /\ clean.map = Put(less.map, less.sock[k].native, None)
        /\ clean.sock = Put(less.sock, k, Pooled)
    BY <2>2 DEF SocketCleanup, Records, Put
  <2>4. clean.sock = Put(g.sock, k, Pooled)
    BY <2>3, <1>1, <1>2 DEF Put
  <2>5. QED
    BY <1>2, <1>3, <1>5, <2>1, <2>3, <2>4
<1>6. QED
  BY <1>4, <1>5

\* The fields of a session record after an assignment to one of them.
LEMMA SessionFields ==
  ASSUME NEW r \in SessionRecords
  PROVE  /\ r = [ref |-> r.ref, active |-> r.active, socket |-> r.socket]
         /\ [r EXCEPT !.active = FALSE]
              = [ref |-> r.ref, active |-> FALSE, socket |-> r.socket]
         /\ [r EXCEPT !.active = FALSE] \in SessionRecords
         /\ \A n \in Nat :
              /\ [r EXCEPT !.ref = n]
                   = [ref |-> n, active |-> r.active, socket |-> r.socket]
              /\ [r EXCEPT !.ref = n] \in SessionRecords
<1>1. ASSUME NEW q \in SessionRecords
      PROVE  q = [ref |-> q.ref, active |-> q.active, socket |-> q.socket]
  BY DEF SessionRecords
<1>2. /\ [r EXCEPT !.active = FALSE] \in SessionRecords
      /\ [r EXCEPT !.active = FALSE].ref = r.ref
      /\ [r EXCEPT !.active = FALSE].active = FALSE
      /\ [r EXCEPT !.active = FALSE].socket = r.socket
  BY DEF SessionRecords
<1>3. ASSUME NEW n \in Nat
      PROVE  /\ [r EXCEPT !.ref = n] \in SessionRecords
             /\ [r EXCEPT !.ref = n].ref = n
             /\ [r EXCEPT !.ref = n].active = r.active
             /\ [r EXCEPT !.ref = n].socket = r.socket
  BY DEF SessionRecords
<1>4. [r EXCEPT !.active = FALSE]
        = [ref |-> r.ref, active |-> FALSE, socket |-> r.socket]
  <2> DEFINE q == [r EXCEPT !.active = FALSE]
  <2>1. q \in SessionRecords /\ q.ref = r.ref /\ q.active = FALSE /\ q.socket = r.socket
    BY <1>2
  <2> HIDE DEF q
  <2>2. q = [ref |-> r.ref, active |-> FALSE, socket |-> r.socket]
    BY <1>1, <2>1
  <2>3. QED
    BY <2>2 DEF q
<1>5. ASSUME NEW n \in Nat
      PROVE  [r EXCEPT !.ref = n]
               = [ref |-> n, active |-> r.active, socket |-> r.socket]
  <2> DEFINE q == [r EXCEPT !.ref = n]
  <2>1. q \in SessionRecords /\ q.ref = n /\ q.active = r.active /\ q.socket = r.socket
    BY <1>3
  <2> HIDE DEF q
  <2>2. q = [ref |-> n, active |-> r.active, socket |-> r.socket]
    BY <1>1, <2>1
  <2>3. QED
    BY <2>2 DEF q
<1>6. r = [ref |-> r.ref, active |-> r.active, socket |-> r.socket]
  BY <1>1
<1>7. [r EXCEPT !.active = FALSE] \in SessionRecords
  BY <1>2
<1>8. \A n \in Nat :
        /\ [r EXCEPT !.ref = n]
             = [ref |-> n, active |-> r.active, socket |-> r.socket]
        /\ [r EXCEPT !.ref = n] \in SessionRecords
  BY <1>3, <1>5
<1>9. QED
  BY <1>4, <1>6, <1>7, <1>8

\* session_unref, of which the last releases the session, destroys its
\* WebSocket and drops its reference on the socket.
LEMMA SessionUnrefEffect ==
  ASSUME NEW g \in Records, NEW c \in Clients, g.session[c].ref > 0,
         g.session[c].ref = 1 =>
           /\ g.session[c].socket \in Socks
           /\ g.sock[g.session[c].socket].ref > 0
  PROVE  LET h == SessionUnref(g, c)
             k == g.session[c].socket
         IN /\ h.session = Put(g.session, c, [g.session[c] EXCEPT !.ref = @ - 1])
            /\ g.session[c].ref > 1 =>
                 h.client = g.client /\ h.sock = g.sock /\ h.map = g.map
            /\ g.session[c].ref = 1 =>
                 /\ h.client = Put(g.client, c, [g.client[c] EXCEPT !.at = "gone"])
                 /\ h.sock = SockDropped(g.sock, k)
                 /\ h.map = MapDropped(g.map, g.sock, k)
<1> DEFINE less == [g EXCEPT !.session[c].ref = @ - 1]
           k == g.session[c].socket
<1>1. /\ g.session \in [Clients -> SessionRecords] /\ g.session[c] \in SessionRecords
      /\ g.session[c].ref \in Nat
      /\ g.client \in [Clients -> ClientRecords] /\ g.client[c] \in ClientRecords
  BY DEF Records, SessionRecords
<1>2. /\ less.session = Put(g.session, c, [g.session[c] EXCEPT !.ref = @ - 1])
      /\ less.map = g.map /\ less.sock = g.sock /\ less.client = g.client
  BY DEF Records, Put
<1>3. /\ less.session[c] = [g.session[c] EXCEPT !.ref = @ - 1]
      /\ less.session[c] \in SessionRecords
      /\ less.session[c].ref = g.session[c].ref - 1
      /\ less.session[c].socket = k
  BY <1>1, <1>2 DEF SessionRecords, Put
<1>4. less.session \in [Clients -> SessionRecords]
  BY <1>1, <1>2, <1>3 DEF Put
<1>5. less \in Records
  BY <1>4 DEF Records
<1> HIDE DEF less
<1>6. CASE g.session[c].ref > 1
  <2>1. SessionUnref(g, c) = less
    BY <1>1, <1>3, <1>6 DEF SessionUnref, less
  <2>2. QED
    BY <2>1, <1>2, <1>6
<1>7. CASE g.session[c].ref = 1
  <2> DEFINE gone == [less EXCEPT !.client[c].at = "gone"]
  <2>1. SessionUnref(g, c) = SocketUnref(gone, k)
    BY <1>1, <1>3, <1>7 DEF SessionUnref, less
  <2>2. PICK r \in ClientRecords : r = [g.client[c] EXCEPT !.at = "gone"]
    BY <1>1 DEF ClientRecords
  <2>3. /\ gone.client = Put(g.client, c, r)
        /\ gone.map = g.map /\ gone.sock = g.sock /\ gone.session = less.session
    BY <1>2, <1>5, <2>2 DEF Records, Put
  <2>4. gone \in Records
    <3>1. Put(g.client, c, r) \in [Clients -> ClientRecords]
      BY <1>1, PutType
    <3>2. QED
      BY <1>5, <2>3, <3>1 DEF Records
  <2> HIDE DEF gone
  <2>5. k \in Socks /\ gone.sock[k].ref > 0
    BY <1>7, <2>3
  <2>6. QED
    BY <1>2, <1>7, <2>1, <2>2, <2>3, <2>4, <2>5, SocketUnrefEffect
<1>8. QED
  BY <1>1, <1>6, <1>7

\* session_close of an active session: it leaves the list of its socket, and
\* drops the session's own reference.
SessionClosed(g, h, c, k) ==
  /\ h.session = Put(g.session, c,
       [ref |-> g.session[c].ref - 1, active |-> FALSE, socket |-> k])
  /\ h.sock = Put(g.sock, k, [g.sock[k] EXCEPT !.list = @ \ {c}])
  /\ h.client = g.client /\ h.map = g.map

\* session_close of an active session drops its own reference and takes it off its
\* socket's list.
LEMMA SessionCloseEffect ==
  ASSUME NEW g \in Records, NEW c \in Clients, NEW k \in Socks,
         g.session[c].active, g.session[c].ref > 1, g.session[c].socket = k
  PROVE  LET h == SessionClose(g, c) IN h \in Records /\ SessionClosed(g, h, c, k)
<1>0. PICK m \in Nat : g.session[c].ref = m /\ m > 1 /\ m - 1 \in Nat
  BY DEF Records, SessionRecords
<1> DEFINE quiet == [g EXCEPT !.session[c].active = FALSE,
                              !.sock[k].list = @ \ {c}]
<1>1. /\ g.session \in [Clients -> SessionRecords] /\ g.session[c] \in SessionRecords
      /\ g.sock \in [Socks -> SockRecords] /\ g.sock[k] \in SockRecords
  BY DEF Records
<1>2. /\ quiet.session = Put(g.session, c, [g.session[c] EXCEPT !.active = FALSE])
      /\ quiet.sock = Put(g.sock, k, [g.sock[k] EXCEPT !.list = @ \ {c}])
      /\ quiet.map = g.map /\ quiet.client = g.client
  BY DEF Records, Put
<1> HIDE DEF quiet
<1>3. /\ quiet.session[c] = [ref |-> m, active |-> FALSE, socket |-> k]
      /\ quiet.session[c] \in SessionRecords /\ quiet.session[c].ref = m
  <2>1. [g.session[c] EXCEPT !.active = FALSE]
          = [ref |-> m, active |-> FALSE, socket |-> k]
    BY <1>0, <1>1, SessionFields
  <2>2. quiet.session[c] = [g.session[c] EXCEPT !.active = FALSE]
    BY <1>1, <1>2 DEF Put
  <2>3. QED
    BY <1>1, <2>1, <2>2, SessionFields
<1>4. quiet \in Records
  <2>1. quiet.session \in [Clients -> SessionRecords]
    BY <1>1, <1>2, <1>3 DEF Put
  <2>2. [g.sock[k] EXCEPT !.list = @ \ {c}] \in SockRecords
    BY <1>1 DEF SockRecords
  <2>3. quiet.sock \in [Socks -> SockRecords]
    BY <1>1, <1>2, <2>2 DEF Put
  <2>4. QED
    BY <2>1, <2>3 DEF quiet, Records
<1>5. SessionClose(g, c) = SessionUnref(quiet, c)
  BY DEF SessionClose, quiet
<1> DEFINE h == SessionUnref(quiet, c)
<1>6. /\ h.session = Put(quiet.session, c, [quiet.session[c] EXCEPT !.ref = @ - 1])
      /\ h.client = quiet.client /\ h.sock = quiet.sock /\ h.map = quiet.map
  <2>1. quiet.session[c].ref > 0 /\ quiet.session[c].ref > 1 /\ quiet.session[c].ref # 1
    BY <1>0, <1>3
  <2>2. QED
    BY <2>1, <1>4, SessionUnrefEffect
<1>7. [quiet.session[c] EXCEPT !.ref = @ - 1] = [ref |-> m - 1, active |-> FALSE, socket |-> k]
  <2>1. quiet.session[c].ref - 1 = m - 1
    BY <1>3
  <2>2. QED
    BY <1>0, <1>3, <2>1, SessionFields
<1>8. h.session = Put(g.session, c, [ref |-> m - 1, active |-> FALSE, socket |-> k])
  BY <1>1, <1>2, <1>6, <1>7 DEF Put
<1>9. h \in Records
  <2>1. h = [quiet EXCEPT !.session[c].ref = @ - 1]
    BY <1>0, <1>3, <1>4 DEF SessionUnref, Records
  <2>2. [ref |-> m - 1, active |-> FALSE, socket |-> k] \in SessionRecords
    BY <1>0, <1>1 DEF SessionRecords
  <2>3. h.session \in [Clients -> SessionRecords]
    BY <1>1, <1>8, <2>2 DEF Put
  <2>4. QED
    BY <1>4, <2>1, <2>3 DEF Records
<1>10. QED
  BY <1>0, <1>2, <1>5, <1>6, <1>8, <1>9 DEF SessionClosed

\* The end of a WebSocket or a peer connection closes the session and drops
\* one reference of it, maybe the last one.
HolderGone(g, h, c, k) ==
  /\ g.session[c].active =>
       /\ h.session = Put(g.session, c,
            [ref |-> g.session[c].ref - 2, active |-> FALSE, socket |-> k])
       /\ h.sock = Put(g.sock, k, [g.sock[k] EXCEPT !.list = @ \ {c}])
       /\ h.client = g.client /\ h.map = g.map
  /\ ~g.session[c].active =>
       /\ h.session = Put(g.session, c, [g.session[c] EXCEPT !.ref = @ - 1])
       /\ g.session[c].ref > 1 =>
            h.client = g.client /\ h.sock = g.sock /\ h.map = g.map
       /\ g.session[c].ref = 1 =>
            /\ h.client = Put(g.client, c, [g.client[c] EXCEPT !.at = "gone"])
            /\ h.sock = SockDropped(g.sock, k)
            /\ h.map = MapDropped(g.map, g.sock, k)

\* The end of the WebSocket or of the peer connection of a session closes the session
\* if it still is active, and drops a reference.
LEMMA HolderEffect ==
  ASSUME NEW g \in Records, NEW c \in Clients, NEW k \in Socks,
         g.session[c].ref > 0, g.session[c].active => g.session[c].ref > 2,
         g.session[c].socket = k, g.sock[k].ref > 0
  PROVE  HolderGone(g, SessionUnref(SessionClose(g, c), c), c, k)
<1> DEFINE q == SessionClose(g, c)
           h == SessionUnref(q, c)
<1>1. CASE g.session[c].active
  <2>0. PICK m \in Nat : g.session[c].ref = m /\ m > 2 /\ m - 1 \in Nat /\ m - 2 \in Nat
    BY <1>1 DEF Records, SessionRecords
  <2>1. q \in Records /\ SessionClosed(g, q, c, k)
    BY <1>1, <2>0, SessionCloseEffect
  <2> HIDE DEF q
  <2>2. /\ g.session \in [Clients -> SessionRecords]
        /\ q.session = Put(g.session, c, [ref |-> m - 1, active |-> FALSE, socket |-> k])
        /\ q.session[c] = [ref |-> m - 1, active |-> FALSE, socket |-> k]
        /\ q.session[c] \in SessionRecords
    <3>1. q.session = Put(g.session, c, [ref |-> m - 1, active |-> FALSE, socket |-> k])
      BY <2>0, <2>1 DEF SessionClosed
    <3>2. q.session \in [Clients -> SessionRecords]
      BY <2>1 DEF Records
    <3>3. QED
      BY <3>1, <3>2 DEF Put, Records
  <2>3. q.session[c].ref = m - 1 /\ q.session[c].ref > 1 /\ q.session[c].ref # 1
    BY <2>0, <2>2
  <2>4. /\ h.session = Put(q.session, c, [q.session[c] EXCEPT !.ref = @ - 1])
        /\ h.client = q.client /\ h.sock = q.sock /\ h.map = q.map
    <3>1. q \in Records /\ q.session[c].ref > 0 /\ q.session[c].ref # 1
      BY <2>1, <2>3
    <3>2. /\ h.session = Put(q.session, c, [q.session[c] EXCEPT !.ref = @ - 1])
          /\ q.session[c].ref > 1 => h.client = q.client /\ h.sock = q.sock /\ h.map = q.map
      BY <3>1, SessionUnrefEffect
    <3>3. QED
      BY <2>3, <3>2
  <2>5. [q.session[c] EXCEPT !.ref = @ - 1] = [ref |-> m - 2, active |-> FALSE, socket |-> k]
    <3>1. q.session[c].ref - 1 = m - 2
      BY <2>0, <2>3
    <3>2. QED
      BY <2>0, <2>2, <3>1, SessionFields
  <2> HIDE DEF h
  <2>6. h.session = Put(g.session, c, [ref |-> m - 2, active |-> FALSE, socket |-> k])
    BY <2>2, <2>4, <2>5 DEF Put
  <2>7. QED
    BY <1>1, <2>0, <2>1, <2>4, <2>6 DEF HolderGone, SessionClosed, h, q
<1>2. CASE ~g.session[c].active
  <2>1. q = g
    BY <1>2 DEF SessionClose
  <2> HIDE DEF q
  <2>2. /\ h.session = Put(g.session, c, [g.session[c] EXCEPT !.ref = @ - 1])
        /\ g.session[c].ref > 1 =>
             h.client = g.client /\ h.sock = g.sock /\ h.map = g.map
        /\ g.session[c].ref = 1 =>
             /\ h.client = Put(g.client, c, [g.client[c] EXCEPT !.at = "gone"])
             /\ h.sock = SockDropped(g.sock, k)
             /\ h.map = MapDropped(g.map, g.sock, k)
    BY <2>1, SessionUnrefEffect
  <2> HIDE DEF h
  <2>3. QED
    BY <1>2, <2>2 DEF HolderGone, h, q
<1>3. QED
  BY <1>1, <1>2

\* The socket objects other than k, the map, the sessions and the clients are
\* the same.
OnlySock(g, h, k) ==
  /\ h.map = g.map /\ h.client = g.client /\ h.session = g.session
  /\ \A j \in Socks \ {k} : h.sock[j] = g.sock[j]

\* A socket object r takes the place of object k.
LEMMA SockPut ==
  ASSUME NEW g \in Records, NEW k \in Socks, NEW r \in SockRecords
  PROVE  LET h == [g EXCEPT !.sock[k] = r]
         IN h \in Records /\ OnlySock(g, h, k) /\ h.sock[k] = r
<1> DEFINE h == [g EXCEPT !.sock[k] = r]
<1>1. g.sock \in [Socks -> SockRecords]
  BY DEF Records
<1>2. /\ h.map = g.map /\ h.client = g.client /\ h.session = g.session
      /\ h.sock = [g.sock EXCEPT ![k] = r]
  BY DEF Records
<1>3. h.sock \in [Socks -> SockRecords]
  BY <1>1, <1>2
<1>4. h \in Records
  BY <1>3 DEF Records
<1>5. OnlySock(g, h, k) /\ h.sock[k] = r
  <2> HIDE DEF h
  <2>1. QED
    BY <1>1, <1>2, <1>4 DEF OnlySock
<1>6. QED
  BY <1>4, <1>5

\* The fields of a socket object.
LEMMA SockFields ==
  ASSUME NEW r \in SockRecords
  PROVE  /\ r.ref \in Nat /\ r.active \in BOOLEAN /\ r.wss \in BOOLEAN
         /\ r.native \in Natives \cup {None} /\ r.list \in SUBSET Clients
         /\ r.server \in {"none", "open", "stopping", "stopped", "lost"}
  BY DEF SockRecords

\* The fields of a socket object after an assignment to one of them.
LEMMA PutRef ==
  ASSUME NEW r \in SockRecords, NEW n \in Nat
  PROVE  LET s == [r EXCEPT !.ref = n]
         IN /\ s \in SockRecords /\ s.ref = n
            /\ s.active = r.active /\ s.wss = r.wss /\ s.native = r.native
            /\ s.server = r.server /\ s.list = r.list
  BY DEF SockRecords

\* Setting the active flag leaves the rest of a socket.
LEMMA PutActive ==
  ASSUME NEW r \in SockRecords, NEW b \in BOOLEAN
  PROVE  LET s == [r EXCEPT !.active = b]
         IN /\ s \in SockRecords /\ s.active = b
            /\ s.ref = r.ref /\ s.wss = r.wss /\ s.native = r.native
            /\ s.server = r.server /\ s.list = r.list
  BY DEF SockRecords

\* Setting the WebSocket server leaves the rest of a socket.
LEMMA PutWss ==
  ASSUME NEW r \in SockRecords, NEW b \in BOOLEAN
  PROVE  LET s == [r EXCEPT !.wss = b]
         IN /\ s \in SockRecords /\ s.wss = b
            /\ s.ref = r.ref /\ s.active = r.active /\ s.native = r.native
            /\ s.server = r.server /\ s.list = r.list
  BY DEF SockRecords

Servers == {"none", "open", "stopping", "stopped", "lost"}

\* Setting the server's state leaves the rest of a socket.
LEMMA PutServer ==
  ASSUME NEW r \in SockRecords, NEW v \in Servers
  PROVE  LET s == [r EXCEPT !.server = v]
         IN /\ s \in SockRecords /\ s.server = v
            /\ s.ref = r.ref /\ s.active = r.active /\ s.wss = r.wss
            /\ s.native = r.native /\ s.list = r.list
  BY DEF SockRecords, Servers

\* Setting the native socket leaves the rest of a socket.
LEMMA PutNative ==
  ASSUME NEW r \in SockRecords, NEW n \in Natives \cup {None}
  PROVE  LET s == [r EXCEPT !.native = n]
         IN /\ s \in SockRecords /\ s.native = n
            /\ s.ref = r.ref /\ s.active = r.active /\ s.wss = r.wss
            /\ s.server = r.server /\ s.list = r.list
  BY DEF SockRecords

\* Setting the list of sessions leaves the rest of a socket.
LEMMA PutList ==
  ASSUME NEW r \in SockRecords, NEW l \in SUBSET Clients
  PROVE  LET s == [r EXCEPT !.list = l]
         IN /\ s \in SockRecords /\ s.list = l
            /\ s.ref = r.ref /\ s.active = r.active /\ s.wss = r.wss
            /\ s.native = r.native /\ s.server = r.server
  BY DEF SockRecords

\* socket_close of an active socket: its sessions are closed, its server is
\* to stop, and the reference of the socket itself is dropped.
SocketClosed(g, h, k, spawned) ==
  /\ h.map = g.map /\ h.client = g.client
  /\ \A j \in Socks \ {k} : h.sock[j] = g.sock[j]
  /\ h.session = [c \in Clients |->
       IF c \in g.sock[k].list
         THEN [ref |-> g.session[c].ref - 1, active |-> FALSE, socket |-> k]
         ELSE g.session[c]]
  /\ h.sock[k].ref = g.sock[k].ref - 1
  /\ h.sock[k].active = FALSE /\ h.sock[k].wss = FALSE
  /\ h.sock[k].native = g.sock[k].native
  /\ h.sock[k].server = (IF spawned THEN "stopping" ELSE g.sock[k].server)
  /\ h.sock[k].list = {}

\* socket_close: the socket's own reference goes, and the session of every listed
\* client is closed.
LEMMA SocketCloseEffect ==
  ASSUME NEW g \in Records, NEW k \in Socks, NEW spawned \in BOOLEAN,
         g.sock[k].active, g.sock[k].wss, g.sock[k].ref > 1,
         \A c \in g.sock[k].list :
           /\ g.session[c].active /\ g.session[c].ref > 1
           /\ g.session[c].socket = k
  PROVE  LET h == SocketClose(g, k, spawned)
         IN h \in Records /\ SocketClosed(g, h, k, spawned)
<1> DEFINE q  == [c \in Clients |->
                    IF c \in g.sock[k].list
                      THEN [ref |-> g.session[c].ref - 1, active |-> FALSE, socket |-> k]
                      ELSE g.session[c]]
           r1 == [g.sock[k] EXCEPT !.active = FALSE]
           g1 == [g EXCEPT !.sock[k] = r1]
           r2 == [g1.sock[k] EXCEPT !.list = {}]
           g2 == [g1 EXCEPT !.sock[k] = r2]
           g3 == [g2 EXCEPT !.session = q]
           v  == IF spawned THEN "stopping" ELSE g.sock[k].server
           r4 == [g3.sock[k] EXCEPT !.wss = FALSE]
           g4 == [g3 EXCEPT !.sock[k] = r4]
           r5 == [g4.sock[k] EXCEPT !.server = v]
           g5 == [g4 EXCEPT !.sock[k] = r5]
           r6 == [g5.sock[k] EXCEPT !.ref = g.sock[k].ref - 1]
           g6 == [g5 EXCEPT !.sock[k] = r6]
<1>1. /\ g.sock \in [Socks -> SockRecords] /\ g.sock[k] \in SockRecords
      /\ g.session \in [Clients -> SessionRecords]
      /\ g.sock[k].list \in SUBSET Clients
  BY DEF Records, SockRecords
<1>2. q \in [Clients -> SessionRecords]
  <2>1. ASSUME NEW c \in g.sock[k].list
        PROVE  [ref |-> g.session[c].ref - 1, active |-> FALSE, socket |-> k]
                 \in SessionRecords
    <3>1. g.session[c].ref \in Nat /\ g.session[c].ref > 1
      BY <1>1 DEF SessionRecords
    <3>2. g.session[c].ref - 1 \in Nat
      BY <3>1
    <3>3. QED
      BY <3>2 DEF SessionRecords
  <2>2. QED
    BY <1>1, <2>1
<1>3. v \in Servers
  BY <1>1, SockFields DEF Servers
<1> HIDE DEF q, v
<1>4. /\ r1 \in SockRecords /\ r1.active = FALSE
      /\ r1.ref = g.sock[k].ref /\ r1.wss = g.sock[k].wss
      /\ r1.native = g.sock[k].native /\ r1.server = g.sock[k].server
      /\ r1.list = g.sock[k].list
  BY <1>1, PutActive
<1> HIDE DEF r1
<1>5. g1 \in Records /\ OnlySock(g, g1, k) /\ g1.sock[k] = r1
  BY <1>4, SockPut
<1> HIDE DEF g1
<1>6. /\ r2 \in SockRecords /\ r2.list = {} /\ r2.active = r1.active
      /\ r2.ref = r1.ref /\ r2.wss = r1.wss
      /\ r2.native = r1.native /\ r2.server = r1.server
  <2>1. {} \in SUBSET Clients
    OBVIOUS
  <2>2. r2 = [r1 EXCEPT !.list = {}]
    BY <1>5
  <2> HIDE DEF r2
  <2>3. QED
    BY <1>4, <2>1, <2>2, PutList
<1> HIDE DEF r2
<1>7. g2 \in Records /\ OnlySock(g1, g2, k) /\ g2.sock[k] = r2
  BY <1>5, <1>6, SockPut
<1>8. CloseSessions(g1, k) = g3
  <2>1. ASSUME NEW c \in g.sock[k].list
        PROVE  /\ g.session[c].active
               /\ Closed(g.session[c])
                    = [ref |-> g.session[c].ref - 1, active |-> FALSE, socket |-> k]
    <3>1. /\ c \in Clients /\ g.session[c] \in SessionRecords
          /\ g.session[c].active /\ g.session[c].socket = k
      BY <1>1
    <3>0. PICK m \in Nat : g.session[c].ref = m /\ m - 1 \in Nat
      BY <3>1 DEF SessionRecords
    <3> DEFINE u == [g.session[c] EXCEPT !.active = FALSE]
    <3>2. u = [ref |-> m, active |-> FALSE, socket |-> k] /\ u \in SessionRecords
      BY <3>0, <3>1, SessionFields
    <3>3. Closed(g.session[c]) = [u EXCEPT !.ref = m - 1]
      BY <3>0, <3>1 DEF Closed
    <3> HIDE DEF u
    <3>4. [u EXCEPT !.ref = m - 1] = [ref |-> m - 1, active |-> FALSE, socket |-> k]
      BY <3>0, <3>2, SessionFields
    <3>5. QED
      BY <3>0, <3>1, <3>3, <3>4
  <2>2. g1.sock[k].list = g.sock[k].list /\ g1.session = g.session
    BY <1>4, <1>5 DEF OnlySock
  <2>3. q = [c \in Clients |->
               IF c \in g1.sock[k].list /\ g1.session[c].active
                 THEN Closed(g1.session[c]) ELSE g1.session[c]]
    BY <2>1, <2>2 DEF q
  <2>4. QED
    BY <2>3 DEF CloseSessions, r2
<1> HIDE DEF g2
<1>9. /\ g3 \in Records /\ g3.map = g2.map /\ g3.client = g2.client
      /\ g3.session = q /\ g3.sock = g2.sock
  BY <1>2, <1>7 DEF Records
<1> HIDE DEF g3
<1>10. /\ r4 \in SockRecords /\ r4.wss = FALSE /\ r4.active = r2.active
       /\ r4.ref = r2.ref /\ r4.list = r2.list
       /\ r4.native = r2.native /\ r4.server = r2.server
  <2>1. r4 = [r2 EXCEPT !.wss = FALSE]
    BY <1>7, <1>9
  <2> HIDE DEF r4
  <2>2. QED
    BY <1>6, <2>1, PutWss
<1> HIDE DEF r4
<1>11. g4 \in Records /\ OnlySock(g3, g4, k) /\ g4.sock[k] = r4
  BY <1>9, <1>10, SockPut
<1>12. /\ r5 \in SockRecords /\ r5.server = v /\ r5.active = r4.active
       /\ r5.ref = r4.ref /\ r5.list = r4.list
       /\ r5.native = r4.native /\ r5.wss = r4.wss
  <2>1. r5 = [r4 EXCEPT !.server = v]
    BY <1>11
  <2> HIDE DEF r5
  <2>2. r4 \in SockRecords
    BY <1>10
  <2>3. QED
    BY <1>3, <2>1, <2>2, PutServer
<1>13. WssClose(g3, k, spawned) = g5
  <2>1. g3.sock[k].wss
    BY <1>4, <1>6, <1>7, <1>9
  <2>2. WssClose(g3, k, spawned)
          = [g4 EXCEPT !.sock[k].server = IF spawned THEN "stopping" ELSE @]
    BY <2>1 DEF WssClose, g4, r4
  <2>3. g4.sock[k].server = g.sock[k].server
    BY <1>4, <1>6, <1>10, <1>11
  <2>4. (IF spawned THEN "stopping" ELSE g4.sock[k].server) = v
    BY <2>3 DEF v
  <2> HIDE DEF g4
  <2>5. QED
    BY <2>2, <2>4
<1> HIDE DEF r5, g4
<1>14. g5 \in Records /\ OnlySock(g4, g5, k) /\ g5.sock[k] = r5
  BY <1>11, <1>12, SockPut
<1> HIDE DEF g5
<1>15. /\ r5.ref = g.sock[k].ref /\ g.sock[k].ref \in Nat
       /\ g.sock[k].ref - 1 \in Nat /\ g.sock[k].ref - 1 # 0
  BY <1>1, <1>4, <1>6, <1>10, <1>12, SockFields
<1>16. /\ r6 \in SockRecords /\ r6.ref = g.sock[k].ref - 1
       /\ r6.active = r5.active /\ r6.list = r5.list /\ r6.server = r5.server
       /\ r6.native = r5.native /\ r6.wss = r5.wss
  <2>1. r6 = [r5 EXCEPT !.ref = g.sock[k].ref - 1]
    BY <1>14
  <2> HIDE DEF r6
  <2>2. QED
    BY <1>12, <1>15, <2>1, PutRef
<1>kept. g6 \in Records /\ OnlySock(g5, g6, k) /\ g6.sock[k] = r6
  <2> HIDE DEF r6
  <2>1. QED
    BY <1>14, <1>16, SockPut
<1>18. SocketUnref(g5, k) = g6
  <2>1. g6 = [g5 EXCEPT !.sock[k].ref = @ - 1]
    BY <1>14, <1>15
  <2>2. g6.sock[k].ref # 0
    BY <1>15, <1>16, <1>kept
  <2> HIDE DEF g6
  <2>3. QED
    BY <2>1, <2>2 DEF SocketUnref
<1> HIDE DEF r6, g6
<1>19. SocketClose(g, k, spawned) = g6
  BY <1>8, <1>13, <1>18 DEF SocketClose, g1, r1
<1>20. /\ g6.map = g.map /\ g6.client = g.client /\ g6.session = q
       /\ \A j \in Socks \ {k} : g6.sock[j] = g.sock[j]
  BY <1>5, <1>7, <1>9, <1>11, <1>14, <1>kept DEF OnlySock
<1>21. /\ g6.sock[k].ref = g.sock[k].ref - 1
       /\ g6.sock[k].active = FALSE /\ g6.sock[k].wss = FALSE
       /\ g6.sock[k].native = g.sock[k].native
       /\ g6.sock[k].server = v /\ g6.sock[k].list = {}
  BY <1>4, <1>6, <1>10, <1>12, <1>16, <1>kept
<1>22. QED
  BY <1>kept, <1>19, <1>20, <1>21 DEF q, v, SocketClosed

\* The fields of a client record after an assignment to one of them.
LEMMA ClientFields ==
  ASSUME NEW r \in ClientRecords
  PROVE  /\ \A a \in {"new", "accepted", "announced", "gone"} :
              LET s == [r EXCEPT !.at = a]
              IN /\ s \in ClientRecords /\ s.at = a
                 /\ s.server = r.server /\ s.ws = r.ws /\ s.pc = r.pc
         /\ \A w \in {"closed", "lost"} :
              LET s == [r EXCEPT !.ws = w]
              IN /\ s \in ClientRecords /\ s.ws = w
                 /\ s.server = r.server /\ s.at = r.at /\ s.pc = r.pc
         /\ \A p \in {"open", "closed", "lost"} :
              LET s == [r EXCEPT !.pc = p]
              IN /\ s \in ClientRecords /\ s.pc = p
                 /\ s.server = r.server /\ s.at = r.at /\ s.ws = r.ws
  BY DEF ClientRecords

\* socket_init of an object of the pool: it is associated with its native
\* socket, and referenced by itself and by its server.
Inited(g, h, k, n) ==
  /\ h.session = g.session /\ h.client = g.client
  /\ h.map = Put(g.map, n, k)
  /\ \A j \in Socks \ {k} : h.sock[j] = g.sock[j]
  /\ h.sock[k].ref = 2 /\ h.sock[k].active = TRUE /\ h.sock[k].wss = TRUE
  /\ h.sock[k].native = n /\ h.sock[k].server = "open"
  /\ h.sock[k].list = g.sock[k].list

\* What socket_init sets.
LEMMA SocketInitEffect ==
  ASSUME NEW g \in Records, NEW k \in Socks, NEW n \in Natives
  PROVE  LET h == SocketInit(g, k, n) IN h \in Records /\ Inited(g, h, k, n)
<1> DEFINE r1 == [g.sock[k] EXCEPT !.ref = 1]
           g1 == [g EXCEPT !.sock[k] = r1]
           r2 == [r1 EXCEPT !.native = n]
           m  == Put(g.map, n, k)
           g2 == [g1 EXCEPT !.sock[k] = r2]
           g3 == [g2 EXCEPT !.map = m]
           ra == [r2 EXCEPT !.server = "open"]
           ga == [g3 EXCEPT !.sock[k] = ra]
           rb == [ra EXCEPT !.wss = TRUE]
           gb == [ga EXCEPT !.sock[k] = rb]
           r4 == [rb EXCEPT !.ref = 2]
           g4 == [gb EXCEPT !.sock[k] = r4]
           r5 == [r4 EXCEPT !.active = TRUE]
           g5 == [g4 EXCEPT !.sock[k] = r5]
<1>1. /\ g.sock[k] \in SockRecords /\ g.map \in [Natives -> Socks \cup {None}]
      /\ m \in [Natives -> Socks \cup {None}]
  BY DEF Records, Put
<1>2. r1 \in SockRecords /\ r1.ref = 1 /\ r1.list = g.sock[k].list
  BY <1>1, PutRef
<1> HIDE DEF r1
<1>3. g1 \in Records /\ OnlySock(g, g1, k) /\ g1.sock[k] = r1
  BY <1>2, SockPut
<1>4. /\ r2 \in SockRecords /\ r2.ref = 1 /\ r2.list = g.sock[k].list
      /\ r2.native = n
  BY <1>2, PutNative
<1> HIDE DEF r2, g1
<1>5. g2 \in Records /\ OnlySock(g1, g2, k) /\ g2.sock[k] = r2
  BY <1>3, <1>4, SockPut
<1> HIDE DEF g2, m
<1>6. /\ g3 \in Records /\ g3.map = m /\ g3.sock = g2.sock
      /\ g3.session = g2.session /\ g3.client = g2.client
  BY <1>1, <1>5 DEF Records
<1>7. SocketPluginInit(g1, k, n) = g3
  <2>1. g1.map = g.map
    BY <1>3 DEF OnlySock
  <2>2. SocketPluginInit(g1, k, n) = [g2 EXCEPT !.map = [g2.map EXCEPT ![n] = k]]
    BY <1>3, <1>5 DEF SocketPluginInit, r2, g2
  <2>3. g2.map = g.map
    BY <1>5, <2>1 DEF OnlySock
  <2>4. QED
    BY <2>2, <2>3 DEF m, Put
<1> HIDE DEF g3
<1>8. /\ ra \in SockRecords /\ ra.ref = 1 /\ ra.list = g.sock[k].list
      /\ ra.native = n /\ ra.server = "open"
  BY <1>4, PutServer DEF Servers
<1> HIDE DEF ra
<1>9. ga \in Records /\ OnlySock(g3, ga, k) /\ ga.sock[k] = ra
  BY <1>6, <1>8, SockPut
<1> HIDE DEF ga
<1>10. /\ rb \in SockRecords /\ rb.ref = 1 /\ rb.list = g.sock[k].list
       /\ rb.native = n /\ rb.server = "open" /\ rb.wss = TRUE
  BY <1>8, PutWss
<1> HIDE DEF rb
<1>11. gb \in Records /\ OnlySock(ga, gb, k) /\ gb.sock[k] = rb
  BY <1>9, <1>10, SockPut
<1> HIDE DEF gb
<1>12. /\ r4 \in SockRecords /\ r4.ref = 2 /\ r4.list = g.sock[k].list
       /\ r4.native = n /\ r4.server = "open" /\ r4.wss = TRUE
  BY <1>10, PutRef
<1>13. SocketWssInit(g3, k) = g4
  <2>1. ga = [g3 EXCEPT !.sock[k].server = "open"]
    BY <1>5, <1>6 DEF ga, ra
  <2>2. gb = [ga EXCEPT !.sock[k].wss = TRUE]
    BY <1>9 DEF gb, rb
  <2>3. g4 = [gb EXCEPT !.sock[k].ref = g3.sock[k].ref + 1]
    <3>1. g3.sock[k].ref + 1 = 2
      BY <1>4, <1>5, <1>6
    <3>2. QED
      BY <1>10, <1>11, <3>1
  <2> HIDE DEF g4
  <2>4. SocketWssInit(g3, k) = [[[g3 EXCEPT !.sock[k].server = "open"]
                                    EXCEPT !.sock[k].wss = TRUE]
                                    EXCEPT !.sock[k].ref = g3.sock[k].ref + 1]
    BY DEF SocketWssInit
  <2>5. QED
    BY <2>1, <2>2, <2>3, <2>4
<1> HIDE DEF r4
<1>14. g4 \in Records /\ OnlySock(gb, g4, k) /\ g4.sock[k] = r4
  BY <1>11, <1>12, SockPut
<1> HIDE DEF g4
<1>15. /\ r5 \in SockRecords /\ r5.ref = 2 /\ r5.list = g.sock[k].list
       /\ r5.native = n /\ r5.server = "open" /\ r5.wss = TRUE /\ r5.active = TRUE
  BY <1>12, PutActive
<1> HIDE DEF r5
<1>16. g5 \in Records /\ OnlySock(g4, g5, k) /\ g5.sock[k] = r5
  BY <1>14, <1>15, SockPut
<1>kept. SocketInit(g, k, n) = g5
  BY <1>7, <1>13, <1>14 DEF SocketInit, g1, r1, g5, r5
<1> HIDE DEF g5
<1>18. /\ g5.session = g.session /\ g5.client = g.client /\ g5.map = m
       /\ \A j \in Socks \ {k} : g5.sock[j] = g.sock[j]
  BY <1>3, <1>5, <1>6, <1>9, <1>14, <1>16, <1>11 DEF OnlySock
<1>19. QED
  BY <1>15, <1>16, <1>kept, <1>18 DEF m, Inited

\* socket_create_session: the session is active, listed by its socket, and a
\* reference of it.
Created(g, h, k, c) ==
  /\ h.map = g.map
  /\ h.session = Put(g.session, c, [ref |-> 3, active |-> TRUE, socket |-> k])
  /\ h.client = Put(g.client, c, [g.client[c] EXCEPT !.pc = "open"])
  /\ \A j \in Socks \ {k} : h.sock[j] = g.sock[j]
  /\ h.sock[k].ref = g.sock[k].ref + 1
  /\ h.sock[k].list = g.sock[k].list \cup {c}
  /\ h.sock[k].active = g.sock[k].active /\ h.sock[k].wss = g.sock[k].wss
  /\ h.sock[k].native = g.sock[k].native
  /\ h.sock[k].server = g.sock[k].server

\* What the creation of a session of an accepted client sets.
LEMMA CreateSessionEffect ==
  ASSUME NEW g \in Records, NEW k \in Socks, NEW c \in Clients
  PROVE  LET h == CreateSession(g, k, c) IN h \in Records /\ Created(g, h, k, c)
<1> DEFINE h == CreateSession(g, k, c)
           q == Put(g.session, c, [ref |-> 3, active |-> TRUE, socket |-> k])
           d == Put(g.client, c, [g.client[c] EXCEPT !.pc = "open"])
           r == [[g.sock[k] EXCEPT !.ref = g.sock[k].ref + 1]
                   EXCEPT !.list = g.sock[k].list \cup {c}]
<1>1. /\ g.sock \in [Socks -> SockRecords] /\ g.sock[k] \in SockRecords
      /\ g.client \in [Clients -> ClientRecords] /\ g.client[c] \in ClientRecords
      /\ g.session \in [Clients -> SessionRecords]
  BY DEF Records
<1>2. q \in [Clients -> SessionRecords]
  <2>1. [ref |-> 3, active |-> TRUE, socket |-> k] \in SessionRecords
    BY DEF SessionRecords
  <2>2. QED
    BY <1>1, <2>1 DEF Put
<1>3. d \in [Clients -> ClientRecords]
  <2>1. [g.client[c] EXCEPT !.pc = "open"] \in ClientRecords
    BY <1>1, ClientFields
  <2>2. QED
    BY <1>1, <2>1 DEF Put
<1>4. /\ r \in SockRecords /\ r.ref = g.sock[k].ref + 1
      /\ r.list = g.sock[k].list \cup {c}
      /\ r.active = g.sock[k].active /\ r.wss = g.sock[k].wss
      /\ r.native = g.sock[k].native /\ r.server = g.sock[k].server
  <2> DEFINE a == [g.sock[k] EXCEPT !.ref = g.sock[k].ref + 1]
  <2>1. g.sock[k].ref + 1 \in Nat /\ g.sock[k].list \cup {c} \in SUBSET Clients
    BY <1>1, SockFields
  <2>2. /\ a \in SockRecords /\ a.ref = g.sock[k].ref + 1
        /\ a.active = g.sock[k].active /\ a.wss = g.sock[k].wss
        /\ a.native = g.sock[k].native /\ a.server = g.sock[k].server
    BY <1>1, <2>1, PutRef
  <2> HIDE DEF a
  <2>3. r = [a EXCEPT !.list = g.sock[k].list \cup {c}]
    BY DEF a
  <2> HIDE DEF r
  <2>4. QED
    BY <2>1, <2>2, <2>3, PutList
<1>5. /\ h.map = g.map /\ h.session = q /\ h.client = d
      /\ h.sock = Put(g.sock, k, r)
  BY <1>1 DEF CreateSession, Records, Put
<1> HIDE DEF r, q, d
<1>6. h.sock \in [Socks -> SockRecords]
  BY <1>1, <1>4, <1>5 DEF Put
<1>7. h \in Records
  BY <1>2, <1>3, <1>5, <1>6 DEF CreateSession, Records
<1> HIDE DEF h
<1>8. h.sock[k] = r /\ \A j \in Socks \ {k} : h.sock[j] = g.sock[j]
  BY <1>1, <1>5 DEF Put
<1>9. QED
  BY <1>4, <1>5, <1>7, <1>8 DEF h, q, d, Created

-----------------------------------------------------------------------------
(***************************************************************************)
(* The task queue.                                                         *)
(***************************************************************************)
Task(op, of) == [op |-> op, of |-> of]

Alone(op, of) == Single(tasks, Task(op, of))

\* The end of a WebSocket, say, is queued behind the announcement of it.
Behind(op, of, op2, of2) == Follows(tasks, Task(op, of), Task(op2, of2))

\* A task is its operation and its subject.
LEMMA TaskIdentity ==
  ASSUME NEW op, NEW of, NEW op2, NEW of2
  PROVE  Task(op, of) = Task(op2, of2) <=> op = op2 /\ of = of2
  BY DEF Task

\* What the model calls queued is membership in the queue.
LEMMA QueuedIsHas ==
  /\ \A op, of : Queued(op, of) <=> Has(tasks, Task(op, of))
  /\ \A op, of : Queued(op, of)' <=> Has(tasks', Task(op, of))
  BY DEF Queued, Has, Task

\* Where the queue does not change, nothing about it does.
LEMMA QueueKept ==
  ASSUME UNCHANGED tasks
  PROVE  /\ \A p, f : Queued(p, f)' <=> Queued(p, f)
         /\ \A p, f : Alone(p, f)' <=> Alone(p, f)
         /\ \A p, f, p2, f2 : Behind(p, f, p2, f2)' <=> Behind(p, f, p2, f2)
  BY DEF Queued, Alone, Behind

\* What a task submitted to the queue changes.
LEMMA SubmitEffect ==
  ASSUME tasks \in Seq(TaskRecords), NEW op, NEW of,
         Task(op, of) \in TaskRecords, Submits(op, of, TRUE)
  PROVE  /\ tasks' \in Seq(TaskRecords)
         /\ \A p, f : Queued(p, f)' <=> Queued(p, f) \/ (p = op /\ f = of)
         /\ \A p, f : Alone(p, f) /\ (p = op /\ f = of => ~Queued(op, of))
                        => Alone(p, f)'
         /\ \A p, f, p2, f2 : /\ ~(p = op /\ f = of)
                              /\ Behind(p, f, p2, f2) \/ (p2 = op /\ f2 = of)
                              => Behind(p, f, p2, f2)'
<1>1. tasks' = Append(tasks, Task(op, of))
  BY DEF Submits, Task
<1>2. tasks' \in Seq(TaskRecords)
  BY <1>1, AppendForm
<1>3. \A p, f : Queued(p, f)' <=> Queued(p, f) \/ (p = op /\ f = of)
  BY <1>1, QueuedIsHas, HasAppend, TaskIdentity
<1>4. \A p, f : Alone(p, f) /\ (p = op /\ f = of => ~Queued(op, of)) => Alone(p, f)'
  BY <1>1, QueuedIsHas, SingleAppend, TaskIdentity DEF Alone
<1>5. ASSUME NEW p, NEW f, NEW p2, NEW f2, ~(p = op /\ f = of),
             Behind(p, f, p2, f2) \/ (p2 = op /\ f2 = of)
      PROVE  Behind(p, f, p2, f2)'
  BY <1>1, <1>5, FollowsAppend, TaskIdentity DEF Behind
<1>6. QED
  BY <1>2, <1>3, <1>4, <1>5

\* What a submitted task changes at most, be it accepted or refused.
LEMMA MaySubmit ==
  ASSUME tasks \in Seq(TaskRecords), NEW op, NEW of,
         Task(op, of) \in TaskRecords,
         \E accepted \in Allocated : Submits(op, of, accepted)
  PROVE  /\ tasks' \in Seq(TaskRecords)
         /\ \A p, f : ~(p = op /\ f = of) => (Queued(p, f)' <=> Queued(p, f))
         /\ \A p, f : Alone(p, f) /\ (p = op /\ f = of => ~Queued(op, of))
                        => Alone(p, f)'
         /\ \A p, f, p2, f2 : ~(p = op /\ f = of) /\ Behind(p, f, p2, f2)
                                => Behind(p, f, p2, f2)'
<1>1. PICK accepted \in BOOLEAN : Submits(op, of, accepted)
  BY DEF Allocated
<1>2. CASE accepted
  <2>1. Submits(op, of, TRUE)
    BY <1>1, <1>2
  <2>2. QED
    BY <2>1, SubmitEffect
<1>3. CASE ~accepted
  <2>1. UNCHANGED tasks
    BY <1>1, <1>3 DEF Submits
  <2>2. QED
    BY <2>1, QueueKept
<1>4. QED
  BY <1>2, <1>3

\* What a task taken from the queue changes.
LEMMA TakeEffect ==
  ASSUME tasks \in Seq(TaskRecords), NEW op, NEW of, Takes(op, of)
  PROVE  /\ tasks' \in Seq(TaskRecords) /\ Task(op, of) \in TaskRecords
         /\ Queued(op, of)
         /\ \A p, f : Queued(p, f) <=> Queued(p, f)' \/ (p = op /\ f = of)
         /\ \A p, f : Alone(p, f) => Alone(p, f)'
         /\ Alone(op, of) => ~Queued(op, of)'
         /\ \A p, f, p2, f2 : Behind(p, f, p2, f2) => Behind(p, f, p2, f2)'
         /\ \A p2, f2 : Behind(op, of, p2, f2) => Queued(p2, f2)'
<1>1. /\ tasks # <<>> /\ Head(tasks) = Task(op, of) /\ tasks' = Tail(tasks)
  BY DEF Takes, Task
<1>2. tasks' \in Seq(TaskRecords) /\ Task(op, of) \in TaskRecords
  BY <1>1, TailForm
<1>3. \A p, f : Queued(p, f) <=> Queued(p, f)' \/ (p = op /\ f = of)
  BY <1>1, QueuedIsHas, HasTail, TaskIdentity
<1>4. \A p, f : Alone(p, f) => Alone(p, f)'
  BY <1>1, SingleTail DEF Alone
<1>5. Alone(op, of) => ~Queued(op, of)'
  BY <1>1, SingleTail, QueuedIsHas DEF Alone
<1>6. \A p, f, p2, f2 : Behind(p, f, p2, f2) => Behind(p, f, p2, f2)'
  BY <1>1, FollowsTail DEF Behind
<1>7. \A p2, f2 : Behind(op, of, p2, f2) => Queued(p2, f2)'
  BY <1>1, FollowsTail, QueuedIsHas DEF Behind
<1>8. QED
  BY <1>2, <1>3, <1>4, <1>5, <1>6, <1>7

-----------------------------------------------------------------------------
(***************************************************************************)
(* The inductive invariant.                                                *)
(***************************************************************************)
\* A lost server has its reference for ever: the closed event was refused.
Serving(k) == sock[k].server \in {"open", "stopping", "lost"}

\* What holds a session besides itself: its WebSocket, its peer connection.
WsHolds(c) == client[c].ws # "closed" \/ Queued("wsClosed", c)

PcHolds(c) == client[c].pc \in {"open", "lost"} \/ Queued("pcClosed", c)

\* A socket object is whole, or lies empty in the pool.
SockFits(k) ==
  /\ sock[k].wss <=> sock[k].active
  /\ sock[k].ref = 0 =>
       /\ sock[k].server = "none" /\ sock[k].list = {}
       /\ sock[k].native = None /\ ~sock[k].active
  /\ sock[k].ref > 0 => sock[k].native \in Natives /\ sock[k].server # "none"
  /\ sock[k].active => sock[k].server = "open"
  /\ Queued("wssClosed", k) => sock[k].server = "stopped"
  /\ Alone("wssClosed", k)

\* SocketRefs for one socket.
RefsFit(k) ==
  sock[k].ref = Count(sock[k].active)
                + Count(Serving(k) \/ Queued("wssClosed", k))
                + Cardinality(SessionsOf(k))

\* A session is listed by its socket while it is active, and is not released
\* before its peer connection has ended.
SessionFits(c) ==
  /\ session[c].ref > 0 =>
       session[c].socket \in Socks /\ client[c].at = "announced" /\ ~Queued("client", c)
  /\ session[c].active =>
       /\ session[c].ref = IF c \in held THEN 4 ELSE 3
       /\ sock[session[c].socket].active /\ PcHolds(c)
  /\ \A k \in Socks : c \in sock[k].list <=> session[c].active /\ session[c].socket = k
  /\ session[c].ref = 0 => ~PcHolds(c) /\ c \notin held

\* What holds a session, at least; all that does, if clients are announced
\* before they are gone.
HoldsFit(c) ==
  /\ session[c].ref > 0 /\ ~session[c].active =>
       session[c].ref >= Count(WsHolds(c)) + Count(PcHolds(c)) + Count(c \in held)
  /\ "early" \notin Faults /\ session[c].ref > 0 =>
       session[c].ref = Count(session[c].active) + Count(WsHolds(c)) + Count(PcHolds(c))
                        + Count(c \in held)
  /\ Queued("pcClosed", c) => client[c].pc = "closed"
  /\ Queued("wsClosed", c) => client[c].ws = "closed"
  /\ Alone("pcClosed", c) /\ Alone("wsClosed", c)

\* The end of a server is behind the clients it has accepted, and the end of
\* a client behind its announcement.
ClientFits(c) ==
  /\ client[c].at = "accepted" => 
       client[c].server \in Socks /\ \A k \in Socks : client[c].server = k => Serving(k)
  /\ Queued("client", c) =>
       /\ client[c].at = "announced" /\ client[c].server \in Socks
       /\ \A k \in Socks : client[c].server = k =>
            Serving(k) \/ Behind("client", c, "wssClosed", k)
  /\ Alone("client", c)
  /\ "early" \notin Faults =>
       /\ client[c].at \in {"new", "accepted"} => client[c].ws # "closed"
       /\ Queued("client", c) =>
            client[c].ws # "closed" \/ Behind("client", c, "wsClosed", c)

\* The map leads to sockets of the native socket, and to each of them when a
\* native socket does not listen again before it is forgotten.
MapFits ==
  /\ \A n \in Natives : map[n] # None => sock[map[n]].native = n
  /\ "restart" \notin Faults =>
       /\ \A k \in Socks, n \in Natives : sock[k].ref > 0 /\ sock[k].native = n =>
            map[n] = k /\ ~Queued("listen", n)
       /\ \A n \in Natives : Alone("listen", n)

\* No object lies in the pool too often: socket_plugin_init has succeeded.
NoSurplus == "init" \notin Faults /\ surplus = [k \in Socks |-> 0]

SocketInv ==
  /\ TypeOK
  /\ NoSurplus
  /\ \A k \in Socks : SockFits(k) /\ RefsFit(k)
  /\ \A c \in Clients : SessionFits(c) /\ HoldsFit(c) /\ ClientFits(c)
  /\ MapFits

\* None is no native socket, no client and no plugin socket.
LEMMA NoneIsNothing ==
  None \notin Natives /\ None \notin Clients /\ None \notin Socks
  BY SocketAssumption

\* The invariant holds initially.
LEMMA SocketInvInit ==
  ASSUME "init" \notin Faults PROVE Init => SocketInv
<1> SUFFICES ASSUME Init PROVE SocketInv
  OBVIOUS
<1>1. TypeOK
  <2>1. Pooled \in SockRecords
    BY DEF Pooled, SockRecords
  <2>2. [ref |-> 0, active |-> FALSE, socket |-> None] \in SessionRecords
    BY DEF SessionRecords
  <2>3. [at |-> "new", server |-> None, ws |-> "open", pc |-> "none"] \in ClientRecords
    BY DEF ClientRecords
  <2>4. 0 \in 0 .. CountModulus - 1
    BY SocketAssumption
  <2>5. /\ tasks \in Seq(TaskRecords) /\ held \subseteq Clients
        /\ surplus \in [Socks -> Nat]
    BY DEF Init
  <2>6. QED
    BY <2>1, <2>2, <2>3, <2>4, <2>5 DEF TypeOK, Init
<1>2. ASSUME NEW op, NEW of PROVE ~Queued(op, of) /\ Alone(op, of)
  BY DEF Init, Queued, Alone, Single
<1>3. ASSUME NEW k \in Socks PROVE SockFits(k) /\ RefsFit(k)
  <2>1. SessionsOf(k) = {}
    BY DEF SessionsOf, Init
  <2>2. Cardinality(SessionsOf(k)) = 0
    BY <2>1, FS_EmptySet
  <2>3. /\ sock[k].ref = 0 /\ sock[k].active = FALSE /\ sock[k].wss = FALSE
        /\ sock[k].native = None /\ sock[k].server = "none" /\ sock[k].list = {}
    <3>1. sock[k] = Pooled
      BY DEF Init
    <3>2. QED
      BY <3>1 DEF Pooled
  <2>4. ~Queued("wssClosed", k) /\ Alone("wssClosed", k)
    BY <1>2
  <2>5. SockFits(k)
    BY <2>3, <2>4 DEF SockFits
  <2>6. RefsFit(k)
    BY <2>2, <2>3, <2>4 DEF RefsFit, Serving, Count
  <2>7. QED
    BY <2>5, <2>6
<1>4. ASSUME NEW c \in Clients PROVE SessionFits(c) /\ HoldsFit(c) /\ ClientFits(c)
  <2> USE DEF Init, Pooled
  <2>1. SessionFits(c)
    BY <1>2 DEF SessionFits, PcHolds
  <2>2. HoldsFit(c)
    BY <1>2 DEF HoldsFit
  <2>3. ClientFits(c)
    BY <1>2 DEF ClientFits
  <2>4. QED
    BY <2>1, <2>2, <2>3
<1>5. MapFits
  BY <1>2 DEF MapFits, Init, Pooled
<1>6. NoSurplus
  BY DEF NoSurplus, Init
<1>7. QED
  BY <1>1, <1>3, <1>4, <1>5, <1>6 DEF SocketInv
-----------------------------------------------------------------------------
(***************************************************************************)
(* The native thread.                                                      *)
(***************************************************************************)
LEMMA CountsModulo ==
  \A a \in Nat : a % CountModulus \in 0 .. CountModulus - 1
  BY SocketAssumption

\* A start or a stop of a native socket.
LEMMA NativeTypes ==
  ASSUME TypeOK, NEW n \in Natives, Listen(n) \/ Stop(n)
  PROVE  /\ native' \in [Natives -> {"idle", "listening", "connecting"}]
         /\ running' \in 0 .. CountModulus - 1
         /\ executor' \in BOOLEAN
<1>1. running + 1 \in Nat /\ running + CountModulus - 1 \in Nat
  BY SocketAssumption DEF TypeOK
<1>2. running' \in 0 .. CountModulus - 1
  BY <1>1, CountsModulo DEF Listen, Stop, Started
<1>3. native' \in [Natives -> {"idle", "listening", "connecting"}]
  BY DEF TypeOK, Listen, Stop
<1>4. executor' \in BOOLEAN
  BY DEF TypeOK, Listen, Stop, Started
<1>5. QED
  BY <1>2, <1>3, <1>4

\* A step that only submits or takes a start or a stop of a native socket, or
\* does nothing to the plugin, keeps what is not about starts.
LEMMA QuietKeeps ==
  ASSUME SocketInv, UNCHANGED <<map, sock, session, client, held>>,
         \A op \in {"client", "wsClosed", "pcClosed", "wssClosed"} : \A f :
           (Queued(op, f)' <=> Queued(op, f)) /\ (Alone(op, f) => Alone(op, f)'),
         \A c, f : \A op \in {"wssClosed", "wsClosed"} :
           Behind("client", c, op, f) => Behind("client", c, op, f)'
  PROVE  /\ \A k \in Socks : SockFits(k)' /\ RefsFit(k)'
         /\ \A c \in Clients : SessionFits(c)' /\ HoldsFit(c)' /\ ClientFits(c)'
<1>1. ASSUME NEW k \in Socks PROVE SockFits(k)' /\ RefsFit(k)'
  <2>1. SockFits(k) /\ RefsFit(k)
    BY DEF SocketInv
  <2>2. SockFits(k)'
    BY <2>1 DEF SockFits
  <2>3. SessionsOf(k)' = SessionsOf(k)
    BY DEF SessionsOf
  <2>4. RefsFit(k)'
    BY <2>1, <2>3 DEF RefsFit, Serving
  <2>5. QED
    BY <2>2, <2>4
<1>2. ASSUME NEW c \in Clients PROVE SessionFits(c)' /\ HoldsFit(c)' /\ ClientFits(c)'
  <2>1. SessionFits(c) /\ HoldsFit(c) /\ ClientFits(c)
    BY DEF SocketInv
  <2>2. SessionFits(c)'
    BY <2>1 DEF SessionFits, PcHolds
  <2>3. HoldsFit(c)'
    BY <2>1 DEF HoldsFit, WsHolds, PcHolds
  <2>4. ClientFits(c)'
    BY <2>1 DEF ClientFits, Serving
  <2>5. QED
    BY <2>2, <2>3, <2>4
<1>3. QED
  BY <1>1, <1>2

\* `Listen` keeps the invariant.
LEMMA ListenKeeps ==
  ASSUME SocketInv, NEW n \in Natives, Listen(n)
  PROVE  SocketInv'
<1>1. /\ tasks \in Seq(TaskRecords) /\ Task("listen", n) \in TaskRecords
      /\ \E accepted \in Allocated : Submits("listen", n, accepted)
      /\ UNCHANGED <<map, sock, session, client, held, surplus>>
  BY DEF SocketInv, TypeOK, Listen, TaskRecords, Task
<1>2. TypeOK'
  BY <1>1, NativeTypes, MaySubmit DEF SocketInv, TypeOK
<1>3. /\ \A k \in Socks : SockFits(k)' /\ RefsFit(k)'
      /\ \A c \in Clients : SessionFits(c)' /\ HoldsFit(c)' /\ ClientFits(c)'
  BY <1>1, MaySubmit, QuietKeeps
<1>4. MapFits'
  <2>1. "restart" \in Faults \/ (~Queued("listen", n) /\ \A k \in Socks : sock[k].native # n)
    BY DEF Listen, Forgotten, Queued
  <2>2. \A m : m # n => (Queued("listen", m)' <=> Queued("listen", m))
    BY <1>1, MaySubmit
  <2>3. \A m : Alone("listen", m) /\ (m = n => ~Queued("listen", n)) => Alone("listen", m)'
    BY <1>1, MaySubmit
  <2>4. QED
    BY <1>1, <2>1, <2>2, <2>3 DEF SocketInv, MapFits
<1>5. QED
  BY <1>1, <1>2, <1>3, <1>4 DEF SocketInv, NoSurplus

\* `Stop` keeps the invariant.
LEMMA StopKeeps ==
  ASSUME SocketInv, NEW n \in Natives, Stop(n)
  PROVE  SocketInv'
<1>1. /\ tasks \in Seq(TaskRecords) /\ Task("stop", n) \in TaskRecords
      /\ \E accepted \in Allocated : Submits("stop", n, accepted)
      /\ UNCHANGED <<map, sock, session, client, held, surplus>>
  BY DEF SocketInv, TypeOK, Stop, TaskRecords, Task
<1>2. TypeOK'
  BY <1>1, NativeTypes, MaySubmit DEF SocketInv, TypeOK
<1>3. /\ \A k \in Socks : SockFits(k)' /\ RefsFit(k)'
      /\ \A c \in Clients : SessionFits(c)' /\ HoldsFit(c)' /\ ClientFits(c)'
  BY <1>1, MaySubmit, QuietKeeps
<1>4. MapFits'
  <2>1. \A f : /\ Queued("listen", f)' <=> Queued("listen", f)
               /\ Alone("listen", f) => Alone("listen", f)'
    BY <1>1, MaySubmit
  <2>2. QED
    BY <1>1, <2>1 DEF SocketInv, MapFits
<1>5. QED
  BY <1>1, <1>2, <1>3, <1>4 DEF SocketInv, NoSurplus

\* `Connect` keeps the invariant.
LEMMA ConnectKeeps ==
  ASSUME SocketInv, NEW n \in Natives, Connect(n)
  PROVE  SocketInv'
<1>1. UNCHANGED <<running, executor, map, sock, session, client, tasks, held,
                  surplus>>
  BY DEF Connect
<1>2. TypeOK'
  BY <1>1 DEF SocketInv, TypeOK, Connect
<1>3. /\ \A k \in Socks : SockFits(k)' /\ RefsFit(k)'
      /\ \A c \in Clients : SessionFits(c)' /\ HoldsFit(c)' /\ ClientFits(c)'
  BY <1>1, QueueKept, QuietKeeps
<1>4. MapFits'
  BY <1>1, QueueKept DEF SocketInv, MapFits
<1>5. QED
  BY <1>1, <1>2, <1>3, <1>4 DEF SocketInv, NoSurplus
-----------------------------------------------------------------------------
(***************************************************************************)
(* The worker thread and libdatachannel.                                   *)
(***************************************************************************)
LEMMA WssStopKeeps ==
  ASSUME SocketInv, NEW k \in Socks, WssStop(k)
  PROVE  SocketInv'
<1>0. PICK accepted \in BOOLEAN :
        /\ sock' = [sock EXCEPT ![k].server = IF accepted THEN "stopped" ELSE "lost"]
        /\ Submits("wssClosed", k, accepted)
  BY DEF WssStop, WssStops, Allocated
<1> DEFINE v == IF accepted THEN "stopped" ELSE "lost"
<1>1. /\ tasks \in Seq(TaskRecords) /\ Task("wssClosed", k) \in TaskRecords
      /\ UNCHANGED <<native, running, executor, map, session, client, held, surplus>>
      /\ sock[k].server = "stopping"
      /\ sock' = [sock EXCEPT ![k] = [sock[k] EXCEPT !.server = v]]
      /\ sock \in [Socks -> SockRecords] /\ sock[k] \in SockRecords
  BY <1>0 DEF SocketInv, TypeOK, WssStop, WssStops, TaskRecords, Task
<1>2. /\ sock'[k] \in SockRecords /\ sock'[k].server = v
      /\ sock'[k].ref = sock[k].ref /\ sock'[k].active = sock[k].active
      /\ sock'[k].wss = sock[k].wss /\ sock'[k].native = sock[k].native
      /\ sock'[k].list = sock[k].list
      /\ \A j \in Socks : j # k => sock'[j] = sock[j]
  <2>1. v \in Servers
    BY DEF Servers
  <2> HIDE DEF v
  <2>2. QED
    BY <1>1, <2>1, PutServer
<1>3. /\ tasks' \in Seq(TaskRecords)
      /\ \A p, f : p # "wssClosed" \/ f # k => (Queued(p, f)' <=> Queued(p, f))
      /\ \A p, f : Alone(p, f) /\ (p = "wssClosed" /\ f = k => ~Queued("wssClosed", k))
                    => Alone(p, f)'
      /\ \A p, f, p2, f2 : p # "wssClosed" /\ Behind(p, f, p2, f2)
                             => Behind(p, f, p2, f2)'
      /\ accepted => Queued("wssClosed", k)'
      /\ ~accepted => UNCHANGED tasks
      /\ accepted => \A c : Behind("client", c, "wssClosed", k)'
  <2>2. CASE accepted
    <3>1. Submits("wssClosed", k, TRUE)
      BY <1>0, <2>2
    <3>2. QED
      BY <1>1, <2>2, <3>1, SubmitEffect
  <2>3. CASE ~accepted
    <3>1. UNCHANGED tasks
      BY <1>0, <2>3 DEF Submits
    <3>2. QED
      BY <1>1, <2>3, <3>1, QueueKept
  <2>4. QED
    BY <2>2, <2>3
<1>4. TypeOK'
  <2>1. sock' \in [Socks -> SockRecords]
    BY <1>1, <1>2
  <2>2. QED
    BY <1>1, <1>3, <2>1 DEF SocketInv, TypeOK
<1>5. SockFits(k) /\ ~Queued("wssClosed", k) /\ sock[k].ref > 0
  <2>1. SockFits(k)
    BY DEF SocketInv
  <2>2. sock[k].ref \in Nat
    BY <1>1, SockFields
  <2>3. QED
    BY <1>1, <2>1, <2>2 DEF SockFits
<1>6. \A p, f : p # "wssClosed" \/ f # k => (Alone(p, f) => Alone(p, f)')
  BY <1>3
<1>7. ASSUME NEW j \in Socks PROVE SockFits(j)'
  <2>1. SockFits(j)
    BY DEF SocketInv
  <2>2. Alone("wssClosed", j)'
    BY <1>3, <1>5, <2>1 DEF SockFits
  <2>3. CASE j = k
    <3>1. Queued("wssClosed", k)' => sock'[k].server = "stopped"
      BY <1>2, <1>3, <1>5, QueueKept
    <3>2. sock'[k].server # "none"
      BY <1>2
    <3>3. QED
      BY <1>1, <1>2, <1>5, <2>1, <2>2, <2>3, <3>1, <3>2 DEF SockFits
  <2>4. CASE j # k
    BY <1>2, <1>3, <2>1, <2>2, <2>4 DEF SockFits
  <2>5. QED
    BY <2>3, <2>4
<1>8. ASSUME NEW j \in Socks PROVE RefsFit(j)'
  <2>1. RefsFit(j)
    BY DEF SocketInv
  <2>2. SessionsOf(j)' = SessionsOf(j)
    BY <1>1 DEF SessionsOf
  <2>3. (Serving(j) \/ Queued("wssClosed", j))' <=> Serving(j) \/ Queued("wssClosed", j)
    <3>1. CASE j = k
      BY <1>1, <1>2, <1>3, <3>1 DEF Serving
    <3>2. CASE j # k
      BY <1>2, <1>3, <3>2 DEF Serving
    <3>3. QED
      BY <3>1, <3>2
  <2>4. sock'[j].ref = sock[j].ref /\ sock'[j].active = sock[j].active
    BY <1>2
  <2>5. QED
    BY <2>1, <2>2, <2>3, <2>4 DEF RefsFit, Count
<1>9. ASSUME NEW c \in Clients PROVE SessionFits(c)' /\ HoldsFit(c)' /\ ClientFits(c)'
  <2>1. SessionFits(c) /\ HoldsFit(c) /\ ClientFits(c)
    BY DEF SocketInv
  <2>2. \A j \in Socks : sock'[j].list = sock[j].list /\ sock'[j].active = sock[j].active
    BY <1>2
  <2>3. SessionFits(c)'
    BY <1>1, <1>3, <2>1, <2>2 DEF SessionFits, PcHolds
  <2>4. HoldsFit(c)'
    BY <1>1, <1>3, <1>6, <2>1 DEF HoldsFit, WsHolds, PcHolds
  <2>5. ClientFits(c)'
    <3>1. client[c].at # "accepted" \/ client[c].server # k
      BY <1>1 DEF WssStop
    <3>2. \A s : /\ Serving(k)' \/ Behind("client", c, "wssClosed", k)'
                 /\ Behind("client", c, "wssClosed", s) => Behind("client", c, "wssClosed", s)'
                 /\ Behind("client", c, "wsClosed", s) => Behind("client", c, "wsClosed", s)'
      BY <1>2, <1>3 DEF Serving
    <3>3. \A j \in Socks : j # k => Serving(j)' = Serving(j)
      BY <1>2 DEF Serving
    <3>4. QED
      BY <1>1, <1>3, <1>6, <2>1, <3>1, <3>2, <3>3 DEF ClientFits
  <2>6. QED
    BY <2>3, <2>4, <2>5
<1>10. MapFits'
  <2>1. \A j \in Socks : sock'[j].ref = sock[j].ref /\ sock'[j].native = sock[j].native
    BY <1>2
  <2>2. MapFits /\ map \in [Natives -> Socks \cup {None}]
    BY DEF SocketInv, TypeOK
  <2>3. QED
    BY <1>1, <1>3, <1>6, <2>1, <2>2 DEF MapFits
<1>11. QED
  BY <1>1, <1>4, <1>7, <1>8, <1>9, <1>10 DEF SocketInv, NoSurplus

\* The queue is changed at most by tasks of client c.
OnlyTasksOf(c) ==
  /\ tasks' \in Seq(TaskRecords)
  /\ \A k : /\ Queued("wssClosed", k)' <=> Queued("wssClosed", k)
            /\ Alone("wssClosed", k) => Alone("wssClosed", k)'
  /\ \A n : /\ Queued("listen", n)' <=> Queued("listen", n)
            /\ Alone("listen", n) => Alone("listen", n)'
  /\ \A op \in {"client", "wsClosed", "pcClosed"} : \A d \in Clients \ {c} :
       (Queued(op, d)' <=> Queued(op, d)) /\ (Alone(op, d) => Alone(op, d)')
  /\ \A d \in Clients \ {c} : \A op \in {"wssClosed", "wsClosed"} : \A f :
       Behind("client", d, op, f) => Behind("client", d, op, f)'

\* A step of a client in libdatachannel: the sockets, the sessions and the map
\* are as they were, and so are the other clients.
LEMMA ClientStepKeeps ==
  ASSUME SocketInv, NEW c \in Clients, NEW r \in ClientRecords,
         UNCHANGED <<native, running, executor, map, sock, session, held, surplus>>,
         client' = [client EXCEPT ![c] = r], OnlyTasksOf(c),
         SessionFits(c)', HoldsFit(c)', ClientFits(c)'
  PROVE  SocketInv'
<1>1. TypeOK'
  BY DEF SocketInv, TypeOK, OnlyTasksOf
<1>2. ASSUME NEW k \in Socks PROVE SockFits(k)' /\ RefsFit(k)'
  <2>1. SockFits(k) /\ RefsFit(k)
    BY DEF SocketInv
  <2>2. SessionsOf(k)' = SessionsOf(k)
    BY DEF SessionsOf
  <2>3. SockFits(k)'
    BY <2>1 DEF SockFits, OnlyTasksOf
  <2>4. RefsFit(k)'
    BY <2>1, <2>2 DEF RefsFit, Serving, OnlyTasksOf
  <2>5. QED
    BY <2>3, <2>4
<1>3. ASSUME NEW d \in Clients PROVE SessionFits(d)' /\ HoldsFit(d)' /\ ClientFits(d)'
  <2>1. CASE d = c
    BY <2>1
  <2>2. CASE d # c
    <3>1. SessionFits(d) /\ HoldsFit(d) /\ ClientFits(d)
      BY DEF SocketInv
    <3>2. client'[d] = client[d]
      BY <2>2 DEF SocketInv, TypeOK
    <3>3. SessionFits(d)'
      BY <2>2, <3>1, <3>2 DEF SessionFits, PcHolds, OnlyTasksOf
    <3>4. HoldsFit(d)'
      BY <2>2, <3>1, <3>2 DEF HoldsFit, WsHolds, PcHolds, OnlyTasksOf
    <3>5. ClientFits(d)'
      BY <2>2, <3>1, <3>2 DEF ClientFits, Serving, OnlyTasksOf
    <3>6. QED
      BY <3>3, <3>4, <3>5
  <2>3. QED
    BY <2>1, <2>2
<1>4. MapFits'
  BY DEF SocketInv, MapFits, OnlyTasksOf
<1>5. QED
  BY <1>1, <1>2, <1>3, <1>4 DEF SocketInv, NoSurplus

\* `Accept` keeps the invariant.
LEMMA AcceptKeeps ==
  ASSUME SocketInv, NEW c \in Clients, NEW k \in Socks, Accept(c, k)
  PROVE  SocketInv'
<1> DEFINE r == [client[c] EXCEPT !.at = "accepted", !.server = k]
<1>1. /\ client[c].at = "new" /\ sock[k].server \in {"open", "stopping"}
      /\ UNCHANGED <<native, running, executor, map, sock, session, tasks, held, surplus>>
      /\ client \in [Clients -> ClientRecords] /\ client[c] \in ClientRecords
      /\ client' = [client EXCEPT ![c] = r] /\ tasks' \in Seq(TaskRecords)
  BY DEF SocketInv, TypeOK, Accept
<1>2. /\ r \in ClientRecords /\ r.at = "accepted" /\ r.server = k
      /\ r.ws = client[c].ws /\ r.pc = client[c].pc
  BY <1>1 DEF ClientRecords
<1> HIDE DEF r
<1>3. client'[c] = r
  BY <1>1
<1>4. SessionFits(c) /\ HoldsFit(c) /\ ClientFits(c)
  BY DEF SocketInv
<1>5. session[c].ref = 0 /\ ~session[c].active /\ ~Queued("client", c)
  <2>1. session[c].ref \in Nat
    BY DEF SocketInv, TypeOK, SessionRecords
  <2>2. QED
    BY <1>1, <1>4, <2>1 DEF SessionFits, ClientFits
<1>6. SessionFits(c)'
  BY <1>1, <1>2, <1>3, <1>4, <1>5, QueueKept DEF SessionFits, PcHolds
<1>7. HoldsFit(c)'
  BY <1>1, <1>2, <1>3, <1>4, <1>5, QueueKept DEF HoldsFit, WsHolds, PcHolds
<1>8. ClientFits(c)'
  BY <1>1, <1>2, <1>3, <1>4, <1>5, QueueKept DEF ClientFits, Serving
<1>9. OnlyTasksOf(c)
  BY <1>1, QueueKept DEF OnlyTasksOf
<1>10. QED
  BY <1>1, <1>2, <1>6, <1>7, <1>8, <1>9, ClientStepKeeps

\* `Announce` keeps the invariant.
LEMMA AnnounceKeeps ==
  ASSUME SocketInv, NEW c \in Clients, Announce(c)
  PROVE  SocketInv'
<1> DEFINE r == [client[c] EXCEPT !.at = "announced"]
<1>1. /\ client[c].at = "accepted"
      /\ UNCHANGED <<native, running, executor, map, sock, session, held, surplus>>
      /\ client \in [Clients -> ClientRecords] /\ client[c] \in ClientRecords
      /\ client' = [client EXCEPT ![c] = r]
      /\ tasks \in Seq(TaskRecords) /\ Task("client", c) \in TaskRecords
      /\ \E accepted \in Allocated : Submits("client", c, accepted)
  BY DEF SocketInv, TypeOK, Announce, TaskRecords, Task
<1>2. /\ r \in ClientRecords /\ r.at = "announced" /\ r.server = client[c].server
      /\ r.ws = client[c].ws /\ r.pc = client[c].pc
  BY <1>1, ClientFields
<1> HIDE DEF r
<1>3. client'[c] = r
  BY <1>1
<1>4. SessionFits(c) /\ HoldsFit(c) /\ ClientFits(c)
  BY DEF SocketInv
<1>5. session[c].ref = 0 /\ ~session[c].active /\ ~Queued("client", c)
  <2>1. session[c].ref \in Nat
    BY DEF SocketInv, TypeOK, SessionRecords
  <2>2. QED
    BY <1>1, <1>4, <2>1 DEF SessionFits, ClientFits
<1>6. /\ tasks' \in Seq(TaskRecords)
      /\ \A p, f : p # "client" \/ f # c => (Queued(p, f)' <=> Queued(p, f))
      /\ \A p, f : Alone(p, f) => Alone(p, f)'
      /\ \A p, f, p2, f2 : p # "client" \/ f # c =>
           (Behind(p, f, p2, f2) => Behind(p, f, p2, f2)')
  BY <1>1, <1>5, MaySubmit
<1>7. SessionFits(c)'
  BY <1>1, <1>2, <1>3, <1>4, <1>5, <1>6 DEF SessionFits, PcHolds
<1>8. HoldsFit(c)'
  BY <1>1, <1>2, <1>3, <1>4, <1>5, <1>6 DEF HoldsFit, WsHolds, PcHolds
<1>9. ClientFits(c)'
  BY <1>1, <1>2, <1>3, <1>4, <1>5, <1>6 DEF ClientFits, Serving
<1>10. OnlyTasksOf(c)
  BY <1>6 DEF OnlyTasksOf
<1>11. QED
  BY <1>1, <1>2, <1>7, <1>8, <1>9, <1>10, ClientStepKeeps

\* `WsClose` keeps the invariant.
LEMMA WsCloseKeeps ==
  ASSUME SocketInv, NEW c \in Clients, WsClose(c)
  PROVE  SocketInv'
<1>0. PICK accepted \in BOOLEAN :
        /\ client' = [client EXCEPT ![c].ws = IF accepted THEN "closed" ELSE "lost"]
        /\ Submits("wsClosed", c, accepted)
  BY DEF WsClose, Allocated
<1> DEFINE v == IF accepted THEN "closed" ELSE "lost"
           r == [client[c] EXCEPT !.ws = v]
<1>1. /\ client[c].ws = "open"
      /\ client[c].at = "announced" \/ (client[c].at = "accepted" /\ "early" \in Faults)
      /\ UNCHANGED <<native, running, executor, map, sock, session, held, surplus>>
      /\ client \in [Clients -> ClientRecords] /\ client[c] \in ClientRecords
      /\ client' = [client EXCEPT ![c] = r]
      /\ tasks \in Seq(TaskRecords) /\ Task("wsClosed", c) \in TaskRecords
  BY <1>0 DEF SocketInv, TypeOK, WsClose, TaskRecords, Task
<1>2. /\ r \in ClientRecords /\ r.ws = v /\ r.server = client[c].server
      /\ r.at = client[c].at /\ r.pc = client[c].pc
  <2>1. v \in {"closed", "lost"}
    OBVIOUS
  <2> HIDE DEF v
  <2>2. QED
    BY <1>1, <2>1 DEF ClientRecords
<1> HIDE DEF r
<1>3. client'[c] = r
  BY <1>1
<1>4. SessionFits(c) /\ HoldsFit(c) /\ ClientFits(c)
  BY DEF SocketInv
<1>5. ~Queued("wsClosed", c)
  BY <1>1, <1>4 DEF HoldsFit
<1>6. /\ tasks' \in Seq(TaskRecords)
      /\ \A p, f : Queued(p, f)' <=> Queued(p, f) \/ (accepted /\ p = "wsClosed" /\ f = c)
      /\ \A p, f : Alone(p, f) => Alone(p, f)'
      /\ \A f, p2, f2 : Behind("client", f, p2, f2) => Behind("client", f, p2, f2)'
      /\ accepted => \A f : Behind("client", f, "wsClosed", c)'
  <2>1. CASE accepted
    <3>1. Submits("wsClosed", c, TRUE)
      BY <1>0, <2>1
    <3>2. tasks \in Seq(TaskRecords) /\ Task("wsClosed", c) \in TaskRecords
      BY <1>1
    <3>3. /\ tasks' \in Seq(TaskRecords)
          /\ \A p, f : Queued(p, f)' <=> Queued(p, f) \/ (p = "wsClosed" /\ f = c)
      BY <3>1, <3>2, SubmitEffect
    <3>4. \A p, f : Alone(p, f) => Alone(p, f)'
      BY <1>5, <3>1, <3>2, SubmitEffect
    <3>5. \A f, p2, f2 : Behind("client", f, p2, f2) => Behind("client", f, p2, f2)'
      BY <3>1, <3>2, SubmitEffect
    <3>6. \A f : Behind("client", f, "wsClosed", c)'
      BY <3>1, <3>2, SubmitEffect
    <3>7. QED
      BY <2>1, <3>3, <3>4, <3>5, <3>6
  <2>2. CASE ~accepted
    <3>1. UNCHANGED tasks
      BY <1>0, <2>2 DEF Submits
    <3>2. QED
      BY <1>1, <2>2, <3>1, QueueKept
  <2>3. QED
    BY <2>1, <2>2
<1>7. SessionFits(c)'
  BY <1>1, <1>2, <1>3, <1>4, <1>6 DEF SessionFits, PcHolds
<1>8. HoldsFit(c)'
  <2>1. WsHolds(c) /\ WsHolds(c)' /\ (PcHolds(c)' <=> PcHolds(c))
    BY <1>1, <1>2, <1>3, <1>6 DEF WsHolds, PcHolds
  <2>2. QED
    BY <1>1, <1>2, <1>3, <1>4, <1>6, <2>1 DEF HoldsFit, Count
<1>9. ClientFits(c)'
  BY <1>1, <1>2, <1>3, <1>4, <1>6 DEF ClientFits, Serving
<1>10. OnlyTasksOf(c)
  BY <1>6 DEF OnlyTasksOf
<1>11. QED
  BY <1>1, <1>2, <1>7, <1>8, <1>9, <1>10, ClientStepKeeps

\* `PcClose` keeps the invariant.
LEMMA PcCloseKeeps ==
  ASSUME SocketInv, NEW c \in Clients, PcClose(c)
  PROVE  SocketInv'
<1>0. PICK accepted \in BOOLEAN :
        /\ client' = [client EXCEPT ![c].pc = IF accepted THEN "closed" ELSE "lost"]
        /\ Submits("pcClosed", c, accepted)
  BY DEF PcClose, Allocated
<1> DEFINE v == IF accepted THEN "closed" ELSE "lost"
           r == [client[c] EXCEPT !.pc = v]
<1>1. /\ client[c].pc = "open"
      /\ UNCHANGED <<native, running, executor, map, sock, session, held, surplus>>
      /\ client \in [Clients -> ClientRecords] /\ client[c] \in ClientRecords
      /\ client' = [client EXCEPT ![c] = r]
      /\ tasks \in Seq(TaskRecords) /\ Task("pcClosed", c) \in TaskRecords
  BY <1>0 DEF SocketInv, TypeOK, PcClose, TaskRecords, Task
<1>2. /\ r \in ClientRecords /\ r.pc = v /\ r.server = client[c].server
      /\ r.at = client[c].at /\ r.ws = client[c].ws
  <2>1. v \in {"closed", "lost"}
    OBVIOUS
  <2> HIDE DEF v
  <2>2. QED
    BY <1>1, <2>1 DEF ClientRecords
<1> HIDE DEF r
<1>3. client'[c] = r
  BY <1>1
<1>4. SessionFits(c) /\ HoldsFit(c) /\ ClientFits(c)
  BY DEF SocketInv
<1>5. ~Queued("pcClosed", c)
  BY <1>1, <1>4 DEF HoldsFit
<1>6. /\ tasks' \in Seq(TaskRecords)
      /\ \A p, f : Queued(p, f)' <=> Queued(p, f) \/ (accepted /\ p = "pcClosed" /\ f = c)
      /\ \A p, f : Alone(p, f) => Alone(p, f)'
      /\ \A f, p2, f2 : Behind("client", f, p2, f2) => Behind("client", f, p2, f2)'
  <2>1. CASE accepted
    <3>1. Submits("pcClosed", c, TRUE)
      BY <1>0, <2>1
    <3>2. QED
      BY <1>1, <1>5, <2>1, <3>1, SubmitEffect
  <2>2. CASE ~accepted
    <3>1. UNCHANGED tasks
      BY <1>0, <2>2 DEF Submits
    <3>2. QED
      BY <1>1, <2>2, <3>1, QueueKept
  <2>3. QED
    BY <2>1, <2>2
<1>7. PcHolds(c) /\ PcHolds(c)' /\ (WsHolds(c)' <=> WsHolds(c))
  BY <1>1, <1>2, <1>3, <1>6 DEF WsHolds, PcHolds
<1>8. SessionFits(c)'
  BY <1>1, <1>2, <1>3, <1>4, <1>6, <1>7 DEF SessionFits
<1>9. HoldsFit(c)'
  BY <1>1, <1>2, <1>3, <1>4, <1>6, <1>7 DEF HoldsFit, Count
<1>10. ClientFits(c)'
  BY <1>1, <1>2, <1>3, <1>4, <1>6 DEF ClientFits, Serving
<1>11. OnlyTasksOf(c)
  BY <1>6 DEF OnlyTasksOf
<1>12. QED
  BY <1>1, <1>2, <1>8, <1>9, <1>10, <1>11, ClientStepKeeps
-----------------------------------------------------------------------------
(***************************************************************************)
(* Tasks of the plugin thread.                                             *)
(***************************************************************************)
LEMMA OwnedFields ==
  /\ Owned.map = map /\ Owned.sock = sock
  /\ Owned.session = session /\ Owned.client = client
  /\ SocketInv => Owned \in Records
  BY DEF Owned, SocketInv, TypeOK, Records

\* What the plugin thread makes of its state keeps the types.
LEMMA BecomeTypes ==
  ASSUME SocketInv, NEW h \in Records, Become(h), tasks' \in Seq(TaskRecords),
         UNCHANGED <<native, running, executor, held, surplus>>
  PROVE  /\ TypeOK'
         /\ map' = h.map /\ sock' = h.sock
         /\ session' = h.session /\ client' = h.client
  BY DEF Become, Records, SocketInv, TypeOK

\* A step of the listed variables only leaves the others.
LEMMA OwnedKept ==
  ASSUME Become(Owned)
  PROVE  UNCHANGED <<map, sock, session, client>>
  BY DEF Become, Owned

\* `OnListen` keeps the invariant.
LEMMA OnListenKeeps ==
  ASSUME SocketInv, NEW n \in Natives, OnListen(n)
  PROVE  SocketInv'
<1>1. /\ tasks \in Seq(TaskRecords) /\ Takes("listen", n)
      /\ UNCHANGED <<native, running, executor, held>>
      /\ "init" \notin Faults /\ surplus = [k \in Socks |-> 0]
  BY DEF SocketInv, NoSurplus, TypeOK, OnListen
<1>2. /\ tasks' \in Seq(TaskRecords)
      /\ Queued("listen", n)
      /\ \A p, f : Queued(p, f) <=> Queued(p, f)' \/ (p = "listen" /\ f = n)
      /\ \A p, f : Alone(p, f) => Alone(p, f)'
      /\ Alone("listen", n) => ~Queued("listen", n)'
      /\ \A p, f, p2, f2 : Behind(p, f, p2, f2) => Behind(p, f, p2, f2)'
  BY <1>1, TakeEffect
<1>3. CASE Become(Owned) /\ UNCHANGED surplus
  <2>1. UNCHANGED <<map, sock, session, client>>
    BY <1>3, OwnedKept
  <2>2. TypeOK'
    BY <1>1, <1>2, <1>3, <2>1 DEF SocketInv, TypeOK
  <2>3. /\ \A k \in Socks : SockFits(k)' /\ RefsFit(k)'
        /\ \A c \in Clients : SessionFits(c)' /\ HoldsFit(c)' /\ ClientFits(c)'
    BY <1>1, <1>2, <2>1, QuietKeeps
  <2>4. MapFits'
    BY <1>2, <2>1 DEF SocketInv, MapFits
  <2>5. QED
    BY <1>1, <1>3, <2>2, <2>3, <2>4 DEF SocketInv, NoSurplus
<1>4. ASSUME NEW k \in Socks, sock[k].ref = 0, Become(SocketInit(Owned, k, n)),
             UNCHANGED surplus
      PROVE  SocketInv'
  <2> DEFINE h == SocketInit(Owned, k, n)
  <2>1. /\ h \in Records
        /\ h.session = session /\ h.client = client /\ h.map = Put(map, n, k)
        /\ \A j \in Socks \ {k} : h.sock[j] = sock[j]
        /\ h.sock[k].ref = 2 /\ h.sock[k].active = TRUE /\ h.sock[k].wss = TRUE
        /\ h.sock[k].native = n /\ h.sock[k].server = "open"
        /\ h.sock[k].list = sock[k].list
    <3>1. h \in Records /\ Inited(Owned, h, k, n)
      BY OwnedFields, SocketInitEffect
    <3> HIDE DEF h
    <3>2. QED
      BY <3>1, OwnedFields DEF Inited
  <2> HIDE DEF h
  <2>2. /\ TypeOK' /\ session' = session /\ client' = client
        /\ map' = Put(map, n, k) /\ sock' = h.sock
    BY <1>1, <1>2, <1>4, <2>1, BecomeTypes DEF h
  <2>3. /\ \A j \in Socks : j # k => sock'[j] = sock[j]
        /\ sock'[k].ref = 2 /\ sock'[k].active = TRUE /\ sock'[k].wss = TRUE
        /\ sock'[k].native = n /\ sock'[k].server = "open"
        /\ sock'[k].list = sock[k].list
    BY <2>1, <2>2
  <2>4. /\ SockFits(k) /\ RefsFit(k) /\ sock[k].list = {} /\ sock[k].native = None
        /\ sock[k].server = "none" /\ ~sock[k].active
        /\ ~Queued("wssClosed", k)
    BY <1>4 DEF SocketInv, SockFits
  <2>5. /\ \A f : Queued("wssClosed", f)' <=> Queued("wssClosed", f)
        /\ \A f : Queued("client", f)' <=> Queued("client", f)
        /\ \A f : Queued("wsClosed", f)' <=> Queued("wsClosed", f)
        /\ \A f : Queued("pcClosed", f)' <=> Queued("pcClosed", f)
    BY <1>2
  <2>6. ASSUME NEW j \in Socks PROVE SockFits(j)'
    <3>1. CASE j = k
      BY <1>2, <2>3, <2>4, <2>5, <3>1 DEF SockFits
    <3>2. CASE j # k
      <4>1. SockFits(j)
        BY DEF SocketInv
      <4>2. QED
        BY <1>2, <2>3, <2>5, <3>2, <4>1 DEF SockFits
    <3>3. QED
      BY <3>1, <3>2
  <2>7. \A j \in Socks : SessionsOf(j)' = SessionsOf(j)
    BY <2>2 DEF SessionsOf
  <2>8. SessionsOf(k) = {} /\ Cardinality(SessionsOf(k)) = 0
    <3>1. IsFiniteSet(SessionsOf(k))
      BY ClientsFinite, FS_Subset DEF SessionsOf
    <3>2. Cardinality(SessionsOf(k)) = 0
      BY <1>4, <2>4, <3>1, FS_CardinalityType DEF RefsFit, Serving, Count
    <3>3. QED
      BY <3>1, <3>2, FS_EmptySet
  <2>9. ASSUME NEW j \in Socks PROVE RefsFit(j)'
    <3>1. CASE j = k
      <4>1. /\ Serving(k)' /\ sock'[k].ref = 2 /\ sock'[k].active
            /\ Cardinality(SessionsOf(k)') = 0
        BY <2>3, <2>7, <2>8 DEF Serving
      <4>2. QED
        BY <3>1, <4>1 DEF RefsFit, Count
    <3>2. CASE j # k
      <4>1. RefsFit(j)
        BY DEF SocketInv
      <4>2. QED
        BY <2>3, <2>5, <2>7, <3>2, <4>1 DEF RefsFit, Serving, Count
    <3>3. QED
      BY <3>1, <3>2
  <2>10. ASSUME NEW c \in Clients PROVE SessionFits(c)' /\ HoldsFit(c)' /\ ClientFits(c)'
    <3>1. SessionFits(c) /\ HoldsFit(c) /\ ClientFits(c)
      BY DEF SocketInv
    <3>2. \A j \in Socks : /\ sock'[j].list = sock[j].list
                           /\ sock[j].active => sock'[j].active
                           /\ Serving(j) => Serving(j)'
      BY <2>3, <2>4 DEF Serving
    <3>3. SessionFits(c)'
      BY <1>1, <2>2, <2>5, <3>1, <3>2 DEF SessionFits, PcHolds
    <3>4. HoldsFit(c)'
      BY <1>1, <1>2, <2>2, <2>5, <3>1 DEF HoldsFit, WsHolds, PcHolds
    <3>5. ClientFits(c)'
      BY <1>2, <2>2, <2>5, <3>1, <3>2 DEF ClientFits
    <3>6. QED
      BY <3>3, <3>4, <3>5
  <2>11. MapFits'
    <3>1. /\ map'[n] = k
          /\ \A m \in Natives : m # n => map'[m] = map[m]
      BY <2>2 DEF Put, SocketInv, TypeOK
    <3>2. \A m \in Natives : m # n /\ map[m] # None => map[m] \in Socks /\ map[m] # k
      BY <2>4, NoneIsNothing DEF SocketInv, TypeOK, MapFits
    <3>3. \A m \in Natives : map'[m] # None => sock'[map'[m]].native = m
      BY <2>3, <3>1, <3>2 DEF SocketInv, MapFits
    <3>4. ASSUME "restart" \notin Faults, NEW j \in Socks, NEW m \in Natives,
                 sock'[j].ref > 0, sock'[j].native = m
          PROVE  map'[m] = j /\ ~Queued("listen", m)'
      <4>1. CASE j = k
        BY <1>2, <2>3, <3>1, <3>4, <4>1 DEF SocketInv, MapFits
      <4>2. CASE j # k
        <5>1. sock[j].ref > 0 /\ sock[j].native = m
          BY <2>3, <3>4, <4>2
        <5>2. map[m] = j /\ ~Queued("listen", m)
          BY <3>4, <5>1 DEF SocketInv, MapFits
        <5>3. QED
          BY <1>2, <3>1, <5>2
      <4>3. QED
        BY <4>1, <4>2
    <3>5. "restart" \notin Faults => \A m \in Natives : Alone("listen", m)'
      BY <1>2 DEF SocketInv, MapFits
    <3>6. QED
      BY <3>3, <3>4, <3>5 DEF MapFits
  <2>12. QED
    BY <1>1, <1>4, <2>2, <2>6, <2>9, <2>10, <2>11 DEF SocketInv, NoSurplus
<1>5. ASSUME NEW k \in Socks, sock[k].ref = 0, UNCHANGED surplus,
             Become(SocketCleanup(SocketPluginInit(Owned, k, n), k))
      PROVE  SocketInv'
  <2>1. /\ map' = Put(map, n, None) /\ UNCHANGED <<session, client>>
        /\ sock' = Put(sock, k, Pooled)
    <3>1. /\ sock \in [Socks -> SockRecords] /\ sock[k] \in SockRecords
          /\ map \in [Natives -> Socks \cup {None}]
      BY DEF SocketInv, TypeOK
    <3> DEFINE q == [sock[k] EXCEPT !.native = n]
               p == SocketPluginInit(Owned, k, n)
    <3>2. q.native = n
      BY <3>1 DEF SockRecords
    <3>3. /\ p.sock = Put(sock, k, q) /\ p.map = Put(map, n, k)
          /\ p.session = session /\ p.client = client
          /\ p \in Records
      <4>1. q \in SockRecords
        BY <3>1, PutNative
      <4>2. Put(sock, k, q) \in [Socks -> SockRecords] /\ Put(map, n, k) \in [Natives -> Socks \cup {None}]
        BY <3>1, <4>1 DEF Put
      <4> DEFINE g == [Owned EXCEPT !.sock[k] = q]
      <4>3. /\ g \in Records /\ g.map = map /\ g.session = session
            /\ g.client = client /\ g.sock = Put(sock, k, q)
        <5>1. Owned \in Records
          BY OwnedFields
        <5>2. g \in Records /\ OnlySock(Owned, g, k)
          BY <4>1, <5>1, SockPut
        <5>3. g.sock = Put(sock, k, q)
          BY DEF Owned, Put
        <5>4. QED
          BY <5>2, <5>3, OwnedFields DEF OnlySock
      <4>4. p = [g EXCEPT !.map = Put(map, n, k)]
        <5>1. p = [g EXCEPT !.map = [g.map EXCEPT ![n] = k]]
          BY DEF SocketPluginInit, Owned
        <5>2. QED
          BY <4>3, <5>1 DEF Put
      <4> HIDE DEF p, q, g
      <4>5. QED
        BY <4>2, <4>3, <4>4 DEF Records
    <3>4. p.sock[k] = q
      BY <3>1, <3>3 DEF Put
    <3> DEFINE h == SocketCleanup(p, k)
    <3> HIDE DEF p, q
    <3>5. /\ h.sock = Put(p.sock, k, Pooled) /\ h.map = Put(p.map, p.sock[k].native, None)
          /\ h.session = p.session /\ h.client = p.client
      BY <3>3 DEF SocketCleanup, Records, Put
    <3>6. Put(Put(sock, k, q), k, Pooled) = Put(sock, k, Pooled)
      BY <3>1 DEF Put
    <3>7. Put(Put(map, n, k), n, None) = Put(map, n, None)
      BY <3>1 DEF Put
    <3>8. Become(h)
      BY <1>5 DEF p
    <3> HIDE DEF h
    <3>9. QED
      BY <3>2, <3>3, <3>4, <3>5, <3>6, <3>7, <3>8 DEF Become
  <2>2. /\ sock \in [Socks -> SockRecords] /\ map \in [Natives -> Socks \cup {None}]
        /\ SockFits(k) /\ RefsFit(k)
    BY DEF SocketInv, TypeOK
  <2>3. /\ sock'[k] = Pooled /\ \A j \in Socks : j # k => sock'[j] = sock[j]
        /\ map'[n] = None /\ \A m \in Natives : m # n => map'[m] = map[m]
    BY <2>1, <2>2 DEF Put
  <2>4. /\ sock'[k].ref = 0 /\ ~sock'[k].active /\ ~sock'[k].wss
        /\ sock'[k].native = None /\ sock'[k].server = "none" /\ sock'[k].list = {}
    BY <2>3 DEF Pooled
  <2>5. /\ sock[k].ref = 0 /\ ~sock[k].active /\ ~sock[k].wss
        /\ sock[k].native = None /\ sock[k].server = "none" /\ sock[k].list = {}
        /\ ~Queued("wssClosed", k)
    BY <1>5, <2>2 DEF SockFits
  <2>6. \A j \in Socks :
          /\ sock'[j].ref = sock[j].ref /\ (sock'[j].active <=> sock[j].active)
          /\ (sock'[j].wss <=> sock[j].wss) /\ sock'[j].native = sock[j].native
          /\ sock'[j].server = sock[j].server /\ sock'[j].list = sock[j].list
    BY <2>3, <2>4, <2>5
  <2>7. /\ \A f : Queued("wssClosed", f)' <=> Queued("wssClosed", f)
        /\ \A f : Queued("client", f)' <=> Queued("client", f)
        /\ \A f : Queued("wsClosed", f)' <=> Queued("wsClosed", f)
        /\ \A f : Queued("pcClosed", f)' <=> Queued("pcClosed", f)
    BY <1>2
  <2>8. TypeOK'
    <3>1. Pooled \in SockRecords
      BY DEF Pooled, SockRecords
    <3>2. /\ sock' \in [Socks -> SockRecords] /\ map' \in [Natives -> Socks \cup {None}]
      BY <2>1, <2>2, <3>1 DEF Put
    <3>3. QED
      BY <1>1, <1>2, <1>5, <2>1, <3>2 DEF SocketInv, TypeOK
  <2>9. ASSUME NEW j \in Socks PROVE SockFits(j)' /\ RefsFit(j)'
    <3>1. SockFits(j) /\ RefsFit(j)
      BY DEF SocketInv
    <3>2. SockFits(j)'
      BY <1>2, <2>6, <2>7, <3>1 DEF SockFits
    <3>3. SessionsOf(j)' = SessionsOf(j)
      BY <2>1 DEF SessionsOf
    <3>4. RefsFit(j)'
      BY <2>6, <2>7, <3>1, <3>3 DEF RefsFit, Serving, Count
    <3>5. QED
      BY <3>2, <3>4
  <2>10. ASSUME NEW c \in Clients PROVE SessionFits(c)' /\ HoldsFit(c)' /\ ClientFits(c)'
    <3>1. SessionFits(c) /\ HoldsFit(c) /\ ClientFits(c)
      BY DEF SocketInv
    <3>2. SessionFits(c)'
      BY <1>1, <2>1, <2>6, <2>7, <3>1 DEF SessionFits, PcHolds
    <3>3. HoldsFit(c)'
      BY <1>1, <1>2, <2>1, <2>7, <3>1 DEF HoldsFit, WsHolds, PcHolds
    <3>4. ClientFits(c)'
      BY <1>2, <2>1, <2>6, <2>7, <3>1 DEF ClientFits, Serving
    <3>5. QED
      BY <3>2, <3>3, <3>4
  <2>11. MapFits'
    <3>1. MapFits
      BY DEF SocketInv
    <3>2. ASSUME NEW m \in Natives, map'[m] # None
          PROVE  sock'[map'[m]].native = m
      <4>1. map'[m] = map[m] /\ map[m] \in Socks
        BY <2>2, <2>3, <3>2
      <4>2. QED
        BY <2>6, <3>1, <3>2, <4>1 DEF MapFits
    <3>3. ASSUME "restart" \notin Faults, NEW j \in Socks, NEW m \in Natives,
                 sock'[j].ref > 0, sock'[j].native = m
          PROVE  map'[m] = j /\ ~Queued("listen", m)'
      <4>1. map[m] = j /\ ~Queued("listen", m)
        BY <2>6, <3>1, <3>3 DEF MapFits
      <4>2. QED
        BY <1>2, <2>3, <4>1
    <3>4. "restart" \notin Faults => \A m \in Natives : Alone("listen", m)'
      BY <1>2, <3>1 DEF MapFits
    <3>5. QED
      BY <3>2, <3>3, <3>4 DEF MapFits
  <2>12. QED
    BY <1>1, <1>5, <2>8, <2>9, <2>10, <2>11 DEF SocketInv, NoSurplus
<1>6. ASSUME NEW k \in Socks, NEW outcome \in InitOutcomes(k, n), InPool(k),
             Become(outcome.owned),
             surplus' = [surplus EXCEPT ![k] =
                          @ - (IF sock[k].ref > 0 THEN 1 ELSE 0) + outcome.more]
      PROVE  SocketInv'
  <2>1. sock[k].ref = 0
    BY <1>1, <1>6 DEF InPool
  <2>2. /\ outcome.more = 0
        /\ \/ outcome.owned = SocketInit(Owned, k, n)
           \/ outcome.owned = SocketCleanup(SocketPluginInit(Owned, k, n), k)
    BY <1>1, <1>6 DEF InitOutcomes
  <2>3. UNCHANGED surplus
    BY <1>1, <1>6, <2>1, <2>2
  <2>4. QED
    BY <1>4, <1>5, <1>6, <2>1, <2>2, <2>3
<1>7. QED
  BY <1>3, <1>6 DEF OnListen

\* A socket has finitely many sessions.
LEMMA SessionsFinite ==
  ASSUME NEW k \in Socks
  PROVE  IsFiniteSet(SessionsOf(k)) /\ Cardinality(SessionsOf(k)) \in Nat
<1>1. IsFiniteSet(SessionsOf(k))
  BY ClientsFinite, FS_Subset DEF SessionsOf
<1>2. QED
  BY <1>1, FS_CardinalityType

\* `OnClient` keeps the invariant.
LEMMA OnClientKeeps ==
  ASSUME SocketInv, NEW c \in Clients, OnClient(c)
  PROVE  SocketInv'
<1>1. /\ tasks \in Seq(TaskRecords) /\ Takes("client", c)
      /\ UNCHANGED <<native, running, executor, held, surplus>>
      /\ client \in [Clients -> ClientRecords] /\ client[c] \in ClientRecords
      /\ session \in [Clients -> SessionRecords] /\ session[c].ref \in Nat
  BY DEF SocketInv, TypeOK, OnClient, SessionRecords
<1>2. /\ tasks' \in Seq(TaskRecords)
      /\ Queued("client", c)
      /\ \A p, f : Queued(p, f) <=> Queued(p, f)' \/ (p = "client" /\ f = c)
      /\ \A p, f : Alone(p, f) => Alone(p, f)'
      /\ Alone("client", c) => ~Queued("client", c)'
      /\ \A p, f, p2, f2 : Behind(p, f, p2, f2) => Behind(p, f, p2, f2)'
      /\ \A p2, f2 : Behind("client", c, p2, f2) => Queued(p2, f2)'
  BY <1>1, TakeEffect
<1>3. SessionFits(c) /\ HoldsFit(c) /\ ClientFits(c)
  BY DEF SocketInv
<1>4. /\ client[c].at = "announced" /\ client[c].server \in Socks
      /\ session[c].ref = 0 /\ ~session[c].active /\ ~PcHolds(c) /\ c \notin held
      /\ ~Queued("client", c)'
  BY <1>1, <1>2, <1>3 DEF SessionFits, ClientFits
<1>5. OnlyTasksOf(c)
  BY <1>2 DEF OnlyTasksOf
<1>6. ASSUME NEW r \in ClientRecords, client' = [client EXCEPT ![c] = r],
             r.ws = client[c].ws, r.pc = client[c].pc, r.at \in {"announced", "gone"},
             UNCHANGED <<map, sock, session>>
      PROVE  SocketInv'
  <2>1. client'[c] = r
    BY <1>1, <1>6
  <2>2. SessionFits(c)'
    BY <1>1, <1>2, <1>3, <1>4, <1>6, <2>1 DEF SessionFits, PcHolds
  <2>3. HoldsFit(c)'
    BY <1>2, <1>3, <1>4, <1>6, <2>1 DEF HoldsFit, WsHolds, PcHolds
  <2>4. ClientFits(c)'
    BY <1>2, <1>3, <1>4, <1>6, <2>1 DEF ClientFits
  <2>5. QED
    BY <1>1, <1>5, <1>6, <2>2, <2>3, <2>4, ClientStepKeeps
<1>7. CASE Become(Owned)
  <2>1. UNCHANGED <<map, sock, session, client>>
    BY <1>7, OwnedKept
  <2>2. client' = [client EXCEPT ![c] = client[c]]
    BY <1>1, <2>1
  <2>3. QED
    BY <1>1, <1>4, <1>6, <2>1, <2>2
<1>8. CASE Become([Owned EXCEPT !.client[c].at = "gone"])
  <2> DEFINE r == [client[c] EXCEPT !.at = "gone"]
  <2>1. /\ r \in ClientRecords /\ r.ws = client[c].ws /\ r.pc = client[c].pc
        /\ r.at = "gone"
    BY <1>1, ClientFields
  <2>2. client' = [client EXCEPT ![c] = r] /\ UNCHANGED <<map, sock, session>>
    BY <1>8 DEF Become, Owned
  <2> HIDE DEF r
  <2>3. QED
    BY <1>6, <2>1, <2>2
<1>9. ASSUME NEW k \in Socks, client[c].server = k, sock[k].wss,
             Become(CreateSession(Owned, k, c))
      PROVE  SocketInv'
  <2> DEFINE h == CreateSession(Owned, k, c)
  <2>1. h \in Records /\ Created(Owned, h, k, c)
    BY <1>4, OwnedFields, CreateSessionEffect
  <2>2. /\ TypeOK'
        /\ map' = h.map /\ sock' = h.sock /\ session' = h.session /\ client' = h.client
    <3> HIDE DEF h
    <3>1. Become(h)
      BY <1>9 DEF h
    <3>2. QED
      BY <1>1, <1>2, <2>1, <3>1, BecomeTypes
  <2> HIDE DEF h
  <2>3. /\ map' = map
        /\ session' = Put(session, c, [ref |-> 3, active |-> TRUE, socket |-> k])
        /\ client' = Put(client, c, [client[c] EXCEPT !.pc = "open"])
        /\ \A j \in Socks : j # k => sock'[j] = sock[j]
        /\ sock'[k].ref = sock[k].ref + 1
        /\ sock'[k].list = sock[k].list \cup {c}
        /\ sock'[k].active = sock[k].active /\ sock'[k].wss = sock[k].wss
        /\ sock'[k].native = sock[k].native
        /\ sock'[k].server = sock[k].server
    BY <2>1, <2>2, OwnedFields DEF Created
  <2>4. /\ session'[c].ref = 3 /\ session'[c].active /\ session'[c].socket = k
        /\ \A d \in Clients : d # c => session'[d] = session[d]
    <3>1. session'[c] = [ref |-> 3, active |-> TRUE, socket |-> k]
      BY <1>1, <2>3 DEF Put
    <3>2. QED
      BY <1>1, <2>3, <3>1 DEF Put
  <2>5. /\ client'[c].at = "announced" /\ client'[c].server = k
        /\ client'[c].ws = client[c].ws /\ client'[c].pc = "open"
        /\ \A d \in Clients : d # c => client'[d] = client[d]
    <3>1. client'[c] = [client[c] EXCEPT !.pc = "open"]
      BY <1>1, <2>3 DEF Put
    <3>2. /\ client'[c].at = client[c].at /\ client'[c].server = client[c].server
          /\ client'[c].ws = client[c].ws /\ client'[c].pc = "open"
      BY <1>1, <3>1, ClientFields
    <3>3. QED
      BY <1>1, <1>4, <1>9, <2>3, <3>2 DEF Put
  <2>6. /\ \A f : Queued("wssClosed", f)' <=> Queued("wssClosed", f)
        /\ \A f : Queued("listen", f)' <=> Queued("listen", f)
        /\ \A f : Queued("wsClosed", f)' <=> Queued("wsClosed", f)
        /\ \A f : Queued("pcClosed", f)' <=> Queued("pcClosed", f)
        /\ \A f : f # c => (Queued("client", f)' <=> Queued("client", f))
    BY <1>2
  <2>7. /\ SockFits(k) /\ RefsFit(k) /\ sock[k].active /\ sock[k].wss
        /\ sock[k].server = "open" /\ sock[k].ref \in Nat /\ sock[k].ref > 0
    <3>1. sock[k] \in SockRecords /\ SockFits(k) /\ RefsFit(k)
      BY <1>4 DEF SocketInv, TypeOK
    <3>2. sock[k].ref \in Nat
      BY <3>1, SockFields
    <3>3. QED
      BY <1>9, <3>1, <3>2 DEF SockFits
  <2>8. ASSUME NEW j \in Socks PROVE SockFits(j)'
    <3>1. SockFits(j) /\ Alone("wssClosed", j)'
      BY <1>2 DEF SocketInv, SockFits
    <3>2. CASE j = k
      <4>1. sock'[k].ref > 0 /\ sock'[k].ref # 0
        BY <2>3, <2>7
      <4>2. /\ sock'[k].active /\ sock'[k].wss /\ sock'[k].server = "open"
            /\ sock'[k].native \in Natives
        BY <2>3, <2>7 DEF SockFits
      <4>3. ~Queued("wssClosed", k)'
        BY <2>6, <2>7 DEF SockFits
      <4>4. QED
        BY <3>1, <3>2, <4>1, <4>2, <4>3 DEF SockFits
    <3>3. CASE j # k
      BY <2>3, <2>6, <3>1, <3>3 DEF SockFits
    <3>4. QED
      BY <3>2, <3>3
  <2>9. ASSUME NEW j \in Socks PROVE RefsFit(j)'
    <3>1. RefsFit(j)
      BY DEF SocketInv
    <3>2. CASE j = k
      <4>1. SessionsOf(k)' = SessionsOf(k) \cup {c} /\ c \notin SessionsOf(k)
        BY <1>1, <1>4, <2>4 DEF SessionsOf
      <4>2. /\ IsFiniteSet(SessionsOf(k)) /\ Cardinality(SessionsOf(k)) \in Nat
            /\ session[c].ref = 0
        BY <1>4, SessionsFinite
      <4>3. Cardinality(SessionsOf(k)') = Cardinality(SessionsOf(k)) + 1
        <5>1. Cardinality(SessionsOf(k) \cup {c}) = Cardinality(SessionsOf(k)) + 1
          BY <4>1, <4>2, FS_AddElement
        <5>2. QED
          BY <4>1, <5>1
      <4>4. (Serving(k) \/ Queued("wssClosed", k))' <=> Serving(k) \/ Queued("wssClosed", k)
        BY <2>3, <2>6 DEF Serving
      <4>5. QED
        <5>1. Count((Serving(k) \/ Queued("wssClosed", k))')
                = Count(Serving(k) \/ Queued("wssClosed", k))
          BY <4>4 DEF Count
        <5>2. Count(sock'[k].active) = Count(sock[k].active)
          BY <2>3 DEF Count
        <5>3. Count(sock[k].active) \in Nat /\ Count(Serving(k) \/ Queued("wssClosed", k)) \in Nat
          BY DEF Count
        <5>4. sock'[k].ref = sock[k].ref + 1
          BY <2>3
        <5> HIDE DEF Count
        <5>5. QED
          BY <3>1, <3>2, <4>2, <4>3, <5>1, <5>2, <5>3, <5>4 DEF RefsFit
    <3>3. CASE j # k
      <4>1. SessionsOf(j)' = SessionsOf(j)
        BY <1>4, <2>4, <3>3 DEF SessionsOf
      <4>2. QED
        BY <2>3, <2>6, <3>1, <3>3, <4>1 DEF RefsFit, Serving
    <3>4. QED
      BY <3>2, <3>3
  <2>10. ASSUME NEW d \in Clients PROVE SessionFits(d)' /\ HoldsFit(d)' /\ ClientFits(d)'
    <3>1. SessionFits(d) /\ HoldsFit(d) /\ ClientFits(d)
      BY DEF SocketInv
    <3>2. \A j \in Socks : /\ sock'[j].active = sock[j].active
                           /\ Serving(j) => Serving(j)'
      BY <2>3 DEF Serving
    <3>3. CASE d = c
      <4>1. SessionFits(c)'
        <5>1. PcHolds(c)'
          BY <2>5 DEF PcHolds
        <5>2. \A j \in Socks : c \in sock'[j].list <=> j = k
          BY <1>3, <1>4, <2>3 DEF SessionFits
        <5>3. QED
          <6>1. sock'[k].active
            BY <2>3, <2>7
          <6>2. ~Queued("client", c)'
            BY <1>4
          <6>3. QED
            BY <1>1, <1>4, <2>4, <2>5, <5>1, <5>2, <6>1, <6>2 DEF SessionFits, Count
      <4>2. HoldsFit(c)'
        <5>1. PcHolds(c)' /\ ~Queued("pcClosed", c)'
          BY <1>4, <2>5, <2>6 DEF PcHolds
        <5>2. "early" \notin Faults => WsHolds(c)'
          BY <1>2, <1>3, <2>5, <2>6 DEF WsHolds, ClientFits
        <5>0. c \notin held'
          BY <1>1, <1>4
        <5>3. Queued("wsClosed", c)' => client'[c].ws = "closed"
          BY <1>3, <2>5, <2>6 DEF HoldsFit
        <5>4. Alone("pcClosed", c)' /\ Alone("wsClosed", c)'
          BY <1>2, <1>3 DEF HoldsFit
        <5>5. QED
          BY <2>4, <5>0, <5>1, <5>2, <5>3, <5>4 DEF HoldsFit, Count
      <4>3. ClientFits(c)'
        BY <1>2, <1>3, <1>4, <2>5 DEF ClientFits
      <4>4. QED
        BY <3>3, <4>1, <4>2, <4>3
    <3>4. CASE d # c
      <4>1. SessionFits(d)'
        <5>1. \A j \in Socks : d \in sock'[j].list <=> d \in sock[j].list
          BY <2>3, <3>4
        <5>2. QED
          BY <1>1, <2>4, <2>5, <2>6, <3>1, <3>2, <3>4, <5>1 DEF SessionFits, PcHolds
      <4>2. HoldsFit(d)'
        BY <1>1, <1>2, <2>4, <2>5, <2>6, <3>1, <3>4 DEF HoldsFit, WsHolds, PcHolds
      <4>3. ClientFits(d)'
        BY <1>2, <2>5, <2>6, <3>1, <3>2, <3>4 DEF ClientFits
      <4>4. QED
        BY <4>1, <4>2, <4>3
    <3>5. QED
      BY <3>3, <3>4
  <2>11. MapFits'
    <3>1. \A j \in Socks : /\ sock'[j].native = sock[j].native
                           /\ sock'[j].ref > 0 => sock[j].ref > 0
      BY <2>3, <2>7
    <3>2. map \in [Natives -> Socks \cup {None}]
      BY DEF SocketInv, TypeOK
    <3>3. QED
      BY <1>2, <2>3, <2>6, <3>1, <3>2 DEF SocketInv, MapFits
  <2>12. QED
    BY <1>1, <2>2, <2>8, <2>9, <2>10, <2>11 DEF SocketInv, NoSurplus
<1>10. QED
  BY <1>4, <1>7, <1>8, <1>9 DEF OnClient

\* A reference of socket object k is dropped.  If it is the last one, nothing
\* else may hold the object or be listed by it.
LEMMA SocketDropKeeps ==
  ASSUME SocketInv, NEW k \in Socks, sock[k].ref > 0,
         sock' = SockDropped(sock, k), map' = MapDropped(map, sock, k),
         sock[k].ref = 1 => /\ ~sock[k].active /\ ~Serving(k) /\ sock[k].list = {}
                            /\ ~Queued("wssClosed", k)',
         \A j : /\ Queued("wssClosed", j)' => Queued("wssClosed", j)
                /\ Alone("wssClosed", j) => Alone("wssClosed", j)',
         \A n : /\ Queued("listen", n)' => Queued("listen", n)
                /\ Alone("listen", n) => Alone("listen", n)'
  PROVE  /\ sock' \in [Socks -> SockRecords]
         /\ map' \in [Natives -> Socks \cup {None}]
         /\ sock'[k].ref = sock[k].ref - 1
         /\ \A j \in Socks : /\ sock'[j].list = sock[j].list
                             /\ sock'[j].active <=> sock[j].active
                             /\ Serving(j)' <=> Serving(j)
                             /\ j # k => sock'[j].ref = sock[j].ref
         /\ \A j \in Socks : SockFits(j)'
         /\ MapFits'
<1>1. /\ sock \in [Socks -> SockRecords] /\ sock[k] \in SockRecords
      /\ sock[k].ref \in Nat /\ SockFits(k)
      /\ map \in [Natives -> Socks \cup {None}]
      /\ sock[k].native \in Natives
  <2>1. /\ sock \in [Socks -> SockRecords] /\ SockFits(k)
        /\ map \in [Natives -> Socks \cup {None}]
    BY DEF SocketInv, TypeOK
  <2>2. QED
    BY <2>1, SockFields DEF SockFits
<1>2. \A j \in Socks : j # k => sock'[j] = sock[j]
  BY <1>1 DEF SockDropped, Put
<1>3. CASE sock[k].ref = 1
  <2>1. /\ sock'[k] = Pooled
        /\ map' = Put(map, sock[k].native, None)
    BY <1>1, <1>3 DEF SockDropped, MapDropped, Put
  <2>2. Pooled \in SockRecords
    BY DEF Pooled, SockRecords
  <2>3. /\ sock'[k].ref = 0 /\ ~sock'[k].active /\ ~sock'[k].wss
        /\ sock'[k].native = None /\ sock'[k].server = "none" /\ sock'[k].list = {}
    BY <2>1 DEF Pooled
  <2>4. sock' \in [Socks -> SockRecords]
    BY <1>1, <2>2, <1>3 DEF SockDropped, Put
  <2>5. /\ map'[sock[k].native] = None
        /\ \A n \in Natives : n # sock[k].native => map'[n] = map[n]
        /\ map' \in [Natives -> Socks \cup {None}]
    BY <1>1, <2>1 DEF Put
  <2>6. ~Serving(k)'
    BY <2>3 DEF Serving
  <2>7. \A j \in Socks : j # k => (Serving(j)' <=> Serving(j))
    BY <1>2 DEF Serving
  <2>8. ASSUME NEW j \in Socks PROVE SockFits(j)'
    <3>1. SockFits(j)
      BY DEF SocketInv
    <3>2. CASE j = k
      BY <1>3, <2>3, <3>1, <3>2 DEF SockFits
    <3>3. CASE j # k
      BY <1>2, <3>1, <3>3 DEF SockFits
    <3>4. QED
      BY <3>2, <3>3
  <2>9. MapFits'
    <3>1. ASSUME NEW n \in Natives, map'[n] # None
          PROVE  sock'[map'[n]].native = n
      <4>1. n # sock[k].native /\ map[n] = map'[n] /\ map[n] \in Socks
        BY <1>1, <2>5, <3>1
      <4>2. sock[map[n]].native = n
        BY <3>1, <4>1 DEF SocketInv, MapFits
      <4>3. QED
        BY <1>2, <4>1, <4>2
    <3>2. ASSUME "restart" \notin Faults, NEW j \in Socks, NEW n \in Natives,
                 sock'[j].ref > 0, sock'[j].native = n
          PROVE  map'[n] = j /\ ~Queued("listen", n)'
      <4>1. j # k
        BY <2>3, <3>2
      <4>2. sock[j].ref > 0 /\ sock[j].native = n
        BY <1>2, <3>2, <4>1
      <4>3. map[n] = j /\ ~Queued("listen", n) /\ map[sock[k].native] = k
        BY <1>1, <3>2, <4>2 DEF SocketInv, MapFits
      <4>4. QED
        BY <2>5, <4>1, <4>3
    <3>3. "restart" \notin Faults => \A n \in Natives : Alone("listen", n)'
      BY DEF SocketInv, MapFits
    <3>4. QED
      BY <3>1, <3>2, <3>3 DEF MapFits
  <2>10. sock'[k].ref = sock[k].ref - 1
    BY <1>3, <2>3
  <2>11. \A j \in Socks : /\ sock'[j].list = sock[j].list
                          /\ sock'[j].active <=> sock[j].active
                          /\ Serving(j)' <=> Serving(j)
                          /\ j # k => sock'[j].ref = sock[j].ref
    BY <1>2, <1>3, <2>3, <2>6, <2>7
  <2>12. QED
    BY <2>4, <2>5, <2>8, <2>9, <2>10, <2>11
<1>4. CASE sock[k].ref # 1
  <2> DEFINE r == [sock[k] EXCEPT !.ref = sock[k].ref - 1]
  <2>1. sock'[k] = r /\ map' = map
    BY <1>1, <1>4 DEF SockDropped, MapDropped, Put
  <2>2. /\ r \in SockRecords /\ r.ref = sock[k].ref - 1
        /\ r.active = sock[k].active /\ r.wss = sock[k].wss
        /\ r.native = sock[k].native /\ r.server = sock[k].server
        /\ r.list = sock[k].list
    <3>1. sock[k].ref - 1 \in Nat
      BY <1>1
    <3>2. QED
      BY <1>1, <3>1, PutRef
  <2>3. sock' = [sock EXCEPT ![k] = r]
    BY <1>4 DEF SockDropped, Put
  <2> HIDE DEF r
  <2>4. sock' \in [Socks -> SockRecords]
    BY <1>1, <2>2, <2>3
  <2>5. \A j \in Socks : Serving(j)' <=> Serving(j)
    BY <1>2, <2>1, <2>2 DEF Serving
  <2>6. sock'[k].ref > 0 /\ sock'[k].ref # 0
    BY <1>1, <1>4, <2>1, <2>2
  <2>7. ASSUME NEW j \in Socks PROVE SockFits(j)'
    <3>1. SockFits(j)
      BY DEF SocketInv
    <3>2. CASE j = k
      BY <1>1, <2>1, <2>2, <2>6, <3>1, <3>2 DEF SockFits
    <3>3. CASE j # k
      BY <1>2, <3>1, <3>3 DEF SockFits
    <3>4. QED
      BY <3>2, <3>3
  <2>8. MapFits'
    <3>1. \A j \in Socks : /\ sock'[j].native = sock[j].native
                           /\ sock'[j].ref > 0 => sock[j].ref > 0
      BY <1>2, <2>1, <2>2
    <3>2. QED
      BY <1>1, <2>1, <3>1 DEF SocketInv, MapFits
  <2>9. QED
    BY <1>1, <1>2, <2>1, <2>2, <2>4, <2>5, <2>7, <2>8
<1>5. QED
  BY <1>3, <1>4

\* `OnWssClosed` keeps the invariant.
LEMMA OnWssClosedKeeps ==
  ASSUME SocketInv, NEW k \in Socks, OnWssClosed(k)
  PROVE  SocketInv'
<1>1. /\ tasks \in Seq(TaskRecords) /\ Takes("wssClosed", k)
      /\ UNCHANGED <<native, running, executor, held, surplus>>
      /\ sock[k] \in SockRecords /\ sock[k].ref \in Nat
  <2>1. sock[k] \in SockRecords
    BY DEF SocketInv, TypeOK
  <2>2. QED
    BY <2>1, SockFields DEF SocketInv, TypeOK, OnWssClosed
<1>2. /\ tasks' \in Seq(TaskRecords)
      /\ Queued("wssClosed", k)
      /\ \A p, f : Queued(p, f) <=> Queued(p, f)' \/ (p = "wssClosed" /\ f = k)
      /\ \A p, f : Alone(p, f) => Alone(p, f)'
      /\ Alone("wssClosed", k) => ~Queued("wssClosed", k)'
      /\ \A p, f, p2, f2 : Behind(p, f, p2, f2) => Behind(p, f, p2, f2)'
  BY <1>1, TakeEffect
<1>3. /\ SockFits(k) /\ RefsFit(k) /\ ~Queued("wssClosed", k)'
      /\ sock[k].server = "stopped" /\ ~sock[k].active
  BY <1>2 DEF SocketInv, SockFits
<1>4. sock[k].ref = 1 + Cardinality(SessionsOf(k)) /\ Cardinality(SessionsOf(k)) \in Nat
  BY <1>2, <1>3, SessionsFinite DEF RefsFit, Count
<1>5. sock[k].ref > 0
  BY <1>4
<1>6. sock[k].ref = 1 => sock[k].list = {}
  <2> SUFFICES ASSUME sock[k].ref = 1, NEW c \in sock[k].list PROVE FALSE
    OBVIOUS
  <2>1. c \in Clients
    BY <1>1, SockFields
  <2>2. session[c].active /\ session[c].socket = k /\ session[c].ref > 0
    BY <2>1 DEF SocketInv, SessionFits, Count
  <2>3. c \in SessionsOf(k)
    BY <2>1, <2>2 DEF SessionsOf
  <2>4. SessionsOf(k) = {}
    BY <1>4, SessionsFinite, FS_EmptySet
  <2>5. QED
    BY <2>3, <2>4
<1>7. /\ session' = session /\ client' = client
      /\ sock' = SockDropped(sock, k) /\ map' = MapDropped(map, sock, k)
  <2>1. Owned.sock[k].ref > 0 /\ Owned \in Records
    BY <1>5, OwnedFields
  <2>2. QED
    BY <2>1, OwnedFields, SocketUnrefEffect DEF OnWssClosed, Become
<1>8. /\ sock' \in [Socks -> SockRecords]
      /\ map' \in [Natives -> Socks \cup {None}]
      /\ sock'[k].ref = sock[k].ref - 1
      /\ \A j \in Socks : /\ sock'[j].list = sock[j].list
                          /\ sock'[j].active <=> sock[j].active
                          /\ Serving(j)' <=> Serving(j)
                          /\ j # k => sock'[j].ref = sock[j].ref
      /\ \A j \in Socks : SockFits(j)'
      /\ MapFits'
  <2>1. ~Serving(k)
    BY <1>3 DEF Serving
  <2>2. QED
    BY <1>2, <1>3, <1>5, <1>6, <1>7, <2>1, SocketDropKeeps
<1>9. TypeOK'
  BY <1>1, <1>2, <1>7, <1>8 DEF SocketInv, TypeOK
<1>10. ASSUME NEW j \in Socks PROVE RefsFit(j)'
  <2>1. RefsFit(j)
    BY DEF SocketInv
  <2>2. SessionsOf(j)' = SessionsOf(j)
    BY <1>7 DEF SessionsOf
  <2>3. CASE j = k
    <3>1. ~Serving(k)' /\ ~sock'[k].active
      BY <1>3, <1>8 DEF Serving
    <3>2. sock'[k].ref = Cardinality(SessionsOf(k))
      BY <1>4, <1>8
    <3>3. QED
      BY <1>3, <1>4, <2>2, <2>3, <3>1, <3>2 DEF RefsFit, Count
  <2>4. CASE j # k
    BY <1>2, <1>8, <2>1, <2>2, <2>4 DEF RefsFit, Count
  <2>5. QED
    BY <2>3, <2>4
<1>11. ASSUME NEW c \in Clients PROVE SessionFits(c)' /\ HoldsFit(c)' /\ ClientFits(c)'
  <2>1. SessionFits(c) /\ HoldsFit(c) /\ ClientFits(c)
    BY DEF SocketInv
  <2>2. SessionFits(c)'
    BY <1>1, <1>2, <1>7, <1>8, <2>1 DEF SessionFits, PcHolds
  <2>3. HoldsFit(c)'
    BY <1>1, <1>2, <1>7, <2>1 DEF HoldsFit, WsHolds, PcHolds
  <2>4. ClientFits(c)'
    BY <1>2, <1>7, <1>8, <2>1 DEF ClientFits
  <2>5. QED
    BY <2>2, <2>3, <2>4
<1>12. QED
  BY <1>1, <1>8, <1>9, <1>10, <1>11 DEF SocketInv, NoSurplus

\* The fields of a session that the record gives.
LEMMA SessionPut ==
  ASSUME session \in [Clients -> SessionRecords], NEW c \in Clients, NEW k \in Socks,
         NEW n \in Nat,
         session' = Put(session, c, [ref |-> n, active |-> FALSE, socket |-> k])
  PROVE  /\ session' \in [Clients -> SessionRecords]
         /\ session'[c].ref = n /\ ~session'[c].active /\ session'[c].socket = k
         /\ \A d \in Clients : d # c => session'[d] = session[d]
<1>1. [ref |-> n, active |-> FALSE, socket |-> k] \in SessionRecords
  BY DEF SessionRecords
<1>2. session'[c] = [ref |-> n, active |-> FALSE, socket |-> k]
  BY DEF Put
<1>3. QED
  BY <1>1, <1>2 DEF Put

\* Session c leaves the list of its socket k, closed, with n references.
Unlisted(c, k, n) ==
  /\ session[c].active /\ session[c].socket = k
  /\ session' = Put(session, c, [ref |-> n, active |-> FALSE, socket |-> k])
  /\ sock' = Put(sock, k, [sock[k] EXCEPT !.list = @ \ {c}])
  /\ UNCHANGED <<native, running, executor, map, client, held, surplus>>
  /\ OnlyTasksOf(c)
  /\ Queued("client", c)' => Queued("client", c)

\* A session that is taken off its socket's list, with what it held, leaves the
\* invariant.
LEMMA UnlistKeeps ==
  ASSUME SocketInv, NEW c \in Clients, NEW k \in Socks, NEW n \in Nat, n > 0,
         Unlisted(c, k, n), HoldsFit(c)', ClientFits(c)'
  PROVE  SocketInv'
<1>1. /\ sock \in [Socks -> SockRecords] /\ sock[k] \in SockRecords
      /\ session \in [Clients -> SessionRecords]
      /\ map \in [Natives -> Socks \cup {None}]
  BY DEF SocketInv, TypeOK
<1>2. /\ session' \in [Clients -> SessionRecords]
      /\ session'[c].ref = n /\ ~session'[c].active /\ session'[c].socket = k
      /\ \A d \in Clients : d # c => session'[d] = session[d]
  BY <1>1, SessionPut DEF Unlisted
<1>3. /\ SessionFits(c) /\ session[c].ref > 0
      /\ session[c].active /\ session[c].socket = k
      /\ client[c].at = "announced" /\ ~Queued("client", c)
      /\ UNCHANGED <<native, running, executor, map, client, held, surplus>>
      /\ OnlyTasksOf(c) /\ ~Queued("client", c)'
  BY DEF SocketInv, SessionFits, Unlisted, Count
<1> DEFINE r == [sock[k] EXCEPT !.list = sock[k].list \ {c}]
<1>4. /\ r \in SockRecords /\ r.list = sock[k].list \ {c}
      /\ r.ref = sock[k].ref /\ r.active = sock[k].active /\ r.wss = sock[k].wss
      /\ r.native = sock[k].native /\ r.server = sock[k].server
  <2>1. sock[k].list \ {c} \in SUBSET Clients
    BY <1>1, SockFields
  <2>2. QED
    BY <1>1, <2>1, PutList
<1>5. sock'[k] = r /\ \A j \in Socks : j # k => sock'[j] = sock[j]
  BY <1>1 DEF Put, Unlisted
<1>6. sock' \in [Socks -> SockRecords]
  BY <1>1, <1>4 DEF Put, Unlisted
<1> HIDE DEF r
<1>7. TypeOK'
  BY <1>2, <1>3, <1>6 DEF SocketInv, TypeOK, OnlyTasksOf
<1>8. \A j \in Socks :
        /\ sock'[j].ref = sock[j].ref /\ sock'[j].active = sock[j].active
        /\ sock'[j].wss = sock[j].wss /\ sock'[j].native = sock[j].native
        /\ sock'[j].server = sock[j].server
        /\ sock[j].list = {} => sock'[j].list = {}
  BY <1>4, <1>5
<1>9. ASSUME NEW j \in Socks PROVE SockFits(j)' /\ RefsFit(j)'
  <2>1. SockFits(j) /\ RefsFit(j)
    BY DEF SocketInv
  <2>2. SockFits(j)'
    BY <1>3, <1>8, <2>1 DEF SockFits, OnlyTasksOf
  <2>3. SessionsOf(j)' = SessionsOf(j)
    <3>1. \A d \in Clients : session'[d].ref > 0 /\ session'[d].socket = j
                              <=> session[d].ref > 0 /\ session[d].socket = j
      BY <1>2, <1>3
    <3>2. QED
      BY <3>1 DEF SessionsOf
  <2>4. (Serving(j) \/ Queued("wssClosed", j))' <=> Serving(j) \/ Queued("wssClosed", j)
    BY <1>3, <1>8 DEF OnlyTasksOf, Serving
  <2>5. RefsFit(j)'
    BY <1>8, <2>1, <2>3, <2>4 DEF RefsFit, Count
  <2>6. QED
    BY <2>2, <2>5
<1>10. ASSUME NEW d \in Clients PROVE SessionFits(d)' /\ HoldsFit(d)' /\ ClientFits(d)'
  <2>1. SessionFits(d) /\ HoldsFit(d) /\ ClientFits(d)
    BY DEF SocketInv
  <2>2. \A j \in Socks : Serving(j)' <=> Serving(j)
    BY <1>8 DEF Serving
  <2>3. CASE d = c
    <3>1. \A j \in Socks : c \notin sock'[j].list
      BY <1>3, <1>4, <1>5 DEF SessionFits
    <3>2. session'[c].ref > 0 /\ session'[c].ref # 0
      BY <1>2
    <3>3. client'[c].at = "announced" /\ ~Queued("client", c)'
      BY <1>3
    <3>4. SessionFits(c)'
      BY <1>2, <3>1, <3>2, <3>3 DEF SessionFits
    <3>5. QED
      BY <2>3, <3>4
  <2>4. CASE d # c
    <3>1. \A j \in Socks : d \in sock'[j].list <=> d \in sock[j].list
      BY <1>4, <1>5, <2>4
    <3>2. SessionFits(d)'
      <4>1. /\ session'[d] = session[d] /\ client'[d] = client[d]
            /\ PcHolds(d)' <=> PcHolds(d)
            /\ Queued("client", d)' <=> Queued("client", d)
        BY <1>2, <1>3, <2>4 DEF PcHolds, OnlyTasksOf
      <4>2. \A j \in Socks : sock'[j].active = sock[j].active
        BY <1>8
      <4>3. QED
        BY <1>3, <2>1, <3>1, <4>1, <4>2 DEF SessionFits
    <3>3. HoldsFit(d)'
      BY <1>2, <1>3, <2>1, <2>4 DEF HoldsFit, WsHolds, PcHolds, OnlyTasksOf
    <3>4. ClientFits(d)'
      BY <1>3, <2>1, <2>2, <2>4 DEF ClientFits, OnlyTasksOf
    <3>5. QED
      BY <3>2, <3>3, <3>4
  <2>5. QED
    BY <2>3, <2>4
<1>11. MapFits'
  <2>1. MapFits /\ map' = map
    BY <1>3 DEF SocketInv
  <2>2. \A j \in Socks : sock'[j].ref = sock[j].ref /\ sock'[j].native = sock[j].native
    BY <1>8
  <2>3. \A m : /\ Queued("listen", m)' <=> Queued("listen", m)
               /\ Alone("listen", m) => Alone("listen", m)'
    BY <1>3 DEF OnlyTasksOf
  <2>4. QED
    BY <1>1, <2>1, <2>2, <2>3 DEF MapFits
<1>12. QED
  BY <1>3, <1>7, <1>9, <1>10, <1>11 DEF SocketInv, NoSurplus

\* A session whose last reference goes keeps the invariant.
LEMMA SessionEndsKeeps ==
  ASSUME SocketInv, NEW c \in Clients, SessionEnds(c)
  PROVE  SocketInv'
<1>1. /\ session[c].active /\ UNCHANGED <<native, running, executor, tasks, held, surplus>>
      /\ SessionFits(c) /\ HoldsFit(c) /\ ClientFits(c)
      /\ session[c].ref = 3 + Count(c \in held) /\ session[c].socket \in Socks
      /\ tasks \in Seq(TaskRecords) /\ session \in [Clients -> SessionRecords]
  BY DEF SessionEnds, SocketInv, SessionFits, TypeOK, Count
<1>2. PICK k \in Socks : session[c].socket = k
  BY <1>1
<1> DEFINE n == 2 + Count(c \in held)
<1>0. n \in Nat /\ n > 0 /\ session[c].ref > 1 /\ session[c].ref > 0 /\ session[c].ref - 1 = n
  BY <1>1 DEF Count
<1> HIDE DEF n
<1> DEFINE h == SessionClose(Owned, c)
<1>3. h \in Records /\ SessionClosed(Owned, h, c, k)
  BY <1>0, <1>1, <1>2, OwnedFields, SessionCloseEffect
<1>4. Become(h)
  BY DEF SessionEnds
<1> HIDE DEF h
<1>5. /\ session' = Put(session, c, [ref |-> n, active |-> FALSE, socket |-> k])
      /\ sock' = Put(sock, k, [sock[k] EXCEPT !.list = @ \ {c}])
      /\ client' = client /\ map' = map
  BY <1>0, <1>3, <1>4, OwnedFields DEF SessionClosed, Become
<1>6. session'[c].ref = n /\ ~session'[c].active
  BY <1>0, <1>1, <1>5, SessionPut
<1>7. HoldsFit(c)'
  <2>1. (WsHolds(c)' <=> WsHolds(c)) /\ (PcHolds(c)' <=> PcHolds(c))
    BY <1>1, <1>5, QueueKept DEF WsHolds, PcHolds
  <2>2. QED
    BY <1>0, <1>1, <1>5, <1>6, <2>1, QueueKept DEF HoldsFit, Count, n
<1>8. ClientFits(c)'
  <2>1. \A j \in Socks : Serving(j)' <=> Serving(j)
    <3>1. \A j \in Socks : sock'[j].server = sock[j].server
      BY <1>5 DEF Put, SocketInv, TypeOK, SockRecords
    <3>2. QED
      BY <3>1 DEF Serving
  <2>2. QED
    BY <1>1, <1>5, <2>1, QueueKept DEF ClientFits
<1>9. OnlyTasksOf(c)
  BY <1>1, QueueKept DEF OnlyTasksOf
<1>10. Queued("client", c)' => Queued("client", c)
  BY <1>1, QueueKept
<1>11. Unlisted(c, k, n)
  BY <1>1, <1>2, <1>5, <1>9, <1>10 DEF Unlisted
<1>12. QED
  BY <1>0, <1>7, <1>8, <1>11, UnlistKeeps

\* The end of a WebSocket or of a peer connection is handled: one reference of
\* the session is dropped.
HolderEnds(op, c) ==
  /\ op \in {"wsClosed", "pcClosed"}
  /\ Takes(op, c)
  /\ session[c].ref > 0
  /\ Become(SessionUnref(SessionClose(Owned, c), c))
  /\ UNCHANGED <<native, running, executor, held, surplus>>

\* One of the two holds no longer, the other one as before.
LEMMA HoldsAfter ==
  ASSUME SocketInv, NEW c \in Clients, NEW op \in {"wsClosed", "pcClosed"},
         Takes(op, c), client'[c].ws = client[c].ws, client'[c].pc = client[c].pc
  PROVE  /\ OnlyTasksOf(c)
         /\ Count(WsHolds(c)') + Count(PcHolds(c)') + 1 = Count(WsHolds(c)) + Count(PcHolds(c))
         /\ Count(PcHolds(c)') <= Count(PcHolds(c))
         /\ op = "pcClosed" => PcHolds(c) /\ ~PcHolds(c)'
         /\ Queued("pcClosed", c)' => client'[c].pc = "closed"
         /\ Queued("wsClosed", c)' => client'[c].ws = "closed"
         /\ Alone("pcClosed", c)' /\ Alone("wsClosed", c)'
         /\ Queued("client", c)' <=> Queued("client", c)
         /\ Alone("client", c) => Alone("client", c)'
         /\ \A p2, f2 : Behind("client", c, p2, f2) => Behind("client", c, p2, f2)'
<1>1. tasks \in Seq(TaskRecords) /\ HoldsFit(c)
  BY DEF SocketInv, TypeOK
<1>2. /\ tasks' \in Seq(TaskRecords)
      /\ Queued(op, c)
      /\ \A p, f : Queued(p, f) <=> Queued(p, f)' \/ (p = op /\ f = c)
      /\ \A p, f : Alone(p, f) => Alone(p, f)'
      /\ Alone(op, c) => ~Queued(op, c)'
      /\ \A p, f, p2, f2 : Behind(p, f, p2, f2) => Behind(p, f, p2, f2)'
  BY <1>1, TakeEffect
<1>3. OnlyTasksOf(c)
  BY <1>2 DEF OnlyTasksOf
<1>4. ~Queued(op, c)'
  BY <1>1, <1>2 DEF HoldsFit
<1>5. /\ Queued("pcClosed", c)' => client'[c].pc = "closed"
      /\ Queued("wsClosed", c)' => client'[c].ws = "closed"
      /\ Alone("pcClosed", c)' /\ Alone("wsClosed", c)'
  BY <1>1, <1>2 DEF HoldsFit
<1>6. CASE op = "wsClosed"
  <2>1. WsHolds(c) /\ ~WsHolds(c)' /\ (PcHolds(c)' <=> PcHolds(c))
    BY <1>1, <1>2, <1>4, <1>6 DEF HoldsFit, WsHolds, PcHolds
  <2>2. QED
    BY <1>2, <1>3, <1>5, <1>6, <2>1 DEF Count
<1>7. CASE op = "pcClosed"
  <2>1. PcHolds(c) /\ ~PcHolds(c)' /\ (WsHolds(c)' <=> WsHolds(c))
    BY <1>1, <1>2, <1>4, <1>7 DEF HoldsFit, WsHolds, PcHolds
  <2>2. QED
    BY <1>2, <1>3, <1>5, <1>7, <2>1 DEF Count
<1>8. QED
  BY <1>6, <1>7

\* A referenced session holds its socket.
LEMMA SocketOfSession ==
  ASSUME SocketInv, NEW c \in Clients, NEW k \in Socks,
         session[c].ref > 0, session[c].socket = k
  PROVE  /\ sock[k].ref \in Nat /\ sock[k].ref > 0
         /\ c \in SessionsOf(k)
         /\ Cardinality(SessionsOf(k)) \in Nat /\ Cardinality(SessionsOf(k)) > 0
<1>1. c \in SessionsOf(k)
  BY DEF SessionsOf
<1>2. Cardinality(SessionsOf(k)) \in Nat /\ Cardinality(SessionsOf(k)) # 0
  BY <1>1, SessionsFinite, FS_EmptySet
<1>3. sock[k].ref \in Nat
  BY SockFields DEF SocketInv, TypeOK
<1>4. RefsFit(k)
  BY DEF SocketInv
<1>5. QED
  BY <1>1, <1>2, <1>3, <1>4 DEF RefsFit, Count

\* When an ended session holds the last reference of its socket, the socket
\* is closed, its server has stopped, and no session is listed.
LEMMA LastSession ==
  ASSUME SocketInv, NEW c \in Clients, NEW k \in Socks,
         session[c].ref > 0, session[c].socket = k, ~session[c].active,
         sock[k].ref = 1
  PROVE  /\ ~sock[k].active /\ ~Serving(k) /\ sock[k].list = {}
         /\ ~Queued("wssClosed", k)
<1>1. /\ c \in SessionsOf(k) /\ RefsFit(k)
      /\ Cardinality(SessionsOf(k)) \in Nat /\ Cardinality(SessionsOf(k)) > 0
  BY SocketOfSession DEF SocketInv
<1>2. /\ Count(sock[k].active) = 0 /\ Cardinality(SessionsOf(k)) = 1
      /\ Count(Serving(k) \/ Queued("wssClosed", k)) = 0
  <2>1. /\ Count(sock[k].active) \in 0 .. 1
        /\ Count(Serving(k) \/ Queued("wssClosed", k)) \in 0 .. 1
    BY DEF Count
  <2> HIDE DEF Count
  <2>2. QED
    BY <1>1, <2>1 DEF RefsFit
<1>3. ~sock[k].active /\ ~Serving(k) /\ ~Queued("wssClosed", k)
  BY <1>2 DEF Count
<1>4. ASSUME NEW d \in sock[k].list PROVE FALSE
  <2>1. d \in Clients
    BY SockFields DEF SocketInv, TypeOK
  <2>2. session[d].active /\ session[d].socket = k /\ session[d].ref > 0
    BY <2>1 DEF SocketInv, SessionFits, Count
  <2>3. d \in SessionsOf(k) \ {c}
    BY <2>1, <2>2 DEF SessionsOf
  <2>4. /\ IsFiniteSet(SessionsOf(k) \ {c})
        /\ Cardinality(SessionsOf(k) \ {c}) = 0
    BY <1>1, <1>2, SessionsFinite, FS_RemoveElement
  <2>5. QED
    BY <2>3, <2>4, FS_EmptySet
<1>5. QED
  BY <1>3, <1>4

\* The last field of a closed session whose reference is dropped, and its client.
LEMMA SessionDropped ==
  ASSUME SocketInv, NEW c \in Clients, NEW k \in Socks,
         session[c].ref > 0, ~session[c].active, session[c].socket = k,
         Become(SessionUnref(Owned, c))
  PROVE  /\ session[c].ref \in Nat
         /\ session' \in [Clients -> SessionRecords]
         /\ session'[c].ref = session[c].ref - 1 /\ ~session'[c].active
         /\ session'[c].socket = k
         /\ \A d \in Clients : d # c => session'[d] = session[d]
         /\ client' \in [Clients -> ClientRecords]
         /\ client'[c].ws = client[c].ws /\ client'[c].pc = client[c].pc
         /\ client'[c].at \in {"announced", "gone"}
         /\ session[c].ref > 1 => client' = client /\ sock' = sock /\ map' = map
         /\ session[c].ref = 1 => /\ sock' = SockDropped(sock, k)
                                  /\ map' = MapDropped(map, sock, k)
         /\ \A d \in Clients : d # c => client'[d] = client[d]
<1>1. /\ session[c].ref \in Nat /\ SessionFits(c)
      /\ client \in [Clients -> ClientRecords] /\ client[c] \in ClientRecords
      /\ session \in [Clients -> SessionRecords] /\ session[c] \in SessionRecords
  BY DEF SocketInv, TypeOK, SessionRecords
<1>2. sock[k].ref > 0
  BY SocketOfSession
<1> DEFINE h == SessionUnref(Owned, c)
<1>3. /\ h.session = Put(session, c, [session[c] EXCEPT !.ref = @ - 1])
      /\ session[c].ref > 1 => h.client = client /\ h.sock = sock /\ h.map = map
      /\ session[c].ref = 1 =>
           /\ h.client = Put(client, c, [client[c] EXCEPT !.at = "gone"])
           /\ h.sock = SockDropped(sock, k)
           /\ h.map = MapDropped(map, sock, k)
  BY <1>2, OwnedFields, SessionUnrefEffect
<1>4. Become(h)
  OBVIOUS
<1> HIDE DEF h
<1> DEFINE n == session[c].ref - 1
<1>5. n \in Nat /\ session' = Put(session, c, [ref |-> n, active |-> FALSE, socket |-> k])
  <2>1. [session[c] EXCEPT !.ref = session[c].ref - 1]
          = [ref |-> n, active |-> FALSE, socket |-> k]
    BY <1>1, SessionFields DEF SessionRecords
  <2>2. QED
    BY <1>1, <1>3, <1>4, <2>1 DEF Become
<1>6. /\ session' \in [Clients -> SessionRecords]
      /\ session'[c].ref = n /\ ~session'[c].active /\ session'[c].socket = k
      /\ \A d \in Clients : d # c => session'[d] = session[d]
  BY <1>1, <1>5, SessionPut
<1> HIDE DEF n
<1>7. /\ session[c].ref > 1 => client' = client /\ sock' = sock /\ map' = map
      /\ session[c].ref = 1 => /\ sock' = SockDropped(sock, k)
                               /\ map' = MapDropped(map, sock, k)
  BY <1>3, <1>4 DEF Become
<1>8. /\ client' \in [Clients -> ClientRecords]
      /\ client'[c].ws = client[c].ws /\ client'[c].pc = client[c].pc
      /\ client'[c].at \in {"announced", "gone"}
      /\ \A d \in Clients : d # c => client'[d] = client[d]
  <2>1. CASE session[c].ref > 1
    BY <1>1, <1>7, <2>1 DEF SessionFits
  <2>2. CASE session[c].ref = 1
    <3> DEFINE r == [client[c] EXCEPT !.at = "gone"]
    <3>1. client' = Put(client, c, r)
      BY <1>3, <1>4, <2>2 DEF Become
    <3>2. /\ r \in ClientRecords /\ r.at = "gone"
          /\ r.ws = client[c].ws /\ r.pc = client[c].pc
      BY <1>1, ClientFields
    <3> HIDE DEF r
    <3>3. QED
      BY <1>1, <3>1, <3>2 DEF Put
  <2>3. QED
    BY <1>1, <2>1, <2>2
<1>9. session'[c].ref = session[c].ref - 1
  BY <1>6 DEF n
<1>10. QED
  BY <1>1, <1>6, <1>7, <1>8, <1>9

\* One of what holds a closed session goes, and with it a reference.
OneLess(c) ==
  /\ Count(WsHolds(c)') + Count(PcHolds(c)') + Count(c \in held') + 1
       = Count(WsHolds(c)) + Count(PcHolds(c)) + Count(c \in held)
  /\ Queued("pcClosed", c)' => client'[c].pc = "closed"
  /\ Queued("wsClosed", c)' => client'[c].ws = "closed"
  /\ Alone("pcClosed", c)' /\ Alone("wsClosed", c)' /\ Alone("client", c)'
  /\ Queued("client", c)' <=> Queued("client", c)
  /\ OnlyTasksOf(c)
  /\ held' \subseteq Clients
  /\ \A d \in Clients : d # c => (d \in held' <=> d \in held)

\* A reference of a closed session that goes with what held it, be it the last
\* one or not, keeps the invariant.
LEMMA SessionDropKeeps ==
  ASSUME SocketInv, NEW c \in Clients, session[c].ref > 0, ~session[c].active,
         Become(SessionUnref(Owned, c)), OneLess(c),
         UNCHANGED <<native, running, executor, surplus>>
  PROVE  SocketInv'
<1>1. /\ session[c].ref \in Nat
      /\ SessionFits(c) /\ HoldsFit(c) /\ ClientFits(c)
  BY DEF SocketInv, TypeOK, SessionRecords
<1>2. PICK k \in Socks : session[c].socket = k
  BY <1>1 DEF SessionFits
<1>3. /\ sock[k].ref \in Nat /\ sock[k].ref > 0 /\ c \in SessionsOf(k)
      /\ Cardinality(SessionsOf(k)) \in Nat /\ Cardinality(SessionsOf(k)) > 0
  BY <1>2, SocketOfSession
<1> DEFINE n == session[c].ref - 1
<1>4. /\ session' \in [Clients -> SessionRecords]
      /\ session'[c].ref = n /\ ~session'[c].active /\ session'[c].socket = k
      /\ \A d \in Clients : d # c => session'[d] = session[d]
      /\ client' \in [Clients -> ClientRecords]
      /\ client'[c].ws = client[c].ws /\ client'[c].pc = client[c].pc
      /\ client'[c].at \in {"announced", "gone"}
      /\ \A d \in Clients : d # c => client'[d] = client[d]
      /\ session[c].ref > 1 => client' = client /\ sock' = sock /\ map' = map
      /\ session[c].ref = 1 => /\ sock' = SockDropped(sock, k)
                               /\ map' = MapDropped(map, sock, k)
  BY <1>2, SessionDropped
<1>5. n = session[c].ref - 1 /\ n \in Nat
  BY <1>1
<1> HIDE DEF n
<1>6. /\ Count(WsHolds(c)) \in 0 .. 1 /\ Count(PcHolds(c)) \in 0 .. 1
      /\ Count(WsHolds(c)') \in 0 .. 1 /\ Count(PcHolds(c)') \in 0 .. 1
      /\ Count(c \in held) \in 0 .. 1 /\ Count(c \in held') \in 0 .. 1
      /\ Count(session[c].active) = 0 /\ Count(session'[c].active) = 0
  BY <1>4 DEF Count
<1>7. n >= Count(WsHolds(c)') + Count(PcHolds(c)') + Count(c \in held')
  <2>1. session[c].ref >= Count(WsHolds(c)) + Count(PcHolds(c)) + Count(c \in held)
    BY <1>1 DEF HoldsFit
  <2> HIDE DEF Count
  <2>2. QED
    BY <1>1, <1>5, <1>6, <2>1 DEF OneLess
<1>8. HoldsFit(c)'
  <2> HIDE DEF Count
  <2>1. "early" \notin Faults =>
          session[c].ref = 0 + Count(WsHolds(c)) + Count(PcHolds(c)) + Count(c \in held)
    BY <1>1, <1>6 DEF HoldsFit
  <2>2. "early" \notin Faults =>
          n = 0 + Count(WsHolds(c)') + Count(PcHolds(c)') + Count(c \in held')
    BY <1>1, <1>5, <1>6, <2>1 DEF OneLess
  <2>3. QED
    BY <1>4, <1>6, <1>7, <2>2 DEF HoldsFit, OneLess
<1>9. ClientFits(c)'
  BY <1>1, <1>4 DEF ClientFits, SessionFits, OneLess
<1>10. n = 0 => ~PcHolds(c)' /\ c \notin held'
  <2>1. n = 0 => Count(PcHolds(c)') = 0 /\ Count(c \in held') = 0
    <3> HIDE DEF Count
    <3>1. QED
      BY <1>5, <1>6, <1>7
  <2>2. QED
    BY <2>1 DEF Count
<1>kept. /\ OnlyTasksOf(c) /\ (Queued("client", c)' <=> Queued("client", c))
         /\ \A d \in Clients : d # c => (d \in held' <=> d \in held)
         /\ \A d \in Clients : d # c => Count(d \in held') = Count(d \in held)
  BY DEF OneLess, Count
<1>11. \A p \in {"wssClosed", "listen"} : \A j :
         (Queued(p, j)' <=> Queued(p, j)) /\ (Alone(p, j) => Alone(p, j)')
  BY DEF OnlyTasksOf, OneLess
<1>12. /\ sock' \in [Socks -> SockRecords]
       /\ map' \in [Natives -> Socks \cup {None}]
       /\ session[c].ref > 1 => sock'[k].ref = sock[k].ref
       /\ session[c].ref = 1 => sock'[k].ref = sock[k].ref - 1
       /\ \A j \in Socks : /\ sock'[j].list = sock[j].list
                           /\ sock'[j].active <=> sock[j].active
                           /\ Serving(j)' <=> Serving(j)
                           /\ j # k => sock'[j].ref = sock[j].ref
       /\ \A j \in Socks : SockFits(j)'
       /\ MapFits'
  <2>1. CASE session[c].ref > 1
    <3>1. sock' = sock /\ map' = map
      BY <1>4, <1>1, <2>1, OwnedFields DEF HolderGone, Become
    <3>2. \A j \in Socks : SockFits(j)'
      BY <1>11, <3>1 DEF SocketInv, SockFits
    <3>3. MapFits'
      BY <1>11, <3>1 DEF SocketInv, MapFits
    <3>4. sock \in [Socks -> SockRecords] /\ map \in [Natives -> Socks \cup {None}]
      BY DEF SocketInv, TypeOK
    <3>5. \A j \in Socks : Serving(j)' <=> Serving(j)
      BY <3>1 DEF Serving
    <3>6. session[c].ref # 1
      BY <2>1
    <3>7. QED
      BY <3>1, <3>2, <3>3, <3>4, <3>5, <3>6
  <2>2. CASE session[c].ref = 1
    <3>1. sock' = SockDropped(sock, k) /\ map' = MapDropped(map, sock, k)
      BY <1>4, <1>1, <2>2, OwnedFields DEF HolderGone, Become
    <3>2. sock[k].ref = 1 => /\ ~sock[k].active /\ ~Serving(k) /\ sock[k].list = {}
                             /\ ~Queued("wssClosed", k)
      BY <1>1, <1>2, <1>1, LastSession
    <3>3. ~(session[c].ref > 1)
      BY <2>2
    <3>4. sock[k].ref = 1 => /\ ~sock[k].active /\ ~Serving(k) /\ sock[k].list = {}
                             /\ ~Queued("wssClosed", k)'
      BY <1>11, <3>2
    <3>5. /\ \A j : /\ Queued("wssClosed", j)' => Queued("wssClosed", j)
                    /\ Alone("wssClosed", j) => Alone("wssClosed", j)'
          /\ \A j : /\ Queued("listen", j)' => Queued("listen", j)
                    /\ Alone("listen", j) => Alone("listen", j)'
      BY <1>11
    <3>6. /\ sock' \in [Socks -> SockRecords]
          /\ map' \in [Natives -> Socks \cup {None}]
          /\ sock'[k].ref = sock[k].ref - 1
          /\ \A j \in Socks : /\ sock'[j].list = sock[j].list
                              /\ sock'[j].active <=> sock[j].active
                              /\ Serving(j)' <=> Serving(j)
                              /\ j # k => sock'[j].ref = sock[j].ref
          /\ \A j \in Socks : SockFits(j)'
          /\ MapFits'
      BY <1>3, <3>1, <3>4, <3>5, SocketDropKeeps
    <3>7. QED
      BY <2>2, <3>3, <3>6
  <2>3. session[c].ref > 1 \/ session[c].ref = 1
    BY <1>1
  <2>4. QED
    BY <2>1, <2>2, <2>3
<1>13. ASSUME NEW j \in Socks PROVE RefsFit(j)'
  <2>1. RefsFit(j)
    BY DEF SocketInv
  <2>2. /\ sock'[j].active <=> sock[j].active
        /\ (Serving(j) \/ Queued("wssClosed", j))' <=> Serving(j) \/ Queued("wssClosed", j)
    BY <1>11, <1>12
  <2>3. CASE j = k /\ session[c].ref = 1
    <3>1. SessionsOf(k)' = SessionsOf(k) \ {c}
      BY <1>4, <1>5, <2>3 DEF SessionsOf
    <3>2. Cardinality(SessionsOf(k)') = Cardinality(SessionsOf(k)) - 1
      BY <1>3, <3>1, SessionsFinite, FS_RemoveElement
    <3>3. sock'[k].ref = sock[k].ref - 1
      BY <1>12, <2>3
    <3>4. /\ Count(sock[k].active) \in 0 .. 1
          /\ Count(Serving(k) \/ Queued("wssClosed", k)) \in 0 .. 1
      BY DEF Count
    <3>5. /\ Count(sock'[k].active) = Count(sock[k].active)
          /\ Count((Serving(k) \/ Queued("wssClosed", k))')
               = Count(Serving(k) \/ Queued("wssClosed", k))
      BY <2>2, <2>3 DEF Count
    <3> HIDE DEF Count
    <3>6. QED
      BY <1>3, <2>1, <2>3, <3>2, <3>3, <3>4, <3>5 DEF RefsFit
  <2>4. CASE j # k \/ session[c].ref > 1
    <3>1. SessionsOf(j)' = SessionsOf(j)
      <4>1. session[c].ref > 1 => session'[c].ref > 0
        BY <1>1, <1>4, <1>5
      <4>2. \A d \in Clients : session'[d].ref > 0 /\ session'[d].socket = j
                               <=> session[d].ref > 0 /\ session[d].socket = j
        BY <1>1, <1>2, <1>4, <2>4, <4>1
      <4>3. QED
        BY <4>2 DEF SessionsOf
    <3>2. sock'[j].ref = sock[j].ref
      BY <1>12, <2>4
    <3>3. QED
      BY <2>1, <2>2, <3>1, <3>2 DEF RefsFit, Count
  <2>5. session[c].ref > 1 \/ session[c].ref = 1
    BY <1>1
  <2>6. QED
    BY <2>3, <2>4, <2>5
<1>14. ASSUME NEW d \in Clients PROVE SessionFits(d)' /\ HoldsFit(d)' /\ ClientFits(d)'
  <2>1. SessionFits(d) /\ HoldsFit(d) /\ ClientFits(d)
    BY DEF SocketInv
  <2>2. CASE d = c
    <3>1. \A j \in Socks : c \notin sock'[j].list
      BY <1>1, <1>1, <1>12 DEF SessionFits
    <3>2. /\ client[c].at = "announced" /\ ~Queued("client", c)'
          /\ session'[c].ref > 0 => client'[c].at = "announced"
      <4>1. session'[c].ref > 0 => session[c].ref > 1
        BY <1>1, <1>4, <1>5
      <4>2. QED
        BY <1>1, <1>4, <1>kept, <4>1 DEF SessionFits
    <3>3. SessionFits(c)'
      BY <1>4, <1>10, <3>1, <3>2 DEF SessionFits
    <3>4. QED
      BY <1>8, <1>9, <2>2, <3>3
  <2>3. CASE d # c
    <3>1. SessionFits(d)'
      <4>1. /\ session'[d] = session[d] /\ client'[d] = client[d]
            /\ PcHolds(d)' <=> PcHolds(d)
            /\ Queued("client", d)' <=> Queued("client", d)
        BY <1>4, <1>kept, <2>3 DEF PcHolds, OnlyTasksOf
      <4>2. QED
        BY <1>12, <1>kept, <2>1, <2>3, <4>1 DEF SessionFits
    <3>2. HoldsFit(d)'
      BY <1>4, <1>kept, <2>1, <2>3 DEF HoldsFit, WsHolds, PcHolds, OnlyTasksOf
    <3>3. ClientFits(d)'
      BY <1>4, <1>12, <1>kept, <2>1, <2>3 DEF ClientFits, OnlyTasksOf
    <3>4. QED
      BY <3>1, <3>2, <3>3
  <2>4. QED
    BY <2>2, <2>3
<1>15. TypeOK'
  BY <1>4, <1>12 DEF SocketInv, TypeOK, OnlyTasksOf, OneLess
<1>16. QED
  BY <1>12, <1>13, <1>14, <1>15 DEF SocketInv, NoSurplus

\* The end of a holder of a session, whichever of the two, keeps the invariant.
LEMMA HolderEndsKeeps ==
  ASSUME SocketInv, NEW c \in Clients, NEW op, HolderEnds(op, c)
  PROVE  SocketInv'
<1>1. /\ op \in {"wsClosed", "pcClosed"} /\ Takes(op, c)
      /\ session[c].ref > 0 /\ session[c].ref \in Nat
      /\ UNCHANGED <<native, running, executor, held, surplus>>
      /\ SessionFits(c) /\ HoldsFit(c) /\ ClientFits(c)
      /\ client \in [Clients -> ClientRecords] /\ client[c] \in ClientRecords
      /\ session \in [Clients -> SessionRecords] /\ session[c] \in SessionRecords
  BY DEF SocketInv, TypeOK, HolderEnds, SessionRecords
<1>2. PICK k \in Socks : session[c].socket = k
  BY <1>1 DEF SessionFits
<1>3. CASE session[c].active
  <2> DEFINE n == 1 + Count(c \in held)
  <2>1. n \in Nat /\ n > 0 /\ session[c].ref = n + 2 /\ session[c].ref - 2 = n
    BY <1>1, <1>3 DEF SessionFits, Count
  <2>2. sock[k].ref > 0 /\ session[c].ref > 2
    BY <1>1, <1>2, <2>1, SocketOfSession
  <2> HIDE DEF n
  <2> DEFINE h == SessionUnref(SessionClose(Owned, c), c)
  <2>3. HolderGone(Owned, h, c, k)
    BY <1>1, <1>2, <2>2, OwnedFields, HolderEffect
  <2>4. Become(h)
    BY DEF HolderEnds
  <2> HIDE DEF h
  <2>5. /\ session' = Put(session, c, [ref |-> n, active |-> FALSE, socket |-> k])
        /\ sock' = Put(sock, k, [sock[k] EXCEPT !.list = @ \ {c}])
        /\ client' = client /\ map' = map
    BY <1>3, <2>1, <2>3, <2>4, OwnedFields DEF HolderGone, Become
  <2>6. session'[c].ref = n /\ ~session'[c].active
    BY <1>1, <2>1, <2>5, SessionPut
  <2>7. /\ OnlyTasksOf(c)
        /\ Count(WsHolds(c)') + Count(PcHolds(c)') + 1 = Count(WsHolds(c)) + Count(PcHolds(c))
        /\ Queued("pcClosed", c)' => client'[c].pc = "closed"
        /\ Queued("wsClosed", c)' => client'[c].ws = "closed"
        /\ Alone("pcClosed", c)' /\ Alone("wsClosed", c)'
        /\ Queued("client", c)' <=> Queued("client", c)
        /\ Alone("client", c) => Alone("client", c)'
    BY <1>1, <2>5, HoldsAfter
  <2>8. /\ Count(WsHolds(c)) \in 0 .. 1 /\ Count(PcHolds(c)) \in 0 .. 1
        /\ Count(WsHolds(c)') \in 0 .. 1 /\ Count(PcHolds(c)') \in 0 .. 1
        /\ Count(c \in held) \in 0 .. 1 /\ Count(c \in held') = Count(c \in held)
        /\ Count(session[c].active) = 1 /\ Count(session'[c].active) = 0
    BY <1>1, <1>3, <2>6 DEF Count
  <2>9. HoldsFit(c)'
    <3> HIDE DEF Count
    <3>1. n = 1 + Count(c \in held)
      BY DEF n
    <3>2. "early" \notin Faults =>
            session[c].ref = 1 + Count(WsHolds(c)) + Count(PcHolds(c)) + Count(c \in held)
      BY <1>1, <2>1, <2>8 DEF HoldsFit
    <3>3. n >= Count(WsHolds(c)') + Count(PcHolds(c)') + Count(c \in held')
      BY <2>7, <2>8, <3>1
    <3>4. "early" \notin Faults =>
            n = 0 + Count(WsHolds(c)') + Count(PcHolds(c)') + Count(c \in held')
      BY <2>1, <2>7, <2>8, <3>1, <3>2
    <3>5. QED
      BY <2>6, <2>7, <2>8, <3>3, <3>4 DEF HoldsFit
  <2>10. ClientFits(c)'
    <3>1. ~Queued("client", c)' /\ client'[c] = client[c] /\ client[c].at = "announced"
      BY <1>1, <2>5, <2>7 DEF SessionFits
    <3>2. Alone("client", c)'
      BY <1>1, <2>7 DEF ClientFits
    <3>3. QED
      BY <3>1, <3>2 DEF ClientFits
  <2>11. Unlisted(c, k, n)
    BY <1>1, <1>2, <1>3, <2>5, <2>7 DEF Unlisted
  <2>12. QED
    BY <2>1, <2>9, <2>10, <2>11, UnlistKeeps
<1>4. CASE ~session[c].active
  <2>1. SessionClose(Owned, c) = Owned
    BY <1>4, OwnedFields DEF SessionClose
  <2>2. Become(SessionUnref(Owned, c))
    BY <2>1 DEF HolderEnds
  <2>3. client'[c].ws = client[c].ws /\ client'[c].pc = client[c].pc
    BY <1>1, <1>2, <1>4, <2>2, SessionDropped
  <2>4. OneLess(c)
    <3>1. /\ OnlyTasksOf(c)
          /\ Count(WsHolds(c)') + Count(PcHolds(c)') + 1
               = Count(WsHolds(c)) + Count(PcHolds(c))
          /\ Queued("pcClosed", c)' => client'[c].pc = "closed"
          /\ Queued("wsClosed", c)' => client'[c].ws = "closed"
          /\ Alone("pcClosed", c)' /\ Alone("wsClosed", c)'
          /\ Queued("client", c)' <=> Queued("client", c)
          /\ Alone("client", c) => Alone("client", c)'
      BY <1>1, <2>3, HoldsAfter
    <3>2. Alone("client", c)' /\ held' = held /\ held \subseteq Clients
      BY <1>1, <3>1 DEF ClientFits, SocketInv, TypeOK
    <3>3. /\ Count(WsHolds(c)) \in 0 .. 1 /\ Count(PcHolds(c)) \in 0 .. 1
          /\ Count(WsHolds(c)') \in 0 .. 1 /\ Count(PcHolds(c)') \in 0 .. 1
          /\ Count(c \in held) \in 0 .. 1 /\ Count(c \in held') = Count(c \in held)
      BY <3>2 DEF Count
    <3>4. Count(WsHolds(c)') + Count(PcHolds(c)') + Count(c \in held') + 1
            = Count(WsHolds(c)) + Count(PcHolds(c)) + Count(c \in held)
      <4> HIDE DEF Count
      <4>1. QED
        BY <3>1, <3>3
    <3>5. QED
      BY <3>1, <3>2, <3>4 DEF OneLess
  <2>5. QED
    BY <1>1, <1>4, <2>2, <2>4, SessionDropKeeps
<1>5. QED
  BY <1>3, <1>4

\* What channels and a native call hold of an active session changes.
LEMMA HeldChanges ==
  ASSUME SocketInv, NEW c \in Clients, session[c].active,
         held' \subseteq Clients,
         \A d \in Clients : d # c => (d \in held' <=> d \in held),
         session' = Put(session, c, [session[c] EXCEPT !.ref = 3 + Count(c \in held')]),
         UNCHANGED <<native, running, executor, map, sock, client, tasks, surplus>>
  PROVE  SocketInv'
<1>1. /\ SessionFits(c) /\ HoldsFit(c) /\ session[c] \in SessionRecords
      /\ session \in [Clients -> SessionRecords] /\ session[c].ref \in Nat
  BY DEF SocketInv, TypeOK, SessionRecords
<1> DEFINE n == 3 + Count(c \in held')
<1>2. n \in Nat /\ n > 0 /\ n >= 3 /\ session[c].ref > 0
  BY <1>1 DEF Count, SessionFits
<1> HIDE DEF n
<1>3. /\ session' = Put(session, c, [session[c] EXCEPT !.ref = n])
      /\ [session[c] EXCEPT !.ref = n]
           = [ref |-> n, active |-> session[c].active, socket |-> session[c].socket]
      /\ [session[c] EXCEPT !.ref = n] \in SessionRecords
  BY <1>1, <1>2, SessionFields DEF n
<1>4. /\ session' \in [Clients -> SessionRecords]
      /\ session'[c].ref = n /\ session'[c].active
      /\ session'[c].socket = session[c].socket
      /\ \A d \in Clients : d # c => session'[d] = session[d]
  BY <1>1, <1>3 DEF Put
<1>5. /\ \A d \in Clients : /\ session'[d].ref > 0 <=> session[d].ref > 0
                            /\ session'[d].active <=> session[d].active
                            /\ session'[d].socket = session[d].socket
      /\ \A d \in Clients : (PcHolds(d)' <=> PcHolds(d)) /\ (WsHolds(d)' <=> WsHolds(d))
      /\ \A j \in Socks : Serving(j)' <=> Serving(j)
  BY <1>2, <1>4, QueueKept DEF PcHolds, WsHolds, Serving
<1>6. TypeOK'
  BY <1>4 DEF SocketInv, TypeOK
<1>7. ASSUME NEW j \in Socks PROVE SockFits(j)' /\ RefsFit(j)'
  <2>1. SockFits(j) /\ RefsFit(j)
    BY DEF SocketInv
  <2>2. SessionsOf(j)' = SessionsOf(j)
    BY <1>5 DEF SessionsOf
  <2>3. QED
    BY <1>5, <2>1, <2>2, QueueKept DEF SockFits, RefsFit, Count
<1>8. ASSUME NEW d \in Clients PROVE SessionFits(d)' /\ HoldsFit(d)' /\ ClientFits(d)'
  <2>1. SessionFits(d) /\ HoldsFit(d) /\ ClientFits(d)
    BY DEF SocketInv
  <2>2. ClientFits(d)'
    BY <1>5, <2>1, QueueKept DEF ClientFits
  <2>3. CASE d # c
    <3>1. session'[d] = session[d] /\ (d \in held' <=> d \in held)
      BY <1>4, <2>3
    <3>2. Count(d \in held') = Count(d \in held)
      BY <3>1 DEF Count
    <3>3. SessionFits(d)'
      BY <1>5, <2>1, <3>1, <3>2, QueueKept DEF SessionFits
    <3>4. Count(PcHolds(d)') = Count(PcHolds(d)) /\ Count(WsHolds(d)') = Count(WsHolds(d))
      BY <1>5 DEF Count
    <3>5. HoldsFit(d)'
      BY <1>5, <2>1, <3>1, <3>2, <3>4, QueueKept DEF HoldsFit
    <3>6. QED
      BY <2>2, <3>3, <3>5
  <2>4. CASE d = c
    <3>1. session'[c].ref = 3 + Count(c \in held') /\ session'[c].ref # 0
      BY <1>2, <1>4 DEF n
    <3>2. SessionFits(c)'
      BY <1>1, <1>2, <1>4, <1>5, <3>1, QueueKept DEF SessionFits, Count
    <3>3. /\ Count(PcHolds(c)') = Count(PcHolds(c)) /\ Count(WsHolds(c)') = Count(WsHolds(c))
          /\ Count(session'[c].active) = 1 /\ Count(session[c].active) = 1
          /\ Count(PcHolds(c)) \in 0 .. 1 /\ Count(WsHolds(c)) \in 0 .. 1
          /\ Count(c \in held) \in 0 .. 1 /\ Count(c \in held') \in 0 .. 1
      BY <1>4, <1>5 DEF Count
    <3>4. session[c].ref = 3 + Count(c \in held)
      BY <1>1 DEF SessionFits, Count
    <3>5. "early" \notin Faults =>
            session'[c].ref = Count(session'[c].active) + Count(WsHolds(c)')
                              + Count(PcHolds(c)') + Count(c \in held')
      <4>1. "early" \notin Faults => WsHolds(c) /\ PcHolds(c)
        BY <1>1, <1>2, <3>4 DEF HoldsFit, Count
      <4>2. QED
        BY <1>4, <1>5, <3>1, <4>1 DEF Count
    <3>6. HoldsFit(c)'
      BY <1>1, <1>4, <3>5, QueueKept DEF HoldsFit
    <3>7. QED
      BY <2>2, <2>4, <3>2, <3>6
  <2>5. QED
    BY <2>3, <2>4
<1>9. MapFits'
  BY QueueKept DEF SocketInv, MapFits
<1>10. QED
  BY <1>6, <1>7, <1>8, <1>9 DEF SocketInv, NoSurplus

\* The first channel of a session, or a native call, keeps the invariant.
LEMMA HoldKeeps ==
  ASSUME SocketInv, NEW c \in Clients, Hold(c)
  PROVE  SocketInv'
<1>1. /\ session[c].active /\ c \notin held /\ held' = held \cup {c}
      /\ session' = [session EXCEPT ![c].ref = @ + 1]
      /\ UNCHANGED <<native, running, executor, map, sock, client, tasks, surplus>>
      /\ SessionFits(c) /\ held \subseteq Clients
  BY DEF Hold, SocketInv, TypeOK
<1>2. session[c].ref + 1 = 3 + Count(c \in held')
  BY <1>1 DEF SessionFits, Count
<1>3. session' = Put(session, c, [session[c] EXCEPT !.ref = 3 + Count(c \in held')])
  BY <1>1, <1>2 DEF Put
<1>4. QED
  BY <1>1, <1>3, HeldChanges

\* The last channel of a session, and the answer of a native call, keep the
\* invariant.
LEMMA LetGoKeeps ==
  ASSUME SocketInv, NEW c \in Clients, LetGo(c)
  PROVE  SocketInv'
<1>1. /\ c \in held /\ held' = held \ {c} /\ Become(SessionUnref(Owned, c))
      /\ UNCHANGED <<native, running, executor, tasks, surplus>>
      /\ SessionFits(c) /\ HoldsFit(c) /\ ClientFits(c) /\ held \subseteq Clients
      /\ session[c] \in SessionRecords /\ session[c].ref \in Nat
  BY DEF LetGo, SocketInv, TypeOK, SessionRecords
<1>2. session[c].ref > 0
  BY <1>1 DEF SessionFits
<1>3. PICK k \in Socks : session[c].socket = k
  BY <1>1, <1>2 DEF SessionFits
<1>4. CASE session[c].active
  <2>1. /\ session[c].ref - 1 = 3 + Count(c \in held')
        /\ session[c].ref > 1 /\ session[c].ref # 1
    BY <1>1, <1>4 DEF SessionFits, Count
  <2> DEFINE h == SessionUnref(Owned, c)
  <2>2. /\ h.session = Put(session, c, [session[c] EXCEPT !.ref = @ - 1])
        /\ h.client = client /\ h.sock = sock /\ h.map = map
    BY <1>2, <2>1, OwnedFields, SessionUnrefEffect
  <2>3. Become(h)
    BY <1>1
  <2> HIDE DEF h
  <2>4. /\ session' = Put(session, c, [session[c] EXCEPT !.ref = 3 + Count(c \in held')])
        /\ UNCHANGED <<map, sock, client>>
    BY <2>1, <2>2, <2>3 DEF Become
  <2>5. QED
    BY <1>1, <1>4, <2>4, HeldChanges
<1>5. CASE ~session[c].active
  <2>1. client'[c].ws = client[c].ws /\ client'[c].pc = client[c].pc
    BY <1>1, <1>2, <1>3, <1>5, SessionDropped
  <2>2. (WsHolds(c)' <=> WsHolds(c)) /\ (PcHolds(c)' <=> PcHolds(c))
    BY <1>1, <2>1, QueueKept DEF WsHolds, PcHolds
  <2>3. /\ Count(WsHolds(c)') = Count(WsHolds(c)) /\ Count(PcHolds(c)') = Count(PcHolds(c))
        /\ Count(WsHolds(c)) \in 0 .. 1 /\ Count(PcHolds(c)) \in 0 .. 1
        /\ Count(c \in held) = 1 /\ Count(c \in held') = 0
    BY <1>1, <2>2 DEF Count
  <2>4. Count(WsHolds(c)') + Count(PcHolds(c)') + Count(c \in held') + 1
          = Count(WsHolds(c)) + Count(PcHolds(c)) + Count(c \in held)
    <3> HIDE DEF Count
    <3>1. QED
      BY <2>3
  <2>5. OnlyTasksOf(c)
    <3>1. tasks \in Seq(TaskRecords)
      BY DEF SocketInv, TypeOK
    <3>2. QED
      BY <1>1, <3>1, QueueKept DEF OnlyTasksOf
  <2>6. OneLess(c)
    BY <1>1, <2>1, <2>4, <2>5, QueueKept DEF OneLess, HoldsFit, ClientFits
  <2>7. QED
    BY <1>1, <1>2, <1>5, <2>6, SessionDropKeeps
<1>6. QED
  BY <1>4, <1>5

\* `OnPcClosed` keeps the invariant.
LEMMA OnPcClosedKeeps ==
  ASSUME SocketInv, NEW c \in Clients, OnPcClosed(c)
  PROVE  SocketInv'
<1>1. SessionFits(c) /\ tasks \in Seq(TaskRecords) /\ Takes("pcClosed", c)
  BY DEF SocketInv, TypeOK, OnPcClosed
<1>2. PcHolds(c)
  BY <1>1, TakeEffect DEF PcHolds
<1>3. session[c].ref > 0
  <2>1. session[c].ref \in Nat
    BY DEF SocketInv, TypeOK, SessionRecords
  <2>2. QED
    BY <1>1, <1>2, <2>1 DEF SessionFits
<1>4. HolderEnds("pcClosed", c)
  BY <1>1, <1>3 DEF HolderEnds, OnPcClosed
<1>5. QED
  BY <1>4, HolderEndsKeeps

\* The close of a WebSocket finds no session before the client is announced,
\* and once the session is released.
LEMMA OnWsClosedKeeps ==
  ASSUME SocketInv, NEW c \in Clients, OnWsClosed(c)
  PROVE  SocketInv'
<1>1. /\ Takes("wsClosed", c) /\ UNCHANGED <<native, running, executor, held, surplus>>
      /\ SessionFits(c) /\ HoldsFit(c) /\ ClientFits(c)
      /\ session[c].ref \in Nat
      /\ client \in [Clients -> ClientRecords] /\ client[c] \in ClientRecords
  BY DEF SocketInv, TypeOK, SessionRecords, OnWsClosed
<1>2. CASE session[c].ref = 0
  <2>1. UNCHANGED <<map, sock, session, client>>
    <3>1. Become(Owned)
      BY <1>2 DEF OnWsClosed
    <3>2. QED
      BY <3>1, OwnedKept
  <2>2. /\ OnlyTasksOf(c)
        /\ Queued("pcClosed", c)' => client'[c].pc = "closed"
        /\ Queued("wsClosed", c)' => client'[c].ws = "closed"
        /\ Alone("pcClosed", c)' /\ Alone("wsClosed", c)'
        /\ Queued("client", c)' <=> Queued("client", c)
        /\ Alone("client", c) => Alone("client", c)'
        /\ \A p2, f2 : Behind("client", c, p2, f2) => Behind("client", c, p2, f2)'
    BY <1>1, <2>1, HoldsAfter
  <2>3. PcHolds(c)' => PcHolds(c)
    <3>1. tasks \in Seq(TaskRecords)
      BY DEF SocketInv, TypeOK
    <3>2. QED
      BY <1>1, <2>1, <3>1, TakeEffect DEF PcHolds
  <2>4. SessionFits(c)'
    BY <1>1, <1>2, <2>1, <2>2, <2>3 DEF SessionFits
  <2>5. HoldsFit(c)'
    BY <1>2, <2>1, <2>2 DEF HoldsFit
  <2>6. ClientFits(c)'
    BY <1>1, <2>1, <2>2 DEF ClientFits, Serving
  <2>7. client' = [client EXCEPT ![c] = client[c]]
    BY <1>1, <2>1
  <2>8. QED
    BY <1>1, <2>1, <2>2, <2>4, <2>5, <2>6, <2>7, ClientStepKeeps
<1>3. CASE session[c].ref # 0
  <2>1. HolderEnds("wsClosed", c)
    BY <1>1, <1>3 DEF HolderEnds, OnWsClosed
  <2>2. QED
    BY <2>1, HolderEndsKeeps
<1>4. QED
  BY <1>2, <1>3

\* An active socket holds more than its own reference, and lists sessions of
\* its own that are active.
LEMMA ActiveSocket ==
  ASSUME SocketInv, NEW k \in Socks, sock[k].active
  PROVE  /\ sock[k].wss /\ sock[k].server = "open" /\ sock[k].ref > 1
         /\ sock[k].ref \in Nat /\ ~Queued("wssClosed", k)
         /\ sock[k].ref = 2 + Cardinality(SessionsOf(k))
         /\ \A c \in sock[k].list :
              /\ c \in Clients /\ session[c].active /\ session[c].ref > 1
              /\ session[c].socket = k
<1>1. /\ sock[k].wss /\ sock[k].server = "open" /\ ~Queued("wssClosed", k)
      /\ RefsFit(k)
  BY DEF SocketInv, SockFits
<1>2. /\ Count(sock[k].active) = 1
      /\ Count(Serving(k) \/ Queued("wssClosed", k)) = 1
  BY <1>1 DEF Count, Serving
<1>3. sock[k].ref = 1 + 1 + Cardinality(SessionsOf(k))
  BY <1>1, <1>2 DEF RefsFit
<1>4. Cardinality(SessionsOf(k)) \in Nat
  BY SessionsFinite
<1>5. ASSUME NEW c \in sock[k].list
      PROVE  /\ c \in Clients /\ session[c].active /\ session[c].ref > 1
             /\ session[c].socket = k
  <2>1. c \in Clients
    BY SockFields DEF SocketInv, TypeOK
  <2>2. QED
    BY <2>1 DEF SocketInv, SessionFits, Count
<1>6. QED
  BY <1>1, <1>3, <1>4, <1>5

\* `OnStop` keeps the invariant.
LEMMA OnStopKeeps ==
  ASSUME SocketInv, NEW n \in Natives, OnStop(n)
  PROVE  SocketInv'
<1>1. /\ tasks \in Seq(TaskRecords) /\ Takes("stop", n)
      /\ UNCHANGED <<native, running, executor, held, surplus>>
      /\ map \in [Natives -> Socks \cup {None}]
  BY DEF SocketInv, TypeOK, OnStop
<1>2. /\ tasks' \in Seq(TaskRecords)
      /\ \A p, f : p # "stop" => (Queued(p, f)' <=> Queued(p, f))
      /\ \A p, f : Alone(p, f) => Alone(p, f)'
      /\ \A p, f, p2, f2 : Behind(p, f, p2, f2) => Behind(p, f, p2, f2)'
  BY <1>1, TakeEffect
<1>3. CASE Become(Owned)
  <2>1. UNCHANGED <<map, sock, session, client>>
    BY <1>3, OwnedKept
  <2>2. TypeOK'
    BY <1>1, <1>2, <2>1 DEF SocketInv, TypeOK
  <2>3. /\ \A k \in Socks : SockFits(k)' /\ RefsFit(k)'
        /\ \A c \in Clients : SessionFits(c)' /\ HoldsFit(c)' /\ ClientFits(c)'
    BY <1>1, <1>2, <2>1, QuietKeeps
  <2>4. MapFits'
    BY <1>2, <2>1 DEF SocketInv, MapFits
  <2>5. QED
    BY <1>1, <2>2, <2>3, <2>4 DEF SocketInv, NoSurplus
<1>4. ASSUME NEW k \in Socks, NEW spawned \in BOOLEAN, sock[k].active,
             Become(SocketClose(Owned, k, spawned))
      PROVE  SocketInv'
  <2>1. /\ sock[k].wss /\ sock[k].server = "open" /\ sock[k].ref > 1
        /\ sock[k].ref \in Nat /\ ~Queued("wssClosed", k)
        /\ sock[k].ref = 2 + Cardinality(SessionsOf(k))
        /\ \A c \in sock[k].list :
             /\ c \in Clients /\ session[c].active /\ session[c].ref > 1
             /\ session[c].socket = k
    BY <1>4, ActiveSocket
  <2> DEFINE h == SocketClose(Owned, k, spawned)
  <2>2. h \in Records /\ SocketClosed(Owned, h, k, spawned)
    BY <1>4, <2>1, OwnedFields, SocketCloseEffect
  <2>3. Become(h)
    BY <1>4
  <2> HIDE DEF h
  <2>4. /\ TypeOK' /\ map' = map /\ client' = client
        /\ \A j \in Socks \ {k} : sock'[j] = sock[j]
        /\ session' = [c \in Clients |->
             IF c \in sock[k].list
               THEN [ref |-> session[c].ref - 1, active |-> FALSE, socket |-> k]
               ELSE session[c]]
        /\ sock'[k].ref = sock[k].ref - 1
        /\ ~sock'[k].active /\ ~sock'[k].wss
        /\ sock'[k].native = sock[k].native /\ sock'[k].list = {}
        /\ sock'[k].server \in {"open", "stopping"}
    BY <1>1, <1>2, <2>1, <2>2, <2>3, BecomeTypes, OwnedFields DEF SocketClosed
  <2>5. \A c \in Clients :
          /\ c \in sock[k].list =>
               /\ session'[c].ref = session[c].ref - 1 /\ ~session'[c].active
               /\ session'[c].socket = k
               /\ session'[c].ref > 0 /\ session'[c].ref # 0 /\ session[c].ref > 0
               /\ session[c].active /\ session[c].ref = 3 + Count(c \in held)
          /\ c \notin sock[k].list => session'[c] = session[c]
    <3> SUFFICES ASSUME NEW c \in Clients
                 PROVE  /\ c \in sock[k].list =>
                             /\ session'[c].ref = session[c].ref - 1 /\ ~session'[c].active
                             /\ session'[c].socket = k
                             /\ session'[c].ref > 0 /\ session'[c].ref # 0
                             /\ session[c].ref > 0
                             /\ session[c].active /\ session[c].ref = 3 + Count(c \in held)
                        /\ c \notin sock[k].list => session'[c] = session[c]
      OBVIOUS
    <3>1. c \in sock[k].list => session[c].active /\ session[c].ref = 3 + Count(c \in held)
      BY <2>1 DEF SocketInv, SessionFits, Count
    <3>2. c \in sock[k].list => session[c].ref - 1 > 0 /\ session[c].ref > 0
      BY <3>1 DEF Count
    <3>3. c \in sock[k].list =>
            session'[c] = [ref |-> session[c].ref - 1, active |-> FALSE, socket |-> k]
      BY <2>4
    <3>4. c \in sock[k].list => session'[c].ref # 0
      BY <3>1, <3>3 DEF Count
    <3>5. QED
      BY <2>4, <3>1, <3>2, <3>3, <3>4
  <2>6. \A j \in Socks : Serving(j)' <=> Serving(j)
    BY <2>1, <2>4 DEF Serving
  <2>7. ASSUME NEW j \in Socks PROVE SockFits(j)' /\ RefsFit(j)'
    <3>1. SockFits(j) /\ RefsFit(j)
      BY DEF SocketInv
    <3>2. SessionsOf(j)' = SessionsOf(j)
      <4>1. \A c \in Clients : session'[c].ref > 0 /\ session'[c].socket = j
                                <=> session[c].ref > 0 /\ session[c].socket = j
        BY <2>1, <2>5
      <4>2. QED
        BY <4>1 DEF SessionsOf
    <3>3. CASE j = k
      <4>1. SockFits(k)'
        <5>1. sock'[k].ref > 0 /\ sock'[k].ref # 0
          BY <2>1, <2>4
        <5>2. ~Queued("wssClosed", k)' /\ Alone("wssClosed", k)'
          BY <1>2, <2>1, <3>1, <3>3 DEF SockFits
        <5>3. sock'[k].native \in Natives
          BY <2>1, <2>4, <3>1, <3>3 DEF SockFits
        <5>4. QED
          BY <2>4, <5>1, <5>2, <5>3 DEF SockFits
      <4>2. RefsFit(k)'
        <5>1. /\ Count(sock'[k].active) = 0
              /\ Count((Serving(k) \/ Queued("wssClosed", k))') = 1
          BY <2>4 DEF Count, Serving
        <5>2. sock'[k].ref = 0 + 1 + Cardinality(SessionsOf(k))
          BY <2>1, <2>4, SessionsFinite
        <5> HIDE DEF Count
        <5>3. QED
          BY <3>2, <3>3, <5>1, <5>2 DEF RefsFit
      <4>3. QED
        BY <3>3, <4>1, <4>2
    <3>4. CASE j # k
      <4>1. SockFits(j)'
        BY <1>2, <2>4, <3>1, <3>4 DEF SockFits
      <4>2. RefsFit(j)'
        BY <1>2, <2>4, <2>6, <3>1, <3>2, <3>4 DEF RefsFit, Count
      <4>3. QED
        BY <4>1, <4>2
    <3>5. QED
      BY <3>3, <3>4
  <2>8. ASSUME NEW c \in Clients PROVE SessionFits(c)' /\ HoldsFit(c)' /\ ClientFits(c)'
    <3>1. /\ SessionFits(c) /\ HoldsFit(c) /\ ClientFits(c)
          /\ (WsHolds(c)' <=> WsHolds(c)) /\ (PcHolds(c)' <=> PcHolds(c))
      BY <1>2, <2>4 DEF SocketInv, WsHolds, PcHolds
    <3>2. SessionFits(c)'
      <4>1. ~Queued("client", c)' <=> ~Queued("client", c)
        BY <1>2
      <4>2. CASE c \in sock[k].list
        <5>1. \A j \in Socks : c \notin sock'[j].list
          BY <2>1, <2>4, <3>1, <4>2 DEF SessionFits
        <5>2. client[c].at = "announced" /\ ~Queued("client", c)
          <6>1. session[c].active /\ session[c].ref > 0
            BY <2>5, <4>2
          <6>2. QED
            BY <3>1, <6>1 DEF SessionFits
        <5>3. session'[c].ref # 0
          BY <2>5, <4>2
        <5>4. QED
          BY <1>1, <2>4, <2>5, <4>1, <4>2, <5>1, <5>2, <5>3 DEF SessionFits
      <4>3. CASE c \notin sock[k].list
        <5>1. ~(session[c].active /\ session[c].socket = k)
          BY <3>1, <4>3 DEF SessionFits
        <5>2. \A j \in Socks : /\ c \in sock'[j].list <=> c \in sock[j].list
                               /\ j # k => sock'[j].active = sock[j].active
          BY <2>4, <4>3
        <5>3. QED
          <6>1. session'[c] = session[c] /\ client' = client
            BY <2>4, <2>5, <4>3
          <6>2. session[c].active => session[c].ref > 0 /\ session[c].socket \in Socks
            BY <3>1 DEF SessionFits, Count
          <6>3. session[c].active => sock'[session[c].socket].active
            BY <3>1, <5>1, <5>2, <6>2 DEF SessionFits
          <6>4. QED
            BY <1>1, <3>1, <4>1, <5>2, <6>1, <6>3 DEF SessionFits
      <4>4. QED
        BY <4>2, <4>3
    <3>3. HoldsFit(c)'
      <4>1. /\ Queued("pcClosed", c)' => client'[c].pc = "closed"
            /\ Queued("wsClosed", c)' => client'[c].ws = "closed"
            /\ Alone("pcClosed", c)' /\ Alone("wsClosed", c)'
        BY <1>2, <2>4, <3>1 DEF HoldsFit
      <4>2. CASE c \in sock[k].list
        <5>1. /\ Count(WsHolds(c)') = Count(WsHolds(c)) /\ Count(WsHolds(c)) \in 0 .. 1
              /\ Count(PcHolds(c)') = Count(PcHolds(c)) /\ Count(PcHolds(c)) \in 0 .. 1
              /\ Count((c \in held)') = Count(c \in held) /\ Count(c \in held) \in 0 .. 1
              /\ Count(session[c].active) = 1 /\ Count(session'[c].active) = 0
          BY <1>1, <2>5, <3>1, <4>2 DEF Count
        <5>2. /\ session'[c].ref = session[c].ref - 1 /\ ~session'[c].active
              /\ session[c].ref = 3 + Count(c \in held) /\ session[c].ref > 0
          BY <2>5, <4>2
        <5> HIDE DEF Count
        <5>3. QED
          BY <3>1, <4>1, <5>1, <5>2 DEF HoldsFit
      <4>3. CASE c \notin sock[k].list
        <5>1. /\ Count(WsHolds(c)') = Count(WsHolds(c))
              /\ Count(PcHolds(c)') = Count(PcHolds(c))
              /\ session'[c] = session[c] /\ held' = held
          BY <1>1, <2>5, <3>1, <4>3 DEF Count
        <5> HIDE DEF Count
        <5>2. QED
          BY <3>1, <4>1, <5>1 DEF HoldsFit
      <4>4. QED
        BY <4>2, <4>3
    <3>4. ClientFits(c)'
      BY <1>2, <2>4, <2>6, <3>1 DEF ClientFits
    <3>5. QED
      BY <3>2, <3>3, <3>4
  <2>9. MapFits'
    <3>1. \A j \in Socks : /\ sock'[j].native = sock[j].native
                           /\ sock'[j].ref > 0 => sock[j].ref > 0
      BY <2>1, <2>4
    <3>2. QED
      BY <1>1, <1>2, <2>4, <3>1 DEF SocketInv, MapFits
  <2>10. QED
    BY <1>1, <2>4, <2>7, <2>8, <2>9 DEF SocketInv, NoSurplus
<1>5. PICK spawned \in BOOLEAN :
        Become(IF map[n] = None THEN Owned ELSE SocketClose(Owned, map[n], spawned))
  BY DEF OnStop, Allocated
<1>6. CASE map[n] = None
  BY <1>3, <1>5, <1>6
<1>7. CASE map[n] # None
  <2>1. PICK k \in Socks : map[n] = k
    BY <1>1, <1>7
  <2>2. Become(SocketClose(Owned, k, spawned))
    BY <1>5, <1>7, <2>1
  <2>3. CASE sock[k].active
    BY <1>4, <2>2, <2>3
  <2>4. CASE ~sock[k].active
    <3>1. SocketClose(Owned, k, spawned) = Owned
      BY <2>4, OwnedFields DEF SocketClose
    <3>2. QED
      BY <1>3, <2>2, <3>1
  <2>5. QED
    BY <2>3, <2>4
<1>8. QED
  BY <1>6, <1>7
-----------------------------------------------------------------------------
(***************************************************************************)
(* Every step, and what follows from the invariant.                        *)
(***************************************************************************)
LEMMA SocketInvStep == SocketInv /\ [Next]_vars => SocketInv'
<1> SUFFICES ASSUME SocketInv, [Next]_vars PROVE SocketInv'
  OBVIOUS
<1>1. CASE UNCHANGED vars
  <2>1. UNCHANGED <<native, running, executor, map, sock, session, client, tasks, held,
                 surplus>>
    BY <1>1 DEF vars
  <2>2. TypeOK'
    BY <2>1 DEF SocketInv, TypeOK
  <2>3. /\ \A k \in Socks : SockFits(k)' /\ RefsFit(k)'
        /\ \A c \in Clients : SessionFits(c)' /\ HoldsFit(c)' /\ ClientFits(c)'
    BY <2>1, QueueKept, QuietKeeps
  <2>4. MapFits'
    BY <2>1, QueueKept DEF SocketInv, MapFits
  <2>5. QED
    BY <2>1, <2>2, <2>3, <2>4 DEF SocketInv, NoSurplus
<1>2. CASE RunTask
  <2>1. ASSUME NEW n \in Natives, OnListen(n) \/ OnStop(n) PROVE SocketInv'
    BY <2>1, OnListenKeeps, OnStopKeeps
  <2>2. ASSUME NEW c \in Clients, OnClient(c) \/ OnWsClosed(c) \/ OnPcClosed(c)
        PROVE  SocketInv'
    BY <2>2, OnClientKeeps, OnWsClosedKeeps, OnPcClosedKeeps
  <2>3. ASSUME NEW k \in Socks, OnWssClosed(k) PROVE SocketInv'
    BY <2>3, OnWssClosedKeeps
  <2>4. QED
    BY <1>2, <2>1, <2>2, <2>3 DEF RunTask
<1>3. ASSUME NEW n \in Natives, Listen(n) \/ Connect(n) \/ Stop(n) PROVE SocketInv'
  BY <1>3, ListenKeeps, ConnectKeeps, StopKeeps
<1>4. ASSUME NEW k \in Socks, WssStop(k) PROVE SocketInv'
  BY <1>4, WssStopKeeps
<1>5. ASSUME NEW c \in Clients, SessionEnds(c) \/ Announce(c) \/ WsClose(c) \/ PcClose(c)
                              \/ Hold(c) \/ LetGo(c)
      PROVE  SocketInv'
  BY <1>5, SessionEndsKeeps, AnnounceKeeps, WsCloseKeeps, PcCloseKeeps, HoldKeeps,
     LetGoKeeps
<1>6. ASSUME NEW c \in Clients, NEW k \in Socks, Accept(c, k) PROVE SocketInv'
  BY <1>6, AcceptKeeps
<1>7. QED
  BY <1>1, <1>2, <1>3, <1>4, <1>5, <1>6 DEF Next

\* The invariant holds in every reachable state.
LEMMA SocketInvHolds ==
  ASSUME "init" \notin Faults PROVE Spec => []SocketInv
  BY SocketInvInit, SocketInvStep, PTL DEF Spec

\* Every variable of the socket model keeps the type its C counterpart has,
\* while socket_plugin_init succeeds.
THEOREM SocketTypes ==
  ASSUME "init" \notin Faults PROVE Spec => []TypeOK
<1>1. SocketInv => TypeOK
  BY DEF SocketInv
<1>2. QED
  BY <1>1, SocketInvHolds, PTL

\* The reference count of each plugin socket (socket.c:146, socket-wss.c:98,
\* 181, session.c:109, 159) is what is left to drop: however stops, closes and
\* accepts interleave, and whichever object, server, session or worker task
\* cannot be allocated and whichever task is refused, it is not released early,
\* and is leaked only with what holds it.  The one failure that it excludes is
\* that of socket_plugin_init, which releases the object within the pool's own
\* initialiser (socket-plugin.c:130, 143).
THEOREM SocketReferences ==
  ASSUME "init" \notin Faults PROVE Spec => []SocketRefs
<1>1. SocketInv => SocketRefs
  BY DEF SocketInv, SocketRefs, RefsFit, Serving
<1>2. QED
  BY <1>1, SocketInvHolds, PTL

\* A session belongs to an active socket as long as it is active
\* (socket.c:136-141, socket-wss.c:34).
THEOREM StoppedSocketHasNoActiveSession ==
  ASSUME "init" \notin Faults PROVE Spec => []StoppedHasNoActiveSession
<1>1. SocketInv => StoppedHasNoActiveSession
  BY DEF SocketInv, StoppedHasNoActiveSession, SessionFits
<1>2. QED
  BY <1>1, SocketInvHolds, PTL

\* The socket of a client that is announced, or will be, is not released
\* (socket-wss.c:166): the end of its server is behind the announcement.
THEOREM ServerOfClientIsLive ==
  ASSUME "init" \notin Faults PROVE Spec => []ClosedIsLast
<1>1. ASSUME SocketInv, NEW c \in Clients,
             client[c].at = "accepted" \/ Queued("client", c)
      PROVE  sock[client[c].server].ref > 0
  <2>1. PICK k \in Socks : client[c].server = k
    BY <1>1 DEF SocketInv, ClientFits
  <2>2. Serving(k) \/ Queued("wssClosed", k)
    <3>1. Serving(k) \/ (Queued("client", c) /\ Behind("client", c, "wssClosed", k))
      BY <1>1, <2>1 DEF SocketInv, ClientFits
    <3>2. QED
      BY <3>1, FollowsHas, QueuedIsHas DEF Behind
  <2>3. RefsFit(k) /\ Cardinality(SessionsOf(k)) \in Nat
    BY <1>1, SessionsFinite DEF SocketInv
  <2>4. /\ Count(sock[k].active) \in 0 .. 1
        /\ Count(Serving(k) \/ Queued("wssClosed", k)) = 1
    BY <2>2 DEF Count
  <2> HIDE DEF Count
  <2>5. QED
    BY <2>1, <2>3, <2>4 DEF RefsFit
<1>2. SocketInv => ClosedIsLast
  BY <1>1 DEF ClosedIsLast
<1>3. QED
  BY <1>2, SocketInvHolds, PTL

\* A WebSocket references its session until it is closed (session-ws.c:169),
\* a peer connection likewise (session-pc.c:272), if no client is gone before
\* it is announced.
THEOREM SessionReferencesEnd ==
  ASSUME "init" \notin Faults, "early" \notin Faults PROVE Spec => []WsReferenceEnds
<1>1. SocketInv => WsReferenceEnds
  <2> SUFFICES ASSUME SocketInv, NEW c \in Clients, session[c].ref > 0
               PROVE  session[c].ref = Count(session[c].active)
                        + Count(client[c].ws # "closed" \/ Queued("wsClosed", c))
                        + Count(client[c].pc \in {"open", "lost"} \/ Queued("pcClosed", c))
                        + Count(c \in held)
    BY DEF WsReferenceEnds
  <2>1. HoldsFit(c)
    BY DEF SocketInv
  <2>2. QED
    BY <2>1 DEF HoldsFit, WsHolds, PcHolds
<1>2. QED
  BY <1>1, SocketInvHolds, PTL

\* A stop finds the active plugin socket of its native socket
\* (socket-plugin.c:161), if a native socket listens again only when the
\* plugin has forgotten it.
THEOREM ActiveSocketIsMapped ==
  ASSUME "init" \notin Faults, "restart" \notin Faults PROVE Spec => []ActiveIsMapped
<1>1. ASSUME SocketInv, NEW k \in Socks, sock[k].active
      PROVE  map[sock[k].native] = k
  <2>1. sock[k].ref \in Nat /\ SockFits(k)
    BY <1>1, SockFields DEF SocketInv, TypeOK
  <2>2. sock[k].ref > 0 /\ sock[k].native \in Natives
    BY <1>1, <2>1 DEF SockFits
  <2>3. QED
    BY <1>1, <2>2 DEF SocketInv, MapFits
<1>2. SocketInv => ActiveIsMapped
  BY <1>1 DEF ActiveIsMapped
<1>3. QED
  BY <1>2, SocketInvHolds, PTL
-----------------------------------------------------------------------------
(***************************************************************************)
(* The executor.                                                           *)
(***************************************************************************)
Listening == {n \in Natives : native[n] = "listening"}

\* The count is that of the listening sockets, and has not wrapped.
RunningIsCounted ==
  /\ running = Cardinality(Listening)
  /\ executor <=> running > 0
  /\ \A n \in Natives : native[n] # "connecting"
  /\ native \in [Natives -> {"idle", "listening", "connecting"}]
  /\ executor \in BOOLEAN

\* The executor's counter is incremented as a natural number below its modulus.
LEMMA IncrementFits ==
  ASSUME NEW M \in Nat \ {0}, NEW a \in Nat, a + 1 < M
  PROVE  (a + 1) % M = a + 1
  BY SMT

\* Adding the modulus changes no remainder.
LEMMA WrapVanishes ==
  ASSUME NEW M \in Nat \ {0}, NEW a \in Nat, a < M
  PROVE  (a + M) % M = a
  BY SMT

\* The executor's counter is decremented as a natural number above zero.
LEMMA DecrementFits ==
  ASSUME NEW M \in Nat \ {0}, NEW a \in Nat, a > 0, a < M
  PROVE  (a + M - 1) % M = a - 1
<1>1. PICK b \in Nat : b = a - 1
  OBVIOUS
<1>2. (b + M) % M = b /\ a + M - 1 = b + M
  BY <1>1, WrapVanishes
<1>3. QED
  BY <1>1, <1>2

\* Each step keeps the executor's counter equal to the number of listening sockets.
LEMMA RunningStep ==
  ASSUME "connecting" \notin Faults, IsFiniteSet(Natives),
         Cardinality(Natives) < CountModulus,
         RunningIsCounted, [Next]_vars
  PROVE  RunningIsCounted'
<1>1. /\ native \in [Natives -> {"idle", "listening", "connecting"}]
      /\ IsFiniteSet(Listening) /\ Cardinality(Listening) \in Nat
      /\ CountModulus \in Nat \ {0} /\ Cardinality(Natives) \in Nat
      /\ Listening \subseteq Natives
      /\ executor \in BOOLEAN
  BY FS_Subset, FS_CardinalityType, SocketAssumption DEF RunningIsCounted, Listening
<1>2. CASE UNCHANGED <<native, running, executor>>
  BY <1>2 DEF RunningIsCounted, Listening
<1>3. ASSUME NEW n \in Natives, Listen(n) PROVE RunningIsCounted'
  <2>1. /\ native[n] = "idle" /\ native' = [native EXCEPT ![n] = "listening"]
        /\ running' = (running + 1) % CountModulus
        /\ executor' = (executor \/ running = 0)
    BY <1>3 DEF Listen, Started
  <2>2. n \notin Listening /\ Listening' = Listening \cup {n}
    BY <1>1, <2>1 DEF Listening
  <2>3. /\ Cardinality(Listening \cup {n}) = running + 1
        /\ Cardinality(Listening \cup {n}) <= Cardinality(Natives)
    <3>1. Cardinality(Listening \cup {n}) = Cardinality(Listening) + 1
      BY <1>1, <2>2, FS_AddElement
    <3>2. Listening \cup {n} \subseteq Natives
      BY <1>1
    <3>3. Cardinality(Listening \cup {n}) <= Cardinality(Natives)
      BY <3>2, FS_Subset
    <3>4. QED
      BY <3>1, <3>3 DEF RunningIsCounted
  <2>4. running \in Nat
    BY <1>1 DEF RunningIsCounted
  <2>5. running' = running + 1
    <3>1. running + 1 < CountModulus
      BY <1>1, <2>3, <2>4
    <3>2. QED
      BY <1>1, <2>1, <2>4, <3>1, IncrementFits
  <2>6. running' = Cardinality(Listening')
    BY <2>2, <2>3, <2>5
  <2>7. executor' <=> running' > 0
    <3>1. running' > 0 /\ (running = 0 \/ running > 0)
      BY <2>4, <2>5
    <3>2. executor \/ running = 0
      BY <3>1 DEF RunningIsCounted
    <3>3. executor'
      BY <2>1, <3>2, Zenon
    <3>4. QED
      BY <3>1, <3>3
  <2>8. \A m \in Natives : native'[m] # "connecting"
    BY <1>1, <2>1 DEF RunningIsCounted
  <2>9. QED
    BY <1>1, <2>1, <2>6, <2>7, <2>8 DEF RunningIsCounted
<1>4. ASSUME NEW n \in Natives, Stop(n) PROVE RunningIsCounted'
  <2>1. /\ native[n] = "listening" /\ native' = [native EXCEPT ![n] = "idle"]
        /\ running' = (running + CountModulus - 1) % CountModulus
        /\ executor' = (executor /\ running # 1)
    BY <1>1, <1>4 DEF Stop, RunningIsCounted
  <2>2. n \in Listening /\ Listening' = Listening \ {n}
    BY <1>1, <2>1 DEF Listening
  <2>3. /\ Cardinality(Listening \ {n}) = running - 1
        /\ running <= Cardinality(Natives) /\ running > 0 /\ running \in Nat
    <3>1. Cardinality(Listening \ {n}) = Cardinality(Listening) - 1
      BY <1>1, <2>2, FS_RemoveElement
    <3>2. Cardinality(Listening) <= Cardinality(Natives)
      BY <1>1, FS_Subset
    <3>3. Cardinality(Listening) # 0
      BY <1>1, <2>2, FS_EmptySet
    <3>4. QED
      BY <1>1, <3>1, <3>2, <3>3 DEF RunningIsCounted
  <2>4. running' = running - 1
    <3>1. running < CountModulus
      BY <1>1, <2>3
    <3>2. QED
      BY <1>1, <2>1, <2>3, <3>1, DecrementFits
  <2>5. running' = Cardinality(Listening')
    BY <2>2, <2>3, <2>4
  <2>6. executor' <=> running' > 0
    <3>1. executor
      BY <2>3 DEF RunningIsCounted
    <3>2. executor' <=> running # 1
      BY <2>1, <3>1
    <3>3. running # 1 <=> running' > 0
      BY <2>3, <2>4
    <3>4. QED
      BY <3>2, <3>3
  <2>7. \A m \in Natives : native'[m] # "connecting"
    BY <1>1, <2>1 DEF RunningIsCounted
  <2>8. QED
    BY <1>1, <2>1, <2>5, <2>6, <2>7 DEF RunningIsCounted
<1>5. CASE RunTask
  <2>1. UNCHANGED <<native, running, executor>>
    BY <1>5 DEF RunTask, OnListen, OnStop, OnClient, OnWsClosed, OnPcClosed, OnWssClosed
  <2>2. QED
    BY <1>2, <2>1
<1>6. ASSUME NEW n \in Natives, Connect(n) PROVE RunningIsCounted'
  BY <1>6 DEF Connect
<1>7. ASSUME NEW k \in Socks, WssStop(k) PROVE RunningIsCounted'
  BY <1>2, <1>7 DEF WssStop, WssStops
<1>8. ASSUME NEW c \in Clients, SessionEnds(c) \/ Announce(c) \/ WsClose(c) \/ PcClose(c)
                              \/ Hold(c) \/ LetGo(c)
      PROVE  RunningIsCounted'
  BY <1>2, <1>8 DEF SessionEnds, Announce, WsClose, PcClose, Hold, LetGo
<1>9. ASSUME NEW c \in Clients, NEW k \in Socks, Accept(c, k) PROVE RunningIsCounted'
  BY <1>2, <1>9 DEF Accept
<1>10. CASE UNCHANGED vars
  BY <1>2, <1>10 DEF vars
<1>11. QED
  BY <1>3, <1>4, <1>5, <1>6, <1>7, <1>8, <1>9, <1>10 DEF Next

\* The executor runs while some native socket listens (socket-plugin.c:93-100,
\* 177-184): for any finite number of native sockets that the counter can
\* count, if none of them connects.
THEOREM ExecutorRuns ==
  ASSUME "connecting" \notin Faults, IsFiniteSet(Natives),
         Cardinality(Natives) < CountModulus
  PROVE  Spec => []ExecutorServes
<1>1. Init => RunningIsCounted
  <2> SUFFICES ASSUME Init PROVE RunningIsCounted
    OBVIOUS
  <2>1. Listening = {}
    BY DEF Init, Listening
  <2>2. Cardinality(Listening) = 0
    BY <2>1, FS_EmptySet
  <2>3. /\ running = 0 /\ ~executor /\ \A n \in Natives : native[n] # "connecting"
        /\ native \in [Natives -> {"idle", "listening", "connecting"}]
        /\ executor \in BOOLEAN
    BY DEF Init
  <2>4. QED
    BY <2>2, <2>3 DEF RunningIsCounted
<1>2. RunningIsCounted /\ [Next]_vars => RunningIsCounted'
  BY RunningStep
<1>3. RunningIsCounted => ExecutorServes
  <2> SUFFICES ASSUME RunningIsCounted PROVE ExecutorServes
    OBVIOUS
  <2>1. IsFiniteSet(Listening) /\ Cardinality(Listening) \in Nat
    BY FS_Subset, FS_CardinalityType DEF Listening
  <2>2. Cardinality(Listening) > 0 <=> Listening # {}
    BY <2>1, FS_EmptySet
  <2>3. executor <=> Listening # {}
    BY <2>2 DEF RunningIsCounted
  <2>4. Listening # {} <=> \E n \in Natives : native[n] = "listening"
    BY DEF Listening
  <2>5. QED
    BY <2>3, <2>4 DEF ExecutorServes
<1>4. QED
  BY <1>1, <1>2, <1>3, PTL DEF Spec
=============================================================================
