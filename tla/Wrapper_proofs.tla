--------------------------- MODULE Wrapper_proofs ---------------------------
(***************************************************************************)
(* Proofs about the C++ objects, for any number of sessions and wrappers.  *)
(***************************************************************************)
EXTENDS Wrapper, QueueLemmas

(***************************************************************************)
(* The inductive invariant: what holds of the record t of objects and      *)
(* wrappers by itself.                                                     *)
(***************************************************************************)
Count(b) == IF b THEN 1 ELSE 0

Live(t, k, i) == t.state[<<k, i>>] \in {"open", "closing"}

\* A wrapper that is out of its pool has an object of its kind for itself, and
\* a peer connection's is the one that its session knows.
BoundFits(t) ==
  /\ \A w \in Ws : t.bound[w] # None => \E i \in Sessions : t.bound[w] = <<"ws", i>>
  /\ \A w \in Pc : t.bound[w] # None => \E i \in Sessions : t.bound[w] = <<"pc", i>>
  /\ \A w \in Dc : t.bound[w] # None =>
       \E i \in Sessions, k \in {"out", "in", "twin"} : t.bound[w] = <<k, i>>
  /\ \A w \in Wrappers : t.bound[w] # None => t.state[t.bound[w]] # "none"
  /\ \A v, w \in Wrappers : t.bound[v] # None /\ t.bound[v] = t.bound[w] => v = w
  /\ \A w \in Wrappers, i \in Sessions : t.bound[w] = <<"pc", i>> => t.pc[i] = w

\* What a wrapper is associated with knows the wrapper.
DataFits(t) ==
  \A w \in Wrappers, i \in Sessions :
    t.data[w] = i => w \in {t.ws[i], t.pc[i], t.outgoing[i], t.incoming[i]}

\* A session that is not in its pool has both its wrappers, and a data channel
\* at the earliest when it is authenticated.
SessionFits(t, i) ==
  /\ t.ws[i] # None => t.bound[t.ws[i]] = <<"ws", i>> /\ t.data[t.ws[i]] = i
  /\ t.pc[i] # None => t.bound[t.pc[i]] = <<"pc", i>> /\ t.data[t.pc[i]] = i
  /\ t.ref[i] > 0 <=> t.ws[i] # None
  /\ t.ref[i] > 0 <=> t.pc[i] # None
  /\ i \in t.active \/ i \in t.authenticated => t.ref[i] > 0
  /\ i \in t.active /\ i \notin t.authenticated => t.state[<<"out", i>>] = "none"

\* A channel that is not in its pool has its outgoing wrapper; one that is listed
\* and active has both its references.
ChannelFits(t, i) ==
  /\ t.outgoing[i] # None =>
       t.bound[t.outgoing[i]] = <<"out", i>> /\ t.data[t.outgoing[i]] = i
  /\ t.incoming[i] # None =>
       /\ t.bound[t.incoming[i]] \in {<<"in", i>>, <<"twin", i>>}
       /\ t.data[t.incoming[i]] = i
  /\ t.cref[i] > 0 <=> t.outgoing[i] # None
  /\ t.incoming[i] # None => t.cref[i] > 0
  /\ t.cref[i] > 0 => i \in t.authenticated
  /\ i \in t.listed \/ i \in t.cactive => t.cref[i] > 0
  /\ i \in t.listed /\ i \in t.cactive => t.cref[i] > 1

Shape(t) ==
  /\ t \in Owned
  /\ BoundFits(t) /\ DataFits(t)
  /\ \A i \in Sessions : SessionFits(t, i) /\ ChannelFits(t, i)

\* A session is referenced by itself while it is active, by its channel, and by
\* h[i] others, at least by each of its two objects that has yet to close.
RefsAre(t, h) ==
  \A i \in Sessions :
    /\ t.ref[i] = Count(i \in t.active) + h[i] + Count(t.cref[i] > 0)
    /\ t.ref[i] > 0 => h[i] >= Count(Live(t, "ws", i)) + Count(Live(t, "pc", i))

(***************************************************************************)
(* What holds of t and the queue q together.                               *)
(***************************************************************************)
WsOps == {"wsMessage", "wsClosed"}
PcOps == {"dataChannel", "badChannel"}
DcOps == {"message", "dcClosed"}

Plain(op, w, i) == Task(op, w, i, None)

\* The two others, its WebSocket and its peer connection, until their closes are
\* handled.
WsHolds(t, q, i) ==
  t.ws[i] # None /\ (Live(t, "ws", i) \/ Has(q, Plain("wsClosed", t.ws[i], i)))
PcHolds(t, q, i) ==
  t.pc[i] # None /\ (Live(t, "pc", i) \/ Has(q, Plain("pcClosed", t.pc[i], i)))
Holders(t, q) ==
  [i \in Sessions |-> Count(WsHolds(t, q, i)) + Count(PcHolds(t, q, i))]

\* Tasks name wrappers of the right pool.
FormFits(q) ==
  /\ q \in Seq(TaskRecords)
  /\ \A x \in TaskRecords : Has(q, x) =>
       /\ x.op \in {"client", "wsMessage", "wsClosed"} => x.w \in Ws /\ x.dc = None
       /\ x.op = "pcClosed" => x.w \in Pc /\ x.dc = None
       /\ x.op \in PcOps => x.w \in Pc /\ x.dc \in Dc
       /\ x.op \in DcOps => x.w \in Dc /\ x.dc = None

\* The WebSocket of a session is its first object.
FirstFits(t) ==
  \A i \in Sessions : t.state[<<"ws", i>>] = "none" =>
    t.state[<<"pc", i>>] = "none" /\ t.state[<<"out", i>>] = "none"

\* A client is announced once, before the close of its WebSocket, and behind
\* all that is left of those who had the wrapper before.
ClientsFit(t, q) ==
  \A i \in Sessions, w \in Ws : Has(q, Plain("client", w, i)) =>
    /\ t.bound[w] = <<"ws", i>>
    /\ t.state[<<"pc", i>>] = "none" /\ t.state[<<"out", i>>] = "none"
    /\ Single(q, Plain("client", w, i))
    /\ t.state[<<"ws", i>>] = "closed" =>
         Follows(q, Plain("client", w, i), Plain("wsClosed", w, i))
    /\ \A j \in Sessions \ {i}, op \in WsOps :
         Follows(q, Plain(op, w, j), Plain("client", w, i))

\* An event of a WebSocket is about the wrapper it had or has.
WsFits(t, q) ==
  \A i \in Sessions, w \in Ws, op \in WsOps : Has(q, Plain(op, w, i)) =>
    /\ t.data[w] \in {i, None}
    /\ t.state[<<"ws", i>>] # "none"
    /\ \A v \in Ws : t.bound[v] = <<"ws", i>> => v = w
    /\ op = "wsClosed" =>
         t.state[<<"ws", i>>] = "closed" /\ Single(q, Plain("wsClosed", w, i))

\* An event of a peer connection is about its session's wrapper, and queued
\* before the close.
PcFits(t, q) ==
  \A i \in Sessions, p \in Pc :
    /\ Has(q, Plain("pcClosed", p, i)) =>
         /\ t.pc[i] = p /\ t.state[<<"pc", i>>] = "closed"
         /\ Single(q, Plain("pcClosed", p, i))
    /\ \A op \in PcOps, d \in Dc : Has(q, Task(op, p, i, d)) =>
         /\ t.pc[i] = p
         /\ t.state[<<"pc", i>>] = "closed" =>
              Follows(q, Task(op, p, i, d), Plain("pcClosed", p, i))

\* An incoming data channel is announced once, and behind all that is left of
\* those who had its wrapper before; what is left reaches no incoming one.
DcFits(t, q) ==
  \A i \in Sessions, d \in Dc :
    /\ \A p \in Pc : Has(q, Task("dataChannel", p, i, d)) =>
         /\ t.bound[d] \in {<<"in", i>>, <<"twin", i>>} /\ t.data[d] = None
         /\ Single(q, Task("dataChannel", p, i, d))
         /\ \A j \in Sessions \ {i}, op \in DcOps :
              Follows(q, Plain(op, d, j), Task("dataChannel", p, i, d))
    /\ \A op \in DcOps : Has(q, Plain(op, d, i)) =>
         \A j \in Sessions \ {i} : t.incoming[j] # d

QueueFits(t, q) ==
  /\ FormFits(q) /\ FirstFits(t)
  /\ ClientsFit(t, q) /\ WsFits(t, q) /\ PcFits(t, q) /\ DcFits(t, q)

Fits(t, q) == Shape(t) /\ RefsAre(t, Holders(t, q)) /\ QueueFits(t, q)

WrapperInv == Fits(o, tasks) /\ o.reports = {} /\ MessagesReachOwn
-----------------------------------------------------------------------------
(***************************************************************************)
(* Types.                                                                  *)
(***************************************************************************)
\* The types of the fields of a record.
LEMMA WrapperFields ==
  ASSUME NEW t \in Owned
  PROVE  /\ t.state \in [Objects -> {"none", "open", "closing", "closed"}]
         /\ t.data \in [Wrappers -> Sessions \cup {None}]
         /\ t.bound \in [Wrappers -> Objects \cup {None}]
         /\ t.reports \in SUBSET TaskRecords
         /\ t.ref \in [Sessions -> Nat] /\ t.cref \in [Sessions -> Nat]
         /\ t.active \in SUBSET Sessions /\ t.authenticated \in SUBSET Sessions
         /\ t.listed \in SUBSET Sessions /\ t.cactive \in SUBSET Sessions
         /\ t.ws \in [Sessions -> Ws \cup {None}] /\ t.pc \in [Sessions -> Pc \cup {None}]
         /\ t.outgoing \in [Sessions -> Dc \cup {None}]
         /\ t.incoming \in [Sessions -> Dc \cup {None}]
         /\ t.received \in [Sessions -> SUBSET Sessions]
  BY DEF Owned

\* NULL is nothing else, and the pools are disjoint.
LEMMA Disjoint ==
  /\ None \notin Sessions /\ None \notin Objects
  /\ None \notin Ws /\ None \notin Pc /\ None \notin Dc
  /\ Wrappers = Ws \cup Pc \cup Dc
  /\ Ws \cap Pc = {} /\ Ws \cap Dc = {} /\ Pc \cap Dc = {}
  BY WrapperAssumption, NoneAssumption DEF Wrappers

\* Objects are pairs of a kind and a session.
LEMMA ObjectForm ==
  /\ \A k \in {"ws", "pc", "out", "in", "twin"}, i \in Sessions : <<k, i>> \in Objects
  /\ \A k, l, i, j : <<k, i>> = <<l, j>> <=> k = l /\ i = j
  /\ \A k, i : <<k, i>>[1] = k /\ <<k, i>>[2] = i
  BY DEF Objects

\* A task is its four parts.
LEMMA TaskIdentity ==
  /\ \A op, w, i, dc : /\ Task(op, w, i, dc).op = op /\ Task(op, w, i, dc).w = w
                       /\ Task(op, w, i, dc).of = i /\ Task(op, w, i, dc).dc = dc
  /\ \A op, w, i, dc, op2, w2, i2, dc2 :
       Task(op, w, i, dc) = Task(op2, w2, i2, dc2)
         <=> op = op2 /\ w = w2 /\ i = i2 /\ dc = dc2
  /\ \A op \in TaskOps, w \in Wrappers, i \in Sessions, dc \in Dc \cup {None} :
       Task(op, w, i, dc) \in TaskRecords
  /\ \A x \in TaskRecords : /\ x = Task(x.op, x.w, x.of, x.dc)
                            /\ x.op \in TaskOps /\ x.w \in Wrappers
                            /\ x.of \in Sessions /\ x.dc \in Dc \cup {None}
  BY DEF Task, TaskRecords

\* The task by which a bound object reports its close.
LEMMA ClosedForm ==
  ASSUME NEW t \in Owned, BoundFits(t), NEW w \in Wrappers, t.bound[w] # None
  PROVE  \E i \in Sessions :
           /\ ClosedTask(t, w) \in TaskRecords
           /\ w \in Ws => t.bound[w] = <<"ws", i>> /\ ClosedTask(t, w) = Plain("wsClosed", w, i)
           /\ w \in Pc => t.bound[w] = <<"pc", i>> /\ ClosedTask(t, w) = Plain("pcClosed", w, i)
           /\ w \in Dc => /\ \E k \in {"out", "in", "twin"} : t.bound[w] = <<k, i>>
                          /\ ClosedTask(t, w) = Plain("dcClosed", w, i)
<1>1. CASE w \in Ws
  <2>1. PICK i \in Sessions : t.bound[w] = <<"ws", i>>
    BY <1>1 DEF BoundFits
  <2>2. ClosedTask(t, w) = Plain("wsClosed", w, i)
    BY <2>1 DEF ClosedTask, Plain
  <2>3. QED
    BY <1>1, <2>1, <2>2, Disjoint, TaskIdentity DEF Plain, TaskOps
<1>2. CASE w \in Pc
  <2>1. PICK i \in Sessions : t.bound[w] = <<"pc", i>>
    BY <1>2 DEF BoundFits
  <2>2. ClosedTask(t, w) = Plain("pcClosed", w, i)
    BY <2>1 DEF ClosedTask, Plain
  <2>3. QED
    BY <1>2, <2>1, <2>2, Disjoint, TaskIdentity DEF Plain, TaskOps
<1>3. CASE w \in Dc
  <2>1. PICK i \in Sessions, k \in {"out", "in", "twin"} : t.bound[w] = <<k, i>>
    BY <1>3 DEF BoundFits
  <2>2. ClosedTask(t, w) = Plain("dcClosed", w, i)
    BY <2>1 DEF ClosedTask, Plain
  <2>3. QED
    BY <1>3, <2>1, <2>2, Disjoint, TaskIdentity DEF Plain, TaskOps
<1>4. QED
  BY <1>1, <1>2, <1>3, Disjoint
-----------------------------------------------------------------------------
(***************************************************************************)
(* What the functions of the plugin thread do to the record.               *)
(***************************************************************************)
\* All but the objects and wrappers.
SameSessions(t, u) ==
  /\ u.ref = t.ref /\ u.active = t.active /\ u.authenticated = t.authenticated
  /\ u.ws = t.ws /\ u.pc = t.pc /\ u.received = t.received

SameChannels(t, u) ==
  /\ u.listed = t.listed /\ u.cref = t.cref /\ u.cactive = t.cactive
  /\ u.outgoing = t.outgoing /\ u.incoming = t.incoming

\* Closing wrappers has their open objects close.
LEMMA CloseForm ==
  ASSUME NEW t \in Owned, NEW W \in SUBSET Wrappers
  PROVE  LET u == Close(t, W) IN
           /\ u \in Owned
           /\ u.state = [x \in Objects |->
                IF t.state[x] = "open" /\ \E w \in W : t.bound[w] = x
                THEN "closing" ELSE t.state[x]]
           /\ u.data = t.data /\ u.bound = t.bound /\ u.reports = t.reports
           /\ SameSessions(t, u) /\ SameChannels(t, u)
<1> DEFINE s == [x \in Objects |->
                   IF t.state[x] = "open" /\ \E w \in W : t.bound[w] = x
                   THEN "closing" ELSE t.state[x]]
           u == Close(t, W)
<1>1. s \in [Objects -> {"none", "open", "closing", "closed"}]
  BY WrapperFields
<1>2. u = [t EXCEPT !.state = s]
  BY DEF Close, Owned
<1> HIDE DEF s, u
<1>3. u \in Owned
  BY <1>1, <1>2 DEF Owned
<1>4. /\ u.state = s /\ u.data = t.data /\ u.bound = t.bound /\ u.reports = t.reports
      /\ SameSessions(t, u) /\ SameChannels(t, u)
  BY <1>2 DEF Owned, SameSessions, SameChannels
<1>5. QED
  BY <1>3, <1>4 DEF u, s

\* Destroying wrappers closes their objects, which report it if they have not.
LEMMA DestroyForm ==
  ASSUME NEW t \in Owned, BoundFits(t), NEW W \in SUBSET Wrappers,
         \A w \in W : t.bound[w] # None
  PROVE  LET u == Destroy(t, W) IN
           /\ u \in Owned
           /\ u.state = [x \in Objects |->
                IF \E w \in W : t.bound[w] = x THEN "closed" ELSE t.state[x]]
           /\ u.data = [w \in Wrappers |-> IF w \in W THEN None ELSE t.data[w]]
           /\ u.bound = [w \in Wrappers |-> IF w \in W THEN None ELSE t.bound[w]]
           /\ u.reports = t.reports \cup {ClosedTask(t, w) : w \in
                {v \in W : t.state[t.bound[v]] # "closed"}}
           /\ SameSessions(t, u) /\ SameChannels(t, u)
<1> DEFINE r == t.reports \cup {ClosedTask(t, w) : w \in
                  {v \in W : t.state[t.bound[v]] # "closed"}}
           s == [x \in Objects |->
                   IF \E w \in W : t.bound[w] = x THEN "closed" ELSE t.state[x]]
           d == [w \in Wrappers |-> IF w \in W THEN None ELSE t.data[w]]
           b == [w \in Wrappers |-> IF w \in W THEN None ELSE t.bound[w]]
           u == Destroy(t, W)
           v == Finalize(t, W)
<1>1. s \in [Objects -> {"none", "open", "closing", "closed"}]
  BY WrapperFields
<1>2. d \in [Wrappers -> Sessions \cup {None}] /\ b \in [Wrappers -> Objects \cup {None}]
  BY WrapperFields
<1>3. r \in SUBSET TaskRecords
  <2>1. \A w \in W : ClosedTask(t, w) \in TaskRecords
    BY ClosedForm
  <2>2. QED
    BY <2>1, WrapperFields
<1>4. v = [t EXCEPT !.reports = r, !.state = s, !.data = d]
  <2>1. \A x \in Objects : x \in {t.bound[w] : w \in W} <=> \E w \in W : t.bound[w] = x
    OBVIOUS
  <2>2. [x \in Objects |-> IF x \in {t.bound[w] : w \in W} THEN "closed" ELSE t.state[x]] = s
    BY <2>1
  <2>3. QED
    BY <2>2 DEF Finalize, Owned
<1> HIDE DEF r, s, d, v
<1>5. v.bound = t.bound
  BY <1>4 DEF Owned
<1>6. u = [v EXCEPT !.bound = b]
  BY <1>5 DEF Destroy, v, Finalize
<1> HIDE DEF b, u
<1>7. u = [t EXCEPT !.reports = r, !.state = s, !.data = d, !.bound = b]
  BY <1>4, <1>6 DEF Owned
<1>8. u \in Owned
  BY <1>1, <1>2, <1>3, <1>7 DEF Owned
<1>9. /\ u.state = s /\ u.data = d /\ u.bound = b /\ u.reports = r
      /\ SameSessions(t, u) /\ SameChannels(t, u)
  BY <1>7 DEF Owned, SameSessions, SameChannels
<1>10. QED
  BY <1>8, <1>9 DEF u, s, d, b, r

\* What a session and its channel may do on their way to their pools: objects
\* close, wrappers that were associated go back to theirs, and those of data
\* channels report it.
Winds(t, u) ==
  /\ \A w \in Wrappers :
       /\ u.data[w] = t.data[w] \/ u.data[w] = None
       /\ u.bound[w] = t.bound[w] \/ (u.bound[w] = None /\ t.data[w] # None)
  /\ \A i \in Sessions, k \in {"ws", "pc", "out", "in", "twin"} :
       \/ u.state[<<k, i>>] = t.state[<<k, i>>]
       \/ Live(t, k, i) /\ u.state[<<k, i>>] = "closing"
       \/ Live(t, k, i) /\ u.state[<<k, i>>] = "closed" /\ k \notin {"ws", "pc"}
  /\ \A i \in Sessions :
       /\ u.ws[i] = t.ws[i] \/ u.ws[i] = None
       /\ u.pc[i] = t.pc[i] \/ u.pc[i] = None
       /\ u.incoming[i] = t.incoming[i] \/ u.incoming[i] = None
  /\ u.received = t.received
  /\ IsFiniteSet(t.reports) => IsFiniteSet(u.reports)
  /\ \A x \in u.reports : x \notin t.reports =>
       \E d \in Dc, i \in Sessions : x = Plain("dcClosed", d, i) /\ u.bound[d] = None

\* What winds up and then winds up has wound up.
LEMMA WindsTransitive ==
  ASSUME NEW t, NEW u, NEW v, Winds(t, u), Winds(u, v)
  PROVE  Winds(t, v)
<1>1. /\ \A w \in Wrappers :
           /\ v.data[w] = t.data[w] \/ v.data[w] = None
           /\ v.bound[w] = t.bound[w] \/ (v.bound[w] = None /\ t.data[w] # None)
      /\ \A i \in Sessions :
           /\ v.ws[i] = t.ws[i] \/ v.ws[i] = None
           /\ v.pc[i] = t.pc[i] \/ v.pc[i] = None
           /\ v.incoming[i] = t.incoming[i] \/ v.incoming[i] = None
      /\ v.received = t.received
      /\ IsFiniteSet(t.reports) => IsFiniteSet(v.reports)
  BY DEF Winds
<1>2. ASSUME NEW i \in Sessions, NEW k \in {"ws", "pc", "out", "in", "twin"}
      PROVE  \/ v.state[<<k, i>>] = t.state[<<k, i>>]
             \/ Live(t, k, i) /\ v.state[<<k, i>>] = "closing"
             \/ /\ Live(t, k, i) /\ v.state[<<k, i>>] = "closed"
                /\ k \notin {"ws", "pc"}
  <2>1. \/ u.state[<<k, i>>] = t.state[<<k, i>>]
        \/ Live(t, k, i) /\ u.state[<<k, i>>] = "closing"
        \/ Live(t, k, i) /\ u.state[<<k, i>>] = "closed" /\ k \notin {"ws", "pc"}
    BY DEF Winds
  <2>2. \/ v.state[<<k, i>>] = u.state[<<k, i>>]
        \/ Live(u, k, i) /\ v.state[<<k, i>>] = "closing"
        \/ Live(u, k, i) /\ v.state[<<k, i>>] = "closed" /\ k \notin {"ws", "pc"}
    BY DEF Winds
  <2>3. QED
    BY <2>1, <2>2 DEF Live
<1>3. ASSUME NEW x \in v.reports, x \notin t.reports
      PROVE  \E d \in Dc, i \in Sessions :
               x = Plain("dcClosed", d, i) /\ v.bound[d] = None
  <2>1. CASE x \notin u.reports
    BY <2>1 DEF Winds
  <2>2. CASE x \in u.reports
    <3>1. PICK d \in Dc, i \in Sessions :
            x = Plain("dcClosed", d, i) /\ u.bound[d] = None
      BY <1>3, <2>2 DEF Winds
    <3>2. v.bound[d] = None
      BY <3>1, Disjoint DEF Winds
    <3>3. QED
      BY <3>1, <3>2
  <2>3. QED
    BY <2>1, <2>2
<1>4. QED
  BY <1>1, <1>2, <1>3 DEF Winds

\* session_cleanup gives both wrappers back, whose objects have closed.
LEMMA SessionCleanupForm ==
  ASSUME NEW t, Shape(t), NEW i \in Sessions, t.ws[i] # None, t.pc[i] # None,
         t.state[<<"ws", i>>] = "closed", t.state[<<"pc", i>>] = "closed"
  PROVE  LET u == SessionCleanup(t, i)
             W == {t.ws[i], t.pc[i]}
         IN /\ u \in Owned
            /\ u.state = t.state /\ u.reports = t.reports
            /\ u.data = [w \in Wrappers |-> IF w \in W THEN None ELSE t.data[w]]
            /\ u.bound = [w \in Wrappers |-> IF w \in W THEN None ELSE t.bound[w]]
            /\ u.ref = [t.ref EXCEPT ![i] = 0] /\ u.active = t.active \ {i}
            /\ u.authenticated = t.authenticated \ {i} /\ u.listed = t.listed \ {i}
            /\ u.ws = [t.ws EXCEPT ![i] = None] /\ u.pc = [t.pc EXCEPT ![i] = None]
            /\ u.cref = t.cref /\ u.cactive = t.cactive /\ u.received = t.received
            /\ u.outgoing = t.outgoing /\ u.incoming = t.incoming
<1> DEFINE u == SessionCleanup(t, i)
           W == {t.ws[i], t.pc[i]}
           v == Destroy(t, W)
<1>1. /\ t \in Owned /\ BoundFits(t) /\ W \in SUBSET Wrappers
      /\ t.bound[t.ws[i]] = <<"ws", i>> /\ t.bound[t.pc[i]] = <<"pc", i>>
  <2>1. t \in Owned /\ BoundFits(t) /\ SessionFits(t, i)
    BY DEF Shape
  <2>2. t.ws[i] \in Ws /\ t.pc[i] \in Pc
    BY <2>1, WrapperFields
  <2>3. QED
    BY <2>1, <2>2, Disjoint DEF SessionFits
<1>2. \A w \in W : t.bound[w] # None /\ t.state[t.bound[w]] = "closed"
  BY <1>1, Disjoint, ObjectForm
<1> HIDE DEF W
<1>3. /\ v \in Owned
      /\ v.state = [x \in Objects |->
           IF \E w \in W : t.bound[w] = x THEN "closed" ELSE t.state[x]]
      /\ v.data = [w \in Wrappers |-> IF w \in W THEN None ELSE t.data[w]]
      /\ v.bound = [w \in Wrappers |-> IF w \in W THEN None ELSE t.bound[w]]
      /\ v.reports = t.reports \cup {ClosedTask(t, w) : w \in
           {y \in W : t.state[t.bound[y]] # "closed"}}
      /\ SameSessions(t, v) /\ SameChannels(t, v)
  BY <1>1, <1>2, DestroyForm
<1>4. v.state = t.state
  BY <1>1, <1>2, <1>3, WrapperFields
<1>5. v.reports = t.reports
  BY <1>2, <1>3
<1> DEFINE a == v.active \ {i}
           n == v.authenticated \ {i}
           l == v.listed \ {i}
           r == [v.ref EXCEPT ![i] = 0]
           f == [v.ws EXCEPT ![i] = None]
           g == [v.pc EXCEPT ![i] = None]
<1>6. /\ a \in SUBSET Sessions /\ n \in SUBSET Sessions /\ l \in SUBSET Sessions
      /\ r \in [Sessions -> Nat] /\ f \in [Sessions -> Ws \cup {None}]
      /\ g \in [Sessions -> Pc \cup {None}]
  BY <1>3, WrapperFields
<1>7. u = [v EXCEPT !.ref = r, !.active = a, !.authenticated = n, !.ws = f, !.pc = g,
                    !.listed = l]
  BY <1>3 DEF SessionCleanup, W, Owned
<1>8. /\ a = t.active \ {i} /\ n = t.authenticated \ {i} /\ l = t.listed \ {i}
      /\ r = [t.ref EXCEPT ![i] = 0] /\ f = [t.ws EXCEPT ![i] = None]
      /\ g = [t.pc EXCEPT ![i] = None]
  BY <1>3 DEF SameSessions, SameChannels
<1> HIDE DEF a, n, l, r, f, g, u, v
<1>9. u \in Owned
  BY <1>3, <1>6, <1>7 DEF Owned
<1>10. /\ u.state = v.state /\ u.reports = v.reports /\ u.data = v.data
       /\ u.bound = v.bound /\ u.ref = r /\ u.active = a /\ u.authenticated = n
       /\ u.listed = l /\ u.ws = f /\ u.pc = g /\ u.cref = v.cref
       /\ u.cactive = v.cactive /\ u.received = v.received
       /\ u.outgoing = v.outgoing /\ u.incoming = v.incoming
  BY <1>3, <1>7 DEF Owned
<1>11. QED
  BY <1>3, <1>4, <1>5, <1>8, <1>9, <1>10 DEF SameSessions, SameChannels, u, W

\* The last reference of a session goes with what held it, when nothing is left
\* that does.
LEMMA CleanupEffect ==
  ASSUME NEW t, Shape(t), NEW i \in Sessions, NEW h \in [Sessions -> Nat], RefsAre(t, h),
         t.ref[i] = 1, h[i] >= 1 + Count(Live(t, "ws", i)) + Count(Live(t, "pc", i))
  PROVE  LET u == SessionCleanup(t, i)
         IN Shape(u) /\ RefsAre(u, [h EXCEPT ![i] = @ - 1]) /\ Winds(t, u)
<1> DEFINE u == SessionCleanup(t, i)
           W == {t.ws[i], t.pc[i]}
           g == [h EXCEPT ![i] = @ - 1]
<1>1. /\ t \in Owned /\ BoundFits(t) /\ DataFits(t)
      /\ \A j \in Sessions : SessionFits(t, j) /\ ChannelFits(t, j)
  BY DEF Shape
<1>2. /\ i \notin t.active /\ t.cref[i] = 0 /\ h[i] = 1
      /\ ~Live(t, "ws", i) /\ ~Live(t, "pc", i)
  <2>1. /\ 1 = Count(i \in t.active) + h[i] + Count(t.cref[i] > 0)
        /\ h[i] \in Nat /\ t.cref[i] \in Nat
    BY <1>1, WrapperFields DEF RefsAre
  <2>2. QED
    BY <2>1 DEF Count
<1>3. /\ t.ws[i] \in Ws /\ t.pc[i] \in Pc
      /\ t.bound[t.ws[i]] = <<"ws", i>> /\ t.bound[t.pc[i]] = <<"pc", i>>
      /\ t.data[t.ws[i]] = i /\ t.data[t.pc[i]] = i
  <2>1. t.ws[i] # None /\ t.pc[i] # None /\ SessionFits(t, i)
    BY <1>1 DEF SessionFits
  <2>2. QED
    BY <1>1, <2>1, WrapperFields DEF SessionFits
<1>4. t.state[<<"ws", i>>] = "closed" /\ t.state[<<"pc", i>>] = "closed"
  <2>1. t.state[<<"ws", i>>] # "none" /\ t.state[<<"pc", i>>] # "none"
    BY <1>1, <1>3, Disjoint, ObjectForm DEF BoundFits
  <2>2. QED
    BY <1>1, <1>2, <2>1, WrapperFields, ObjectForm DEF Live
<1>5. /\ u \in Owned
      /\ u.state = t.state /\ u.reports = t.reports
      /\ u.data = [w \in Wrappers |-> IF w \in W THEN None ELSE t.data[w]]
      /\ u.bound = [w \in Wrappers |-> IF w \in W THEN None ELSE t.bound[w]]
      /\ u.ref = [t.ref EXCEPT ![i] = 0] /\ u.active = t.active \ {i}
      /\ u.authenticated = t.authenticated \ {i} /\ u.listed = t.listed \ {i}
      /\ u.ws = [t.ws EXCEPT ![i] = None] /\ u.pc = [t.pc EXCEPT ![i] = None]
      /\ u.cref = t.cref /\ u.cactive = t.cactive /\ u.received = t.received
      /\ u.outgoing = t.outgoing /\ u.incoming = t.incoming
  BY <1>3, <1>4, SessionCleanupForm, Disjoint
<1> HIDE DEF u
<1>6. /\ \A w \in Wrappers : w \in W => t.data[w] = i
      /\ \A w \in Wrappers \ W : u.data[w] = t.data[w] /\ u.bound[w] = t.bound[w]
      /\ \A w \in Wrappers : w \in W => u.data[w] = None /\ u.bound[w] = None
  BY <1>3, <1>5
<1>7. /\ u.ref[i] = 0 /\ u.ws[i] = None /\ u.pc[i] = None
      /\ \A j \in Sessions \ {i} :
           u.ref[j] = t.ref[j] /\ u.ws[j] = t.ws[j] /\ u.pc[j] = t.pc[j]
  BY <1>1, <1>5, WrapperFields
<1> HIDE DEF W
<1>8. BoundFits(u)
  <2>1. ASSUME NEW w \in Wrappers, u.bound[w] # None
        PROVE  u.bound[w] = t.bound[w] /\ w \notin W
    BY <1>6, <2>1
  <2>2. ASSUME NEW w \in Wrappers, NEW j \in Sessions, u.bound[w] = <<"pc", j>>
        PROVE  u.pc[j] = w
    <3>1. u.bound[w] # None
      BY <2>2, Disjoint, ObjectForm
    <3>2. t.pc[j] = w /\ w \notin W
      BY <1>1, <2>1, <2>2, <3>1 DEF BoundFits
    <3>3. QED
      BY <1>7, <3>2 DEF W
  <2>3. \A w \in Wrappers : u.bound[w] # None => u.state[u.bound[w]] # "none"
    BY <1>1, <1>5, <2>1 DEF BoundFits
  <2>4. \A v, w \in Wrappers : u.bound[v] # None /\ u.bound[v] = u.bound[w] => v = w
    BY <1>1, <2>1 DEF BoundFits
  <2>5. QED
    BY <1>1, <2>1, <2>2, <2>3, <2>4, Disjoint DEF BoundFits
<1>9. DataFits(u)
  <2> SUFFICES ASSUME NEW w \in Wrappers, NEW j \in Sessions, u.data[w] = j
               PROVE  w \in {u.ws[j], u.pc[j], u.outgoing[j], u.incoming[j]}
    BY DEF DataFits
  <2>1. w \notin W /\ t.data[w] = j
    BY <1>6, Disjoint
  <2>2. w \in {t.ws[j], t.pc[j], t.outgoing[j], t.incoming[j]}
    BY <1>1, <2>1 DEF DataFits
  <2>3. CASE j = i
    BY <1>5, <2>1, <2>2, <2>3 DEF W
  <2>4. CASE j # i
    BY <1>5, <1>7, <2>2, <2>4
  <2>5. QED
    BY <2>3, <2>4
<1>10. ASSUME NEW j \in Sessions PROVE SessionFits(u, j)
  <2>1. CASE j = i
    BY <1>2, <1>5, <1>7, <2>1 DEF SessionFits
  <2>2. CASE j # i
    <3>1. t.ws[j] \in Ws \cup {None} /\ t.pc[j] \in Pc \cup {None} /\ SessionFits(t, j)
      BY <1>1, WrapperFields
    <3>2. ASSUME NEW w \in Wrappers, t.data[w] = j
          PROVE  u.data[w] = j /\ u.bound[w] = t.bound[w]
      BY <1>6, <2>2, <3>2
    <3>3. /\ t.ws[j] # None => u.bound[t.ws[j]] = <<"ws", j>> /\ u.data[t.ws[j]] = j
          /\ t.pc[j] # None => u.bound[t.pc[j]] = <<"pc", j>> /\ u.data[t.pc[j]] = j
      BY <3>1, <3>2, Disjoint DEF SessionFits
    <3>4. /\ u.ref[j] = t.ref[j] /\ u.ws[j] = t.ws[j] /\ u.pc[j] = t.pc[j]
          /\ (j \in u.active <=> j \in t.active)
          /\ (j \in u.authenticated <=> j \in t.authenticated) /\ u.state = t.state
      BY <1>5, <1>7, <2>2
    <3>5. QED
      BY <3>1, <3>3, <3>4 DEF SessionFits
  <2>3. QED
    BY <2>1, <2>2
<1>11. ASSUME NEW j \in Sessions PROVE ChannelFits(u, j)
  <2>1. /\ ChannelFits(t, j) /\ t.outgoing[j] \in Dc \cup {None}
        /\ t.incoming[j] \in Dc \cup {None}
    BY <1>1, WrapperFields
  <2>2. \A d \in Dc : u.data[d] = t.data[d] /\ u.bound[d] = t.bound[d]
    BY <1>3, <1>6, Disjoint DEF W
  <2>3. j = i => t.cref[j] = 0
    BY <1>2
  <2>4. /\ j \in u.listed => j \in t.listed
        /\ j # i => (j \in u.authenticated <=> j \in t.authenticated)
    BY <1>5
  <2>5. /\ u.cref = t.cref /\ u.cactive = t.cactive
        /\ u.outgoing = t.outgoing /\ u.incoming = t.incoming
    BY <1>5
  <2>6. /\ t.outgoing[j] # None =>
             u.bound[t.outgoing[j]] = <<"out", j>> /\ u.data[t.outgoing[j]] = j
        /\ t.incoming[j] # None =>
             /\ u.bound[t.incoming[j]] \in {<<"in", j>>, <<"twin", j>>}
             /\ u.data[t.incoming[j]] = j
    BY <2>1, <2>2 DEF ChannelFits
  <2>7. /\ t.cref[j] > 0 <=> t.outgoing[j] # None
        /\ t.incoming[j] # None => t.cref[j] > 0
        /\ t.cref[j] > 0 => j \in u.authenticated
        /\ j \in u.listed \/ j \in t.cactive => t.cref[j] > 0
        /\ j \in u.listed /\ j \in t.cactive => t.cref[j] > 1
    BY <2>1, <2>3, <2>4 DEF ChannelFits
  <2>8. QED
    BY <2>5, <2>6, <2>7 DEF ChannelFits
<1>12. RefsAre(u, g)
  <2>1. ASSUME NEW j \in Sessions
        PROVE  /\ u.ref[j] = Count(j \in u.active) + g[j] + Count(u.cref[j] > 0)
               /\ u.ref[j] > 0 => g[j] >= Count(Live(u, "ws", j)) + Count(Live(u, "pc", j))
    <3>1. CASE j = i
      BY <1>2, <1>5, <1>7, <3>1 DEF Count
    <3>2. CASE j # i
      <4>1. u.ref[j] = t.ref[j] /\ g[j] = h[j] /\ (j \in u.active <=> j \in t.active)
        BY <1>5, <1>7, <3>2
      <4>2. /\ t.ref[j] = Count(j \in t.active) + h[j] + Count(t.cref[j] > 0)
            /\ t.ref[j] > 0 => h[j] >= Count(Live(t, "ws", j)) + Count(Live(t, "pc", j))
        BY DEF RefsAre
      <4>3. QED
        BY <1>5, <4>1, <4>2 DEF Count, Live
    <3>3. QED
      BY <3>1, <3>2
  <2>2. QED
    BY <2>1 DEF RefsAre
<1>13. Winds(t, u)
  <2>1. \A w \in Wrappers : /\ u.data[w] = t.data[w] \/ u.data[w] = None
                            /\ \/ u.bound[w] = t.bound[w]
                               \/ u.bound[w] = None /\ t.data[w] # None
    BY <1>6, Disjoint
  <2>2. \A j \in Sessions : /\ u.ws[j] = t.ws[j] \/ u.ws[j] = None
                            /\ u.pc[j] = t.pc[j] \/ u.pc[j] = None
    BY <1>7
  <2>3. QED
    BY <1>5, <2>1, <2>2 DEF Winds
<1>14. QED
  BY <1>8, <1>9, <1>10, <1>11, <1>12, <1>13, <1>5 DEF Shape, u

\* One of those who hold a session lets it go.
LEMMA UnrefEffect ==
  ASSUME NEW t, Shape(t), NEW i \in Sessions, NEW h \in [Sessions -> Nat], RefsAre(t, h),
         h[i] >= 1 + Count(Live(t, "ws", i)) + Count(Live(t, "pc", i))
  PROVE  LET u == SessionUnref(t, i)
         IN Shape(u) /\ RefsAre(u, [h EXCEPT ![i] = @ - 1]) /\ Winds(t, u)
<1> DEFINE u == SessionUnref(t, i)
           g == [h EXCEPT ![i] = @ - 1]
<1>1. t \in Owned /\ t.ref[i] \in Nat /\ h[i] \in Nat /\ t.ref[i] >= h[i] /\ h[i] >= 1
  BY WrapperFields DEF Shape, RefsAre, Count
<1>2. CASE t.ref[i] = 1
  BY <1>2, CleanupEffect DEF SessionUnref
<1>3. CASE t.ref[i] # 1
  <2> DEFINE r == [t.ref EXCEPT ![i] = @ - 1]
  <2>1. r \in [Sessions -> Nat] /\ r[i] > 0 /\ t.ref[i] > 0 /\ r[i] = t.ref[i] - 1
        /\ \A j \in Sessions \ {i} : r[j] = t.ref[j]
    BY <1>1, <1>3, WrapperFields
  <2>2. u = [t EXCEPT !.ref = r]
    BY <1>3 DEF SessionUnref, Owned
  <2> HIDE DEF r, u
  <2>3. u \in Owned
    BY <1>1, <2>1, <2>2 DEF Owned
  <2>4. /\ u.ref = r /\ u.state = t.state /\ u.data = t.data /\ u.bound = t.bound
        /\ u.reports = t.reports /\ u.active = t.active
        /\ u.authenticated = t.authenticated /\ u.ws = t.ws /\ u.pc = t.pc
        /\ u.received = t.received /\ SameChannels(t, u)
    BY <1>1, <2>2 DEF Owned, SameChannels
  <2>5. BoundFits(u) /\ DataFits(u)
    BY <2>4 DEF Shape, BoundFits, DataFits, SameChannels
  <2>6. \A j \in Sessions : SessionFits(u, j) /\ ChannelFits(u, j)
    <3> TAKE j \in Sessions
    <3>1. SessionFits(t, j) /\ ChannelFits(t, j) /\ (u.ref[j] > 0 <=> t.ref[j] > 0)
      BY <2>1, <2>4 DEF Shape
    <3>2. SessionFits(u, j)
      BY <2>4, <3>1 DEF SessionFits
    <3>3. ChannelFits(u, j)
      BY <2>4, <3>1 DEF ChannelFits, SameChannels
    <3>4. QED
      BY <3>2, <3>3
  <2>7. RefsAre(u, g)
    <3> SUFFICES ASSUME NEW j \in Sessions
                 PROVE  /\ u.ref[j] = Count(j \in u.active) + g[j] + Count(u.cref[j] > 0)
                        /\ u.ref[j] > 0 =>
                             g[j] >= Count(Live(u, "ws", j)) + Count(Live(u, "pc", j))
      BY DEF RefsAre
    <3>1. /\ t.ref[j] = Count(j \in t.active) + h[j] + Count(t.cref[j] > 0)
          /\ t.ref[j] > 0 => h[j] >= Count(Live(t, "ws", j)) + Count(Live(t, "pc", j))
          /\ h[j] \in Nat
      BY DEF RefsAre
    <3>2. CASE j = i
      BY <1>1, <2>1, <2>4, <3>1, <3>2 DEF Count, Live, SameChannels
    <3>3. CASE j # i
      BY <2>1, <2>4, <3>1, <3>3 DEF Count, Live, SameChannels
    <3>4. QED
      BY <3>2, <3>3
  <2>8. Winds(t, u)
    BY <2>4 DEF Winds, SameChannels
  <2>9. QED
    BY <2>3, <2>5, <2>6, <2>7, <2>8 DEF Shape, u
<1>4. QED
  BY <1>2, <1>3

\* Telling objects to close leaves all references where they are.
LEMMA CloseEffect ==
  ASSUME NEW t, Shape(t), NEW h, RefsAre(t, h), NEW W \in SUBSET Wrappers
  PROVE  LET u == Close(t, W)
         IN Shape(u) /\ RefsAre(u, h) /\ Winds(t, u)
<1> DEFINE u == Close(t, W)
<1>1. /\ t \in Owned /\ BoundFits(t) /\ DataFits(t)
      /\ \A j \in Sessions : SessionFits(t, j) /\ ChannelFits(t, j)
  BY DEF Shape
<1>2. /\ u \in Owned
      /\ u.state = [x \in Objects |->
           IF t.state[x] = "open" /\ \E w \in W : t.bound[w] = x
           THEN "closing" ELSE t.state[x]]
      /\ u.data = t.data /\ u.bound = t.bound /\ u.reports = t.reports
      /\ SameSessions(t, u) /\ SameChannels(t, u)
  BY <1>1, CloseForm
<1> HIDE DEF u
<1>3. \A x \in Objects : \/ u.state[x] = t.state[x]
                         \/ t.state[x] = "open" /\ u.state[x] = "closing"
  BY <1>2
<1>4. /\ u.data = t.data /\ u.bound = t.bound /\ u.reports = t.reports
      /\ SameSessions(t, u) /\ SameChannels(t, u)
  BY <1>2
<1>5. BoundFits(u)
  <2>1. \A w \in Wrappers : t.bound[w] # None => t.bound[w] \in Objects
    BY <1>1, WrapperFields
  <2>2. \A w \in Wrappers : u.bound[w] # None => u.state[u.bound[w]] # "none"
    BY <1>1, <1>3, <1>4, <2>1 DEF BoundFits
  <2>3. QED
    BY <1>1, <1>4, <2>2 DEF BoundFits, SameSessions
<1>6. DataFits(u)
  BY <1>1, <1>4 DEF DataFits, SameSessions, SameChannels
<1>7. ASSUME NEW j \in Sessions PROVE SessionFits(u, j) /\ ChannelFits(u, j)
  <2>1. SessionFits(t, j) /\ ChannelFits(t, j)
    BY <1>1
  <2>2. t.state[<<"out", j>>] = "none" => u.state[<<"out", j>>] = "none"
    BY <1>3, ObjectForm
  <2>3. SessionFits(u, j)
    BY <1>4, <2>1, <2>2 DEF SessionFits, SameSessions
  <2>4. ChannelFits(u, j)
    BY <1>4, <2>1 DEF ChannelFits, SameSessions, SameChannels
  <2>5. QED
    BY <2>3, <2>4
<1>8. \A j \in Sessions, k \in {"ws", "pc"} : Live(u, k, j) <=> Live(t, k, j)
  BY <1>3, ObjectForm DEF Live
<1>9. RefsAre(u, h)
  BY <1>4, <1>8 DEF RefsAre, Count, SameSessions, SameChannels
<1>10. Winds(t, u)
  <2>1. \A i \in Sessions, k \in {"ws", "pc", "out", "in", "twin"} :
          \/ u.state[<<k, i>>] = t.state[<<k, i>>]
          \/ Live(t, k, i) /\ u.state[<<k, i>>] = "closing"
    BY <1>3, ObjectForm DEF Live
  <2>2. QED
    BY <1>4, <2>1 DEF Winds, SameSessions, SameChannels
<1>11. QED
  BY <1>2, <1>5, <1>6, <1>7, <1>9, <1>10 DEF Shape, u

\* A channel that is inactive but for its references.
LEMMA QuietEffect ==
  ASSUME NEW t, Shape(t), NEW h, RefsAre(t, h), NEW i \in Sessions
  PROVE  LET u == [t EXCEPT !.cactive = @ \ {i}]
         IN Shape(u) /\ RefsAre(u, h) /\ Winds(t, u)
<1> DEFINE c == t.cactive \ {i}
           u == [t EXCEPT !.cactive = c]
<1>1. t \in Owned /\ c \in SUBSET Sessions
  BY WrapperFields DEF Shape
<1>2. /\ u \in Owned
      /\ u.state = t.state /\ u.data = t.data /\ u.bound = t.bound
      /\ u.reports = t.reports /\ SameSessions(t, u) /\ u.listed = t.listed
      /\ u.cref = t.cref /\ u.cactive = c
      /\ u.outgoing = t.outgoing /\ u.incoming = t.incoming
  <2> HIDE DEF c
  <2>1. QED
    BY <1>1 DEF Owned, SameSessions
<1> HIDE DEF u
<1>3. BoundFits(u) /\ DataFits(u)
  BY <1>2 DEF Shape, BoundFits, DataFits, SameSessions
<1>4. ASSUME NEW j \in Sessions PROVE SessionFits(u, j) /\ ChannelFits(u, j)
  <2>1. SessionFits(t, j) /\ ChannelFits(t, j)
    BY DEF Shape
  <2>2. SessionFits(u, j)
    BY <1>2, <2>1 DEF SessionFits, SameSessions
  <2>3. ChannelFits(u, j)
    BY <1>2, <2>1 DEF ChannelFits, SameSessions
  <2>4. QED
    BY <2>2, <2>3
<1>5. RefsAre(u, h)
  BY <1>2 DEF RefsAre, Live, SameSessions
<1>6. Winds(t, u)
  BY <1>2 DEF Winds, SameSessions
<1>7. QED
  BY <1>2, <1>3, <1>4, <1>5, <1>6 DEF Shape, u

\* channel_cleanup up to the reference of the session.
Released(t, i) ==
  [Destroy(t, {t.outgoing[i], t.incoming[i]} \ {None})
     EXCEPT !.cref[i] = 0, !.cactive = @ \ {i},
            !.outgoing[i] = None, !.incoming[i] = None]

\* A channel that goes to its pool gives its wrappers back, whose closes are
\* reported; its reference to the session is one that others have now.
LEMMA ReleaseEffect ==
  ASSUME NEW t, Shape(t), NEW i \in Sessions, NEW h \in [Sessions -> Nat], RefsAre(t, h),
         t.cref[i] > 0, i \notin t.listed
  PROVE  LET u == Released(t, i)
         IN Shape(u) /\ RefsAre(u, [h EXCEPT ![i] = @ + 1]) /\ Winds(t, u)
<1> DEFINE W == {t.outgoing[i], t.incoming[i]} \ {None}
           v == Destroy(t, W)
           u == Released(t, i)
           g == [h EXCEPT ![i] = @ + 1]
<1>1. /\ t \in Owned /\ BoundFits(t) /\ DataFits(t)
      /\ \A j \in Sessions : SessionFits(t, j) /\ ChannelFits(t, j)
  BY DEF Shape
<1>2. /\ W \in SUBSET Dc /\ W \in SUBSET Wrappers
      /\ \A w \in W : t.data[w] = i
      /\ \A w \in W : t.bound[w] \in {<<"out", i>>, <<"in", i>>, <<"twin", i>>}
  <2>1. t.outgoing[i] \in Dc \cup {None} /\ t.incoming[i] \in Dc \cup {None}
    BY <1>1, WrapperFields
  <2>2. ChannelFits(t, i)
    BY <1>1
  <2>3. QED
    BY <2>1, <2>2, Disjoint DEF ChannelFits
<1>3. \A w \in W : t.bound[w] # None
  BY <1>2, Disjoint, ObjectForm
<1>4. \A j \in Sessions : j # i => t.outgoing[j] \notin W /\ t.incoming[j] \notin W
  <2> SUFFICES ASSUME NEW j \in Sessions, j # i
               PROVE  t.outgoing[j] \notin W /\ t.incoming[j] \notin W
    OBVIOUS
  <2>1. ChannelFits(t, j)
    BY <1>1
  <2>2. \A w : w \in W => w # None /\ t.data[w] = i
    BY <1>2
  <2> HIDE DEF W
  <2>3. QED
    BY <2>1, <2>2 DEF ChannelFits
<1>5. t.outgoing[i] = None \/ t.outgoing[i] \in W
  OBVIOUS
<1>6. t.incoming[i] = None \/ t.incoming[i] \in W
  OBVIOUS
<1> HIDE DEF W
<1>7. /\ v \in Owned
      /\ v.state = [x \in Objects |->
           IF \E w \in W : t.bound[w] = x THEN "closed" ELSE t.state[x]]
      /\ v.data = [w \in Wrappers |-> IF w \in W THEN None ELSE t.data[w]]
      /\ v.bound = [w \in Wrappers |-> IF w \in W THEN None ELSE t.bound[w]]
      /\ v.reports = t.reports \cup {ClosedTask(t, w) : w \in
           {y \in W : t.state[t.bound[y]] # "closed"}}
      /\ SameSessions(t, v) /\ SameChannels(t, v)
  BY <1>1, <1>2, <1>3, DestroyForm
<1> DEFINE c == [v.cref EXCEPT ![i] = 0]
           a == v.cactive \ {i}
           f == [v.outgoing EXCEPT ![i] = None]
           e == [v.incoming EXCEPT ![i] = None]
<1>8. /\ c \in [Sessions -> Nat] /\ a \in SUBSET Sessions
      /\ f \in [Sessions -> Dc \cup {None}] /\ e \in [Sessions -> Dc \cup {None}]
  BY <1>7, WrapperFields
<1>9. u = [v EXCEPT !.cref = c, !.cactive = a, !.outgoing = f, !.incoming = e]
  BY <1>7 DEF Released, W, Owned
<1>10. /\ c[i] = 0 /\ i \notin a /\ f[i] = None /\ e[i] = None
       /\ \A j \in Sessions \ {i} :
            /\ c[j] = t.cref[j] /\ (j \in a <=> j \in t.cactive)
            /\ f[j] = t.outgoing[j] /\ e[j] = t.incoming[j]
  BY <1>1, <1>7, WrapperFields DEF SameChannels
<1> HIDE DEF c, a, f, e, u, v
<1>11. u \in Owned
  BY <1>7, <1>8, <1>9 DEF Owned
<1>12. /\ u.state = v.state /\ u.reports = v.reports /\ u.data = v.data
       /\ u.bound = v.bound /\ SameSessions(t, u) /\ u.listed = t.listed
       /\ u.cref = c /\ u.cactive = a /\ u.outgoing = f /\ u.incoming = e
  BY <1>7, <1>9 DEF Owned, SameSessions, SameChannels
<1>13. /\ \A x \in Objects : \/ u.state[x] = t.state[x]
                             \/ /\ u.state[x] = "closed"
                                /\ \E w \in W : t.bound[w] = x
       /\ \A w \in Wrappers \ W : u.data[w] = t.data[w] /\ u.bound[w] = t.bound[w]
       /\ \A w \in Wrappers : w \in W => u.data[w] = None /\ u.bound[w] = None
  BY <1>7, <1>12
<1>14. \A j \in Sessions, k \in {"ws", "pc", "out", "in", "twin"} :
         j # i \/ k \in {"ws", "pc"} => u.state[<<k, j>>] = t.state[<<k, j>>]
  <2> SUFFICES ASSUME NEW j \in Sessions, NEW k \in {"ws", "pc", "out", "in", "twin"},
                      j # i \/ k \in {"ws", "pc"}
               PROVE  u.state[<<k, j>>] = t.state[<<k, j>>]
    OBVIOUS
  <2>1. <<k, j>> \notin {<<"out", i>>, <<"in", i>>, <<"twin", i>>}
    BY ObjectForm
  <2>2. QED
    BY <1>2, <1>13, <2>1, ObjectForm
<1>15. BoundFits(u)
  <2>1. ASSUME NEW w \in Wrappers, u.bound[w] # None
        PROVE  u.bound[w] = t.bound[w] /\ w \notin W
    BY <1>13, <2>1
  <2>2. ASSUME NEW w \in Wrappers, NEW j \in Sessions, u.bound[w] = <<"pc", j>>
        PROVE  u.pc[j] = w
    <3>1. u.bound[w] # None
      BY <2>2, Disjoint, ObjectForm
    <3>2. t.pc[j] = w
      BY <1>1, <2>1, <2>2, <3>1 DEF BoundFits
    <3>3. QED
      BY <1>12, <3>2 DEF SameSessions
  <2>3. ASSUME NEW w \in Wrappers, u.bound[w] # None
        PROVE  u.state[u.bound[w]] # "none"
    <3>1. t.bound[w] \in Objects /\ t.state[t.bound[w]] # "none"
      BY <1>1, <2>1, <2>3, WrapperFields DEF BoundFits
    <3>2. QED
      BY <1>13, <2>1, <2>3, <3>1
  <2>4. \A y, w \in Wrappers : u.bound[y] # None /\ u.bound[y] = u.bound[w] => y = w
    BY <1>1, <2>1 DEF BoundFits
  <2>5. QED
    BY <1>1, <2>1, <2>2, <2>3, <2>4, Disjoint DEF BoundFits
<1>16. DataFits(u)
  <2> SUFFICES ASSUME NEW w \in Wrappers, NEW j \in Sessions, u.data[w] = j
               PROVE  w \in {u.ws[j], u.pc[j], u.outgoing[j], u.incoming[j]}
    BY DEF DataFits
  <2>1. w \notin W /\ t.data[w] = j
    BY <1>13, Disjoint
  <2>2. w \in {t.ws[j], t.pc[j], t.outgoing[j], t.incoming[j]}
    BY <1>1, <2>1 DEF DataFits
  <2>3. w # None
    BY Disjoint
  <2>4. CASE j = i
    BY <1>5, <1>6, <1>12, <2>1, <2>2, <2>3, <2>4 DEF SameSessions
  <2>5. CASE j # i
    BY <1>10, <1>12, <2>2, <2>5 DEF SameSessions
  <2>6. QED
    BY <2>4, <2>5
<1>17. ASSUME NEW j \in Sessions PROVE SessionFits(u, j)
  <2>1. t.ws[j] \in Ws \cup {None} /\ t.pc[j] \in Pc \cup {None} /\ SessionFits(t, j)
    BY <1>1, WrapperFields
  <2>2. \A w \in Ws \cup Pc : u.data[w] = t.data[w] /\ u.bound[w] = t.bound[w]
    BY <1>2, <1>13, Disjoint
  <2>3. /\ u.ref = t.ref /\ u.ws = t.ws /\ u.pc = t.pc /\ u.active = t.active
        /\ u.authenticated = t.authenticated
    BY <1>12 DEF SameSessions
  <2>4. /\ t.ws[j] # None => u.bound[t.ws[j]] = <<"ws", j>> /\ u.data[t.ws[j]] = j
        /\ t.pc[j] # None => u.bound[t.pc[j]] = <<"pc", j>> /\ u.data[t.pc[j]] = j
    BY <2>1, <2>2 DEF SessionFits
  <2>5. j \in t.active /\ j \notin t.authenticated => u.state[<<"out", j>>] = "none"
    <3>1. CASE j = i
      <4>1. j \in t.authenticated
        BY <1>1, <3>1 DEF ChannelFits
      <4>2. QED
        BY <4>1
    <3>2. CASE j # i
      BY <1>14, <2>1, <3>2 DEF SessionFits
    <3>3. QED
      BY <3>1, <3>2
  <2>6. QED
    BY <2>1, <2>3, <2>4, <2>5 DEF SessionFits
<1>18. ASSUME NEW j \in Sessions PROVE ChannelFits(u, j)
  <2>1. CASE j = i
    BY <1>10, <1>12, <2>1 DEF ChannelFits
  <2>2. CASE j # i
    <3>1. /\ ChannelFits(t, j) /\ t.outgoing[j] \in Dc \cup {None}
          /\ t.incoming[j] \in Dc \cup {None}
      BY <1>1, WrapperFields
    <3>2. /\ u.outgoing[j] = t.outgoing[j] /\ u.incoming[j] = t.incoming[j]
          /\ u.cref[j] = t.cref[j] /\ (j \in u.cactive <=> j \in t.cactive)
          /\ u.listed = t.listed /\ u.authenticated = t.authenticated
      BY <1>10, <1>12, <2>2 DEF SameSessions
    <3>3. /\ t.outgoing[j] # None =>
               /\ u.bound[t.outgoing[j]] = t.bound[t.outgoing[j]]
               /\ u.data[t.outgoing[j]] = t.data[t.outgoing[j]]
          /\ t.incoming[j] # None =>
               /\ u.bound[t.incoming[j]] = t.bound[t.incoming[j]]
               /\ u.data[t.incoming[j]] = t.data[t.incoming[j]]
      BY <1>4, <1>13, <2>2, <3>1, Disjoint
    <3>4. QED
      BY <3>1, <3>2, <3>3 DEF ChannelFits
  <2>3. QED
    BY <2>1, <2>2
<1>19. RefsAre(u, g)
  <2> SUFFICES ASSUME NEW j \in Sessions
               PROVE  /\ u.ref[j] = Count(j \in u.active) + g[j] + Count(u.cref[j] > 0)
                      /\ u.ref[j] > 0 =>
                           g[j] >= Count(Live(u, "ws", j)) + Count(Live(u, "pc", j))
    BY DEF RefsAre
  <2>1. /\ t.ref[j] = Count(j \in t.active) + h[j] + Count(t.cref[j] > 0)
        /\ t.ref[j] > 0 => h[j] >= Count(Live(t, "ws", j)) + Count(Live(t, "pc", j))
        /\ h[j] \in Nat
    BY DEF RefsAre
  <2>2. /\ Live(u, "ws", j) <=> Live(t, "ws", j)
        /\ Live(u, "pc", j) <=> Live(t, "pc", j)
    BY <1>14 DEF Live
  <2>3. u.ref[j] = t.ref[j] /\ (j \in u.active <=> j \in t.active)
    BY <1>12 DEF SameSessions
  <2>4. CASE j = i
    <3>1. u.cref[j] = 0 /\ g[j] = h[j] + 1 /\ t.cref[j] > 0
      BY <1>10, <1>12, <2>4
    <3>2. QED
      BY <2>1, <2>2, <2>3, <3>1 DEF Count
  <2>5. CASE j # i
    <3>1. u.cref[j] = t.cref[j] /\ g[j] = h[j]
      BY <1>10, <1>12, <2>5
    <3>2. QED
      BY <2>1, <2>2, <2>3, <3>1 DEF Count
  <2>6. QED
    BY <2>4, <2>5
<1>20. Winds(t, u)
  <2>1. ASSUME NEW w \in Wrappers
        PROVE  /\ u.data[w] = t.data[w] \/ u.data[w] = None
               /\ u.bound[w] = t.bound[w] \/ (u.bound[w] = None /\ t.data[w] # None)
    <3>1. w \in W => t.data[w] # None
      BY <1>2, Disjoint
    <3>2. QED
      BY <1>13, <3>1
  <2>2. ASSUME NEW j \in Sessions, NEW k \in {"ws", "pc", "out", "in", "twin"}
        PROVE  \/ u.state[<<k, j>>] = t.state[<<k, j>>]
               \/ Live(t, k, j) /\ u.state[<<k, j>>] = "closing"
               \/ /\ Live(t, k, j) /\ u.state[<<k, j>>] = "closed"
                  /\ k \notin {"ws", "pc"}
    <3>1. CASE j # i \/ k \in {"ws", "pc"}
      BY <1>14, <3>1
    <3>2. CASE k \notin {"ws", "pc"}
      <4>1. CASE u.state[<<k, j>>] = t.state[<<k, j>>]
        BY <4>1
      <4>2. CASE u.state[<<k, j>>] = "closed" /\ \E w \in W : t.bound[w] = <<k, j>>
        <5>1. PICK w \in W : t.bound[w] = <<k, j>>
          BY <4>2
        <5>2. t.state[<<k, j>>] # "none"
          BY <1>1, <1>2, <1>3, <5>1 DEF BoundFits
        <5>3. t.state[<<k, j>>] \in {"none", "open", "closing", "closed"}
          BY <1>1, WrapperFields, ObjectForm
        <5>4. QED
          BY <3>2, <4>2, <5>2, <5>3 DEF Live
      <4>3. QED
        BY <1>13, <4>1, <4>2, ObjectForm
    <3>3. QED
      BY <3>1, <3>2
  <2>3. ASSUME NEW j \in Sessions
        PROVE  u.incoming[j] = t.incoming[j] \/ u.incoming[j] = None
    BY <1>10, <1>12
  <2>4. IsFiniteSet(t.reports) => IsFiniteSet(u.reports)
    <3> DEFINE X == {ClosedTask(t, w) : w \in
                       {y \in W : t.state[t.bound[y]] # "closed"}}
               Y == {ClosedTask(t, t.outgoing[i])} \cup {ClosedTask(t, t.incoming[i])}
    <3>1. IsFiniteSet(Y)
      BY FS_Singleton, FS_Union, Zenon
    <3>2. X \in SUBSET Y
      BY DEF W
    <3>3. u.reports = t.reports \cup X
      BY <1>7, <1>12
    <3> HIDE DEF X, Y
    <3>4. IsFiniteSet(X)
      BY <3>1, <3>2, FS_Subset, Zenon
    <3>5. QED
      BY <3>3, <3>4, FS_Union, Zenon
  <2>5. ASSUME NEW x \in u.reports, x \notin t.reports
        PROVE  \E d \in Dc, j \in Sessions : x = Plain("dcClosed", d, j) /\ u.bound[d] = None
    <3>1. PICK d \in W : x = ClosedTask(t, d)
      BY <1>7, <1>12, <2>5
    <3>2. PICK j \in Sessions : x = Plain("dcClosed", d, j)
      BY <1>1, <1>2, <1>3, <3>1, ClosedForm
    <3>3. u.bound[d] = None
      BY <1>2, <1>13
    <3>4. QED
      BY <1>2, <3>2, <3>3
  <2>6. u.ws = t.ws /\ u.pc = t.pc /\ u.received = t.received
    BY <1>12 DEF SameSessions
  <2>7. QED
    BY <2>1, <2>2, <2>3, <2>4, <2>5, <2>6 DEF Winds
<1>21. QED
  BY <1>11, <1>15, <1>16, <1>17, <1>18, <1>19, <1>20 DEF Shape, u

\* A wound up session is not referenced by more than before.
LEMMA LiveWinds ==
  ASSUME NEW t, NEW u, Winds(t, u), NEW i \in Sessions, NEW k \in {"ws", "pc"}
  PROVE  Live(u, k, i) => Live(t, k, i)
<1>1. \/ u.state[<<k, i>>] = t.state[<<k, i>>]
      \/ Live(t, k, i) /\ u.state[<<k, i>>] = "closing"
  BY DEF Winds
<1>2. QED
  BY <1>1 DEF Live

\* A reference that is taken and dropped changes nothing.
LEMMA UpDown ==
  ASSUME NEW h \in [Sessions -> Nat], NEW i \in Sessions,
         NEW g, g = [h EXCEPT ![i] = @ + 1]
  PROVE  /\ g \in [Sessions -> Nat] /\ g[i] = h[i] + 1 /\ h[i] \in Nat
         /\ \A j \in Sessions \ {i} : g[j] = h[j]
         /\ [g EXCEPT ![i] = @ - 1] = h
<1> DEFINE k == [g EXCEPT ![i] = @ - 1]
<1>1. /\ g \in [Sessions -> Nat] /\ g[i] = h[i] + 1 /\ h[i] \in Nat
      /\ \A j \in Sessions \ {i} : g[j] = h[j]
  OBVIOUS
<1>2. /\ k = [j \in Sessions |-> k[j]] /\ k[i] = g[i] - 1
      /\ \A j \in Sessions \ {i} : k[j] = g[j]
  BY <1>1
<1> HIDE DEF k
<1>3. k = h
  <2>1. \A j \in Sessions : k[j] = h[j]
    BY <1>1, <1>2
  <2>2. h = [j \in Sessions |-> h[j]]
    OBVIOUS
  <2>3. QED
    BY <1>2, <2>1, <2>2
<1>4. QED
  BY <1>1, <1>3 DEF k

\* A session that has a channel is referenced by those that hold it.
LEMMA ChannelHolds ==
  ASSUME NEW t, Shape(t), NEW h \in [Sessions -> Nat], RefsAre(t, h), NEW i \in Sessions,
         t.cref[i] > 0 \/ i \in t.listed \/ i \in t.cactive \/ i \in t.active
  PROVE  /\ i \in t.listed \/ i \in t.cactive => t.cref[i] > 0
         /\ t.ref[i] > 0 /\ t.ws[i] \in Ws /\ t.pc[i] \in Pc
         /\ h[i] >= Count(Live(t, "ws", i)) + Count(Live(t, "pc", i))
<1>1. t \in Owned /\ SessionFits(t, i) /\ ChannelFits(t, i)
  BY DEF Shape
<1>2. i \in t.listed \/ i \in t.cactive => t.cref[i] > 0
  BY <1>1 DEF ChannelFits
<1>3. t.ref[i] > 0
  BY <1>1, <1>2 DEF SessionFits, ChannelFits
<1>4. t.ws[i] \in Ws /\ t.pc[i] \in Pc
  BY <1>1, <1>3, WrapperFields DEF SessionFits
<1>5. QED
  BY <1>2, <1>3, <1>4 DEF RefsAre

\* The last reference of a channel goes with what held it.
LEMMA ChannelCleanupEffect ==
  ASSUME NEW t, Shape(t), NEW h \in [Sessions -> Nat], RefsAre(t, h), NEW i \in Sessions,
         t.cref[i] > 0, i \notin t.listed
  PROVE  LET u == ChannelCleanup(t, i)
         IN Shape(u) /\ RefsAre(u, h) /\ Winds(t, u)
<1> DEFINE g == [h EXCEPT ![i] = @ + 1]
           r == Released(t, i)
           u == ChannelCleanup(t, i)
<1>1. Shape(r) /\ RefsAre(r, g) /\ Winds(t, r)
  BY ReleaseEffect
<1>2. g \in [Sessions -> Nat] /\ g[i] = h[i] + 1 /\ h[i] \in Nat
  OBVIOUS
<1>3. g[i] >= 1 + Count(Live(r, "ws", i)) + Count(Live(r, "pc", i))
  <2>1. h[i] >= Count(Live(t, "ws", i)) + Count(Live(t, "pc", i))
    BY ChannelHolds
  <2>2. /\ Live(r, "ws", i) => Live(t, "ws", i)
        /\ Live(r, "pc", i) => Live(t, "pc", i)
    BY <1>1, LiveWinds
  <2>3. QED
    BY <1>2, <2>1, <2>2 DEF Count
<1>4. [g EXCEPT ![i] = @ - 1] = h
  BY UpDown
<1>5. u = SessionUnref(r, i)
  BY DEF ChannelCleanup, Released
<1> HIDE DEF g, r, u
<1>6. Shape(u) /\ RefsAre(u, [g EXCEPT ![i] = @ - 1]) /\ Winds(r, u)
  BY <1>1, <1>2, <1>3, <1>5, UnrefEffect
<1>7. QED
  BY <1>1, <1>4, <1>6, WindsTransitive DEF u

\* A reference of a channel is dropped, by what is listed no more or will be
\* listed with another reference.
LEMMA ChannelUnrefEffect ==
  ASSUME NEW t, Shape(t), NEW h \in [Sessions -> Nat], RefsAre(t, h), NEW i \in Sessions,
         t.cref[i] > 0, i \notin t.listed \/ (i \notin t.cactive /\ t.cref[i] > 1)
  PROVE  LET u == ChannelUnref(t, i)
         IN Shape(u) /\ RefsAre(u, h) /\ Winds(t, u)
<1> DEFINE u == ChannelUnref(t, i)
<1>1. t \in Owned /\ t.cref[i] \in Nat
  BY WrapperFields DEF Shape
<1>2. CASE t.cref[i] = 1
  BY <1>2, ChannelCleanupEffect DEF ChannelUnref
<1>3. CASE t.cref[i] # 1
  <2> DEFINE c == [t.cref EXCEPT ![i] = @ - 1]
  <2>1. c \in [Sessions -> Nat] /\ c[i] > 0 /\ t.cref[i] > 0 /\ c[i] = t.cref[i] - 1
        /\ \A j \in Sessions \ {i} : c[j] = t.cref[j]
    BY <1>1, <1>3, WrapperFields
  <2>2. u = [t EXCEPT !.cref = c]
    BY <1>3 DEF ChannelUnref, Owned
  <2> HIDE DEF c, u
  <2>3. u \in Owned
    BY <1>1, <2>1, <2>2 DEF Owned
  <2>4. /\ u.cref = c /\ u.state = t.state /\ u.data = t.data /\ u.bound = t.bound
        /\ u.reports = t.reports /\ SameSessions(t, u) /\ u.listed = t.listed
        /\ u.cactive = t.cactive /\ u.outgoing = t.outgoing /\ u.incoming = t.incoming
    BY <1>1, <2>2 DEF Owned, SameSessions
  <2>5. BoundFits(u) /\ DataFits(u)
    BY <2>4 DEF Shape, BoundFits, DataFits, SameSessions
  <2>6. \A j \in Sessions : u.cref[j] > 0 <=> t.cref[j] > 0
    BY <2>1, <2>4
  <2>7. \A j \in Sessions : SessionFits(u, j) /\ ChannelFits(u, j)
    <3> TAKE j \in Sessions
    <3>1. SessionFits(t, j) /\ ChannelFits(t, j)
      BY DEF Shape
    <3>2. SessionFits(u, j)
      BY <2>4, <3>1 DEF SessionFits, SameSessions
    <3>3. j \in t.listed /\ j \in t.cactive => u.cref[j] > 1
      BY <1>3, <2>1, <2>4, <3>1 DEF ChannelFits
    <3>4. ChannelFits(u, j)
      BY <2>4, <2>6, <3>1, <3>3 DEF ChannelFits, SameSessions
    <3>5. QED
      BY <3>2, <3>4
  <2>8. RefsAre(u, h)
    BY <2>4, <2>6 DEF RefsAre, Count, Live, SameSessions
  <2>9. Winds(t, u)
    BY <2>4 DEF Winds, SameSessions
  <2>10. QED
    BY <2>3, <2>5, <2>7, <2>8, <2>9 DEF Shape, u
<1>4. QED
  BY <1>2, <1>3

\* A channel is closed.
LEMMA ChannelCloseEffect ==
  ASSUME NEW t, Shape(t), NEW h \in [Sessions -> Nat], RefsAre(t, h), NEW i \in Sessions
  PROVE  LET u == ChannelClose(t, i)
         IN Shape(u) /\ RefsAre(u, h) /\ Winds(t, u)
<1> DEFINE u == ChannelClose(t, i)
           q == [t EXCEPT !.cactive = @ \ {i}]
           W == {t.outgoing[i], t.incoming[i]} \ {None}
           c == Close(q, W)
<1>1. CASE i \notin t.cactive
  BY <1>1 DEF ChannelClose, Winds
<1>2. CASE i \in t.cactive
  <2>1. /\ t \in Owned /\ W \in SUBSET Wrappers /\ t.cref[i] > 0
        /\ i \in t.listed => t.cref[i] > 1
    <3>1. t \in Owned /\ ChannelFits(t, i)
      BY DEF Shape
    <3>2. t.outgoing[i] \in Dc \cup {None} /\ t.incoming[i] \in Dc \cup {None}
      BY <3>1, WrapperFields
    <3>3. QED
      BY <1>2, <3>1, <3>2, Disjoint DEF ChannelFits
  <2>2. Shape(q) /\ RefsAre(q, h) /\ Winds(t, q)
    BY QuietEffect
  <2>3. q.cref = t.cref /\ q.listed = t.listed /\ i \notin q.cactive
    BY <2>1 DEF Owned
  <2> HIDE DEF q, W
  <2>4. Shape(c) /\ RefsAre(c, h) /\ Winds(q, c)
    BY <2>1, <2>2, CloseEffect
  <2>5. c.cref = t.cref /\ c.listed = t.listed /\ i \notin c.cactive
    <3>1. q \in Owned
      BY <2>2 DEF Shape
    <3>2. SameChannels(q, c)
      BY <2>1, <3>1, CloseForm
    <3>3. QED
      BY <2>3, <3>2 DEF SameChannels
  <2>6. u = ChannelUnref(c, i)
    BY <1>2 DEF ChannelClose, c, q, W
  <2> HIDE DEF c, u
  <2>7. Shape(u) /\ RefsAre(u, h) /\ Winds(c, u)
    BY <2>1, <2>4, <2>5, <2>6, ChannelUnrefEffect
  <2>8. QED
    BY <2>2, <2>4, <2>7, WindsTransitive DEF u
<1>3. QED
  BY <1>1, <1>2

\* A session is closed, and loses the reference that it had for being active.
LEMMA SessionCloseEffect ==
  ASSUME NEW t, Shape(t), NEW h \in [Sessions -> Nat], RefsAre(t, h), NEW i \in Sessions
  PROVE  LET u == SessionClose(t, i)
         IN Shape(u) /\ RefsAre(u, h) /\ Winds(t, u)
<1> DEFINE u == SessionClose(t, i)
           q == [t EXCEPT !.active = @ \ {i}]
           s == IF i \in t.listed THEN ChannelClose(q, i) ELSE q
           W == {t.ws[i], t.pc[i]}
           c == Close(s, W)
           g == [h EXCEPT ![i] = @ + 1]
<1>1. CASE i \notin t.active
  BY <1>1 DEF SessionClose, Winds
<1>2. CASE i \in t.active
  <2>1. /\ t \in Owned /\ W \in SUBSET Wrappers
        /\ h[i] >= Count(Live(t, "ws", i)) + Count(Live(t, "pc", i))
    BY <1>2, ChannelHolds DEF Shape, Wrappers
  <2>2. g \in [Sessions -> Nat] /\ g[i] = h[i] + 1 /\ h[i] \in Nat
        /\ [g EXCEPT ![i] = @ - 1] = h /\ \A j \in Sessions \ {i} : g[j] = h[j]
    BY UpDown
  <2>3. Shape(q) /\ RefsAre(q, g) /\ Winds(t, q)
    <3> DEFINE a == t.active \ {i}
    <3>1. a \in SUBSET Sessions /\ i \notin a /\ \A j \in Sessions \ {i} : j \in a <=> j \in t.active
      BY <2>1, WrapperFields
    <3>2. q = [t EXCEPT !.active = a]
      BY <2>1 DEF Owned
    <3> HIDE DEF a, q, g
    <3>3. q \in Owned
      BY <2>1, <3>1, <3>2 DEF Owned
    <3>4. /\ q.active = a /\ q.state = t.state /\ q.data = t.data /\ q.bound = t.bound
          /\ q.reports = t.reports /\ q.ref = t.ref /\ q.ws = t.ws /\ q.pc = t.pc
          /\ q.authenticated = t.authenticated /\ q.received = t.received
          /\ SameChannels(t, q)
      BY <2>1, <3>2 DEF Owned, SameChannels
    <3>5. BoundFits(q) /\ DataFits(q)
      BY <3>4 DEF Shape, BoundFits, DataFits, SameChannels
    <3>6. ASSUME NEW j \in Sessions PROVE SessionFits(q, j) /\ ChannelFits(q, j)
      <4>1. SessionFits(t, j) /\ ChannelFits(t, j)
        BY DEF Shape
      <4>2. j \in q.active => j \in t.active
        BY <3>1, <3>4
      <4>3. SessionFits(q, j)
        BY <3>4, <4>1, <4>2 DEF SessionFits
      <4>4. ChannelFits(q, j)
        BY <3>4, <4>1 DEF ChannelFits, SameChannels
      <4>5. QED
        BY <4>3, <4>4
    <3>7. RefsAre(q, g)
      <4> SUFFICES ASSUME NEW j \in Sessions
                   PROVE  /\ q.ref[j] = Count(j \in q.active) + g[j] + Count(q.cref[j] > 0)
                          /\ q.ref[j] > 0 =>
                               g[j] >= Count(Live(q, "ws", j)) + Count(Live(q, "pc", j))
        BY DEF RefsAre
      <4>1. /\ t.ref[j] = Count(j \in t.active) + h[j] + Count(t.cref[j] > 0)
            /\ t.ref[j] > 0 => h[j] >= Count(Live(t, "ws", j)) + Count(Live(t, "pc", j))
            /\ h[j] \in Nat
        BY DEF RefsAre
      <4>2. q.ref = t.ref /\ q.cref = t.cref /\ q.state = t.state
        BY <3>4 DEF SameChannels
      <4>3. CASE j = i
        BY <1>2, <2>2, <3>1, <3>4, <4>1, <4>2, <4>3 DEF Count, Live
      <4>4. CASE j # i
        BY <2>2, <3>1, <3>4, <4>1, <4>2, <4>4 DEF Count, Live
      <4>5. QED
        BY <4>3, <4>4
    <3>8. Winds(t, q)
      BY <3>4 DEF Winds, SameChannels
    <3>9. QED
      BY <3>3, <3>5, <3>6, <3>7, <3>8 DEF Shape
  <2> HIDE DEF q, W, g
  <2>4. Shape(s) /\ RefsAre(s, g) /\ Winds(t, s)
    BY <2>2, <2>3, ChannelCloseEffect, WindsTransitive
  <2> HIDE DEF s
  <2>5. Shape(c) /\ RefsAre(c, g) /\ Winds(s, c)
    BY <2>1, <2>4, CloseEffect
  <2> HIDE DEF c
  <2>6. Winds(t, c)
    BY <2>4, <2>5, WindsTransitive
  <2>7. g[i] >= 1 + Count(Live(c, "ws", i)) + Count(Live(c, "pc", i))
    <3>1. /\ Live(c, "ws", i) => Live(t, "ws", i)
          /\ Live(c, "pc", i) => Live(t, "pc", i)
      BY <2>6, LiveWinds
    <3>2. QED
      BY <2>1, <2>2, <3>1 DEF Count
  <2>8. u = SessionUnref(c, i)
    BY <1>2 DEF SessionClose, c, s, q, W
  <2> HIDE DEF u
  <2>9. Shape(u) /\ RefsAre(u, [g EXCEPT ![i] = @ - 1]) /\ Winds(c, u)
    BY <2>2, <2>5, <2>7, <2>8, UnrefEffect
  <2>10. QED
    BY <2>2, <2>6, <2>9, WindsTransitive DEF u
<1>3. QED
  BY <1>1, <1>2
-----------------------------------------------------------------------------
(***************************************************************************)
(* What the record says of single wrappers and sessions.                   *)
(***************************************************************************)
\* A wrapper is the one of what it is associated with.
LEMMA DataOwn ==
  ASSUME NEW t, Shape(t), NEW w \in Wrappers, NEW i \in Sessions, t.data[w] = i
  PROVE  /\ t.bound[w] # None
         /\ w \in Ws => t.ws[i] = w /\ t.ref[i] > 0 /\ t.bound[w] = <<"ws", i>>
         /\ w \in Pc => t.pc[i] = w /\ t.ref[i] > 0 /\ t.bound[w] = <<"pc", i>>
         /\ w \in Dc =>
              /\ w \in {t.outgoing[i], t.incoming[i]} /\ t.cref[i] > 0
              /\ t.bound[w] \in {<<"out", i>>, <<"in", i>>, <<"twin", i>>}
              /\ t.incoming[i] = w \/ t.outgoing[i] = w
<1>1. t \in Owned /\ DataFits(t) /\ SessionFits(t, i) /\ ChannelFits(t, i)
  BY DEF Shape
<1>2. /\ t.ws[i] \in Ws \cup {None} /\ t.pc[i] \in Pc \cup {None}
      /\ t.outgoing[i] \in Dc \cup {None} /\ t.incoming[i] \in Dc \cup {None}
  BY <1>1, WrapperFields
<1>3. w \in {t.ws[i], t.pc[i], t.outgoing[i], t.incoming[i]}
  BY <1>1 DEF DataFits
<1>4. CASE w \in Ws
  <2>1. t.ws[i] = w
    BY <1>2, <1>3, <1>4, Disjoint
  <2>2. t.bound[w] = <<"ws", i>> /\ t.ref[i] > 0
    BY <1>1, <1>4, <2>1, Disjoint DEF SessionFits
  <2>3. QED
    BY <1>4, <2>1, <2>2, Disjoint, ObjectForm
<1>5. CASE w \in Pc
  <2>1. t.pc[i] = w
    BY <1>2, <1>3, <1>5, Disjoint
  <2>2. t.bound[w] = <<"pc", i>> /\ t.ref[i] > 0
    BY <1>1, <1>5, <2>1, Disjoint DEF SessionFits
  <2>3. QED
    BY <1>5, <2>1, <2>2, Disjoint, ObjectForm
<1>6. CASE w \in Dc
  <2>1. w \in {t.outgoing[i], t.incoming[i]} /\ w # None
    BY <1>2, <1>3, <1>6, Disjoint
  <2>2. t.bound[w] \in {<<"out", i>>, <<"in", i>>, <<"twin", i>>} /\ t.cref[i] > 0
    <3>1. CASE w = t.outgoing[i]
      BY <1>1, <2>1, <3>1 DEF ChannelFits
    <3>2. CASE w = t.incoming[i]
      BY <1>1, <2>1, <3>2 DEF ChannelFits
    <3>3. QED
      BY <2>1, <3>1, <3>2
  <2>3. QED
    BY <1>6, <2>1, <2>2, Disjoint, ObjectForm
<1>7. QED
  BY <1>4, <1>5, <1>6, Disjoint

\* A wrapper in its pool is associated with nothing.
LEMMA FreeData ==
  ASSUME NEW t, Shape(t), NEW w \in Wrappers, t.bound[w] = None
  PROVE  t.data[w] = None
  BY DataOwn, WrapperFields DEF Shape

\* Of a session in its pool there is nothing.
LEMMA Pooled ==
  ASSUME NEW t, Shape(t), NEW i \in Sessions,
         t.ref[i] = 0 \/ t.ws[i] = None \/ t.pc[i] = None
                      \/ t.state[<<"pc", i>>] = "none"
  PROVE  /\ t.ref[i] = 0 /\ t.ws[i] = None /\ t.pc[i] = None /\ t.cref[i] = 0
         /\ t.outgoing[i] = None /\ t.incoming[i] = None
         /\ i \notin t.active /\ i \notin t.authenticated
         /\ i \notin t.listed /\ i \notin t.cactive
         /\ \A w \in Wrappers : t.data[w] # i
<1>1. /\ t \in Owned /\ BoundFits(t) /\ DataFits(t)
      /\ SessionFits(t, i) /\ ChannelFits(t, i)
  BY DEF Shape
<1>2. /\ t.ws[i] \in Ws \cup {None} /\ t.pc[i] \in Pc \cup {None}
      /\ t.ref[i] \in Nat /\ t.cref[i] \in Nat
  BY <1>1, WrapperFields
<1>3. t.ref[i] = 0
  <2>1. CASE t.state[<<"pc", i>>] = "none" /\ t.pc[i] # None
    <3>1. t.bound[t.pc[i]] = <<"pc", i>> /\ t.pc[i] \in Wrappers
      BY <1>1, <1>2, <2>1, Disjoint DEF SessionFits
    <3>2. t.state[<<"pc", i>>] # "none"
      BY <1>1, <3>1, Disjoint, ObjectForm DEF BoundFits
    <3>3. QED
      BY <2>1, <3>2
  <2>2. QED
    BY <1>1, <1>2, <2>1 DEF SessionFits
<1>4. t.ws[i] = None /\ t.pc[i] = None /\ i \notin t.active /\ i \notin t.authenticated
  BY <1>1, <1>3 DEF SessionFits
<1>5. t.cref[i] = 0
  BY <1>1, <1>2, <1>4 DEF ChannelFits
<1>6. /\ t.outgoing[i] = None /\ t.incoming[i] = None
      /\ i \notin t.listed /\ i \notin t.cactive
  BY <1>1, <1>5 DEF ChannelFits
<1>7. \A w \in Wrappers : t.data[w] # i
  BY <1>1, <1>4, <1>6, Disjoint DEF DataFits
<1>8. QED
  BY <1>3, <1>4, <1>5, <1>6, <1>7

\* Of a client that is announced there is a WebSocket only.
LEMMA Announcement ==
  ASSUME NEW t, Shape(t), NEW q, ClientsFit(t, q), NEW i \in Sessions, NEW w \in Ws,
         Has(q, Plain("client", w, i))
  PROVE  /\ t.bound[w] = <<"ws", i>> /\ t.data[w] = None
         /\ t.ref[i] = 0 /\ t.pc[i] = None /\ t.ws[i] = None
<1>1. t.bound[w] = <<"ws", i>> /\ t.state[<<"pc", i>>] = "none"
  BY DEF ClientsFit
<1>2. t.ref[i] = 0 /\ t.pc[i] = None /\ t.ws[i] = None /\ t.data[w] # i
  BY <1>1, Pooled, Disjoint
<1>3. t.data[w] = None
  <2>1. t.data[w] \in Sessions \cup {None}
    BY WrapperFields, Disjoint DEF Shape
  <2>2. \A j \in Sessions : t.data[w] = j => t.bound[w] = <<"ws", j>>
    BY DataOwn, Disjoint
  <2>3. \A j \in Sessions : t.data[w] = j => j = i
    BY <1>1, <2>2, ObjectForm
  <2>4. QED
    BY <1>2, <2>1, <2>3
<1>4. QED
  BY <1>1, <1>2, <1>3

\* How many hold each session.
LEMMA HoldersType ==
  ASSUME NEW t, NEW q
  PROVE  /\ Holders(t, q) \in [Sessions -> Nat]
         /\ \A i \in Sessions :
              Holders(t, q)[i] = Count(WsHolds(t, q, i)) + Count(PcHolds(t, q, i))
<1>1. \A i \in Sessions : Count(WsHolds(t, q, i)) + Count(PcHolds(t, q, i)) \in Nat
  BY DEF Count
<1>2. QED
  BY <1>1 DEF Holders

\* Nothing holds a session that has gone to its pool.
LEMMA PooledHeld ==
  ASSUME NEW t, Shape(t), NEW h \in [Sessions -> Nat], RefsAre(t, h), NEW i \in Sessions,
         t.ws[i] = None \/ t.pc[i] = None
  PROVE  h[i] = 0
<1>1. t.ref[i] = 0 /\ t.cref[i] \in Nat /\ h[i] \in Nat
  <2>1. t \in Owned
    BY DEF Shape
  <2>2. t.ref[i] = 0
    BY Pooled, ZenonT(40)
  <2>3. QED
    BY <2>1, <2>2, WrapperFields
<1>2. QED
  BY <1>1 DEF RefsAre, Count
-----------------------------------------------------------------------------
(***************************************************************************)
(* What the queue says stays true while sessions and channels wind up.     *)
(***************************************************************************)
\* Objects that had not begun have not, those that had closed have.
LEMMA WindsState ==
  ASSUME NEW t, NEW u, Winds(t, u), NEW i \in Sessions,
         NEW k \in {"ws", "pc", "out", "in", "twin"}
  PROVE  /\ u.state[<<k, i>>] = "none" <=> t.state[<<k, i>>] = "none"
         /\ t.state[<<k, i>>] = "closed" => u.state[<<k, i>>] = "closed"
         /\ k \in {"ws", "pc"} =>
              /\ u.state[<<k, i>>] = "closed" => t.state[<<k, i>>] = "closed"
              /\ Live(u, k, i) <=> Live(t, k, i)
<1>1. \/ u.state[<<k, i>>] = t.state[<<k, i>>]
      \/ Live(t, k, i) /\ u.state[<<k, i>>] = "closing"
      \/ Live(t, k, i) /\ u.state[<<k, i>>] = "closed" /\ k \notin {"ws", "pc"}
  BY DEF Winds
<1>2. QED
  BY <1>1 DEF Live

\* The same of the objects that the queue tells apart.
LEMMA WindsStates ==
  ASSUME NEW t, NEW u, Winds(t, u), NEW i \in Sessions
  PROVE  /\ u.state[<<"ws", i>>] = "none" <=> t.state[<<"ws", i>>] = "none"
         /\ u.state[<<"pc", i>>] = "none" <=> t.state[<<"pc", i>>] = "none"
         /\ u.state[<<"out", i>>] = "none" <=> t.state[<<"out", i>>] = "none"
         /\ u.state[<<"ws", i>>] = "closed" <=> t.state[<<"ws", i>>] = "closed"
         /\ u.state[<<"pc", i>>] = "closed" <=> t.state[<<"pc", i>>] = "closed"
<1>1. \/ u.state[<<"ws", i>>] = t.state[<<"ws", i>>]
      \/ Live(t, "ws", i) /\ u.state[<<"ws", i>>] = "closing"
  BY DEF Winds
<1>2. \/ u.state[<<"pc", i>>] = t.state[<<"pc", i>>]
      \/ Live(t, "pc", i) /\ u.state[<<"pc", i>>] = "closing"
  BY DEF Winds
<1>3. \/ u.state[<<"out", i>>] = t.state[<<"out", i>>]
      \/ Live(t, "out", i) /\ u.state[<<"out", i>>] = "closing"
      \/ Live(t, "out", i) /\ u.state[<<"out", i>>] = "closed"
  BY DEF Winds
<1>4. QED
  BY <1>1, <1>2, <1>3 DEF Live

\* A session that is held keeps its wrappers.
LEMMA WindsHeld ==
  ASSUME NEW t, NEW u, Shape(u), Winds(t, u), NEW h \in [Sessions -> Nat], RefsAre(u, h),
         NEW i \in Sessions, h[i] # 0
  PROVE  u.ws[i] = t.ws[i] /\ u.pc[i] = t.pc[i]
  BY PooledHeld DEF Winds

\* What holds a session holds it still.
LEMMA WindsHolders ==
  ASSUME NEW t, NEW q, Shape(t), NEW u, Shape(u), Winds(t, u),
         RefsAre(u, Holders(t, q))
  PROVE  Holders(u, q) = Holders(t, q)
<1> SUFFICES ASSUME NEW i \in Sessions
             PROVE  /\ WsHolds(u, q, i) <=> WsHolds(t, q, i)
                    /\ PcHolds(u, q, i) <=> PcHolds(t, q, i)
  BY DEF Holders, Count
<1>1. /\ Live(u, "ws", i) <=> Live(t, "ws", i)
      /\ Live(u, "pc", i) <=> Live(t, "pc", i)
  BY WindsState
<1>2. CASE Holders(t, q)[i] = 0
  <2>1. ~WsHolds(t, q, i) /\ ~PcHolds(t, q, i)
    BY <1>2, HoldersType DEF Count
  <2>2. u.ws[i] \in {t.ws[i], None} /\ u.pc[i] \in {t.pc[i], None}
    BY DEF Winds
  <2>3. QED
    BY <1>1, <2>1, <2>2 DEF WsHolds, PcHolds
<1>3. CASE Holders(t, q)[i] # 0
  <2>1. u.ws[i] = t.ws[i] /\ u.pc[i] = t.pc[i]
    BY <1>3, HoldersType, WindsHeld
  <2>2. QED
    BY <1>1, <2>1 DEF WsHolds, PcHolds
<1>4. QED
  BY <1>2, <1>3

\* The queue fits what is wound up.
LEMMA WindsQueue ==
  ASSUME NEW t, NEW q, Shape(t), QueueFits(t, q), NEW u, Shape(u), Winds(t, u),
         RefsAre(u, Holders(t, q))
  PROVE  QueueFits(u, q)
<1>1. /\ FormFits(q) /\ FirstFits(t)
      /\ ClientsFit(t, q) /\ WsFits(t, q) /\ PcFits(t, q) /\ DcFits(t, q)
  BY DEF QueueFits
<1>2. FirstFits(u)
  BY <1>1, WindsStates DEF FirstFits
<1>3. ClientsFit(u, q)
  <2> SUFFICES ASSUME NEW i \in Sessions, NEW w \in Ws, Has(q, Plain("client", w, i))
               PROVE  /\ u.bound[w] = <<"ws", i>>
                      /\ u.state[<<"pc", i>>] = "none" /\ u.state[<<"out", i>>] = "none"
                      /\ Single(q, Plain("client", w, i))
                      /\ u.state[<<"ws", i>>] = "closed" =>
                           Follows(q, Plain("client", w, i), Plain("wsClosed", w, i))
                      /\ \A j \in Sessions \ {i}, op \in WsOps :
                           Follows(q, Plain(op, w, j), Plain("client", w, i))
    BY DEF ClientsFit
  <2>1. t.data[w] = None
    BY <1>1, Announcement
  <2>2. u.bound[w] = t.bound[w]
    BY <2>1, Disjoint DEF Winds
  <2>3. /\ u.state[<<"pc", i>>] = "none" <=> t.state[<<"pc", i>>] = "none"
        /\ u.state[<<"out", i>>] = "none" <=> t.state[<<"out", i>>] = "none"
        /\ u.state[<<"ws", i>>] = "closed" => t.state[<<"ws", i>>] = "closed"
    BY WindsStates
  <2>4. QED
    BY <1>1, <2>2, <2>3 DEF ClientsFit
<1>4. WsFits(u, q)
  <2> SUFFICES ASSUME NEW i \in Sessions, NEW w \in Ws, NEW op \in WsOps,
                      Has(q, Plain(op, w, i))
               PROVE  /\ u.data[w] \in {i, None}
                      /\ u.state[<<"ws", i>>] # "none"
                      /\ \A v \in Ws : u.bound[v] = <<"ws", i>> => v = w
                      /\ op = "wsClosed" =>
                           /\ u.state[<<"ws", i>>] = "closed"
                           /\ Single(q, Plain("wsClosed", w, i))
    BY DEF WsFits
  <2>1. /\ t.data[w] \in {i, None}
        /\ t.state[<<"ws", i>>] # "none"
        /\ \A v \in Ws : t.bound[v] = <<"ws", i>> => v = w
        /\ op = "wsClosed" =>
             t.state[<<"ws", i>>] = "closed" /\ Single(q, Plain("wsClosed", w, i))
    BY <1>1 DEF WsFits
  <2>2. u.data[w] \in {t.data[w], None}
    BY Disjoint DEF Winds
  <2>3. \A v \in Ws : u.bound[v] = <<"ws", i>> => t.bound[v] = <<"ws", i>>
    <3> SUFFICES ASSUME NEW v \in Ws, u.bound[v] = <<"ws", i>>
                 PROVE  t.bound[v] = <<"ws", i>>
      OBVIOUS
    <3>1. u.bound[v] # None
      BY ObjectForm, Disjoint
    <3>2. u.bound[v] = t.bound[v] \/ u.bound[v] = None
      BY Disjoint DEF Winds
    <3>3. QED
      BY <3>1, <3>2
  <2>4. /\ u.state[<<"ws", i>>] = "none" <=> t.state[<<"ws", i>>] = "none"
        /\ u.state[<<"ws", i>>] = "closed" <=> t.state[<<"ws", i>>] = "closed"
    BY WindsStates, Zenon
  <2>5. QED
    BY <2>1, <2>2, <2>3, <2>4
<1>5. PcFits(u, q)
  <2> SUFFICES ASSUME NEW i \in Sessions, NEW p \in Pc
               PROVE  /\ Has(q, Plain("pcClosed", p, i)) =>
                           /\ u.pc[i] = p /\ u.state[<<"pc", i>>] = "closed"
                           /\ Single(q, Plain("pcClosed", p, i))
                      /\ \A op \in PcOps, d \in Dc : Has(q, Task(op, p, i, d)) =>
                           /\ u.pc[i] = p
                           /\ u.state[<<"pc", i>>] = "closed" =>
                                Follows(q, Task(op, p, i, d), Plain("pcClosed", p, i))
    BY DEF PcFits
  <2>1. /\ u.state[<<"pc", i>>] = "closed" <=> t.state[<<"pc", i>>] = "closed"
        /\ u.pc[i] = t.pc[i] \/ Holders(t, q)[i] = 0
    <3>1. u.pc[i] = t.pc[i] \/ Holders(t, q)[i] = 0
      BY WindsHeld, HoldersType
    <3>2. QED
      BY <3>1, WindsStates
  <2>2. p # None
    BY Disjoint
  <2>3. ASSUME Has(q, Plain("pcClosed", p, i))
        PROVE  /\ u.pc[i] = p /\ u.state[<<"pc", i>>] = "closed"
               /\ Single(q, Plain("pcClosed", p, i))
    <3>1. /\ t.pc[i] = p /\ t.state[<<"pc", i>>] = "closed"
          /\ Single(q, Plain("pcClosed", p, i))
      BY <1>1, <2>3 DEF PcFits
    <3>2. PcHolds(t, q, i)
      BY <2>2, <2>3, <3>1 DEF PcHolds
    <3>3. Holders(t, q)[i] # 0
      BY <3>2, HoldersType DEF Count
    <3>4. QED
      BY <2>1, <3>1, <3>3
  <2>4. ASSUME NEW op \in PcOps, NEW d \in Dc, Has(q, Task(op, p, i, d))
        PROVE  /\ u.pc[i] = p
               /\ u.state[<<"pc", i>>] = "closed" =>
                    Follows(q, Task(op, p, i, d), Plain("pcClosed", p, i))
    <3>1. /\ t.pc[i] = p
          /\ t.state[<<"pc", i>>] = "closed" =>
               Follows(q, Task(op, p, i, d), Plain("pcClosed", p, i))
      BY <1>1, <2>4 DEF PcFits
    <3>2. t.state[<<"pc", i>>] # "none"
      BY <2>2, <3>1, Pooled
    <3>3. t.state[<<"pc", i>>] \in {"none", "open", "closing", "closed"}
      BY WrapperFields, ObjectForm DEF Shape
    <3>4. PcHolds(t, q, i)
      BY <2>2, <2>4, <3>1, <3>2, <3>3, FollowsHas DEF PcHolds, Live
    <3>5. Holders(t, q)[i] # 0
      BY <3>4, HoldersType DEF Count
    <3>6. QED
      BY <2>1, <3>1, <3>5
  <2>5. QED
    BY <2>3, <2>4
<1>6. DcFits(u, q)
  <2> SUFFICES ASSUME NEW i \in Sessions, NEW d \in Dc
               PROVE  /\ \A p \in Pc : Has(q, Task("dataChannel", p, i, d)) =>
                           /\ u.bound[d] \in {<<"in", i>>, <<"twin", i>>}
                           /\ u.data[d] = None
                           /\ Single(q, Task("dataChannel", p, i, d))
                           /\ \A j \in Sessions \ {i}, op \in DcOps :
                                Follows(q, Plain(op, d, j), Task("dataChannel", p, i, d))
                      /\ \A op \in DcOps : Has(q, Plain(op, d, i)) =>
                           \A j \in Sessions \ {i} : u.incoming[j] # d
    BY DEF DcFits
  <2>1. /\ t.data[d] = None => u.data[d] = None /\ u.bound[d] = t.bound[d]
        /\ \A j \in Sessions : u.incoming[j] \in {t.incoming[j], None}
    BY Disjoint DEF Winds
  <2>2. d # None
    BY Disjoint
  <2>3. QED
    BY <1>1, <2>1, <2>2 DEF DcFits
<1>7. QED
  BY <1>1, <1>2, <1>3, <1>4, <1>5, <1>6 DEF QueueFits

\* Reports do not touch what fits.
LEMMA Unreported ==
  ASSUME NEW u, NEW q, Fits(u, q)
  PROVE  LET v == [u EXCEPT !.reports = {}]
         IN Fits(v, q) /\ v.reports = {} /\ v.received = u.received
<1> DEFINE v == [u EXCEPT !.reports = {}]
<1>1. u \in Owned
  BY DEF Fits, Shape
<1>2. /\ v \in Owned /\ v.reports = {} /\ v.received = u.received
      /\ v.state = u.state /\ v.data = u.data /\ v.bound = u.bound
      /\ v.ref = u.ref /\ v.active = u.active /\ v.authenticated = u.authenticated
      /\ v.ws = u.ws /\ v.pc = u.pc /\ v.listed = u.listed /\ v.cref = u.cref
      /\ v.cactive = u.cactive /\ v.outgoing = u.outgoing /\ v.incoming = u.incoming
  BY <1>1 DEF Owned
<1> HIDE DEF v
<1>3. Shape(v)
  <2>1. BoundFits(v) /\ DataFits(v)
    BY <1>2 DEF Fits, Shape, BoundFits, DataFits
  <2>2. ASSUME NEW i \in Sessions PROVE SessionFits(v, i) /\ ChannelFits(v, i)
    <3>1. SessionFits(u, i) /\ ChannelFits(u, i)
      BY DEF Fits, Shape
    <3>2. SessionFits(v, i)
      BY <1>2, <3>1 DEF SessionFits
    <3>3. ChannelFits(v, i)
      BY <1>2, <3>1 DEF ChannelFits
    <3>4. QED
      BY <3>2, <3>3
  <2>3. QED
    BY <1>2, <2>1, <2>2 DEF Shape
<1>4. \A i \in Sessions : /\ WsHolds(v, q, i) <=> WsHolds(u, q, i)
                          /\ PcHolds(v, q, i) <=> PcHolds(u, q, i)
  BY <1>2 DEF WsHolds, PcHolds, Live
<1>5. Holders(v, q) = Holders(u, q)
  BY <1>4 DEF Holders, Count
<1>6. RefsAre(v, Holders(v, q))
  BY <1>2, <1>5 DEF Fits, RefsAre, Live
<1>7. QueueFits(v, q)
  BY <1>2 DEF Fits, QueueFits, FirstFits, ClientsFit, WsFits, PcFits, DcFits
<1>8. QED
  BY <1>2, <1>3, <1>6, <1>7 DEF Fits, v

\* A sequence of reports of data channels whose wrappers are in their pool.
Reports(u, r) ==
  /\ r \in Seq(TaskRecords)
  /\ \A x \in TaskRecords : Has(r, x) =>
       \E d \in Dc, i \in Sessions : x = Plain("dcClosed", d, i) /\ u.bound[d] = None

\* They are not what the queue has to order.
LEMMA ReportsForm ==
  ASSUME NEW u, NEW r, Reports(u, r)
  PROVE  /\ \A op \in TaskOps, w \in Wrappers, i \in Sessions, dc \in Dc \cup {None} :
              Has(r, Task(op, w, i, dc)) =>
                op = "dcClosed" /\ w \in Dc /\ dc = None /\ u.bound[w] = None
<1> SUFFICES ASSUME NEW op \in TaskOps, NEW w \in Wrappers, NEW i \in Sessions,
                    NEW dc \in Dc \cup {None}, Has(r, Task(op, w, i, dc))
             PROVE  op = "dcClosed" /\ w \in Dc /\ dc = None /\ u.bound[w] = None
  OBVIOUS
<1>1. Task(op, w, i, dc) \in TaskRecords
  BY TaskIdentity
<1>2. PICK d \in Dc, j \in Sessions :
        Task(op, w, i, dc) = Task("dcClosed", d, j, None) /\ u.bound[d] = None
  BY <1>1 DEF Reports, Plain
<1>3. QED
  BY <1>2, TaskIdentity

\* The queue fits with the reports at its end.
LEMMA ReportsQueue ==
  ASSUME NEW u, NEW q, NEW r, Fits(u, q), Reports(u, r)
  PROVE  Fits(u, q \o r)
<1> DEFINE n == q \o r
<1>1. /\ FormFits(q) /\ FirstFits(u)
      /\ ClientsFit(u, q) /\ WsFits(u, q) /\ PcFits(u, q) /\ DcFits(u, q)
      /\ Shape(u) /\ RefsAre(u, Holders(u, q))
  BY DEF Fits, QueueFits
<1>2. q \in Seq(TaskRecords) /\ r \in Seq(TaskRecords)
  BY <1>1 DEF FormFits, Reports
<1>3. /\ n \in Seq(TaskRecords)
      /\ \A x : Has(n, x) <=> Has(q, x) \/ Has(r, x)
      /\ \A x : Single(q, x) /\ ~Has(r, x) => Single(n, x)
      /\ \A x, y : Follows(q, x, y) /\ ~Has(r, x) => Follows(n, x, y)
  BY <1>2, ConcatForm, HasConcat, SingleConcat, FollowsConcat
<1> HIDE DEF n
<1>4. \A op \in TaskOps, w \in Wrappers, i \in Sessions, dc \in Dc \cup {None} :
        Has(r, Task(op, w, i, dc)) =>
          op = "dcClosed" /\ w \in Dc /\ dc = None /\ u.bound[w] = None
  BY ReportsForm
<1>5. FormFits(n)
  <2> SUFFICES ASSUME NEW x \in TaskRecords, Has(n, x)
               PROVE  /\ x.op \in {"client", "wsMessage", "wsClosed"} =>
                           x.w \in Ws /\ x.dc = None
                      /\ x.op = "pcClosed" => x.w \in Pc /\ x.dc = None
                      /\ x.op \in PcOps => x.w \in Pc /\ x.dc \in Dc
                      /\ x.op \in DcOps => x.w \in Dc /\ x.dc = None
    BY <1>3 DEF FormFits
  <2>1. CASE Has(q, x)
    BY <1>1, <2>1 DEF FormFits
  <2>2. CASE Has(r, x)
    <3>1. PICK d \in Dc, j \in Sessions : x = Task("dcClosed", d, j, None)
      BY <2>2 DEF Reports, Plain
    <3>2. x.op = "dcClosed" /\ x.w = d /\ x.dc = None
      BY <3>1, TaskIdentity
    <3>3. QED
      BY <3>2 DEF PcOps, DcOps
  <2>3. QED
    BY <1>3, <2>1, <2>2
<1>6. \A i \in Sessions, w \in Ws, op \in WsOps \cup {"client"} :
        /\ ~Has(r, Plain(op, w, i))
        /\ Has(n, Plain(op, w, i)) <=> Has(q, Plain(op, w, i))
  <2>1. \A op \in WsOps \cup {"client"} : op \in TaskOps /\ op # "dcClosed"
    BY DEF WsOps, TaskOps
  <2>2. QED
    BY <1>3, <1>4, <2>1, Disjoint DEF Plain
<1>7. \A i \in Sessions, p \in Pc :
        /\ ~Has(r, Plain("pcClosed", p, i))
        /\ Has(n, Plain("pcClosed", p, i)) <=> Has(q, Plain("pcClosed", p, i))
        /\ \A op \in PcOps, d \in Dc :
             /\ ~Has(r, Task(op, p, i, d))
             /\ Has(n, Task(op, p, i, d)) <=> Has(q, Task(op, p, i, d))
  <2>1. \A op \in PcOps \cup {"pcClosed"} : op \in TaskOps /\ op # "dcClosed"
    BY DEF PcOps, TaskOps
  <2>2. QED
    BY <1>3, <1>4, <2>1, Disjoint DEF Plain
<1>8. ClientsFit(u, n)
  BY <1>1, <1>3, <1>6 DEF ClientsFit
<1>9. WsFits(u, n)
  BY <1>1, <1>3, <1>6 DEF WsFits
<1>10. PcFits(u, n)
  BY <1>1, <1>3, <1>7 DEF PcFits
<1>11. \A i \in Sessions, d \in Dc, op \in DcOps :
         Has(n, Plain(op, d, i)) => Has(q, Plain(op, d, i)) \/ u.bound[d] = None
  <2>1. \A op \in DcOps : op \in TaskOps
    BY DEF DcOps, TaskOps
  <2>2. QED
    BY <1>3, <1>4, <2>1, Disjoint DEF Plain
<1>12. DcFits(u, n)
  <2> SUFFICES ASSUME NEW i \in Sessions, NEW d \in Dc
               PROVE  /\ \A p \in Pc : Has(n, Task("dataChannel", p, i, d)) =>
                           /\ u.bound[d] \in {<<"in", i>>, <<"twin", i>>}
                           /\ u.data[d] = None
                           /\ Single(n, Task("dataChannel", p, i, d))
                           /\ \A j \in Sessions \ {i}, op \in DcOps :
                                Follows(n, Plain(op, d, j), Task("dataChannel", p, i, d))
                      /\ \A op \in DcOps : Has(n, Plain(op, d, i)) =>
                           \A j \in Sessions \ {i} : u.incoming[j] # d
    BY DEF DcFits
  <2>1. ASSUME NEW p \in Pc, Has(n, Task("dataChannel", p, i, d))
        PROVE  /\ u.bound[d] \in {<<"in", i>>, <<"twin", i>>} /\ u.data[d] = None
               /\ Single(n, Task("dataChannel", p, i, d))
               /\ \A j \in Sessions \ {i}, op \in DcOps :
                    Follows(n, Plain(op, d, j), Task("dataChannel", p, i, d))
    <3>1. Has(q, Task("dataChannel", p, i, d)) /\ ~Has(r, Task("dataChannel", p, i, d))
      BY <1>7, <2>1 DEF PcOps
    <3>2. /\ u.bound[d] \in {<<"in", i>>, <<"twin", i>>} /\ u.data[d] = None
          /\ Single(q, Task("dataChannel", p, i, d))
          /\ \A j \in Sessions \ {i}, op \in DcOps :
               Follows(q, Plain(op, d, j), Task("dataChannel", p, i, d))
      BY <1>1, <3>1 DEF DcFits
    <3>3. u.bound[d] # None
      BY <3>2, Disjoint, ObjectForm
    <3>4. \A j \in Sessions, op \in DcOps : ~Has(r, Plain(op, d, j))
      <4>1. \A op \in DcOps : op \in TaskOps
        BY DEF DcOps, TaskOps
      <4>2. QED
        BY <1>4, <3>3, <4>1, Disjoint DEF Plain
    <3>5. QED
      BY <1>3, <3>1, <3>2, <3>4
  <2>2. ASSUME NEW op \in DcOps, Has(n, Plain(op, d, i)), NEW j \in Sessions \ {i}
        PROVE  u.incoming[j] # d
    <3>1. CASE Has(q, Plain(op, d, i))
      BY <1>1, <3>1 DEF DcFits
    <3>2. CASE u.bound[d] = None
      <4>1. u.incoming[j] = d => u.bound[d] # None
        BY <1>1, Disjoint, ObjectForm DEF Shape, ChannelFits
      <4>2. QED
        BY <3>2, <4>1
    <3>3. QED
      BY <1>11, <2>2, <3>1, <3>2
  <2>3. QED
    BY <2>1, <2>2
<1>13. Holders(u, n) = Holders(u, q)
  <2> SUFFICES ASSUME NEW i \in Sessions
               PROVE  /\ WsHolds(u, n, i) <=> WsHolds(u, q, i)
                      /\ PcHolds(u, n, i) <=> PcHolds(u, q, i)
    BY DEF Holders, Count
  <2>1. u.ws[i] \in Ws \cup {None} /\ u.pc[i] \in Pc \cup {None}
    BY <1>1, WrapperFields DEF Shape
  <2>2. u.ws[i] # None =>
          (Has(n, Plain("wsClosed", u.ws[i], i)) <=> Has(q, Plain("wsClosed", u.ws[i], i)))
    BY <1>6, <2>1 DEF WsOps
  <2>3. u.pc[i] # None =>
          (Has(n, Plain("pcClosed", u.pc[i], i)) <=> Has(q, Plain("pcClosed", u.pc[i], i)))
    BY <1>7, <2>1
  <2>4. QED
    BY <2>2, <2>3 DEF WsHolds, PcHolds
<1>14. QED
  BY <1>1, <1>5, <1>8, <1>9, <1>10, <1>12, <1>13 DEF Fits, QueueFits, n

\* A handler has ended that wound something up, or nothing.
LEMMA Ended ==
  ASSUME NEW t, t.reports = {}, NEW u, Winds(t, u), NEW q, Fits(u, q), Ends(u, q)
  PROVE  Fits(o', tasks') /\ o'.reports = {} /\ o'.received = t.received
<1>0. PICK R \in SUBSET u.reports : \E r \in SetToSeqs(R) : tasks' = q \o r
  BY DEF Ends
<1>1. PICK r \in SetToSeqs(R) : o' = [u EXCEPT !.reports = {}] /\ tasks' = q \o r
  BY <1>0 DEF Ends
<1>2. u.received = t.received /\ IsFiniteSet(u.reports) /\ u.reports \in SUBSET TaskRecords
  <2>1. u \in Owned
    BY DEF Fits, Shape
  <2>2. QED
    BY <2>1, FS_EmptySet, WrapperFields DEF Winds
<1>3. Reports(u, r)
  <2>1. IsFiniteSet(R)
    BY <1>2, FS_Subset
  <2>2. Cardinality(R) \in Nat
    BY <2>1, FS_CardinalityType
  <2>3. r \in [1 .. Cardinality(R) -> R]
    BY DEF SetToSeqs
  <2>4. r \in Seq(TaskRecords) /\ Len(r) = Cardinality(R)
    BY <1>2, <2>2, <2>3
  <2>5. ASSUME NEW x \in TaskRecords, Has(r, x)
        PROVE  \E d \in Dc, i \in Sessions :
                 x = Plain("dcClosed", d, i) /\ u.bound[d] = None
    <3>1. x \in u.reports
      BY <2>3, <2>4, <2>5 DEF Has
    <3>2. QED
      BY <3>1 DEF Winds
  <2>6. QED
    BY <2>4, <2>5 DEF Reports
<1>4. Fits(u, q \o r)
  BY <1>3, ReportsQueue
<1>5. QED
  BY <1>1, <1>2, <1>4, Unreported

\* Nothing is wound up.
LEMMA WindsNot ==
  ASSUME NEW t
  PROVE  Winds(t, t)
  BY DEF Winds
-----------------------------------------------------------------------------
(***************************************************************************)
(* The plugin thread takes a task.                                         *)
(***************************************************************************)
\* What is left of the queue.
LEMMA TakeForm ==
  ASSUME NEW q, FormFits(q), q # <<>>
  PROVE  /\ Head(q) \in TaskRecords /\ Has(q, Head(q)) /\ Tail(q) \in Seq(TaskRecords)
         /\ \A x : Has(q, x) <=> x = Head(q) \/ Has(Tail(q), x)
         /\ \A x : Single(q, x) => Single(Tail(q), x)
         /\ Single(q, Head(q)) => ~Has(Tail(q), Head(q))
         /\ \A x, y : Follows(q, x, y) => Follows(Tail(q), x, y)
         /\ \A x : Follows(q, Head(q), x) => Has(Tail(q), x)
         /\ \A x : Single(q, Head(q)) /\ Follows(q, x, Head(q)) => ~Has(q, x)
<1>1. q \in Seq(TaskRecords)
  BY DEF FormFits
<1>2. Head(q) \in TaskRecords /\ Tail(q) \in Seq(TaskRecords)
  BY <1>1, TailForm
<1>3. \A x : Has(q, x) <=> x = Head(q) \/ Has(Tail(q), x)
  BY <1>1, HasTail
<1>4. /\ \A x : Single(q, x) => Single(Tail(q), x)
      /\ Single(q, Head(q)) => ~Has(Tail(q), Head(q))
  BY <1>1, SingleTail
<1>5. /\ \A x, y : Follows(q, x, y) => Follows(Tail(q), x, y)
      /\ \A x : Follows(q, Head(q), x) => Has(Tail(q), x)
  BY <1>1, FollowsTail
<1>6. \A x : Single(q, Head(q)) /\ Follows(q, x, Head(q)) => ~Has(q, x)
  BY <1>1, FollowsHead
<1>7. QED
  BY <1>2, <1>3, <1>4, <1>5, <1>6

\* What is left fits.
LEMMA TailFits ==
  ASSUME NEW t, NEW q, QueueFits(t, q), q # <<>>
  PROVE  QueueFits(t, Tail(q))
<1> DEFINE n == Tail(q)
<1>1. /\ FormFits(q) /\ FirstFits(t)
      /\ ClientsFit(t, q) /\ WsFits(t, q) /\ PcFits(t, q) /\ DcFits(t, q)
  BY DEF QueueFits
<1>2. /\ n \in Seq(TaskRecords)
      /\ \A x : Has(n, x) => Has(q, x)
      /\ \A x : Single(q, x) => Single(n, x)
      /\ \A x, y : Follows(q, x, y) => Follows(n, x, y)
  BY <1>1, TakeForm
<1> HIDE DEF n
<1>3. FormFits(n)
  BY <1>1, <1>2 DEF FormFits
<1>4. ClientsFit(t, n)
  BY <1>1, <1>2 DEF ClientsFit
<1>5. WsFits(t, n)
  BY <1>1, <1>2 DEF WsFits
<1>6. PcFits(t, n)
  BY <1>1, <1>2 DEF PcFits
<1>7. DcFits(t, n)
  BY <1>1, <1>2 DEF DcFits
<1>8. QED
  BY <1>1, <1>3, <1>4, <1>5, <1>6, <1>7 DEF QueueFits, n

\* Tasks that are not closes hold no session.
LEMMA TailHolders ==
  ASSUME NEW t, Shape(t), NEW q, QueueFits(t, q), q # <<>>,
         \/ Head(q).op \notin {"wsClosed", "pcClosed"}
         \/ Head(q).op = "wsClosed" /\ t.data[Head(q).w] = None
  PROVE  Holders(t, Tail(q)) = Holders(t, q)
<1> DEFINE n == Tail(q)
           e == Head(q)
<1>1. FormFits(q) /\ t \in Owned
  BY DEF QueueFits, Shape
<1>2. \A x : Has(q, x) <=> x = e \/ Has(n, x)
  BY <1>1, TakeForm
<1> SUFFICES ASSUME NEW i \in Sessions
             PROVE  /\ WsHolds(t, n, i) <=> WsHolds(t, q, i)
                    /\ PcHolds(t, n, i) <=> PcHolds(t, q, i)
  BY DEF Holders, Count
<1> HIDE DEF n, e
<1>3. e.op # "pcClosed"
  BY DEF e
<1>4. \A p : Plain("pcClosed", p, i) # e
  BY <1>3, TaskIdentity DEF Plain
<1>5. t.ws[i] # None => Plain("wsClosed", t.ws[i], i) # e
  <2> SUFFICES ASSUME t.ws[i] # None, Plain("wsClosed", t.ws[i], i) = e
               PROVE  FALSE
    OBVIOUS
  <2>1. e.op = "wsClosed" /\ e.w = t.ws[i]
    BY TaskIdentity DEF Plain
  <2>2. t.data[t.ws[i]] = i
    BY DEF Shape, SessionFits
  <2>3. t.data[t.ws[i]] = None
    BY <2>1 DEF e
  <2>4. QED
    BY <2>2, <2>3, Disjoint
<1>6. QED
  BY <1>2, <1>4, <1>5 DEF WsHolds, PcHolds

\* A close that is taken held its session.
LEMMA TailReleases ==
  ASSUME NEW t, Shape(t), NEW q, QueueFits(t, q), q # <<>>, NEW i \in Sessions,
         \/ t.ws[i] # None /\ Head(q) = Plain("wsClosed", t.ws[i], i)
         \/ t.pc[i] # None /\ Head(q) = Plain("pcClosed", t.pc[i], i)
  PROVE  /\ Holders(t, Tail(q)) = [Holders(t, q) EXCEPT ![i] = @ - 1]
         /\ Holders(t, q)[i] >= 1 + Count(Live(t, "ws", i)) + Count(Live(t, "pc", i))
<1> DEFINE n == Tail(q)
           e == Head(q)
           h == Holders(t, q)
           g == Holders(t, n)
<1>1. /\ FormFits(q) /\ WsFits(t, q) /\ PcFits(t, q) /\ t \in Owned
      /\ t.ws[i] # None /\ t.pc[i] # None
  BY Pooled DEF QueueFits, Shape
<1>2. t.ws[i] \in Ws /\ t.pc[i] \in Pc
  BY <1>1, WrapperFields
<1>3. /\ \A x : Has(q, x) <=> x = e \/ Has(n, x)
      /\ Single(q, e) => ~Has(n, e)
  BY <1>1, TakeForm
<1> HIDE DEF n, e
<1>4. /\ h \in [Sessions -> Nat] /\ g \in [Sessions -> Nat]
      /\ \A j \in Sessions : h[j] = Count(WsHolds(t, q, j)) + Count(PcHolds(t, q, j))
      /\ \A j \in Sessions : g[j] = Count(WsHolds(t, n, j)) + Count(PcHolds(t, n, j))
  BY HoldersType
<1>5. \A j \in Sessions \ {i} : g[j] = h[j]
  <2> SUFFICES ASSUME NEW j \in Sessions \ {i}
               PROVE  /\ WsHolds(t, n, j) <=> WsHolds(t, q, j)
                      /\ PcHolds(t, n, j) <=> PcHolds(t, q, j)
    BY <1>4 DEF Count
  <2>1. \A w : e # Plain("wsClosed", w, j) /\ e # Plain("pcClosed", w, j)
    BY TaskIdentity DEF Plain, e
  <2>2. QED
    BY <1>3, <2>1 DEF WsHolds, PcHolds
<1>6. \A w, p : Plain("wsClosed", w, i) # Plain("pcClosed", p, i)
  BY TaskIdentity DEF Plain
<1>7. CASE e = Plain("wsClosed", t.ws[i], i)
  <2>1. t.state[<<"ws", i>>] = "closed" /\ Single(q, e)
    BY <1>1, <1>2, <1>3, <1>7 DEF WsFits, WsOps
  <2>2. ~Live(t, "ws", i) /\ ~Has(n, e)
    BY <1>3, <2>1 DEF Live
  <2>3. WsHolds(t, q, i) /\ ~WsHolds(t, n, i)
    BY <1>1, <1>3, <1>7, <2>2 DEF WsHolds
  <2>4. PcHolds(t, n, i) <=> PcHolds(t, q, i)
    BY <1>3, <1>6, <1>7 DEF PcHolds
  <2>5. Live(t, "pc", i) => PcHolds(t, q, i)
    BY <1>1 DEF PcHolds
  <2>6. g[i] = h[i] - 1 /\ h[i] >= 1 + Count(Live(t, "ws", i)) + Count(Live(t, "pc", i))
    BY <1>4, <2>2, <2>3, <2>4, <2>5 DEF Count
  <2> HIDE DEF g, h
  <2>7. g = [h EXCEPT ![i] = @ - 1]
    BY <1>4, <1>5, <2>6
  <2>8. QED
    BY <2>6, <2>7 DEF g, h, n
<1>8. CASE e = Plain("pcClosed", t.pc[i], i)
  <2>1. t.state[<<"pc", i>>] = "closed" /\ Single(q, e)
    BY <1>1, <1>2, <1>3, <1>8 DEF PcFits
  <2>2. ~Live(t, "pc", i) /\ ~Has(n, e)
    BY <1>3, <2>1 DEF Live
  <2>3. PcHolds(t, q, i) /\ ~PcHolds(t, n, i)
    BY <1>1, <1>3, <1>8, <2>2 DEF PcHolds
  <2>4. WsHolds(t, n, i) <=> WsHolds(t, q, i)
    BY <1>3, <1>6, <1>8 DEF WsHolds
  <2>5. Live(t, "ws", i) => WsHolds(t, q, i)
    BY <1>1 DEF WsHolds
  <2>6. g[i] = h[i] - 1 /\ h[i] >= 1 + Count(Live(t, "ws", i)) + Count(Live(t, "pc", i))
    BY <1>4, <2>2, <2>3, <2>4, <2>5 DEF Count
  <2> HIDE DEF g, h
  <2>7. g = [h EXCEPT ![i] = @ - 1]
    BY <1>4, <1>5, <2>6
  <2>8. QED
    BY <2>6, <2>7 DEF g, h, n
<1>9. QED
  BY <1>7, <1>8 DEF e

\* A handler that winds sessions up keeps the invariant.
LEMMA Wound ==
  ASSUME WrapperInv, NEW q, QueueFits(o, q), NEW u, Shape(u), Winds(o, u),
         RefsAre(u, Holders(o, q)), Ends(u, q)
  PROVE  WrapperInv'
<1>1. Shape(o) /\ o.reports = {} /\ MessagesReachOwn
  BY DEF WrapperInv, Fits
<1>2. QueueFits(u, q) /\ Holders(u, q) = Holders(o, q)
  BY <1>1, WindsQueue, WindsHolders
<1>3. Fits(u, q)
  BY <1>2 DEF Fits
<1>4. Fits(o', tasks') /\ o'.reports = {} /\ o'.received = o.received
  BY <1>1, <1>3, Ended
<1>5. QED
  BY <1>1, <1>4 DEF WrapperInv, MessagesReachOwn

\* So does one that changes nothing.
LEMMA Idle ==
  ASSUME WrapperInv, NEW q, Fits(o, q), Ends(o, q)
  PROVE  WrapperInv'
<1>1. Shape(o) /\ o.reports = {} /\ MessagesReachOwn
  BY DEF WrapperInv, Fits
<1>2. Fits(o', tasks') /\ o'.reports = {} /\ o'.received = o.received
  BY <1>1, Ended, WindsNot
<1>3. QED
  BY <1>1, <1>2 DEF WrapperInv, MessagesReachOwn

\* A timeout, a disconnect or a stop.
LEMMA ExpiresKeeps ==
  ASSUME WrapperInv, NEW i \in Sessions, Expires(i)
  PROVE  WrapperInv'
<1>1. /\ Shape(o) /\ RefsAre(o, Holders(o, tasks)) /\ QueueFits(o, tasks)
      /\ Holders(o, tasks) \in [Sessions -> Nat]
  BY HoldersType DEF WrapperInv, Fits
<1>2. /\ Shape(SessionClose(o, i)) /\ Winds(o, SessionClose(o, i))
      /\ RefsAre(SessionClose(o, i), Holders(o, tasks))
  BY <1>1, SessionCloseEffect
<1>3. QED
  BY <1>1, <1>2, Wound DEF Expires

\* What the plugin thread starts from when it takes a task.
LEMMA Taken ==
  ASSUME WrapperInv, tasks # <<>>
  PROVE  /\ Shape(o) /\ RefsAre(o, Holders(o, tasks)) /\ QueueFits(o, tasks)
         /\ Holders(o, tasks) \in [Sessions -> Nat]
         /\ FormFits(tasks) /\ FirstFits(o) /\ ClientsFit(o, tasks)
         /\ WsFits(o, tasks) /\ PcFits(o, tasks) /\ DcFits(o, tasks)
         /\ QueueFits(o, Tail(tasks))
         /\ Event \in TaskRecords /\ Event = Head(tasks) /\ Has(tasks, Event)
         /\ Event = Task(Event.op, Event.w, Event.of, Event.dc)
         /\ Event.w \in Wrappers /\ Event.of \in Sessions
         /\ Found \in Sessions \cup {None}
<1>1. /\ Shape(o) /\ RefsAre(o, Holders(o, tasks)) /\ QueueFits(o, tasks)
      /\ Holders(o, tasks) \in [Sessions -> Nat]
      /\ FormFits(tasks) /\ FirstFits(o) /\ ClientsFit(o, tasks)
      /\ WsFits(o, tasks) /\ PcFits(o, tasks) /\ DcFits(o, tasks)
  BY HoldersType DEF WrapperInv, Fits, QueueFits
<1>2. QueueFits(o, Tail(tasks))
  BY <1>1, TailFits
<1>3. Event \in TaskRecords /\ Event = Head(tasks) /\ Has(tasks, Event)
  BY <1>1, TakeForm DEF Event
<1>4. /\ Event = Task(Event.op, Event.w, Event.of, Event.dc)
      /\ Event.w \in Wrappers /\ Event.of \in Sessions
  BY <1>3, TaskIdentity
<1>5. Found \in Sessions \cup {None}
  BY <1>1, <1>4, WrapperFields DEF Found, Shape
<1>6. QED
  BY <1>1, <1>2, <1>3, <1>4, <1>5

\* What the tasks of each kind find.
LEMMA TakenFinds ==
  ASSUME WrapperInv, tasks # <<>>
  PROVE  /\ Event.op \in WsOps =>
              /\ Event.w \in Ws /\ Event = Plain(Event.op, Event.w, Event.of)
              /\ Found \in {Event.of, None}
         /\ Event.op = "pcClosed" =>
              /\ Event.w \in Pc /\ Event = Plain("pcClosed", Event.w, Event.of)
              /\ Found = Event.of /\ o.pc[Event.of] = Event.w
         /\ Event.op \in PcOps =>
              /\ Event.w \in Pc /\ Event.dc \in Dc
              /\ Found = Event.of /\ o.pc[Event.of] = Event.w
         /\ Event.op \in DcOps =>
              /\ Event.w \in Dc /\ Event = Plain(Event.op, Event.w, Event.of)
              /\ \A j \in Sessions \ {Event.of} : o.incoming[j] # Event.w
<1>1. /\ Shape(o) /\ FormFits(tasks)
      /\ WsFits(o, tasks) /\ PcFits(o, tasks) /\ DcFits(o, tasks)
      /\ Event \in TaskRecords /\ Has(tasks, Event)
      /\ Event = Task(Event.op, Event.w, Event.of, Event.dc)
      /\ Event.w \in Wrappers /\ Event.of \in Sessions
  BY Taken
<1>2. /\ Event.op \in {"client", "wsMessage", "wsClosed"} => Event.w \in Ws /\ Event.dc = None
      /\ Event.op = "pcClosed" => Event.w \in Pc /\ Event.dc = None
      /\ Event.op \in PcOps => Event.w \in Pc /\ Event.dc \in Dc
      /\ Event.op \in DcOps => Event.w \in Dc /\ Event.dc = None
  BY <1>1 DEF FormFits
<1>3. CASE Event.op \in WsOps
  <2>1. Event.w \in Ws /\ Event = Plain(Event.op, Event.w, Event.of)
    BY <1>1, <1>2, <1>3 DEF WsOps, Plain
  <2>2. o.data[Event.w] \in {Event.of, None}
    BY <1>1, <1>3, <2>1, ZenonT(40) DEF WsFits
  <2>3. QED
    BY <1>3, <2>1, <2>2 DEF Found, WsOps, PcOps, DcOps
<1>4. ASSUME o.pc[Event.of] = Event.w, Event.w \in Pc PROVE Found = Event.of
  BY <1>1, <1>4, Disjoint DEF Shape, SessionFits, Found
<1>5. CASE Event.op = "pcClosed"
  <2>1. Event.w \in Pc /\ Event = Plain("pcClosed", Event.w, Event.of)
    BY <1>1, <1>2, <1>5 DEF Plain
  <2>2. o.pc[Event.of] = Event.w
    <3>1. Has(tasks, Plain("pcClosed", Event.w, Event.of))
      BY <1>1, <2>1
    <3>2. QED
      BY <1>1, <2>1, <3>1 DEF PcFits
  <2>3. QED
    BY <1>4, <1>5, <2>1, <2>2 DEF WsOps, PcOps, DcOps
<1>6. CASE Event.op \in PcOps
  <2>1. Event.w \in Pc /\ Event.dc \in Dc
    BY <1>2, <1>6
  <2>2. o.pc[Event.of] = Event.w
    <3>1. Has(tasks, Task(Event.op, Event.w, Event.of, Event.dc))
      BY <1>1
    <3>2. QED
      BY <1>1, <1>6, <2>1, <3>1 DEF PcFits
  <2>3. QED
    BY <1>4, <1>6, <2>1, <2>2 DEF WsOps, PcOps, DcOps
<1>7. CASE Event.op \in DcOps
  <2>1. Event.w \in Dc /\ Event = Plain(Event.op, Event.w, Event.of)
    BY <1>1, <1>2, <1>7 DEF Plain
  <2>2. \A j \in Sessions \ {Event.of} : o.incoming[j] # Event.w
    BY <1>1, <1>7, <2>1 DEF DcFits
  <2>3. QED
    BY <1>7, <2>1, <2>2 DEF WsOps, PcOps, DcOps
<1>8. QED
  BY <1>3, <1>5, <1>6, <1>7

\* A close drops what it held.
LEMMA CloseHandled ==
  ASSUME WrapperInv, tasks # <<>>, NEW i \in Sessions,
         \/ o.ws[i] # None /\ Event = Plain("wsClosed", o.ws[i], i)
         \/ o.pc[i] # None /\ Event = Plain("pcClosed", o.pc[i], i),
         Ends(SessionUnref(SessionClose(o, i), i), Tail(tasks))
  PROVE  WrapperInv'
<1> DEFINE h == Holders(o, tasks)
           c == SessionClose(o, i)
           u == SessionUnref(c, i)
<1>1. /\ Shape(o) /\ RefsAre(o, h) /\ QueueFits(o, tasks) /\ h \in [Sessions -> Nat]
      /\ QueueFits(o, Tail(tasks)) /\ Event = Head(tasks)
  BY Taken
<1>2. /\ Holders(o, Tail(tasks)) = [h EXCEPT ![i] = @ - 1]
      /\ h[i] >= 1 + Count(Live(o, "ws", i)) + Count(Live(o, "pc", i))
  BY <1>1, TailReleases
<1> HIDE DEF h
<1>3. Shape(c) /\ RefsAre(c, h) /\ Winds(o, c)
  BY <1>1, SessionCloseEffect
<1>4. /\ Live(c, "ws", i) => Live(o, "ws", i)
      /\ Live(c, "pc", i) => Live(o, "pc", i)
  BY <1>3, LiveWinds
<1>5. h[i] >= 1 + Count(Live(c, "ws", i)) + Count(Live(c, "pc", i))
  BY <1>1, <1>2, <1>4 DEF Count
<1> HIDE DEF c
<1>6. Shape(u) /\ RefsAre(u, [h EXCEPT ![i] = @ - 1]) /\ Winds(c, u)
  BY <1>1, <1>3, <1>5, UnrefEffect
<1>7. Winds(o, u)
  BY <1>3, <1>6, WindsTransitive
<1>8. Ends(u, Tail(tasks))
  BY DEF u, c
<1> HIDE DEF u
<1>9. QED
  BY <1>1, <1>2, <1>6, <1>7, <1>8, Wound

\* The close of a peer connection is handled.
LEMMA OnPcClosedKeeps ==
  ASSUME WrapperInv, OnPcClosed
  PROVE  WrapperInv'
<1>1. /\ tasks # <<>> /\ Event.op = "pcClosed" /\ Found # None
      /\ Ends(SessionUnref(SessionClose(o, Found), Found), Tail(tasks))
  BY DEF OnPcClosed, HandlesFound, Takes
<1>2. /\ Event.w \in Pc /\ Event = Plain("pcClosed", Event.w, Event.of)
      /\ Found = Event.of /\ o.pc[Event.of] = Event.w /\ Found \in Sessions
  BY <1>1, Taken, TakenFinds
<1>3. o.pc[Found] # None /\ Event = Plain("pcClosed", o.pc[Found], Found)
  BY <1>2, Disjoint
<1>4. QED
  BY <1>1, <1>2, <1>3, CloseHandled

\* The close of a WebSocket is handled, which finds its session or none.
LEMMA OnWsClosedKeeps ==
  ASSUME WrapperInv, OnWsClosed
  PROVE  WrapperInv'
<1>1. tasks # <<>> /\ Event.op = "wsClosed"
  BY DEF OnWsClosed, Handles, Takes
<1>2. /\ Event.w \in Ws /\ Event = Plain("wsClosed", Event.w, Event.of)
      /\ Found \in {Event.of, None} /\ Found \in Sessions \cup {None}
  BY <1>1, Taken, TakenFinds DEF WsOps
<1>3. CASE Found = None
  <2>1. Ends(o, Tail(tasks))
    BY <1>3 DEF OnWsClosed, Handles
  <2>2. /\ Shape(o) /\ RefsAre(o, Holders(o, tasks)) /\ QueueFits(o, tasks)
        /\ QueueFits(o, Tail(tasks)) /\ Event = Head(tasks)
    BY <1>1, Taken
  <2>3. Holders(o, Tail(tasks)) = Holders(o, tasks)
    BY <1>1, <1>3, <2>2, TailHolders DEF Found
  <2>4. QED
    BY <2>1, <2>2, <2>3, Idle DEF Fits
<1>4. CASE Found # None
  <2>1. /\ Ends(SessionUnref(SessionClose(o, Found), Found), Tail(tasks))
        /\ Found \in Sessions
    BY <1>2, <1>4 DEF OnWsClosed, Handles
  <2>2. Shape(o)
    BY <1>1, Taken
  <2>3. o.ws[Found] = Event.w
    BY <1>2, <2>1, <2>2, DataOwn, Disjoint DEF Found
  <2>4. o.ws[Found] # None /\ Event = Plain("wsClosed", o.ws[Found], Found)
    BY <1>2, <1>4, <2>3, Disjoint
  <2>5. QED
    BY <1>1, <2>1, <2>4, CloseHandled
<1>5. QED
  BY <1>3, <1>4

\* A data channel with an invalid label has its session closed.
LEMMA OnBadChannelKeeps ==
  ASSUME WrapperInv, OnBadChannel
  PROVE  WrapperInv'
<1>1. /\ tasks # <<>> /\ Event.op = "badChannel" /\ Found # None
      /\ Ends(SessionClose(o, Found), Tail(tasks))
  BY DEF OnBadChannel, HandlesFound, Takes
<1>2. /\ Shape(o) /\ RefsAre(o, Holders(o, tasks)) /\ QueueFits(o, tasks)
      /\ Holders(o, tasks) \in [Sessions -> Nat]
      /\ QueueFits(o, Tail(tasks)) /\ Event = Head(tasks) /\ Found \in Sessions
  BY <1>1, Taken
<1>3. Holders(o, Tail(tasks)) = Holders(o, tasks)
  BY <1>1, <1>2, TailHolders
<1>4. /\ Shape(SessionClose(o, Found)) /\ Winds(o, SessionClose(o, Found))
      /\ RefsAre(SessionClose(o, Found), Holders(o, tasks))
  BY <1>2, SessionCloseEffect
<1>5. QED
  BY <1>1, <1>2, <1>3, <1>4, Wound

\* A channel that is listed no more.
LEMMA UnlistEffect ==
  ASSUME NEW t, Shape(t), NEW h, RefsAre(t, h), NEW i \in Sessions
  PROVE  LET u == [t EXCEPT !.listed = @ \ {i}]
         IN Shape(u) /\ RefsAre(u, h) /\ Winds(t, u)
<1> DEFINE c == t.listed \ {i}
           u == [t EXCEPT !.listed = c]
<1>1. t \in Owned /\ c \in SUBSET Sessions
  BY WrapperFields DEF Shape
<1>2. /\ u \in Owned
      /\ u.state = t.state /\ u.data = t.data /\ u.bound = t.bound
      /\ u.reports = t.reports /\ SameSessions(t, u) /\ u.listed = c
      /\ u.cref = t.cref /\ u.cactive = t.cactive
      /\ u.outgoing = t.outgoing /\ u.incoming = t.incoming
  <2> HIDE DEF c
  <2>1. QED
    BY <1>1 DEF Owned, SameSessions
<1> HIDE DEF u
<1>3. BoundFits(u) /\ DataFits(u)
  BY <1>2 DEF Shape, BoundFits, DataFits, SameSessions
<1>4. ASSUME NEW j \in Sessions PROVE SessionFits(u, j) /\ ChannelFits(u, j)
  <2>1. SessionFits(t, j) /\ ChannelFits(t, j)
    BY DEF Shape
  <2>2. SessionFits(u, j)
    BY <1>2, <2>1 DEF SessionFits, SameSessions
  <2>3. ChannelFits(u, j)
    BY <1>2, <2>1 DEF ChannelFits, SameSessions
  <2>4. QED
    BY <2>2, <2>3
<1>5. RefsAre(u, h)
  BY <1>2 DEF RefsAre, Live, SameSessions
<1>6. Winds(t, u)
  BY <1>2 DEF Winds, SameSessions
<1>7. QED
  BY <1>2, <1>3, <1>4, <1>5, <1>6 DEF Shape, u

\* The close of a data channel is handled, whichever channel it finds.
LEMMA OnDcClosedKeeps ==
  ASSUME WrapperInv, OnDcClosed
  PROVE  WrapperInv'
<1>1. tasks # <<>> /\ Event.op = "dcClosed"
  BY DEF OnDcClosed, Handles, Takes
<1>2. /\ Shape(o) /\ RefsAre(o, Holders(o, tasks)) /\ QueueFits(o, tasks)
      /\ Holders(o, tasks) \in [Sessions -> Nat]
      /\ QueueFits(o, Tail(tasks)) /\ Event = Head(tasks)
      /\ Found \in Sessions \cup {None}
  BY <1>1, Taken
<1>3. Holders(o, Tail(tasks)) = Holders(o, tasks)
  BY <1>1, <1>2, TailHolders
<1>4. CASE Found = None
  <2>1. Ends(o, Tail(tasks))
    BY <1>4 DEF OnDcClosed, Handles
  <2>2. QED
    BY <1>2, <1>3, <2>1, Idle DEF Fits
<1>5. CASE Found # None
  <2> DEFINE v == [o EXCEPT !.listed = @ \ {Found}]
             u == DcClosed(o, Found)
  <2>1. Found \in Sessions /\ Ends(u, Tail(tasks)) /\ Event.w \in Dc
    BY <1>1, <1>2, <1>5, TakenFinds DEF OnDcClosed, Handles, DcOps
  <2>2. o.cref[Found] > 0
    BY <1>2, <2>1, DataOwn, Disjoint DEF Found
  <2>3. Shape(v) /\ RefsAre(v, Holders(o, tasks)) /\ Winds(o, v)
    BY <1>2, <2>1, UnlistEffect
  <2>4. v.cref = o.cref /\ Found \notin v.listed
    BY <1>2 DEF Shape, Owned
  <2>5. u = ChannelUnref(v, Found)
    BY DEF DcClosed
  <2> HIDE DEF u, v
  <2>6. Shape(u) /\ RefsAre(u, Holders(o, tasks)) /\ Winds(v, u)
    BY <1>2, <2>1, <2>2, <2>3, <2>4, <2>5, ChannelUnrefEffect
  <2>7. QED
    BY <1>2, <1>3, <2>1, <2>3, <2>6, WindsTransitive, Wound
<1>6. QED
  BY <1>4, <1>5

\* A handler ends with what fits.
LEMMA Kept ==
  ASSUME NEW u, NEW q, Fits(u, q), u.reports = {},
         \A i \in Sessions : u.received[i] \subseteq {i}, Ends(u, q)
  PROVE  WrapperInv'
<1>1. Fits(o', tasks') /\ o'.reports = {} /\ o'.received = u.received
  BY Ended, WindsNot
<1>2. QED
  BY <1>1 DEF WrapperInv, MessagesReachOwn

\* A data message is handled, which reaches its own channel or none.
LEMMA OnMessageKeeps ==
  ASSUME WrapperInv, OnMessage
  PROVE  WrapperInv'
<1>1. tasks # <<>> /\ Event.op = "message"
  BY DEF OnMessage, Handles, Takes
<1>2. /\ Shape(o) /\ RefsAre(o, Holders(o, tasks)) /\ QueueFits(o, tasks)
      /\ QueueFits(o, Tail(tasks)) /\ Event = Head(tasks) /\ Event.of \in Sessions
      /\ Found \in Sessions \cup {None}
  BY <1>1, Taken
<1>3. Holders(o, Tail(tasks)) = Holders(o, tasks)
  BY <1>1, <1>2, TailHolders
<1>4. Fits(o, Tail(tasks))
  BY <1>2, <1>3 DEF Fits
<1>5. CASE Ends(o, Tail(tasks))
  BY <1>4, <1>5, Idle
<1>6. CASE ~Ends(o, Tail(tasks))
  <2>1. /\ Found \in Sessions /\ Event.w = o.incoming[Found]
        /\ Ends([o EXCEPT !.received[Found] = @ \cup {Event.of}], Tail(tasks))
    BY <1>2, <1>6 DEF OnMessage, Handles, ProcessMessage
  <2>2. Found = Event.of
    BY <1>1, <2>1, TakenFinds DEF DcOps
  <2> DEFINE r == [o.received EXCEPT ![Found] = @ \cup {Event.of}]
             u == [o EXCEPT !.received = r]
  <2>3. /\ o \in Owned /\ r \in [Sessions -> SUBSET Sessions]
        /\ \A i \in Sessions : r[i] \subseteq {i}
    <3>1. o \in Owned /\ \A i \in Sessions : o.received[i] \subseteq {i}
      BY <1>2 DEF Shape, WrapperInv, MessagesReachOwn
    <3>2. o.received \in [Sessions -> SUBSET Sessions]
      BY <3>1, WrapperFields
    <3>3. QED
      BY <1>2, <2>1, <2>2, <3>1, <3>2
  <2>4. Ends(u, Tail(tasks))
    BY <2>1, <2>3 DEF Owned
  <2> HIDE DEF r
  <2>5. /\ u \in Owned /\ u.reports = o.reports /\ u.received = r
        /\ u.state = o.state /\ u.data = o.data /\ u.bound = o.bound
        /\ u.ref = o.ref /\ u.active = o.active /\ u.authenticated = o.authenticated
        /\ u.ws = o.ws /\ u.pc = o.pc /\ u.listed = o.listed /\ u.cref = o.cref
        /\ u.cactive = o.cactive /\ u.outgoing = o.outgoing /\ u.incoming = o.incoming
    BY <2>3 DEF Owned
  <2> HIDE DEF u
  <2>6. Shape(u)
    <3>1. BoundFits(u) /\ DataFits(u)
      BY <1>2, <2>5 DEF Shape, BoundFits, DataFits
    <3>2. ASSUME NEW i \in Sessions PROVE SessionFits(u, i) /\ ChannelFits(u, i)
      <4>1. SessionFits(o, i) /\ ChannelFits(o, i)
        BY <1>2 DEF Shape
      <4>2. SessionFits(u, i)
        BY <2>5, <4>1 DEF SessionFits
      <4>3. ChannelFits(u, i)
        BY <2>5, <4>1 DEF ChannelFits
      <4>4. QED
        BY <4>2, <4>3
    <3>3. QED
      BY <2>5, <3>1, <3>2 DEF Shape
  <2>7. \A i \in Sessions : /\ WsHolds(u, Tail(tasks), i) <=> WsHolds(o, Tail(tasks), i)
                            /\ PcHolds(u, Tail(tasks), i) <=> PcHolds(o, Tail(tasks), i)
    BY <2>5 DEF WsHolds, PcHolds, Live
  <2>8. Holders(u, Tail(tasks)) = Holders(o, Tail(tasks))
    BY <2>7 DEF Holders, Count
  <2>9. RefsAre(u, Holders(u, Tail(tasks)))
    BY <1>4, <2>5, <2>8 DEF Fits, RefsAre, Live
  <2>10. QueueFits(u, Tail(tasks))
    BY <1>2, <2>5 DEF QueueFits, FirstFits, ClientsFit, WsFits, PcFits, DcFits
  <2>11. u.reports = {}
    BY <2>5 DEF WrapperInv
  <2>12. QED
    BY <2>3, <2>4, <2>5, <2>6, <2>9, <2>10, <2>11, Kept DEF Fits
<1>7. QED
  BY <1>5, <1>6

\* An incoming data channel becomes that of its session, unless there is one.
LEMMA OnDataChannelKeeps ==
  ASSUME WrapperInv, OnDataChannel
  PROVE  WrapperInv'
<1>1. tasks # <<>> /\ Event.op = "dataChannel" /\ Found # None
  BY DEF OnDataChannel, HandlesFound, Takes
<1>2. /\ Shape(o) /\ RefsAre(o, Holders(o, tasks)) /\ QueueFits(o, tasks)
      /\ QueueFits(o, Tail(tasks)) /\ Event = Head(tasks) /\ Event.of \in Sessions
      /\ FormFits(tasks) /\ DcFits(o, tasks) /\ Has(tasks, Event)
      /\ Found \in Sessions
      /\ Event = Task("dataChannel", Event.w, Event.of, Event.dc)
  BY <1>1, Taken
<1>3. Holders(o, Tail(tasks)) = Holders(o, tasks)
  BY <1>1, <1>2, TailHolders
<1>4. Fits(o, Tail(tasks))
  BY <1>2, <1>3 DEF Fits
<1>5. CASE Ends(o, Tail(tasks))
  BY <1>4, <1>5, Idle
<1>6. CASE ~Ends(o, Tail(tasks))
  <2> DEFINE i == Event.of
             d == Event.dc
             p == Event.w
             q == Tail(tasks)
  <2>1. i \in Sessions /\ d \in Dc /\ p \in Pc /\ Found = i /\ o.pc[i] = p
    BY <1>1, <1>2, TakenFinds DEF PcOps
  <2>2. /\ i \in o.listed /\ o.incoming[i] = None
        /\ Ends([o EXCEPT !.data[d] = i, !.incoming[i] = d], q)
    BY <1>6, <2>1 DEF OnDataChannel, HandlesFound, SetIncoming
  <2>3. /\ o.bound[d] \in {<<"in", i>>, <<"twin", i>>} /\ o.data[d] = None
        /\ Single(tasks, Event)
        /\ \A j \in Sessions \ {i}, op \in DcOps : Follows(tasks, Plain(op, d, j), Event)
    BY <1>2, <2>1 DEF DcFits
  <2>4. /\ ~Has(q, Event)
        /\ \A j \in Sessions \ {i}, op \in DcOps : ~Has(tasks, Plain(op, d, j))
        /\ \A x : Has(q, x) => Has(tasks, x)
    BY <1>1, <1>2, <2>3, TakeForm
  <2> HIDE DEF i, d, p, q
  <2> DEFINE b == [o.data EXCEPT ![d] = i]
             e == [o.incoming EXCEPT ![i] = d]
             u == [o EXCEPT !.data = b, !.incoming = e]
  <2>5. /\ o \in Owned /\ b \in [Wrappers -> Sessions \cup {None}]
        /\ e \in [Sessions -> Dc \cup {None}]
        /\ b[d] = i /\ \A w \in Wrappers : w # d => b[w] = o.data[w]
        /\ e[i] = d /\ \A j \in Sessions : j # i => e[j] = o.incoming[j]
    <3>1. o \in Owned
      BY <1>2 DEF Shape
    <3>2. QED
      BY <2>1, <3>1, WrapperFields, Disjoint
  <2>6. Ends(u, q)
    BY <2>2, <2>5 DEF Owned
  <2> HIDE DEF b, e
  <2>7. /\ u \in Owned /\ u.reports = o.reports /\ u.received = o.received
        /\ u.state = o.state /\ u.data = b /\ u.bound = o.bound
        /\ u.ref = o.ref /\ u.active = o.active /\ u.authenticated = o.authenticated
        /\ u.ws = o.ws /\ u.pc = o.pc /\ u.listed = o.listed /\ u.cref = o.cref
        /\ u.cactive = o.cactive /\ u.outgoing = o.outgoing /\ u.incoming = e
    BY <2>5 DEF Owned
  <2> HIDE DEF u
  <2>8. d \in Wrappers /\ d \notin Ws /\ d \notin Pc /\ d # None
    BY <2>1, Disjoint
  <2>9. BoundFits(u) /\ DataFits(u)
    <3>1. BoundFits(u)
      BY <1>2, <2>7 DEF Shape, BoundFits
    <3>2. ASSUME NEW w \in Wrappers, NEW j \in Sessions, u.data[w] = j
          PROVE  w \in {u.ws[j], u.pc[j], u.outgoing[j], u.incoming[j]}
      <4>1. CASE w = d
        BY <2>5, <2>7, <3>2, <4>1
      <4>2. CASE w # d
        <5>1. w \in {o.ws[j], o.pc[j], o.outgoing[j], o.incoming[j]}
          BY <1>2, <2>5, <2>7, <3>2, <4>2 DEF Shape, DataFits
        <5>2. w # None
          BY Disjoint
        <5>3. CASE j = i
          BY <2>2, <2>7, <5>1, <5>2, <5>3
        <5>4. CASE j # i
          BY <2>5, <2>7, <5>1, <5>4
        <5>5. QED
          BY <5>3, <5>4
      <4>3. QED
        BY <4>1, <4>2
    <3>3. QED
      BY <3>1, <3>2 DEF DataFits
  <2>10. ASSUME NEW j \in Sessions PROVE SessionFits(u, j) /\ ChannelFits(u, j)
    <3>1. SessionFits(o, j) /\ ChannelFits(o, j)
      BY <1>2 DEF Shape
    <3>2. /\ o.ws[j] \in Ws \cup {None} /\ o.pc[j] \in Pc \cup {None}
          /\ o.outgoing[j] \in Dc \cup {None} /\ o.incoming[j] \in Dc \cup {None}
      BY <2>5, WrapperFields
    <3>3. /\ o.ws[j] # None => b[o.ws[j]] = o.data[o.ws[j]]
          /\ o.pc[j] # None => b[o.pc[j]] = o.data[o.pc[j]]
      BY <2>5, <2>8, <3>2, Disjoint
    <3>4. SessionFits(u, j)
      BY <2>7, <3>1, <3>3 DEF SessionFits
    <3>5. o.outgoing[j] # None => o.outgoing[j] # d /\ b[o.outgoing[j]] = o.data[o.outgoing[j]]
      <4>1. o.outgoing[j] # None => o.data[o.outgoing[j]] = j
        BY <3>1 DEF ChannelFits
      <4>2. j # None
        BY Disjoint
      <4>3. QED
        BY <2>3, <2>5, <3>2, <4>1, <4>2, Disjoint
    <3>6. ChannelFits(u, j)
      <4>1. CASE j = i
        <5>1. o.cref[j] > 0
          BY <2>2, <3>1, <4>1 DEF ChannelFits
        <5>2. e[j] = d /\ b[d] = j
          BY <2>5, <4>1
        <5>3. QED
          BY <2>3, <2>7, <3>1, <3>5, <4>1, <5>1, <5>2 DEF ChannelFits
      <4>2. CASE j # i
        <5>1. e[j] = o.incoming[j]
          BY <2>5, <4>2
        <5>2. o.incoming[j] # None => b[o.incoming[j]] = o.data[o.incoming[j]]
          <6>1. o.incoming[j] # None => o.data[o.incoming[j]] = j
            BY <3>1 DEF ChannelFits
          <6>2. j # None
            BY Disjoint
          <6>3. QED
            BY <2>3, <2>5, <3>2, <6>1, <6>2, Disjoint
        <5>3. QED
          BY <2>7, <3>1, <3>5, <5>1, <5>2 DEF ChannelFits
      <4>3. QED
        BY <4>1, <4>2
    <3>7. QED
      BY <3>4, <3>6
  <2>11. Shape(u)
    BY <2>7, <2>9, <2>10 DEF Shape
  <2>12. RefsAre(u, Holders(u, q))
    <3>1. \A j \in Sessions : /\ WsHolds(u, q, j) <=> WsHolds(o, q, j)
                              /\ PcHolds(u, q, j) <=> PcHolds(o, q, j)
      BY <2>7 DEF WsHolds, PcHolds, Live
    <3>2. Holders(u, q) = Holders(o, q)
      BY <3>1 DEF Holders, Count
    <3>3. RefsAre(o, Holders(o, q))
      BY <1>4 DEF Fits, q
    <3>4. QED
      BY <2>7, <3>2, <3>3 DEF RefsAre, Live
  <2>13. QueueFits(u, q)
    <3>1. /\ FormFits(q) /\ FirstFits(o)
          /\ ClientsFit(o, q) /\ WsFits(o, q) /\ PcFits(o, q) /\ DcFits(o, q)
      BY <1>2 DEF QueueFits, q
    <3>2. FirstFits(u) /\ ClientsFit(u, q) /\ PcFits(u, q)
      BY <2>7, <3>1 DEF FirstFits, ClientsFit, PcFits
    <3>3. WsFits(u, q)
      <4>1. \A w \in Ws : u.data[w] = o.data[w]
        BY <2>5, <2>7, <2>8, Disjoint
      <4>2. QED
        BY <2>7, <3>1, <4>1 DEF WsFits
    <3>4. DcFits(u, q)
      <4> SUFFICES ASSUME NEW j \in Sessions, NEW c \in Dc
                   PROVE  /\ \A r \in Pc : Has(q, Task("dataChannel", r, j, c)) =>
                               /\ u.bound[c] \in {<<"in", j>>, <<"twin", j>>}
                               /\ u.data[c] = None
                               /\ Single(q, Task("dataChannel", r, j, c))
                               /\ \A k \in Sessions \ {j}, op \in DcOps :
                                    Follows(q, Plain(op, c, k), Task("dataChannel", r, j, c))
                          /\ \A op \in DcOps : Has(q, Plain(op, c, j)) =>
                               \A k \in Sessions \ {j} : u.incoming[k] # c
        BY DEF DcFits
      <4>1. ASSUME NEW r \in Pc, Has(q, Task("dataChannel", r, j, c))
            PROVE  /\ u.bound[c] \in {<<"in", j>>, <<"twin", j>>}
                   /\ u.data[c] = None
                   /\ Single(q, Task("dataChannel", r, j, c))
                   /\ \A k \in Sessions \ {j}, op \in DcOps :
                        Follows(q, Plain(op, c, k), Task("dataChannel", r, j, c))
        <5>1. /\ o.bound[c] \in {<<"in", j>>, <<"twin", j>>} /\ o.data[c] = None
              /\ Single(q, Task("dataChannel", r, j, c))
              /\ \A k \in Sessions \ {j}, op \in DcOps :
                   Follows(q, Plain(op, c, k), Task("dataChannel", r, j, c))
          BY <3>1, <4>1 DEF DcFits
        <5>2. ASSUME c = d PROVE FALSE
          <6>1. j = i
            BY <2>3, <5>1, <5>2, ObjectForm
          <6>2. o.pc[j] = r
            BY <3>1, <4>1 DEF PcFits, PcOps
          <6>3. Task("dataChannel", r, j, c) = Event
            BY <1>2, <2>1, <5>2, <6>1, <6>2 DEF i, d, p
          <6>4. QED
            BY <2>4, <4>1, <6>3
        <5>3. u.data[c] = None
          BY <2>5, <2>7, <5>1, <5>2, Disjoint
        <5>4. QED
          BY <2>7, <5>1, <5>3
      <4>2. ASSUME NEW op \in DcOps, Has(q, Plain(op, c, j)), NEW k \in Sessions \ {j}
            PROVE  u.incoming[k] # c
        <5>1. o.incoming[k] # c
          BY <3>1, <4>2 DEF DcFits
        <5>2. CASE k = i
          <6>1. c # d
            BY <2>4, <4>2, <5>2
          <6>2. QED
            BY <2>5, <2>7, <5>2, <6>1
        <5>3. CASE k # i
          BY <2>5, <2>7, <5>1, <5>3
        <5>4. QED
          BY <5>2, <5>3
      <4>3. QED
        BY <4>1, <4>2
    <3>5. QED
      BY <3>1, <3>2, <3>3, <3>4 DEF QueueFits
  <2>14. u.reports = {} /\ \A j \in Sessions : u.received[j] \subseteq {j}
    BY <2>7 DEF WrapperInv, MessagesReachOwn
  <2>15. QED
    BY <2>6, <2>11, <2>12, <2>13, <2>14, Kept DEF Fits
<1>7. QED
  BY <1>5, <1>6

\* The record u in which session i of t has got a channel.
Authenticates(t, i, d, u) ==
  /\ u \in Owned
  /\ u.state = [t.state EXCEPT ![<<"out", i>>] = "open"]
  /\ u.data = [t.data EXCEPT ![d] = i]
  /\ u.bound = [t.bound EXCEPT ![d] = <<"out", i>>]
  /\ u.reports = t.reports /\ u.received = t.received
  /\ u.ref = [t.ref EXCEPT ![i] = @ + 1] /\ u.active = t.active
  /\ u.authenticated = t.authenticated \cup {i}
  /\ u.ws = t.ws /\ u.pc = t.pc
  /\ u.listed = t.listed \cup {i} /\ u.cactive = t.cactive \cup {i}
  /\ u.cref = [t.cref EXCEPT ![i] = 2]
  /\ u.outgoing = [t.outgoing EXCEPT ![i] = d] /\ u.incoming = t.incoming

\* A channel begins.
LEMMA ChannelInitForm ==
  ASSUME NEW t, Shape(t), NEW i \in Sessions, NEW d \in Dc
  PROVE  Authenticates(t, i, d, ChannelInit(t, i, d))
<1> DEFINE s == [t.state EXCEPT ![<<"out", i>>] = "open"]
           a == [t.data EXCEPT ![d] = i]
           b == [t.bound EXCEPT ![d] = <<"out", i>>]
           r == [t.ref EXCEPT ![i] = @ + 1]
           n == t.authenticated \cup {i}
           l == t.listed \cup {i}
           c == t.cactive \cup {i}
           f == [t.cref EXCEPT ![i] = 2]
           g == [t.outgoing EXCEPT ![i] = d]
           u == ChannelInit(t, i, d)
<1>1. t \in Owned /\ d \in Wrappers /\ <<"out", i>> \in Objects
  BY Disjoint, ObjectForm DEF Shape
<1>2. /\ s \in [Objects -> {"none", "open", "closing", "closed"}]
      /\ a \in [Wrappers -> Sessions \cup {None}]
      /\ b \in [Wrappers -> Objects \cup {None}]
      /\ r \in [Sessions -> Nat] /\ f \in [Sessions -> Nat]
      /\ n \in SUBSET Sessions /\ l \in SUBSET Sessions /\ c \in SUBSET Sessions
      /\ g \in [Sessions -> Dc \cup {None}]
  BY <1>1, WrapperFields
<1>3. u = [t EXCEPT !.bound = b, !.state = s, !.data = a, !.authenticated = n, !.ref = r,
                    !.cref = f, !.cactive = c, !.listed = l, !.outgoing = g]
  BY <1>1 DEF ChannelInit, CreateDataChannel, Bind, Owned
<1> HIDE DEF s, a, b, r, n, l, c, f, g, u
<1>4. u \in Owned
  BY <1>1, <1>2, <1>3 DEF Owned
<1>5. /\ u.state = s /\ u.data = a /\ u.bound = b /\ u.reports = t.reports
      /\ u.received = t.received /\ u.ref = r /\ u.active = t.active
      /\ u.authenticated = n /\ u.ws = t.ws /\ u.pc = t.pc /\ u.listed = l
      /\ u.cactive = c /\ u.cref = f /\ u.outgoing = g /\ u.incoming = t.incoming
  BY <1>1, <1>3 DEF Owned
<1>6. QED
  BY <1>4, <1>5 DEF s, a, b, r, n, l, c, f, g, u, Authenticates

\* A session that is authenticated keeps its shape.
LEMMA ChannelInitShape ==
  ASSUME NEW t, Shape(t), NEW i \in Sessions, NEW d \in Dc, t.bound[d] = None,
         i \in t.active, i \notin t.authenticated
  PROVE  Shape(ChannelInit(t, i, d))
<1> DEFINE u == ChannelInit(t, i, d)
<1>0. Authenticates(t, i, d, u)
  BY ChannelInitForm
<1> HIDE DEF u
<1>1. /\ u \in Owned
      /\ u.state = [t.state EXCEPT ![<<"out", i>>] = "open"]
      /\ u.data = [t.data EXCEPT ![d] = i]
      /\ u.bound = [t.bound EXCEPT ![d] = <<"out", i>>]
      /\ u.ref = [t.ref EXCEPT ![i] = @ + 1] /\ u.active = t.active
      /\ u.authenticated = t.authenticated \cup {i}
      /\ u.ws = t.ws /\ u.pc = t.pc
      /\ u.listed = t.listed \cup {i} /\ u.cactive = t.cactive \cup {i}
      /\ u.cref = [t.cref EXCEPT ![i] = 2]
      /\ u.outgoing = [t.outgoing EXCEPT ![i] = d] /\ u.incoming = t.incoming
  BY <1>0 DEF Authenticates
<1>2. /\ t \in Owned /\ BoundFits(t) /\ DataFits(t)
      /\ \A j \in Sessions : SessionFits(t, j) /\ ChannelFits(t, j)
  BY DEF Shape
<1>3. /\ d \in Wrappers /\ d \notin Ws /\ d \notin Pc /\ d # None
      /\ t.data[d] = None /\ <<"out", i>> # None /\ <<"out", i>> \in Objects
  BY FreeData, Disjoint, ObjectForm
<1>4. /\ t.cref[i] = 0 /\ t.outgoing[i] = None /\ t.incoming[i] = None
      /\ t.ref[i] > 0 /\ t.ref[i] \in Nat /\ t.state[<<"out", i>>] = "none"
  <2>1. t.cref[i] \in Nat /\ t.ref[i] \in Nat
    BY <1>2, WrapperFields
  <2>2. SessionFits(t, i) /\ ChannelFits(t, i)
    BY <1>2
  <2>3. QED
    BY <2>1, <2>2 DEF SessionFits, ChannelFits
<1>5. /\ u.bound[d] = <<"out", i>> /\ u.data[d] = i
      /\ \A w \in Wrappers : w # d => u.bound[w] = t.bound[w] /\ u.data[w] = t.data[w]
  BY <1>1, <1>2, <1>3, WrapperFields
<1>6. /\ u.state[<<"out", i>>] = "open"
      /\ \A x \in Objects : x # <<"out", i>> => u.state[x] = t.state[x]
  BY <1>1, <1>2, <1>3, WrapperFields
<1>7. \A w \in Wrappers : t.bound[w] # <<"out", i>>
  BY <1>2, <1>3, <1>4 DEF BoundFits
<1>8. BoundFits(u)
  <2>1. \A w \in Ws \cup Pc : w \in Wrappers /\ u.bound[w] = t.bound[w]
    BY <1>3, <1>5, Disjoint
  <2>2. ASSUME NEW w \in Dc, u.bound[w] # None
        PROVE  \E j \in Sessions, k \in {"out", "in", "twin"} : u.bound[w] = <<k, j>>
    <3>1. CASE w = d
      BY <1>5, <3>1
    <3>2. CASE w # d
      <4>1. u.bound[w] = t.bound[w]
        BY <1>5, <3>2, Disjoint
      <4>2. QED
        BY <1>2, <2>2, <4>1 DEF BoundFits
    <3>3. QED
      BY <3>1, <3>2
  <2>3. ASSUME NEW w \in Wrappers, u.bound[w] # None PROVE u.state[u.bound[w]] # "none"
    <3>1. CASE w = d
      BY <1>5, <1>6, <3>1
    <3>2. CASE w # d
      <4>1. /\ u.bound[w] = t.bound[w] /\ t.bound[w] \in Objects
            /\ t.state[t.bound[w]] # "none"
        BY <1>2, <1>5, <2>3, <3>2, WrapperFields DEF BoundFits
      <4>2. QED
        BY <1>6, <4>1
    <3>3. QED
      BY <3>1, <3>2
  <2>4. ASSUME NEW v \in Wrappers, NEW w \in Wrappers, u.bound[v] # None,
               u.bound[v] = u.bound[w]
        PROVE  v = w
    BY <1>2, <1>5, <1>7, <2>4 DEF BoundFits
  <2>5. ASSUME NEW w \in Wrappers, NEW j \in Sessions, u.bound[w] = <<"pc", j>>
        PROVE  u.pc[j] = w
    <3>1. w # d
      BY <1>5, <2>5, ObjectForm
    <3>2. QED
      BY <1>1, <1>2, <1>5, <2>5, <3>1 DEF BoundFits
  <2>6. \A w \in Ws : u.bound[w] # None => \E j \in Sessions : u.bound[w] = <<"ws", j>>
    BY <1>2, <2>1 DEF BoundFits
  <2>7. \A w \in Pc : u.bound[w] # None => \E j \in Sessions : u.bound[w] = <<"pc", j>>
    BY <1>2, <2>1 DEF BoundFits
  <2>8. QED
    BY <2>2, <2>3, <2>4, <2>5, <2>6, <2>7 DEF BoundFits
<1>9. /\ u.outgoing[i] = d /\ u.incoming[i] = None /\ u.cref[i] = 2
      /\ \A j \in Sessions : j # i =>
           u.outgoing[j] = t.outgoing[j] /\ u.cref[j] = t.cref[j] /\ u.ref[j] = t.ref[j]
      /\ u.ref[i] = t.ref[i] + 1
  BY <1>1, <1>2, <1>4, WrapperFields
<1>10. DataFits(u)
  <2> SUFFICES ASSUME NEW w \in Wrappers, NEW j \in Sessions, u.data[w] = j
               PROVE  w \in {u.ws[j], u.pc[j], u.outgoing[j], u.incoming[j]}
    BY DEF DataFits
  <2>1. CASE w = d
    BY <1>5, <1>9, <2>1
  <2>2. CASE w # d
    <3>1. w \in {t.ws[j], t.pc[j], t.outgoing[j], t.incoming[j]} /\ w # None
      BY <1>2, <1>5, <2>2, Disjoint DEF DataFits
    <3>2. CASE j = i
      BY <1>1, <1>4, <3>1, <3>2
    <3>3. CASE j # i
      BY <1>1, <1>9, <3>1, <3>3
    <3>4. QED
      BY <3>2, <3>3
  <2>3. QED
    BY <2>1, <2>2
<1>11. ASSUME NEW j \in Sessions PROVE SessionFits(u, j) /\ ChannelFits(u, j)
  <2>1. SessionFits(t, j) /\ ChannelFits(t, j)
    BY <1>2
  <2>2. /\ t.ws[j] \in Ws \cup {None} /\ t.pc[j] \in Pc \cup {None}
        /\ t.outgoing[j] \in Dc \cup {None} /\ t.incoming[j] \in Dc \cup {None}
    BY <1>2, WrapperFields
  <2>3. \A w \in Wrappers : t.data[w] = j => u.data[w] = j /\ u.bound[w] = t.bound[w]
    BY <1>3, <1>5, Disjoint
  <2>4. /\ t.ws[j] # None => u.bound[t.ws[j]] = <<"ws", j>> /\ u.data[t.ws[j]] = j
        /\ t.pc[j] # None => u.bound[t.pc[j]] = <<"pc", j>> /\ u.data[t.pc[j]] = j
    BY <2>1, <2>2, <2>3, Disjoint DEF SessionFits
  <2>5. u.ref[j] > 0 <=> t.ref[j] > 0
    BY <1>4, <1>9
  <2>6. CASE j = i
    <3>1. SessionFits(u, j)
      BY <1>1, <1>4, <2>1, <2>4, <2>5, <2>6 DEF SessionFits
    <3>2. ChannelFits(u, j)
      BY <1>1, <1>3, <1>5, <1>9, <2>6 DEF ChannelFits
    <3>3. QED
      BY <3>1, <3>2
  <2>7. CASE j # i
    <3>1. u.state[<<"out", j>>] = t.state[<<"out", j>>]
      BY <1>6, <2>7, ObjectForm
    <3>2. /\ u.ws = t.ws /\ u.pc = t.pc /\ u.active = t.active
          /\ (j \in u.authenticated <=> j \in t.authenticated)
          /\ (j \in u.listed <=> j \in t.listed) /\ (j \in u.cactive <=> j \in t.cactive)
          /\ u.incoming = t.incoming
      BY <1>1, <2>7
    <3>3. SessionFits(u, j)
      BY <2>1, <2>4, <2>5, <3>1, <3>2 DEF SessionFits
    <3>4. /\ t.outgoing[j] # None =>
               u.bound[t.outgoing[j]] = <<"out", j>> /\ u.data[t.outgoing[j]] = j
          /\ t.incoming[j] # None =>
               /\ u.bound[t.incoming[j]] \in {<<"in", j>>, <<"twin", j>>}
               /\ u.data[t.incoming[j]] = j
      BY <2>1, <2>2, <2>3, Disjoint DEF ChannelFits
    <3>5. u.outgoing[j] = t.outgoing[j] /\ u.cref[j] = t.cref[j]
      BY <1>9, <2>7
    <3>6. ChannelFits(u, j)
      BY <2>1, <3>2, <3>4, <3>5 DEF ChannelFits
    <3>7. QED
      BY <3>3, <3>6
  <2>8. QED
    BY <2>6, <2>7
<1>12. QED
  BY <1>1, <1>8, <1>10, <1>11 DEF Shape, u

\* What the events of WebSockets are about.
LEMMA WsFitsSame ==
  ASSUME NEW t, NEW u, NEW q, WsFits(t, q),
         \A w \in Ws : u.data[w] = t.data[w] /\ u.bound[w] = t.bound[w],
         \A i \in Sessions : u.state[<<"ws", i>>] = t.state[<<"ws", i>>]
  PROVE  WsFits(u, q)
<1> SUFFICES ASSUME NEW i \in Sessions, NEW w \in Ws, NEW op \in WsOps,
                    Has(q, Plain(op, w, i))
             PROVE  /\ u.data[w] \in {i, None}
                    /\ u.state[<<"ws", i>>] # "none"
                    /\ \A v \in Ws : u.bound[v] = <<"ws", i>> => v = w
                    /\ op = "wsClosed" =>
                         /\ u.state[<<"ws", i>>] = "closed"
                         /\ Single(q, Plain("wsClosed", w, i))
  BY DEF WsFits
<1>1. /\ t.data[w] \in {i, None}
      /\ t.state[<<"ws", i>>] # "none"
      /\ \A v \in Ws : t.bound[v] = <<"ws", i>> => v = w
      /\ op = "wsClosed" =>
           t.state[<<"ws", i>>] = "closed" /\ Single(q, Plain("wsClosed", w, i))
  BY DEF WsFits
<1>2. u.state[<<"ws", i>>] = t.state[<<"ws", i>>] /\ u.data[w] = t.data[w]
  OBVIOUS
<1>3. \A v \in Ws : u.bound[v] = <<"ws", i>> => v = w
  BY <1>1
<1>4. QED
  BY <1>1, <1>2, <1>3

\* A message of a WebSocket is handled, which may authenticate its session.
LEMMA OnWsMessageKeeps ==
  ASSUME WrapperInv, OnWsMessage
  PROVE  WrapperInv'
<1>1. tasks # <<>> /\ Event.op = "wsMessage"
  BY DEF OnWsMessage, Takes
<1>2. /\ Shape(o) /\ RefsAre(o, Holders(o, tasks)) /\ QueueFits(o, tasks)
      /\ QueueFits(o, Tail(tasks)) /\ Event = Head(tasks)
  BY <1>1, Taken
<1>3. Holders(o, Tail(tasks)) = Holders(o, tasks)
  BY <1>1, <1>2, TailHolders
<1>4. CASE Ends(o, Tail(tasks))
  BY <1>2, <1>3, <1>4, Idle DEF Fits
<1>5. CASE ~Ends(o, Tail(tasks))
  <2> DEFINE i == Found
             q == Tail(tasks)
  <2>1. PICK d \in Free(Dc) : Ends(ChannelInit(o, i, d), q)
    BY <1>5 DEF OnWsMessage
  <2>2. i \in o.active /\ i \notin o.authenticated
    BY <1>5 DEF OnWsMessage
  <2>3. /\ o \in Owned /\ i \in Sessions /\ d \in Dc /\ o.bound[d] = None
        /\ d \in Wrappers /\ d \notin Ws /\ d \notin Pc
    <3>1. o \in Owned /\ d \in Dc /\ o.bound[d] = None
      BY <1>2, <2>1 DEF Shape, Free
    <3>2. o.active \in SUBSET Sessions
      BY <3>1, WrapperFields
    <3>3. QED
      BY <2>2, <3>1, <3>2, Disjoint
  <2> HIDE DEF i, q
  <2> DEFINE u == ChannelInit(o, i, d)
  <2>0. Authenticates(o, i, d, u)
    BY <1>2, <2>3, ChannelInitForm
  <2>5. Shape(u)
    BY <1>2, <2>2, <2>3, ChannelInitShape
  <2> HIDE DEF u
  <2>4. /\ u.state = [o.state EXCEPT ![<<"out", i>>] = "open"]
        /\ u.data = [o.data EXCEPT ![d] = i]
        /\ u.bound = [o.bound EXCEPT ![d] = <<"out", i>>]
        /\ u.reports = o.reports /\ u.received = o.received
        /\ u.ref = [o.ref EXCEPT ![i] = @ + 1] /\ u.active = o.active
        /\ u.ws = o.ws /\ u.pc = o.pc
        /\ u.cref = [o.cref EXCEPT ![i] = 2] /\ u.incoming = o.incoming
    BY <2>0 DEF Authenticates
  <2>6. \A j \in Sessions : /\ u.state[<<"ws", j>>] = o.state[<<"ws", j>>]
                            /\ u.state[<<"pc", j>>] = o.state[<<"pc", j>>]
    <3>1. \A j \in Sessions :
            /\ <<"ws", j>> \in Objects /\ <<"ws", j>> # <<"out", i>>
            /\ <<"pc", j>> \in Objects /\ <<"pc", j>> # <<"out", i>>
      BY ObjectForm
    <3>2. QED
      BY <2>3, <2>4, <3>1, WrapperFields
  <2>7. \A j \in Sessions : j # i => u.state[<<"out", j>>] = o.state[<<"out", j>>]
    <3>1. \A j \in Sessions : j # i =>
            <<"out", j>> \in Objects /\ <<"out", j>> # <<"out", i>>
      BY ObjectForm
    <3>2. QED
      BY <2>3, <2>4, <3>1, WrapperFields
  <2>8. \A w \in Wrappers : w # d => u.bound[w] = o.bound[w] /\ u.data[w] = o.data[w]
    BY <2>3, <2>4, WrapperFields
  <2>9. /\ SessionFits(o, i) /\ o.cref[i] = 0 /\ o.ref[i] > 0 /\ o.ref[i] \in Nat
        /\ o.ws[i] # None /\ o.pc[i] # None
        /\ o.state[<<"pc", i>>] # "none" /\ o.state[<<"ws", i>>] # "none"
    <3>1. SessionFits(o, i) /\ ChannelFits(o, i) /\ o.cref[i] \in Nat /\ o.ref[i] \in Nat
      BY <1>2, <2>3, WrapperFields DEF Shape
    <3>2. o.cref[i] = 0 /\ o.ref[i] > 0
      BY <2>2, <3>1 DEF SessionFits, ChannelFits
    <3>3. o.ws[i] # None /\ o.pc[i] # None
      BY <3>1, <3>2 DEF SessionFits
    <3>4. o.state[<<"pc", i>>] # "none"
      BY <1>2, <2>3, <3>3, Pooled
    <3>5. o.state[<<"ws", i>>] # "none"
      BY <1>2, <2>3, <3>4 DEF QueueFits, FirstFits
    <3>6. QED
      BY <3>1, <3>2, <3>3, <3>4, <3>5
  <2>10. \A j \in Sessions : /\ Live(u, "ws", j) <=> Live(o, "ws", j)
                             /\ Live(u, "pc", j) <=> Live(o, "pc", j)
    BY <2>6 DEF Live
  <2>11. Holders(u, q) = Holders(o, tasks)
    <3>1. \A j \in Sessions : /\ WsHolds(u, q, j) <=> WsHolds(o, q, j)
                              /\ PcHolds(u, q, j) <=> PcHolds(o, q, j)
      BY <2>4, <2>10 DEF WsHolds, PcHolds
    <3>2. Holders(u, q) = Holders(o, q)
      BY <3>1 DEF Holders, Count
    <3>3. QED
      BY <1>3, <3>2 DEF q
  <2>12. RefsAre(u, Holders(o, tasks))
    <3> DEFINE h == Holders(o, tasks)
    <3>1. h \in [Sessions -> Nat]
      BY HoldersType
    <3> HIDE DEF h
    <3>2. RefsAre(u, h)
      <4> SUFFICES ASSUME NEW j \in Sessions
                   PROVE  /\ u.ref[j] = Count(j \in u.active) + h[j] + Count(u.cref[j] > 0)
                          /\ u.ref[j] > 0 =>
                               h[j] >= Count(Live(u, "ws", j)) + Count(Live(u, "pc", j))
        BY DEF RefsAre
      <4>1. /\ o.ref[j] = Count(j \in o.active) + h[j] + Count(o.cref[j] > 0)
            /\ o.ref[j] > 0 => h[j] >= Count(Live(o, "ws", j)) + Count(Live(o, "pc", j))
            /\ h[j] \in Nat
        BY <1>2, <3>1 DEF RefsAre, h
      <4>2. /\ Live(u, "ws", j) <=> Live(o, "ws", j)
            /\ Live(u, "pc", j) <=> Live(o, "pc", j)
        BY <2>10
      <4>3. CASE j = i
        <5>1. u.ref[j] = o.ref[j] + 1 /\ u.cref[j] = 2 /\ u.active = o.active
          BY <2>3, <2>4, <4>3, WrapperFields
        <5>2. QED
          BY <2>9, <4>1, <4>2, <4>3, <5>1 DEF Count
      <4>4. CASE j # i
        <5>1. u.ref[j] = o.ref[j] /\ u.cref[j] = o.cref[j] /\ u.active = o.active
          BY <2>3, <2>4, <4>4, WrapperFields
        <5>2. QED
          BY <4>1, <4>2, <5>1 DEF Count
      <4>5. QED
        BY <4>3, <4>4
    <3>3. QED
      BY <3>2 DEF h
  <2>13. QueueFits(u, q)
    <3>1. /\ FormFits(q) /\ FirstFits(o)
          /\ ClientsFit(o, q) /\ WsFits(o, q) /\ PcFits(o, q) /\ DcFits(o, q)
      BY <1>2 DEF QueueFits, q
    <3>2. \A w \in Ws \cup Pc : /\ u.data[w] = o.data[w] /\ u.bound[w] = o.bound[w]
      BY <2>3, <2>8, Disjoint
    <3>3. FirstFits(u)
      <4> SUFFICES ASSUME NEW j \in Sessions, u.state[<<"ws", j>>] = "none"
                   PROVE  u.state[<<"pc", j>>] = "none" /\ u.state[<<"out", j>>] = "none"
        BY DEF FirstFits
      <4>1. o.state[<<"ws", j>>] = "none" /\ u.state[<<"pc", j>>] = o.state[<<"pc", j>>]
        BY <2>6
      <4>2. j # i
        BY <2>9, <4>1
      <4>3. QED
        BY <2>7, <3>1, <4>1, <4>2 DEF FirstFits
    <3>4. ClientsFit(u, q)
      <4> SUFFICES ASSUME NEW j \in Sessions, NEW w \in Ws, Has(q, Plain("client", w, j))
                   PROVE  /\ u.bound[w] = <<"ws", j>>
                          /\ u.state[<<"pc", j>>] = "none" /\ u.state[<<"out", j>>] = "none"
                          /\ Single(q, Plain("client", w, j))
                          /\ u.state[<<"ws", j>>] = "closed" =>
                               Follows(q, Plain("client", w, j), Plain("wsClosed", w, j))
                          /\ \A k \in Sessions \ {j}, op \in WsOps :
                               Follows(q, Plain(op, w, k), Plain("client", w, j))
        BY DEF ClientsFit
      <4>1. /\ o.bound[w] = <<"ws", j>>
            /\ o.state[<<"pc", j>>] = "none" /\ o.state[<<"out", j>>] = "none"
            /\ Single(q, Plain("client", w, j))
            /\ o.state[<<"ws", j>>] = "closed" =>
                 Follows(q, Plain("client", w, j), Plain("wsClosed", w, j))
            /\ \A k \in Sessions \ {j}, op \in WsOps :
                 Follows(q, Plain(op, w, k), Plain("client", w, j))
        BY <3>1 DEF ClientsFit
      <4>2. j # i
        BY <2>9, <4>1
      <4>3. /\ u.state[<<"ws", j>>] = o.state[<<"ws", j>>]
            /\ u.state[<<"pc", j>>] = o.state[<<"pc", j>>]
            /\ u.state[<<"out", j>>] = o.state[<<"out", j>>] /\ u.bound[w] = o.bound[w]
        BY <2>6, <2>7, <3>2, <4>2
      <4>4. QED
        BY <4>1, <4>3
    <3>5. WsFits(u, q)
      <4>1. \A w \in Ws : u.data[w] = o.data[w] /\ u.bound[w] = o.bound[w]
        BY <3>2
      <4>2. \A j \in Sessions : u.state[<<"ws", j>>] = o.state[<<"ws", j>>]
        BY <2>6
      <4>3. QED
        BY <3>1, <4>1, <4>2, WsFitsSame
    <3>6. PcFits(u, q)
      BY <2>4, <2>6, <3>1, ZenonT(40) DEF PcFits
    <3>7. DcFits(u, q)
      <4>1. \A j \in Sessions, c \in Dc, p \in Pc : Has(q, Task("dataChannel", p, j, c)) =>
              u.bound[c] = o.bound[c] /\ u.data[c] = o.data[c]
        <5> SUFFICES ASSUME NEW j \in Sessions, NEW c \in Dc, NEW p \in Pc,
                            Has(q, Task("dataChannel", p, j, c))
                     PROVE  u.bound[c] = o.bound[c] /\ u.data[c] = o.data[c]
          OBVIOUS
        <5>1. o.bound[c] \in {<<"in", j>>, <<"twin", j>>}
          BY <3>1 DEF DcFits
        <5>2. c # d
          BY <2>3, <5>1, Disjoint, ObjectForm
        <5>3. QED
          BY <2>8, <5>2, Disjoint
      <4>2. QED
        BY <2>4, <3>1, <4>1 DEF DcFits
    <3>8. QED
      BY <3>1, <3>3, <3>4, <3>5, <3>6, <3>7 DEF QueueFits
  <2>14. u.reports = {} /\ \A j \in Sessions : u.received[j] \subseteq {j}
    BY <2>4 DEF WrapperInv, MessagesReachOwn
  <2>15. Ends(u, q)
    BY <2>1 DEF u
  <2>16. QED
    BY <2>5, <2>11, <2>12, <2>13, <2>14, <2>15, Kept DEF Fits
<1>6. QED
  BY <1>4, <1>5

\* The record u in which session i of t has been taken from its pool.
Begins(t, i, w, p, u) ==
  /\ u \in Owned
  /\ u.state = [t.state EXCEPT ![<<"pc", i>>] = "open"]
  /\ u.data = [t.data EXCEPT ![w] = i, ![p] = i]
  /\ u.bound = [t.bound EXCEPT ![p] = <<"pc", i>>]
  /\ u.reports = t.reports /\ u.received = t.received
  /\ u.ref = [t.ref EXCEPT ![i] = 3] /\ u.active = t.active \cup {i}
  /\ u.authenticated = t.authenticated
  /\ u.ws = [t.ws EXCEPT ![i] = w] /\ u.pc = [t.pc EXCEPT ![i] = p]
  /\ SameChannels(t, u)

\* A session begins.
LEMMA SessionInitForm ==
  ASSUME NEW t, Shape(t), NEW i \in Sessions, NEW w \in Ws, NEW p \in Pc
  PROVE  Begins(t, i, w, p, SessionInit(t, i, w, p))
<1> DEFINE s == [t.state EXCEPT ![<<"pc", i>>] = "open"]
           a == [t.data EXCEPT ![w] = i, ![p] = i]
           b == [t.bound EXCEPT ![p] = <<"pc", i>>]
           r == [t.ref EXCEPT ![i] = 3]
           c == t.active \cup {i}
           f == [t.ws EXCEPT ![i] = w]
           g == [t.pc EXCEPT ![i] = p]
           u == SessionInit(t, i, w, p)
<1>1. t \in Owned /\ w \in Wrappers /\ p \in Wrappers /\ <<"pc", i>> \in Objects
  BY Disjoint, ObjectForm DEF Shape
<1>2. /\ s \in [Objects -> {"none", "open", "closing", "closed"}]
      /\ a \in [Wrappers -> Sessions \cup {None}]
      /\ b \in [Wrappers -> Objects \cup {None}]
      /\ r \in [Sessions -> Nat] /\ c \in SUBSET Sessions
      /\ f \in [Sessions -> Ws \cup {None}] /\ g \in [Sessions -> Pc \cup {None}]
  BY <1>1, WrapperFields
<1> DEFINE t1 == [t EXCEPT !.ref[i] = 1, !.active = @ \cup {i}]
           t2 == WsInit(t1, i, w)
           t3 == CreatePc(t2, i, p)
           r1 == [t.ref EXCEPT ![i] = 1]
           r2 == [r1 EXCEPT ![i] = @ + 1]
           a2 == [t.data EXCEPT ![w] = i]
<1>3. t1 = [t EXCEPT !.ref = r1, !.active = c]
  BY <1>1 DEF Owned
<1>4. t2 = [t EXCEPT !.ref = r2, !.active = c, !.ws = f, !.data = a2]
  <2> HIDE DEF t1, r1, c
  <2>1. t1.ref = r1 /\ t1.ws = t.ws /\ t1.data = t.data
    BY <1>1, <1>3 DEF Owned
  <2>2. t2 = [t1 EXCEPT !.ws = f, !.data = a2, !.ref = r2]
    BY <2>1 DEF WsInit
  <2> HIDE DEF t2, f, a2, r2
  <2>3. QED
    BY <1>1, <1>3, <2>2 DEF Owned
<1>5. t3 = [t EXCEPT !.ref = r2, !.active = c, !.ws = f, !.data = a, !.bound = b, !.state = s]
  <2> HIDE DEF t2, r2, c, f
  <2>1. t2.data = a2 /\ t2.bound = t.bound /\ t2.state = t.state
    <3> HIDE DEF a2
    <3>1. QED
      BY <1>1, <1>4 DEF Owned
  <2>2. t3 = [t2 EXCEPT !.bound = b, !.state = s, !.data = a]
    BY <2>1 DEF CreatePc, Bind
  <2> HIDE DEF t3, a, b, s, a2
  <2>3. QED
    BY <1>1, <1>4, <2>2 DEF Owned
<1>6. [r2 EXCEPT ![i] = @ + 1] = r
  <2>1. r1 \in [Sessions -> Nat] /\ r1[i] = 1
    BY <1>1, WrapperFields
  <2>2. r2 \in [Sessions -> Nat] /\ r2[i] = 2
    BY <2>1
  <2>3. [r2 EXCEPT ![i] = @ + 1] = [r2 EXCEPT ![i] = 3]
    BY <2>2
  <2>4. [r2 EXCEPT ![i] = 3] = [r1 EXCEPT ![i] = 3]
    BY <2>1
  <2>5. [r1 EXCEPT ![i] = 3] = r
    OBVIOUS
  <2>6. QED
    BY <2>3, <2>4, <2>5
<1>7. u = [t EXCEPT !.ref = r, !.active = c, !.ws = f, !.pc = g,
                    !.data = a, !.bound = b, !.state = s]
  <2> HIDE DEF t3, r, r2, c, f, a, b, s
  <2>1. t3.pc = t.pc /\ t3.ref = r2
    BY <1>1, <1>5 DEF Owned
  <2>2. u = [t3 EXCEPT !.pc = g, !.ref = r]
    BY <1>6, <2>1 DEF SessionInit, PcInit, t3
  <2> HIDE DEF u, g
  <2>3. QED
    BY <1>1, <1>5, <2>2 DEF Owned
<1> HIDE DEF s, a, b, r, c, f, g, u
<1>8. u \in Owned
  BY <1>1, <1>2, <1>7 DEF Owned
<1>9. /\ u.state = s /\ u.data = a /\ u.bound = b /\ u.reports = t.reports
      /\ u.received = t.received /\ u.ref = r /\ u.active = c
      /\ u.authenticated = t.authenticated /\ u.ws = f /\ u.pc = g /\ SameChannels(t, u)
  BY <1>1, <1>7 DEF Owned, SameChannels
<1>10. QED
  BY <1>8, <1>9 DEF s, a, b, r, c, f, g, u, Begins

\* A session that begins takes its shape.
LEMMA SessionInitShape ==
  ASSUME NEW t, Shape(t), NEW i \in Sessions, NEW w \in Ws, NEW p \in Pc,
         t.bound[w] = <<"ws", i>>, t.bound[p] = None,
         t.state[<<"pc", i>>] = "none", t.state[<<"out", i>>] = "none"
  PROVE  Shape(SessionInit(t, i, w, p))
<1> DEFINE u == SessionInit(t, i, w, p)
<1>0. Begins(t, i, w, p, u)
  BY SessionInitForm
<1> HIDE DEF u
<1>1. /\ u \in Owned
      /\ u.state = [t.state EXCEPT ![<<"pc", i>>] = "open"]
      /\ u.data = [t.data EXCEPT ![w] = i, ![p] = i]
      /\ u.bound = [t.bound EXCEPT ![p] = <<"pc", i>>]
      /\ u.ref = [t.ref EXCEPT ![i] = 3] /\ u.active = t.active \cup {i}
      /\ u.authenticated = t.authenticated
      /\ u.ws = [t.ws EXCEPT ![i] = w] /\ u.pc = [t.pc EXCEPT ![i] = p]
      /\ u.listed = t.listed /\ u.cref = t.cref /\ u.cactive = t.cactive
      /\ u.outgoing = t.outgoing /\ u.incoming = t.incoming
  BY <1>0 DEF Begins, SameChannels
<1>2. /\ t \in Owned /\ BoundFits(t) /\ DataFits(t)
      /\ \A j \in Sessions : SessionFits(t, j) /\ ChannelFits(t, j)
  BY DEF Shape
<1>3. /\ w \in Wrappers /\ p \in Wrappers /\ w # p /\ w # None /\ p # None
      /\ p \notin Ws /\ p \notin Dc /\ w \notin Dc
      /\ <<"pc", i>> # None /\ <<"pc", i>> \in Objects
  BY Disjoint, ObjectForm
<1>4. /\ t.ref[i] = 0 /\ t.cref[i] = 0 /\ t.ws[i] = None /\ t.pc[i] = None
      /\ t.outgoing[i] = None /\ t.incoming[i] = None
      /\ i \notin t.active /\ i \notin t.authenticated
      /\ i \notin t.listed /\ i \notin t.cactive
      /\ \A v \in Wrappers : t.data[v] # i
  BY Pooled
<1>5. /\ u.bound[p] = <<"pc", i>> /\ u.data[p] = i /\ u.data[w] = i
      /\ \A v \in Wrappers : v # p => u.bound[v] = t.bound[v]
      /\ \A v \in Wrappers : v # p /\ v # w => u.data[v] = t.data[v]
  BY <1>1, <1>2, <1>3, WrapperFields
<1>6. /\ u.state[<<"pc", i>>] = "open"
      /\ \A x \in Objects : x # <<"pc", i>> => u.state[x] = t.state[x]
  BY <1>1, <1>2, <1>3, WrapperFields
<1>7. \A v \in Wrappers : t.bound[v] # <<"pc", i>>
  BY <1>2, <1>3 DEF BoundFits
<1>8. t.data[p] = None /\ \A j \in Sessions : t.data[w] # j
  <2>1. t.data[p] = None
    BY <1>3, FreeData
  <2>2. ASSUME NEW j \in Sessions, t.data[w] = j PROVE FALSE
    <3>1. t.bound[w] = <<"ws", j>>
      BY <1>3, <2>2, DataOwn
    <3>2. j = i
      BY <3>1, ObjectForm
    <3>3. QED
      BY <1>3, <1>4, <2>2, <3>2
  <2>3. QED
    BY <2>1, <2>2
<1>9. /\ u.ws[i] = w /\ u.pc[i] = p /\ u.ref[i] = 3
      /\ \A j \in Sessions : j # i =>
           u.ws[j] = t.ws[j] /\ u.pc[j] = t.pc[j] /\ u.ref[j] = t.ref[j]
  BY <1>1, <1>2, WrapperFields
<1>10. BoundFits(u)
  <2>1. \A v \in Ws \cup Dc : v \in Wrappers /\ u.bound[v] = t.bound[v]
    BY <1>3, <1>5, Disjoint
  <2>2. ASSUME NEW v \in Pc, u.bound[v] # None
        PROVE  \E j \in Sessions : u.bound[v] = <<"pc", j>>
    <3>1. CASE v = p
      BY <1>5, <3>1
    <3>2. CASE v # p
      <4>1. u.bound[v] = t.bound[v]
        BY <1>5, <3>2, Disjoint
      <4>2. QED
        BY <1>2, <2>2, <4>1 DEF BoundFits
    <3>3. QED
      BY <3>1, <3>2
  <2>3. ASSUME NEW v \in Wrappers, u.bound[v] # None PROVE u.state[u.bound[v]] # "none"
    <3>1. CASE v = p
      BY <1>5, <1>6, <3>1
    <3>2. CASE v # p
      <4>1. /\ u.bound[v] = t.bound[v] /\ t.bound[v] \in Objects
            /\ t.state[t.bound[v]] # "none"
        BY <1>2, <1>5, <2>3, <3>2, WrapperFields DEF BoundFits
      <4>2. QED
        BY <1>6, <4>1
    <3>3. QED
      BY <3>1, <3>2
  <2>4. ASSUME NEW v \in Wrappers, NEW y \in Wrappers, u.bound[v] # None,
               u.bound[v] = u.bound[y]
        PROVE  v = y
    BY <1>2, <1>5, <1>7, <2>4 DEF BoundFits
  <2>5. ASSUME NEW v \in Wrappers, NEW j \in Sessions, u.bound[v] = <<"pc", j>>
        PROVE  u.pc[j] = v
    <3>1. CASE v = p
      <4>1. j = i
        BY <1>5, <2>5, <3>1, ObjectForm
      <4>2. QED
        BY <1>9, <3>1, <4>1
    <3>2. CASE v # p
      <4>1. t.bound[v] = <<"pc", j>>
        BY <1>5, <2>5, <3>2
      <4>2. j # i /\ t.pc[j] = v
        BY <1>2, <1>7, <4>1 DEF BoundFits
      <4>3. QED
        BY <1>9, <4>2
    <3>3. QED
      BY <3>1, <3>2
  <2>6. \A v \in Ws : u.bound[v] # None => \E j \in Sessions : u.bound[v] = <<"ws", j>>
    BY <1>2, <2>1 DEF BoundFits
  <2>7. \A v \in Dc : u.bound[v] # None =>
          \E j \in Sessions, k \in {"out", "in", "twin"} : u.bound[v] = <<k, j>>
    BY <1>2, <2>1 DEF BoundFits
  <2>8. QED
    BY <2>2, <2>3, <2>4, <2>5, <2>6, <2>7 DEF BoundFits
<1>11. DataFits(u)
  <2> SUFFICES ASSUME NEW v \in Wrappers, NEW j \in Sessions, u.data[v] = j
               PROVE  v \in {u.ws[j], u.pc[j], u.outgoing[j], u.incoming[j]}
    BY DEF DataFits
  <2>1. CASE v = w \/ v = p
    BY <1>5, <1>9, <2>1
  <2>2. CASE v # w /\ v # p
    <3>1. t.data[v] = j
      BY <1>5, <2>2
    <3>2. j # i /\ v \in {t.ws[j], t.pc[j], t.outgoing[j], t.incoming[j]}
      BY <1>2, <1>4, <3>1 DEF DataFits
    <3>3. QED
      BY <1>1, <1>9, <3>2
  <2>3. QED
    BY <2>1, <2>2
<1>12. ASSUME NEW j \in Sessions PROVE SessionFits(u, j) /\ ChannelFits(u, j)
  <2>1. SessionFits(t, j) /\ ChannelFits(t, j)
    BY <1>2
  <2>2. /\ t.ws[j] \in Ws \cup {None} /\ t.pc[j] \in Pc \cup {None}
        /\ t.outgoing[j] \in Dc \cup {None} /\ t.incoming[j] \in Dc \cup {None}
    BY <1>2, WrapperFields
  <2>3. \A v \in Wrappers : t.data[v] = j => u.data[v] = j /\ u.bound[v] = t.bound[v]
    <3> SUFFICES ASSUME NEW v \in Wrappers, t.data[v] = j
                 PROVE  u.data[v] = j /\ u.bound[v] = t.bound[v]
      OBVIOUS
    <3>1. v # w /\ v # p
      BY <1>8, Disjoint
    <3>2. QED
      BY <1>5, <3>1
  <2>4. u.state[<<"out", j>>] = t.state[<<"out", j>>]
    BY <1>6, ObjectForm
  <2>5. CASE j = i
    <3>1. SessionFits(u, j)
      BY <1>3, <1>5, <1>9, <2>4, <2>5 DEF SessionFits
    <3>2. ChannelFits(u, j)
      BY <1>1, <1>4, <2>5 DEF ChannelFits
    <3>3. QED
      BY <3>1, <3>2
  <2>6. CASE j # i
    <3>1. /\ t.ws[j] # None => u.bound[t.ws[j]] = <<"ws", j>> /\ u.data[t.ws[j]] = j
          /\ t.pc[j] # None => u.bound[t.pc[j]] = <<"pc", j>> /\ u.data[t.pc[j]] = j
      BY <2>1, <2>2, <2>3, Disjoint DEF SessionFits
    <3>2. j \in u.active <=> j \in t.active
      BY <1>1, <2>6
    <3>3. SessionFits(u, j)
      BY <1>1, <1>9, <2>1, <2>4, <2>6, <3>1, <3>2 DEF SessionFits
    <3>4. /\ t.outgoing[j] # None =>
               u.bound[t.outgoing[j]] = <<"out", j>> /\ u.data[t.outgoing[j]] = j
          /\ t.incoming[j] # None =>
               /\ u.bound[t.incoming[j]] \in {<<"in", j>>, <<"twin", j>>}
               /\ u.data[t.incoming[j]] = j
      BY <2>1, <2>2, <2>3, Disjoint DEF ChannelFits
    <3>5. ChannelFits(u, j)
      BY <1>1, <2>1, <3>4 DEF ChannelFits
    <3>6. QED
      BY <3>3, <3>5
  <2>7. QED
    BY <2>5, <2>6
<1>13. QED
  BY <1>1, <1>10, <1>11, <1>12 DEF Shape, u

\* What is known of a client whose task is taken.
LEMMA ClientTaken ==
  ASSUME WrapperInv, tasks # <<>>, Event.op = "client",
         NEW i, i = Event.of, NEW w, w = Event.w, NEW q, q = Tail(tasks)
  PROVE  /\ i \in Sessions /\ w \in Ws /\ Event = Plain("client", w, i)
         /\ Shape(o) /\ RefsAre(o, Holders(o, q)) /\ QueueFits(o, q)
         /\ o.bound[w] = <<"ws", i>> /\ o.data[w] = None
         /\ o.ref[i] = 0 /\ o.pc[i] = None /\ o.ws[i] = None
         /\ o.state[<<"pc", i>>] = "none" /\ o.state[<<"out", i>>] = "none"
         /\ o.state[<<"ws", i>>] # "none"
         /\ o.state[<<"ws", i>>] = "closed" => Has(q, Plain("wsClosed", w, i))
         /\ \A j \in Sessions, op \in WsOps : j # i => ~Has(q, Plain(op, w, j))
         /\ \A j \in Sessions, v \in Ws : Has(q, Plain("client", v, j)) => j # i /\ v # w
<1>1. /\ Shape(o) /\ RefsAre(o, Holders(o, tasks)) /\ QueueFits(o, tasks)
      /\ FormFits(tasks) /\ ClientsFit(o, tasks) /\ QueueFits(o, q)
      /\ Event \in TaskRecords /\ Event = Head(tasks) /\ Has(tasks, Event)
      /\ Event = Task(Event.op, Event.w, Event.of, Event.dc)
      /\ i \in Sessions
  BY Taken
<1>2. w \in Ws /\ Event = Plain("client", w, i)
  BY <1>1 DEF FormFits, Plain
<1>3. Holders(o, q) = Holders(o, tasks)
  BY <1>1, TailHolders
<1>4. /\ o.bound[w] = <<"ws", i>> /\ o.data[w] = None
      /\ o.ref[i] = 0 /\ o.pc[i] = None /\ o.ws[i] = None
  BY <1>1, <1>2, Announcement
<1>5. /\ o.state[<<"pc", i>>] = "none" /\ o.state[<<"out", i>>] = "none"
      /\ Single(tasks, Event)
      /\ o.state[<<"ws", i>>] = "closed" => Follows(tasks, Event, Plain("wsClosed", w, i))
      /\ \A j \in Sessions \ {i}, op \in WsOps : Follows(tasks, Plain(op, w, j), Event)
  BY <1>1, <1>2 DEF ClientsFit
<1>6. w \in Wrappers
  BY <1>2, Disjoint
<1>7. /\ BoundFits(o) /\ o.bound[w] # None
      /\ o.state[<<"ws", i>>] # "none"
  <2>1. BoundFits(o)
    BY <1>1 DEF Shape
  <2>2. o.bound[w] # None
    <3>1. <<"ws", i>> \in Objects
      BY <1>1, ObjectForm
    <3>2. QED
      BY <1>4, <3>1, Disjoint
  <2>3. QED
    BY <1>4, <1>6, <2>1, <2>2 DEF BoundFits
<1>8. /\ \A x : Has(tasks, x) <=> x = Event \/ Has(q, x)
      /\ ~Has(q, Event)
      /\ \A x : Follows(tasks, Event, x) => Has(q, x)
      /\ \A x : Follows(tasks, x, Event) => ~Has(tasks, x)
  BY <1>1, <1>5, TakeForm
<1>9. ASSUME NEW j \in Sessions, NEW op \in WsOps, j # i
      PROVE  ~Has(q, Plain(op, w, j))
  BY <1>5, <1>8, <1>9
<1>10. ASSUME NEW j \in Sessions, NEW v \in Ws, Has(q, Plain("client", v, j))
       PROVE  j # i /\ v # w
  <2>1. o.bound[v] = <<"ws", j>>
    BY <1>1, <1>10 DEF QueueFits, ClientsFit
  <2>2. v = w \/ j = i => v = w /\ j = i
    <3>1. v \in Wrappers
      BY Disjoint
    <3>2. CASE v = w
      BY <1>4, <2>1, <3>2, ObjectForm
    <3>3. CASE j = i
      BY <1>4, <1>6, <1>7, <2>1, <3>1, <3>3 DEF BoundFits
    <3>4. QED
      BY <3>2, <3>3
  <2>3. ~(v = w /\ j = i)
    BY <1>2, <1>8, <1>10
  <2>4. QED
    BY <2>2, <2>3
<1>11. QED
  BY <1>1, <1>2, <1>3, <1>4, <1>5, <1>7, <1>8, <1>9, <1>10

\* The session of a client begins: its two objects hold it.
LEMMA ClientBegins ==
  ASSUME WrapperInv, tasks # <<>>, Event.op = "client", NEW p \in Free(Pc),
         Ends(SessionInit(o, Event.of, Event.w, p), Tail(tasks))
  PROVE  WrapperInv'
<1> DEFINE i == Event.of
           w == Event.w
           q == Tail(tasks)
           u == SessionInit(o, i, w, p)
<1>1. /\ i \in Sessions /\ w \in Ws
      /\ Shape(o) /\ RefsAre(o, Holders(o, q)) /\ QueueFits(o, q)
      /\ o.bound[w] = <<"ws", i>> /\ o.data[w] = None
      /\ o.ref[i] = 0 /\ o.pc[i] = None /\ o.ws[i] = None
      /\ o.state[<<"pc", i>>] = "none" /\ o.state[<<"out", i>>] = "none"
      /\ o.state[<<"ws", i>>] # "none"
      /\ o.state[<<"ws", i>>] = "closed" => Has(q, Plain("wsClosed", w, i))
      /\ \A j \in Sessions, op \in WsOps : j # i => ~Has(q, Plain(op, w, j))
      /\ \A j \in Sessions, v \in Ws : Has(q, Plain("client", v, j)) => j # i /\ v # w
  BY ClientTaken, ZenonT(40)
<1>2. /\ p \in Pc /\ o.bound[p] = None /\ p \in Wrappers /\ w \in Wrappers
      /\ p # None /\ w # None /\ p \notin Ws /\ p \notin Dc /\ w \notin Pc /\ w \notin Dc
      /\ p # w /\ i # None
  BY <1>1, Disjoint DEF Free
<1>3. Ends(u, q)
  OBVIOUS
<1> HIDE DEF i, w, q
<1>4. Shape(u)
  BY <1>1, <1>2, SessionInitShape
<1>5. Begins(o, i, w, p, u)
  BY <1>1, <1>2, SessionInitForm
<1> HIDE DEF u
<1>6. /\ u.state = [o.state EXCEPT ![<<"pc", i>>] = "open"]
      /\ u.data = [o.data EXCEPT ![w] = i, ![p] = i]
      /\ u.bound = [o.bound EXCEPT ![p] = <<"pc", i>>]
      /\ u.reports = o.reports /\ u.received = o.received
      /\ u.ref = [o.ref EXCEPT ![i] = 3] /\ u.active = o.active \cup {i}
      /\ u.ws = [o.ws EXCEPT ![i] = w] /\ u.pc = [o.pc EXCEPT ![i] = p]
      /\ u.cref = o.cref /\ u.incoming = o.incoming
  BY <1>5 DEF Begins, SameChannels
<1>7. o \in Owned
  BY <1>1 DEF Shape
<1>8. /\ u.state[<<"pc", i>>] = "open"
      /\ \A j \in Sessions : /\ u.state[<<"ws", j>>] = o.state[<<"ws", j>>]
                             /\ u.state[<<"out", j>>] = o.state[<<"out", j>>]
                             /\ j # i => u.state[<<"pc", j>>] = o.state[<<"pc", j>>]
  <2>1. /\ <<"pc", i>> \in Objects
        /\ \A j \in Sessions :
             /\ <<"ws", j>> \in Objects /\ <<"ws", j>> # <<"pc", i>>
             /\ <<"out", j>> \in Objects /\ <<"out", j>> # <<"pc", i>>
             /\ <<"pc", j>> \in Objects /\ (j # i => <<"pc", j>> # <<"pc", i>>)
    BY <1>1, ObjectForm
  <2>2. QED
    BY <1>6, <1>7, <2>1, WrapperFields
<1>9. /\ \A v \in Wrappers : v # p => u.bound[v] = o.bound[v]
      /\ \A v \in Wrappers : v # p /\ v # w => u.data[v] = o.data[v]
      /\ u.data[w] = i /\ u.data[p] = i
  BY <1>2, <1>6, <1>7, WrapperFields
<1>10. /\ u.ws[i] = w /\ u.pc[i] = p /\ u.ref[i] = 3
       /\ \A j \in Sessions : j # i =>
            u.ws[j] = o.ws[j] /\ u.pc[j] = o.pc[j] /\ u.ref[j] = o.ref[j]
  BY <1>1, <1>6, <1>7, WrapperFields
<1>11. /\ Live(u, "pc", i)
       /\ \A j \in Sessions : /\ Live(u, "ws", j) <=> Live(o, "ws", j)
                              /\ j # i => (Live(u, "pc", j) <=> Live(o, "pc", j))
  BY <1>8 DEF Live
<1>12. /\ Holders(u, q)[i] = 2
       /\ \A j \in Sessions : j # i => Holders(u, q)[j] = Holders(o, q)[j]
  <2>1. WsHolds(u, q, i) /\ PcHolds(u, q, i)
    <3>1. u.state[<<"ws", i>>] \in {"open", "closing", "closed"}
      BY <1>1, <1>7, <1>8, WrapperFields, ObjectForm
    <3>2. Live(u, "ws", i) \/ Has(q, Plain("wsClosed", w, i))
      BY <1>1, <1>8, <3>1 DEF Live
    <3>3. QED
      BY <1>2, <1>10, <1>11, <3>2 DEF WsHolds, PcHolds
  <2>2. \A j \in Sessions : j # i => /\ WsHolds(u, q, j) <=> WsHolds(o, q, j)
                                     /\ PcHolds(u, q, j) <=> PcHolds(o, q, j)
    BY <1>10, <1>11 DEF WsHolds, PcHolds
  <2>3. QED
    BY <1>1, <2>1, <2>2, HoldersType, SMTT(40) DEF Count
<1>13. RefsAre(u, Holders(u, q))
  <2> SUFFICES ASSUME NEW j \in Sessions
               PROVE  /\ u.ref[j] = Count(j \in u.active) + Holders(u, q)[j]
                                      + Count(u.cref[j] > 0)
                      /\ u.ref[j] > 0 =>
                           Holders(u, q)[j] >= Count(Live(u, "ws", j)) + Count(Live(u, "pc", j))
    BY DEF RefsAre
  <2>1. CASE j = i
    <3>1. u.cref[j] = 0
      BY <1>1, <1>6, <2>1, Pooled
    <3>2. j \in u.active
      BY <1>6, <2>1
    <3>3. QED
      BY <1>10, <1>12, <2>1, <3>1, <3>2 DEF Count
  <2>2. CASE j # i
    <3>1. /\ o.ref[j] = Count(j \in o.active) + Holders(o, q)[j] + Count(o.cref[j] > 0)
          /\ o.ref[j] > 0 =>
               Holders(o, q)[j] >= Count(Live(o, "ws", j)) + Count(Live(o, "pc", j))
      BY <1>1 DEF RefsAre
    <3>2. /\ u.ref[j] = o.ref[j] /\ u.cref[j] = o.cref[j]
          /\ j \in u.active <=> j \in o.active
      BY <1>6, <1>10, <2>2
    <3>3. /\ Live(u, "ws", j) <=> Live(o, "ws", j)
          /\ Live(u, "pc", j) <=> Live(o, "pc", j)
          /\ Holders(u, q)[j] = Holders(o, q)[j]
      BY <1>11, <1>12, <2>2
    <3>4. QED
      BY <3>1, <3>2, <3>3 DEF Count
  <2>3. QED
    BY <2>1, <2>2
<1>14. QueueFits(u, q)
  <2>1. /\ FormFits(q) /\ FirstFits(o)
        /\ ClientsFit(o, q) /\ WsFits(o, q) /\ PcFits(o, q) /\ DcFits(o, q)
    BY <1>1 DEF QueueFits
  <2>2. FirstFits(u)
    BY <1>1, <1>8, <2>1 DEF FirstFits
  <2>3. ClientsFit(u, q)
    <3> SUFFICES ASSUME NEW j \in Sessions, NEW v \in Ws, Has(q, Plain("client", v, j))
                 PROVE  /\ u.bound[v] = <<"ws", j>>
                        /\ u.state[<<"pc", j>>] = "none" /\ u.state[<<"out", j>>] = "none"
                        /\ Single(q, Plain("client", v, j))
                        /\ u.state[<<"ws", j>>] = "closed" =>
                             Follows(q, Plain("client", v, j), Plain("wsClosed", v, j))
                        /\ \A k \in Sessions \ {j}, op \in WsOps :
                             Follows(q, Plain(op, v, k), Plain("client", v, j))
      BY DEF ClientsFit
    <3>1. j # i
      BY <1>1
    <3>2. /\ o.bound[v] = <<"ws", j>>
          /\ o.state[<<"pc", j>>] = "none" /\ o.state[<<"out", j>>] = "none"
          /\ Single(q, Plain("client", v, j))
          /\ o.state[<<"ws", j>>] = "closed" =>
               Follows(q, Plain("client", v, j), Plain("wsClosed", v, j))
          /\ \A k \in Sessions \ {j}, op \in WsOps :
               Follows(q, Plain(op, v, k), Plain("client", v, j))
      BY <2>1 DEF ClientsFit
    <3>3. /\ u.state[<<"ws", j>>] = o.state[<<"ws", j>>]
          /\ u.state[<<"pc", j>>] = o.state[<<"pc", j>>]
          /\ u.state[<<"out", j>>] = o.state[<<"out", j>>]
      BY <1>8, <3>1
    <3>4. u.bound[v] = o.bound[v]
      BY <1>2, <1>9, Disjoint
    <3>5. QED
      BY <3>2, <3>3, <3>4
  <2>4. WsFits(u, q)
    <3> SUFFICES ASSUME NEW j \in Sessions, NEW v \in Ws, NEW op \in WsOps,
                        Has(q, Plain(op, v, j))
                 PROVE  /\ u.data[v] \in {j, None}
                        /\ u.state[<<"ws", j>>] # "none"
                        /\ \A x \in Ws : u.bound[x] = <<"ws", j>> => x = v
                        /\ op = "wsClosed" =>
                             /\ u.state[<<"ws", j>>] = "closed"
                             /\ Single(q, Plain("wsClosed", v, j))
      BY DEF WsFits
    <3>1. /\ o.data[v] \in {j, None}
          /\ o.state[<<"ws", j>>] # "none"
          /\ \A x \in Ws : o.bound[x] = <<"ws", j>> => x = v
          /\ op = "wsClosed" =>
               /\ o.state[<<"ws", j>>] = "closed"
               /\ Single(q, Plain("wsClosed", v, j))
      BY <2>1 DEF WsFits
    <3>2. u.state[<<"ws", j>>] = o.state[<<"ws", j>>]
      BY <1>8
    <3>3. \A x \in Ws : u.bound[x] = o.bound[x]
      BY <1>2, <1>9, Disjoint
    <3>4. u.data[v] \in {j, None}
      <4>1. v \in Wrappers /\ v # p
        BY <1>2, Disjoint
      <4>2. CASE v = w
        BY <1>1, <1>9, <4>2
      <4>3. CASE v # w
        BY <1>9, <3>1, <4>1, <4>3
      <4>4. QED
        BY <4>2, <4>3
    <3>5. QED
      BY <3>1, <3>2, <3>3, <3>4
  <2>5. PcFits(u, q)
    <3>1. ASSUME NEW j \in Sessions, NEW v \in Pc, o.pc[j] = v
          PROVE  u.pc[j] = v /\ u.state[<<"pc", j>>] = o.state[<<"pc", j>>]
      <4>1. v # None
        BY Disjoint
      <4>2. j # i
        BY <1>1, <3>1, <4>1
      <4>3. QED
        BY <1>8, <1>10, <3>1, <4>2
    <3>2. ASSUME NEW j \in Sessions, NEW v \in Pc, Has(q, Plain("pcClosed", v, j))
          PROVE  /\ u.pc[j] = v /\ u.state[<<"pc", j>>] = "closed"
                 /\ Single(q, Plain("pcClosed", v, j))
      <4>1. /\ o.pc[j] = v /\ o.state[<<"pc", j>>] = "closed"
            /\ Single(q, Plain("pcClosed", v, j))
        BY <2>1, <3>2 DEF PcFits
      <4>2. QED
        BY <3>1, <4>1
    <3>3. ASSUME NEW j \in Sessions, NEW v \in Pc, NEW op \in PcOps, NEW d \in Dc,
                 Has(q, Task(op, v, j, d))
          PROVE  /\ u.pc[j] = v
                 /\ u.state[<<"pc", j>>] = "closed" =>
                      Follows(q, Task(op, v, j, d), Plain("pcClosed", v, j))
      <4>1. /\ o.pc[j] = v
            /\ o.state[<<"pc", j>>] = "closed" =>
                 Follows(q, Task(op, v, j, d), Plain("pcClosed", v, j))
        BY <2>1, <3>3 DEF PcFits
      <4>2. QED
        BY <3>1, <4>1
    <3>4. QED
      BY <3>2, <3>3 DEF PcFits
  <2>6. DcFits(u, q)
    <3>1. \A d \in Dc : u.bound[d] = o.bound[d] /\ u.data[d] = o.data[d]
      BY <1>2, <1>9, Disjoint
    <3>2. QED
      BY <1>6, <2>1, <3>1 DEF DcFits
  <2>7. QED
    BY <2>1, <2>2, <2>3, <2>4, <2>5, <2>6 DEF QueueFits
<1>15. u.reports = {} /\ \A j \in Sessions : u.received[j] \subseteq {j}
  BY <1>6 DEF WrapperInv, MessagesReachOwn
<1>16. Fits(u, q)
  BY <1>4, <1>13, <1>14 DEF Fits
<1>17. QED
  BY <1>3, <1>15, <1>16, Kept
-----------------------------------------------------------------------------
(***************************************************************************)
(* A task is queued.                                                       *)
(***************************************************************************)
\* What the queue q becomes when x is appended.
Queued(q, x, n) ==
  /\ n \in Seq(TaskRecords)
  /\ \A y : Has(n, y) <=> Has(q, y) \/ y = x
  /\ \A y : Single(q, y) /\ y # x => Single(n, y)
  /\ ~Has(q, x) => Single(n, x)
  /\ \A y, z : y # x /\ (Follows(q, y, z) \/ z = x) => Follows(n, y, z)

\* What appending does to the queue.
LEMMA QueuedForm ==
  ASSUME NEW q \in Seq(TaskRecords), NEW x \in TaskRecords
  PROVE  Queued(q, x, Append(q, x))
<1> DEFINE n == Append(q, x)
<1>1. n \in Seq(TaskRecords)
  BY AppendForm
<1>2. \A y : Has(n, y) <=> Has(q, y) \/ y = x
  BY HasAppend
<1>3. \A y : Single(q, y) /\ (y = x => ~Has(q, x)) => Single(n, y)
  BY SingleAppend
<1>4. ~Has(q, x) => Single(q, x)
  BY DEF Has, Single
<1>5. \A y, z : y # x /\ (Follows(q, y, z) \/ z = x) => Follows(n, y, z)
  BY FollowsAppend
<1> HIDE DEF n
<1>6. QED
  BY <1>1, <1>2, <1>3, <1>4, <1>5 DEF Queued, n

\* The task x names wrappers of the right pool.
Formed(x) ==
  /\ x \in TaskRecords
  /\ x.op \in {"client", "wsMessage", "wsClosed"} => x.w \in Ws /\ x.dc = None
  /\ x.op = "pcClosed" => x.w \in Pc /\ x.dc = None
  /\ x.op \in PcOps => x.w \in Pc /\ x.dc \in Dc
  /\ x.op \in DcOps => x.w \in Dc /\ x.dc = None

\* The tasks of each kind are formed.
LEMMA FormedTasks ==
  ASSUME NEW i \in Sessions
  PROVE  /\ \A w \in Ws, op \in WsOps \cup {"client"} : Formed(Plain(op, w, i))
         /\ \A p \in Pc : Formed(Plain("pcClosed", p, i))
         /\ \A p \in Pc, d \in Dc, op \in PcOps : Formed(Task(op, p, i, d))
         /\ \A d \in Dc, op \in DcOps : Formed(Plain(op, d, i))
<1>1. \A w \in Ws, op \in WsOps \cup {"client"} : Formed(Plain(op, w, i))
  BY Disjoint DEF Formed, Plain, Task, TaskRecords, TaskOps, WsOps, PcOps, DcOps
<1>2. \A p \in Pc : Formed(Plain("pcClosed", p, i))
  BY Disjoint DEF Formed, Plain, Task, TaskRecords, TaskOps, WsOps, PcOps, DcOps
<1>3. \A p \in Pc, d \in Dc, op \in PcOps : Formed(Task(op, p, i, d))
  BY Disjoint DEF Formed, Plain, Task, TaskRecords, TaskOps, WsOps, PcOps, DcOps
<1>4. \A d \in Dc, op \in DcOps : Formed(Plain(op, d, i))
  BY Disjoint DEF Formed, Plain, Task, TaskRecords, TaskOps, WsOps, PcOps, DcOps
<1>5. QED
  BY <1>1, <1>2, <1>3, <1>4

\* The form of the queue.
LEMMA FormQueued ==
  ASSUME NEW q, FormFits(q), NEW x, Formed(x), NEW n, Queued(q, x, n)
  PROVE  FormFits(n)
  BY DEF FormFits, Formed, Queued

\* What x has to fit for the clients of the queue.
ClientJoins(u, q, x) ==
  /\ x.op = "client" =>
       /\ u.bound[x.w] = <<"ws", x.of>> /\ u.state[<<"ws", x.of>>] # "closed"
       /\ u.state[<<"pc", x.of>>] = "none" /\ u.state[<<"out", x.of>>] = "none"
       /\ ~Has(q, x)
  /\ x.op \in WsOps => u.bound[x.w] \in {<<"ws", x.of>>, None}

\* The clients of the queue.
LEMMA ClientsQueued ==
  ASSUME NEW u, NEW q, ClientsFit(u, q), NEW x, Formed(x), ClientJoins(u, q, x),
         NEW n, Queued(q, x, n)
  PROVE  ClientsFit(u, n)
<1> SUFFICES ASSUME NEW i \in Sessions, NEW w \in Ws, Has(n, Plain("client", w, i))
             PROVE  /\ u.bound[w] = <<"ws", i>>
                    /\ u.state[<<"pc", i>>] = "none" /\ u.state[<<"out", i>>] = "none"
                    /\ Single(n, Plain("client", w, i))
                    /\ u.state[<<"ws", i>>] = "closed" =>
                         Follows(n, Plain("client", w, i), Plain("wsClosed", w, i))
                    /\ \A j \in Sessions \ {i}, op \in WsOps :
                         Follows(n, Plain(op, w, j), Plain("client", w, i))
  BY DEF ClientsFit
<1> DEFINE c == Plain("client", w, i)
<1>1. /\ c.op = "client" /\ c.w = w /\ c.of = i
      /\ \A op \in WsOps : \A j : /\ Plain(op, w, j).op = op /\ Plain(op, w, j).w = w
                                  /\ Plain(op, w, j).of = j /\ Plain(op, w, j) # c
  BY TaskIdentity DEF Plain, WsOps
<1>2. CASE c = x
  <2>1. /\ u.bound[w] = <<"ws", i>> /\ u.state[<<"ws", i>>] # "closed"
        /\ u.state[<<"pc", i>>] = "none" /\ u.state[<<"out", i>>] = "none"
        /\ ~Has(q, x)
    BY <1>1, <1>2 DEF ClientJoins
  <2>2. Single(n, c)
    BY <1>2, <2>1 DEF Queued
  <2>3. \A j \in Sessions \ {i}, op \in WsOps : Follows(n, Plain(op, w, j), c)
    BY <1>1, <1>2 DEF Queued
  <2>4. QED
    BY <2>1, <2>2, <2>3
<1>3. CASE c # x
  <2>1. /\ u.bound[w] = <<"ws", i>>
        /\ u.state[<<"pc", i>>] = "none" /\ u.state[<<"out", i>>] = "none"
        /\ Single(q, c)
        /\ u.state[<<"ws", i>>] = "closed" => Follows(q, c, Plain("wsClosed", w, i))
        /\ \A j \in Sessions \ {i}, op \in WsOps : Follows(q, Plain(op, w, j), c)
    BY <1>3 DEF ClientsFit, Queued
  <2>2. Single(n, c) /\ \A y : Follows(q, c, y) => Follows(n, c, y)
    BY <1>3, <2>1 DEF Queued
  <2>3. ASSUME NEW j \in Sessions \ {i}, NEW op \in WsOps
        PROVE  Follows(n, Plain(op, w, j), c)
    <3>1. Plain(op, w, j) # x
      <4>1. u.bound[w] # <<"ws", j>> /\ u.bound[w] # None
        BY <2>1, ObjectForm, Disjoint
      <4>2. QED
        BY <1>1, <4>1 DEF ClientJoins
    <3>2. QED
      BY <2>1, <3>1 DEF Queued
  <2>4. QED
    BY <2>1, <2>2, <2>3
<1>4. QED
  BY <1>2, <1>3

\* What x has to fit for the WebSockets of the queue.
WsJoins(u, q, x) ==
  x.op \in WsOps =>
    /\ u.data[x.w] \in {x.of, None}
    /\ u.state[<<"ws", x.of>>] # "none"
    /\ \A v \in Ws : u.bound[v] = <<"ws", x.of>> => v = x.w
    /\ x.op = "wsClosed" => u.state[<<"ws", x.of>>] = "closed" /\ ~Has(q, x)

\* The WebSockets of the queue.
LEMMA WsQueued ==
  ASSUME NEW u, NEW q, WsFits(u, q), NEW x, WsJoins(u, q, x), NEW n, Queued(q, x, n)
  PROVE  WsFits(u, n)
<1> SUFFICES ASSUME NEW i \in Sessions, NEW w \in Ws, NEW op \in WsOps,
                    Has(n, Plain(op, w, i))
             PROVE  /\ u.data[w] \in {i, None}
                    /\ u.state[<<"ws", i>>] # "none"
                    /\ \A v \in Ws : u.bound[v] = <<"ws", i>> => v = w
                    /\ op = "wsClosed" =>
                         /\ u.state[<<"ws", i>>] = "closed"
                         /\ Single(n, Plain("wsClosed", w, i))
  BY DEF WsFits
<1>1. /\ Plain(op, w, i).op = op /\ Plain(op, w, i).w = w /\ Plain(op, w, i).of = i
  BY TaskIdentity DEF Plain
<1>2. CASE Plain(op, w, i) = x
  BY <1>1, <1>2 DEF WsJoins, Queued
<1>3. CASE Plain(op, w, i) # x
  BY <1>3 DEF WsFits, Queued
<1>4. QED
  BY <1>2, <1>3

\* What x has to fit for the peer connections of the queue.
PcJoins(u, q, x) ==
  /\ x.op = "pcClosed" =>
       u.pc[x.of] = x.w /\ u.state[<<"pc", x.of>>] = "closed" /\ ~Has(q, x)
  /\ x.op \in PcOps => u.pc[x.of] = x.w /\ u.state[<<"pc", x.of>>] # "closed"

\* The peer connections of the queue.
LEMMA PcQueued ==
  ASSUME NEW u, NEW q, PcFits(u, q), NEW x, PcJoins(u, q, x), NEW n, Queued(q, x, n)
  PROVE  PcFits(u, n)
<1>1. ASSUME NEW i \in Sessions, NEW p \in Pc, Has(n, Plain("pcClosed", p, i))
      PROVE  /\ u.pc[i] = p /\ u.state[<<"pc", i>>] = "closed"
             /\ Single(n, Plain("pcClosed", p, i))
  <2>1. /\ Plain("pcClosed", p, i).op = "pcClosed"
        /\ Plain("pcClosed", p, i).w = p /\ Plain("pcClosed", p, i).of = i
    BY TaskIdentity DEF Plain
  <2>2. CASE Plain("pcClosed", p, i) = x
    BY <2>1, <2>2 DEF PcJoins, Queued
  <2>3. CASE Plain("pcClosed", p, i) # x
    BY <1>1, <2>3 DEF PcFits, Queued
  <2>4. QED
    BY <2>2, <2>3
<1>2. ASSUME NEW i \in Sessions, NEW p \in Pc, NEW op \in PcOps, NEW d \in Dc,
             Has(n, Task(op, p, i, d))
      PROVE  /\ u.pc[i] = p
             /\ u.state[<<"pc", i>>] = "closed" =>
                  Follows(n, Task(op, p, i, d), Plain("pcClosed", p, i))
  <2>1. /\ Task(op, p, i, d).op = op
        /\ Task(op, p, i, d).w = p /\ Task(op, p, i, d).of = i
    BY TaskIdentity
  <2>2. CASE Task(op, p, i, d) = x
    BY <2>1, <2>2 DEF PcJoins
  <2>3. CASE Task(op, p, i, d) # x
    BY <1>2, <2>3 DEF PcFits, Queued
  <2>4. QED
    BY <2>2, <2>3
<1>3. QED
  BY <1>1, <1>2 DEF PcFits

\* What x has to fit for the data channels of the queue.
DcJoins(u, q, x) ==
  /\ x.op = "dataChannel" =>
       /\ u.bound[x.dc] \in {<<"in", x.of>>, <<"twin", x.of>>} /\ u.data[x.dc] = None
       /\ ~Has(q, x)
  /\ x.op \in DcOps => \A j \in Sessions : j # x.of =>
       u.incoming[j] # x.w /\ u.bound[x.w] \notin {<<"in", j>>, <<"twin", j>>}

\* The data channels of the queue.
LEMMA DcQueued ==
  ASSUME NEW u, NEW q, DcFits(u, q), NEW x, DcJoins(u, q, x), NEW n, Queued(q, x, n)
  PROVE  DcFits(u, n)
<1>1. ASSUME NEW i \in Sessions, NEW d \in Dc, NEW p \in Pc,
             Has(n, Task("dataChannel", p, i, d))
      PROVE  /\ u.bound[d] \in {<<"in", i>>, <<"twin", i>>} /\ u.data[d] = None
             /\ Single(n, Task("dataChannel", p, i, d))
             /\ \A j \in Sessions \ {i}, op \in DcOps :
                  Follows(n, Plain(op, d, j), Task("dataChannel", p, i, d))
  <2> DEFINE c == Task("dataChannel", p, i, d)
  <2>1. /\ c.op = "dataChannel" /\ c.w = p /\ c.of = i /\ c.dc = d
        /\ \A op \in DcOps : \A j : /\ Plain(op, d, j).op = op /\ Plain(op, d, j).w = d
                                    /\ Plain(op, d, j).of = j /\ Plain(op, d, j) # c
    BY TaskIdentity DEF Plain, DcOps
  <2>2. CASE c = x
    <3>1. /\ u.bound[d] \in {<<"in", i>>, <<"twin", i>>} /\ u.data[d] = None
          /\ ~Has(q, x)
      BY <2>1, <2>2 DEF DcJoins
    <3>2. Single(n, c)
      BY <2>2, <3>1 DEF Queued
    <3>3. \A j \in Sessions \ {i}, op \in DcOps : Follows(n, Plain(op, d, j), c)
      BY <2>1, <2>2 DEF Queued
    <3>4. QED
      BY <3>1, <3>2, <3>3
  <2>3. CASE c # x
    <3>1. /\ u.bound[d] \in {<<"in", i>>, <<"twin", i>>} /\ u.data[d] = None
          /\ Single(q, c)
          /\ \A j \in Sessions \ {i}, op \in DcOps : Follows(q, Plain(op, d, j), c)
      BY <1>1, <2>3 DEF DcFits, Queued
    <3>2. Single(n, c)
      BY <2>3, <3>1 DEF Queued
    <3>3. ASSUME NEW j \in Sessions \ {i}, NEW op \in DcOps
          PROVE  Follows(n, Plain(op, d, j), c)
      <4>1. Plain(op, d, j) # x
        BY <2>1, <3>1 DEF DcJoins
      <4>2. QED
        BY <3>1, <4>1 DEF Queued
    <3>4. QED
      BY <3>1, <3>2, <3>3
  <2>4. QED
    BY <2>2, <2>3
<1>2. ASSUME NEW i \in Sessions, NEW d \in Dc, NEW op \in DcOps,
             Has(n, Plain(op, d, i)), NEW j \in Sessions \ {i}
      PROVE  u.incoming[j] # d
  <2>1. /\ Plain(op, d, i).op = op /\ Plain(op, d, i).w = d /\ Plain(op, d, i).of = i
    BY TaskIdentity DEF Plain
  <2>2. CASE Plain(op, d, i) = x
    BY <2>1, <2>2 DEF DcJoins
  <2>3. CASE Plain(op, d, i) # x
    BY <1>2, <2>3 DEF DcFits, Queued
  <2>4. QED
    BY <2>2, <2>3
<1>3. QED
  BY <1>1, <1>2 DEF DcFits

\* A task that fits joins the queue.
LEMMA TaskQueued ==
  ASSUME NEW u, NEW q, QueueFits(u, q), NEW x, Formed(x), ClientJoins(u, q, x),
         WsJoins(u, q, x), PcJoins(u, q, x), DcJoins(u, q, x)
  PROVE  QueueFits(u, Append(q, x))
<1>1. /\ FormFits(q) /\ FirstFits(u)
      /\ ClientsFit(u, q) /\ WsFits(u, q) /\ PcFits(u, q) /\ DcFits(u, q)
  BY DEF QueueFits
<1>2. Queued(q, x, Append(q, x))
  BY <1>1, QueuedForm DEF FormFits, Formed
<1>3. QED
  BY <1>1, <1>2, FormQueued, ClientsQueued, WsQueued, PcQueued, DcQueued DEF QueueFits

\* What is not a close holds no session.
LEMMA QueuedHolders ==
  ASSUME NEW u, NEW q, NEW x, NEW n, Queued(q, x, n),
         \A i \in Sessions : /\ u.ws[i] # None => x # Plain("wsClosed", u.ws[i], i)
                             /\ u.pc[i] # None => x # Plain("pcClosed", u.pc[i], i)
  PROVE  Holders(u, n) = Holders(u, q)
<1>1. \A i \in Sessions : /\ WsHolds(u, n, i) <=> WsHolds(u, q, i)
                          /\ PcHolds(u, n, i) <=> PcHolds(u, q, i)
  BY DEF Queued, WsHolds, PcHolds
<1>2. QED
  BY <1>1 DEF Holders, Count
-----------------------------------------------------------------------------
(***************************************************************************)
(* The RTC threads.                                                        *)
(***************************************************************************)
\* The record u in which the wrapper w of t has got the object x.
Binds(t, x, w, u) ==
  /\ u \in Owned
  /\ u.state = [t.state EXCEPT ![x] = "open"]
  /\ u.bound = [t.bound EXCEPT ![w] = x]
  /\ u.data = t.data /\ u.reports = t.reports
  /\ SameSessions(t, u) /\ SameChannels(t, u)

\* A wrapper is bound.
LEMMA BindForm ==
  ASSUME NEW t \in Owned, NEW x \in Objects, NEW w \in Wrappers
  PROVE  Binds(t, x, w, Bind(t, x, w))
<1> DEFINE s == [t.state EXCEPT ![x] = "open"]
           b == [t.bound EXCEPT ![w] = x]
           u == Bind(t, x, w)
<1>1. /\ s \in [Objects -> {"none", "open", "closing", "closed"}]
      /\ b \in [Wrappers -> Objects \cup {None}]
  BY WrapperFields
<1>2. u = [t EXCEPT !.bound = b, !.state = s]
  BY DEF Bind, Owned
<1> HIDE DEF s, b, u
<1>3. u \in Owned
  BY <1>1, <1>2 DEF Owned
<1>4. /\ u.state = s /\ u.bound = b /\ u.data = t.data /\ u.reports = t.reports
      /\ SameSessions(t, u) /\ SameChannels(t, u)
  BY <1>2 DEF Owned, SameSessions, SameChannels
<1>5. QED
  BY <1>3, <1>4 DEF Binds, u, s, b

\* The wrapper w may take the object of kind k.
Suits(w, k) ==
  \/ k = "ws" /\ w \in Ws
  \/ k \in {"in", "twin"} /\ w \in Dc

\* What a new object changes.
LEMMA BindEffect ==
  ASSUME NEW t, Shape(t), NEW i \in Sessions, NEW k, NEW w, Suits(w, k),
         t.bound[w] = None, t.state[<<k, i>>] = "none"
  PROVE  LET u == Bind(t, <<k, i>>, w) IN
           /\ u \in Owned /\ w \in Wrappers /\ <<k, i>> \in Objects
           /\ u.bound[w] = <<k, i>> /\ u.data[w] = None
           /\ u.state[<<k, i>>] = "open"
           /\ \A v \in Wrappers : v # w => u.bound[v] = t.bound[v]
           /\ \A x \in Objects : x # <<k, i>> => u.state[x] = t.state[x]
           /\ u.data = t.data /\ u.reports = t.reports
           /\ SameSessions(t, u) /\ SameChannels(t, u)
           /\ \A v \in Wrappers : t.bound[v] # <<k, i>>
<1> DEFINE x == <<k, i>>
           u == Bind(t, x, w)
<1>1. t \in Owned /\ BoundFits(t)
  BY DEF Shape
<1>2. w \in Wrappers /\ x \in Objects /\ x # None
  <2>1. w \in Wrappers /\ k \in {"ws", "pc", "out", "in", "twin"}
    BY Disjoint DEF Suits
  <2>2. x \in Objects
    BY <2>1, ObjectForm
  <2>3. QED
    BY <2>1, <2>2, Disjoint
<1> HIDE DEF x
<1>3. Binds(t, x, w, u)
  BY <1>1, <1>2, BindForm
<1> HIDE DEF u
<1>4. /\ u \in Owned
      /\ u.state = [t.state EXCEPT ![x] = "open"]
      /\ u.bound = [t.bound EXCEPT ![w] = x]
      /\ u.data = t.data /\ u.reports = t.reports
      /\ SameSessions(t, u) /\ SameChannels(t, u)
  BY <1>3 DEF Binds
<1>5. /\ u.bound[w] = x /\ u.state[x] = "open"
      /\ \A v \in Wrappers : v # w => u.bound[v] = t.bound[v]
      /\ \A y \in Objects : y # x => u.state[y] = t.state[y]
  BY <1>1, <1>2, <1>4, WrapperFields
<1>6. u.data[w] = None
  BY <1>2, <1>4, FreeData
<1>7. \A v \in Wrappers : t.bound[v] # x
  BY <1>1, <1>2 DEF BoundFits, x
<1>8. QED
  BY <1>2, <1>4, <1>5, <1>6, <1>7 DEF u, x

\* A new WebSocket or incoming data channel fits what there is.
LEMMA BindShape ==
  ASSUME NEW t, Shape(t), NEW i \in Sessions, NEW k, NEW w, Suits(w, k),
         t.bound[w] = None, t.state[<<k, i>>] = "none"
  PROVE  Shape(Bind(t, <<k, i>>, w))
<1> DEFINE x == <<k, i>>
           u == Bind(t, x, w)
<1>1. /\ t \in Owned /\ BoundFits(t) /\ DataFits(t)
      /\ \A j \in Sessions : SessionFits(t, j) /\ ChannelFits(t, j)
  BY DEF Shape
<1>2. /\ u \in Owned /\ w \in Wrappers /\ x \in Objects
      /\ u.bound[w] = x /\ u.state[x] = "open"
      /\ \A v \in Wrappers : v # w => u.bound[v] = t.bound[v]
      /\ \A y \in Objects : y # x => u.state[y] = t.state[y]
      /\ u.data = t.data
      /\ SameSessions(t, u) /\ SameChannels(t, u)
      /\ \A v \in Wrappers : t.bound[v] # x
  BY BindEffect
<1> HIDE DEF u
<1>3. \A j \in Sessions : x # <<"pc", j>> /\ x # <<"out", j>>
  BY ObjectForm DEF Suits
<1>4. BoundFits(u)
  <2>1. ASSUME NEW v \in Ws, u.bound[v] # None
        PROVE  \E j \in Sessions : u.bound[v] = <<"ws", j>>
    <3>1. CASE v = w
      BY <1>2, <3>1, Disjoint DEF Suits
    <3>2. CASE v # w
      BY <1>1, <1>2, <2>1, <3>2, Disjoint DEF BoundFits
    <3>3. QED
      BY <3>1, <3>2
  <2>2. ASSUME NEW v \in Pc, u.bound[v] # None
        PROVE  \E j \in Sessions : u.bound[v] = <<"pc", j>>
    <3>1. v \in Wrappers /\ v # w
      BY Disjoint DEF Suits
    <3>2. QED
      BY <1>1, <1>2, <2>2, <3>1 DEF BoundFits
  <2>3. ASSUME NEW v \in Dc, u.bound[v] # None
        PROVE  \E j \in Sessions, l \in {"out", "in", "twin"} : u.bound[v] = <<l, j>>
    <3>1. CASE v = w
      BY <1>2, <3>1, Disjoint DEF Suits
    <3>2. CASE v # w
      BY <1>1, <1>2, <2>3, <3>2, Disjoint DEF BoundFits
    <3>3. QED
      BY <3>1, <3>2
  <2>4. ASSUME NEW v \in Wrappers, u.bound[v] # None PROVE u.state[u.bound[v]] # "none"
    <3>1. CASE v = w
      BY <1>2, <3>1
    <3>2. CASE v # w
      <4>1. /\ u.bound[v] = t.bound[v] /\ t.bound[v] \in Objects
            /\ t.state[t.bound[v]] # "none"
        BY <1>1, <1>2, <2>4, <3>2, WrapperFields DEF BoundFits
      <4>2. QED
        BY <1>2, <4>1
    <3>3. QED
      BY <3>1, <3>2
  <2>5. ASSUME NEW v \in Wrappers, NEW y \in Wrappers, u.bound[v] # None,
               u.bound[v] = u.bound[y]
        PROVE  v = y
    BY <1>1, <1>2, <2>5 DEF BoundFits
  <2>6. ASSUME NEW v \in Wrappers, NEW j \in Sessions, u.bound[v] = <<"pc", j>>
        PROVE  u.pc[j] = v
    BY <1>1, <1>2, <1>3, <2>6 DEF BoundFits, SameSessions
  <2>7. QED
    BY <2>1, <2>2, <2>3, <2>4, <2>5, <2>6 DEF BoundFits
<1>5. DataFits(u)
  BY <1>1, <1>2 DEF DataFits, SameSessions, SameChannels
<1>6. ASSUME NEW j \in Sessions PROVE SessionFits(u, j) /\ ChannelFits(u, j)
  <2>1. SessionFits(t, j) /\ ChannelFits(t, j)
    BY <1>1
  <2>2. /\ t.ws[j] \in Ws \cup {None} /\ t.pc[j] \in Pc \cup {None}
        /\ t.outgoing[j] \in Dc \cup {None} /\ t.incoming[j] \in Dc \cup {None}
    BY <1>1, WrapperFields
  <2>3. \A v \in Wrappers : t.data[v] = j => u.data[v] = j /\ u.bound[v] = t.bound[v]
    <3> SUFFICES ASSUME NEW v \in Wrappers, t.data[v] = j
                 PROVE  u.data[v] = j /\ u.bound[v] = t.bound[v]
      OBVIOUS
    <3>1. v # w
      BY DataOwn
    <3>2. QED
      BY <1>2, <3>1
  <2>4. u.state[<<"out", j>>] = t.state[<<"out", j>>]
    BY <1>2, <1>3, ObjectForm
  <2>5. /\ t.ws[j] # None => u.bound[t.ws[j]] = <<"ws", j>> /\ u.data[t.ws[j]] = j
        /\ t.pc[j] # None => u.bound[t.pc[j]] = <<"pc", j>> /\ u.data[t.pc[j]] = j
    BY <2>1, <2>2, <2>3, Disjoint DEF SessionFits
  <2>6. SessionFits(u, j)
    BY <1>2, <2>1, <2>4, <2>5 DEF SessionFits, SameSessions
  <2>7. /\ t.outgoing[j] # None =>
             u.bound[t.outgoing[j]] = <<"out", j>> /\ u.data[t.outgoing[j]] = j
        /\ t.incoming[j] # None =>
             /\ u.bound[t.incoming[j]] \in {<<"in", j>>, <<"twin", j>>}
             /\ u.data[t.incoming[j]] = j
    BY <2>1, <2>2, <2>3, Disjoint DEF ChannelFits
  <2>8. ChannelFits(u, j)
    BY <1>2, <2>1, <2>7 DEF ChannelFits, SameSessions, SameChannels
  <2>9. QED
    BY <2>6, <2>8
<1>7. QED
  BY <1>2, <1>4, <1>5, <1>6 DEF Shape, u

\* Nobody has heard of a new object.
LEMMA BindFits ==
  ASSUME NEW t, NEW q, Fits(t, q), NEW i \in Sessions, NEW k, NEW w, Suits(w, k),
         t.bound[w] = None, t.state[<<k, i>>] = "none"
  PROVE  Fits(Bind(t, <<k, i>>, w), q)
<1> DEFINE x == <<k, i>>
           u == Bind(t, x, w)
<1>1. /\ Shape(t) /\ RefsAre(t, Holders(t, q)) /\ QueueFits(t, q) /\ t \in Owned
  BY DEF Fits, Shape
<1>2. /\ w \in Wrappers /\ x \in Objects
      /\ u.bound[w] = x /\ u.state[x] = "open"
      /\ \A v \in Wrappers : v # w => u.bound[v] = t.bound[v]
      /\ \A y \in Objects : y # x => u.state[y] = t.state[y]
      /\ u.data = t.data
      /\ SameSessions(t, u) /\ SameChannels(t, u)
      /\ \A v \in Wrappers : t.bound[v] # x
  BY <1>1, BindEffect
<1>3. Shape(u)
  BY <1>1, BindShape
<1> HIDE DEF u
<1>4. \A j \in Sessions : x # <<"pc", j>> /\ x # <<"out", j>>
  BY ObjectForm DEF Suits
<1>5. \A j \in Sessions : /\ u.state[<<"pc", j>>] = t.state[<<"pc", j>>]
                          /\ u.state[<<"out", j>>] = t.state[<<"out", j>>]
  BY <1>2, <1>4, ObjectForm
<1>6. \A j \in Sessions : \/ u.state[<<"ws", j>>] = t.state[<<"ws", j>>]
                          \/ /\ <<"ws", j>> = x /\ t.state[<<"ws", j>>] = "none"
                             /\ u.state[<<"ws", j>>] = "open"
  BY <1>2, ObjectForm
<1>7. /\ FormFits(q) /\ FirstFits(t)
      /\ ClientsFit(t, q) /\ WsFits(t, q) /\ PcFits(t, q) /\ DcFits(t, q)
  BY <1>1 DEF QueueFits
<1>8. \A j \in Sessions : \/ /\ Live(u, "ws", j) <=> Live(t, "ws", j)
                             /\ Live(u, "pc", j) <=> Live(t, "pc", j)
                          \/ t.ref[j] = 0 /\ t.ws[j] = None /\ t.pc[j] = None
  <2> SUFFICES ASSUME NEW j \in Sessions, u.state[<<"ws", j>>] # t.state[<<"ws", j>>]
               PROVE  t.ref[j] = 0 /\ t.ws[j] = None /\ t.pc[j] = None
    BY <1>5 DEF Live
  <2>1. t.state[<<"pc", j>>] = "none"
    BY <1>6, <1>7 DEF FirstFits
  <2>2. QED
    BY <1>1, <2>1, Pooled
<1>9. Holders(u, q) = Holders(t, q)
  <2>1. \A j \in Sessions : /\ WsHolds(u, q, j) <=> WsHolds(t, q, j)
                            /\ PcHolds(u, q, j) <=> PcHolds(t, q, j)
    BY <1>2, <1>8 DEF WsHolds, PcHolds, SameSessions
  <2>2. QED
    BY <2>1 DEF Holders, Count
<1>10. RefsAre(u, Holders(u, q))
  <2> DEFINE h == Holders(t, q)
  <2>1. h \in [Sessions -> Nat] /\ RefsAre(t, h)
    BY <1>1, HoldersType
  <2> HIDE DEF h
  <2>2. RefsAre(u, h)
    BY <1>2, <1>8, <2>1 DEF RefsAre, Count, SameSessions, SameChannels
  <2>3. QED
    BY <1>9, <2>2 DEF h
<1>11. FirstFits(u)
  BY <1>5, <1>6, <1>7 DEF FirstFits
<1>12. ClientsFit(u, q)
  <2> SUFFICES ASSUME NEW j \in Sessions, NEW v \in Ws, Has(q, Plain("client", v, j))
               PROVE  /\ u.bound[v] = <<"ws", j>>
                      /\ u.state[<<"pc", j>>] = "none" /\ u.state[<<"out", j>>] = "none"
                      /\ Single(q, Plain("client", v, j))
                      /\ u.state[<<"ws", j>>] = "closed" =>
                           Follows(q, Plain("client", v, j), Plain("wsClosed", v, j))
                      /\ \A l \in Sessions \ {j}, op \in WsOps :
                           Follows(q, Plain(op, v, l), Plain("client", v, j))
    BY DEF ClientsFit
  <2>1. /\ t.bound[v] = <<"ws", j>>
        /\ t.state[<<"pc", j>>] = "none" /\ t.state[<<"out", j>>] = "none"
        /\ Single(q, Plain("client", v, j))
        /\ t.state[<<"ws", j>>] = "closed" =>
             Follows(q, Plain("client", v, j), Plain("wsClosed", v, j))
        /\ \A l \in Sessions \ {j}, op \in WsOps :
             Follows(q, Plain(op, v, l), Plain("client", v, j))
    BY <1>7 DEF ClientsFit
  <2>2. v # w /\ v \in Wrappers
    BY <2>1, ObjectForm, Disjoint
  <2>3. /\ u.bound[v] = t.bound[v]
        /\ u.state[<<"ws", j>>] = "closed" => t.state[<<"ws", j>>] = "closed"
    BY <1>2, <1>6, <2>2
  <2>4. QED
    BY <1>5, <2>1, <2>3
<1>13. WsFits(u, q)
  <2> SUFFICES ASSUME NEW j \in Sessions, NEW v \in Ws, NEW op \in WsOps,
                      Has(q, Plain(op, v, j))
               PROVE  /\ u.data[v] \in {j, None}
                      /\ u.state[<<"ws", j>>] # "none"
                      /\ \A y \in Ws : u.bound[y] = <<"ws", j>> => y = v
                      /\ op = "wsClosed" =>
                           /\ u.state[<<"ws", j>>] = "closed"
                           /\ Single(q, Plain("wsClosed", v, j))
    BY DEF WsFits
  <2>1. /\ t.data[v] \in {j, None}
        /\ t.state[<<"ws", j>>] # "none"
        /\ \A y \in Ws : t.bound[y] = <<"ws", j>> => y = v
        /\ op = "wsClosed" =>
             /\ t.state[<<"ws", j>>] = "closed"
             /\ Single(q, Plain("wsClosed", v, j))
    BY <1>7 DEF WsFits
  <2>2. <<"ws", j>> # x /\ u.state[<<"ws", j>>] = t.state[<<"ws", j>>]
    BY <1>6, <2>1
  <2>3. \A y \in Ws : u.bound[y] = <<"ws", j>> => t.bound[y] = <<"ws", j>>
    BY <1>2, <2>2, Disjoint
  <2>4. QED
    BY <1>2, <2>1, <2>2, <2>3
<1>14. PcFits(u, q)
  <2>1. u.pc = t.pc
    BY <1>2 DEF SameSessions
  <2>2. QED
    BY <1>5, <1>7, <2>1 DEF PcFits
<1>15. DcFits(u, q)
  <2>1. \A j \in Sessions, d \in Dc, p \in Pc : Has(q, Task("dataChannel", p, j, d)) =>
          u.bound[d] = t.bound[d] /\ u.data[d] = t.data[d]
    <3> SUFFICES ASSUME NEW j \in Sessions, NEW d \in Dc, NEW p \in Pc,
                        Has(q, Task("dataChannel", p, j, d))
                 PROVE  u.bound[d] = t.bound[d] /\ u.data[d] = t.data[d]
      OBVIOUS
    <3>1. t.bound[d] \in {<<"in", j>>, <<"twin", j>>}
      BY <1>7 DEF DcFits
    <3>2. d # w /\ d \in Wrappers
      BY <3>1, Disjoint, ObjectForm
    <3>3. QED
      BY <1>2, <3>2
  <2>2. QED
    BY <1>2, <1>7, <2>1 DEF DcFits, SameChannels
<1>16. QED
  BY <1>3, <1>7, <1>10, <1>11, <1>12, <1>13, <1>14, <1>15 DEF Fits, QueueFits, u

\* A task that is not the close of a WebSocket or peer connection arrives.
LEMMA TaskFits ==
  ASSUME NEW u, NEW q, Fits(u, q), NEW x, Formed(x), ClientJoins(u, q, x),
         WsJoins(u, q, x), PcJoins(u, q, x), DcJoins(u, q, x),
         x.op \notin {"wsClosed", "pcClosed"}
  PROVE  Fits(u, Append(q, x))
<1>1. Shape(u) /\ RefsAre(u, Holders(u, q)) /\ QueueFits(u, q)
  BY DEF Fits
<1>2. Queued(q, x, Append(q, x))
  BY <1>1, QueuedForm DEF QueueFits, FormFits, Formed
<1>3. \A v, i : x # Plain("wsClosed", v, i) /\ x # Plain("pcClosed", v, i)
  BY TaskIdentity DEF Plain
<1>4. Holders(u, Append(q, x)) = Holders(u, q)
  BY <1>2, <1>3, QueuedHolders
<1>5. QED
  BY <1>1, <1>4, TaskQueued DEF Fits

\* An RTC thread has queued a task that fits.
LEMMA Arrived ==
  ASSUME WrapperInv, NEW u, NEW x, Fits(u, Append(tasks, x)), u.reports = o.reports,
         u.received = o.received, Queues(u, x)
  PROVE  WrapperInv'
<1>1. o' = u /\ tasks' = Append(tasks, x)
  BY DEF Queues
<1>2. Fits(o', tasks')
  BY <1>1
<1>3. QED
  BY <1>1, <1>2 DEF WrapperInv, MessagesReachOwn

\* A wrapper that is out of its pool, by its pool.
LEMMA WsBound ==
  ASSUME NEW t, Shape(t), NEW w \in Ws, t.bound[w] # None
  PROVE  \E i \in Sessions :
           /\ t.bound[w] = <<"ws", i>> /\ t.bound[w][2] = i
           /\ t.state[<<"ws", i>>] # "none"
           /\ t.ws[i] \in {w, None} /\ t.data[w] \in {i, None}
           /\ \A v \in Wrappers : t.bound[v] = <<"ws", i>> => v = w
<1>1. /\ BoundFits(t) /\ w \in Wrappers /\ t \in Owned
      /\ \A j \in Sessions : SessionFits(t, j)
  BY Disjoint DEF Shape
<1>2. PICK i \in Sessions : t.bound[w] = <<"ws", i>>
  BY <1>1 DEF BoundFits
<1>3. t.data[w] \in Sessions \cup {None} /\ t.ws[i] \in Ws \cup {None}
  BY <1>1, WrapperFields
<1>4. /\ t.state[<<"ws", i>>] # "none"
      /\ \A v \in Wrappers : t.bound[v] = <<"ws", i>> => v = w
  BY <1>1, <1>2 DEF BoundFits
<1>5. t.ws[i] \in {w, None}
  <2>1. t.ws[i] # None => t.bound[t.ws[i]] = <<"ws", i>>
    BY <1>1 DEF SessionFits
  <2>2. QED
    BY <1>3, <1>4, <2>1, Disjoint
<1>6. \A j \in Sessions : t.data[w] = j => j = i
  <2>1. \A j \in Sessions : t.data[w] = j => t.bound[w] = <<"ws", j>>
    BY <1>1, DataOwn
  <2>2. QED
    BY <1>2, <2>1, ObjectForm
<1>7. t.bound[w][2] = i
  BY <1>2, ObjectForm
<1>8. QED
  BY <1>2, <1>3, <1>4, <1>5, <1>6, <1>7

\* The same of a peer connection.
LEMMA PcBound ==
  ASSUME NEW t, Shape(t), NEW w \in Pc, t.bound[w] # None
  PROVE  \E i \in Sessions :
           /\ t.bound[w] = <<"pc", i>> /\ t.bound[w][2] = i
           /\ t.state[<<"pc", i>>] # "none" /\ t.pc[i] = w
<1>1. BoundFits(t) /\ w \in Wrappers
  BY Disjoint DEF Shape
<1>2. PICK i \in Sessions : t.bound[w] = <<"pc", i>>
  BY <1>1 DEF BoundFits
<1>3. t.state[<<"pc", i>>] # "none" /\ t.pc[i] = w
  BY <1>1, <1>2 DEF BoundFits
<1>4. t.bound[w][2] = i
  BY <1>2, ObjectForm
<1>5. QED
  BY <1>2, <1>3, <1>4

\* The same of a data channel.
LEMMA DcBound ==
  ASSUME NEW t, Shape(t), NEW w \in Dc, t.bound[w] # None
  PROVE  \E i \in Sessions, k \in {"out", "in", "twin"} :
           /\ t.bound[w] = <<k, i>> /\ t.bound[w][1] = k /\ t.bound[w][2] = i
           /\ t.state[<<k, i>>] # "none"
           /\ \A j \in Sessions : t.incoming[j] = w => j = i
           /\ \A j \in Sessions \ {i} : t.bound[w] \notin {<<"in", j>>, <<"twin", j>>}
<1>1. BoundFits(t) /\ w \in Wrappers
  BY Disjoint DEF Shape
<1>2. \E i \in Sessions, k \in {"out", "in", "twin"} : t.bound[w] = <<k, i>>
  BY <1>1 DEF BoundFits
<1>3. PICK i \in Sessions : \E k \in {"out", "in", "twin"} : t.bound[w] = <<k, i>>
  BY <1>2
<1>4. PICK k \in {"out", "in", "twin"} : t.bound[w] = <<k, i>>
  BY <1>3
<1>5. t.state[<<k, i>>] # "none"
  BY <1>1, <1>4 DEF BoundFits
<1>6. ASSUME NEW j \in Sessions, t.incoming[j] = w PROVE j = i
  <2>1. ChannelFits(t, j) /\ w # None
    BY Disjoint DEF Shape
  <2>2. t.bound[w] \in {<<"in", j>>, <<"twin", j>>}
    BY <1>6, <2>1 DEF ChannelFits
  <2>3. QED
    BY <1>4, <2>2, ObjectForm
<1>7. \A j \in Sessions \ {i} : t.bound[w] \notin {<<"in", j>>, <<"twin", j>>}
  BY <1>4, ObjectForm
<1>8. t.bound[w][1] = k /\ t.bound[w][2] = i
  BY <1>4, ObjectForm
<1>9. QED
  BY <1>4, <1>5, <1>6, <1>7, <1>8

\* A client is announced behind everything that is about its wrapper.
LEMMA AcceptKeeps ==
  ASSUME WrapperInv, NEW i \in Sessions, NEW w \in Free(Ws), Accept(i, w)
  PROVE  WrapperInv'
<1> DEFINE u == Bind(o, <<"ws", i>>, w)
           x == Plain("client", w, i)
<1>1. /\ Fits(o, tasks) /\ Shape(o) /\ w \in Ws /\ o.bound[w] = None
      /\ o.state[<<"ws", i>>] = "none" /\ Queues(u, x)
  BY DEF WrapperInv, Fits, Free, Accept, Plain
<1>2. Suits(w, "ws")
  BY <1>1 DEF Suits
<1>3. Fits(u, tasks)
  BY <1>1, <1>2, BindFits
<1>4. /\ u.bound[w] = <<"ws", i>> /\ u.state[<<"ws", i>>] = "open"
      /\ \A y \in Objects : y # <<"ws", i>> => u.state[y] = o.state[y]
      /\ u.reports = o.reports /\ SameSessions(o, u)
  BY <1>1, <1>2, BindEffect
<1> HIDE DEF u
<1>5. /\ x.op = "client" /\ x.w = w /\ x.of = i /\ Formed(x)
  BY <1>1, FormedTasks, TaskIdentity DEF Plain
<1>6. ~Has(tasks, x)
  <2>1. ClientsFit(o, tasks)
    BY <1>1 DEF Fits, QueueFits
  <2>2. o.bound[w] # <<"ws", i>>
    BY <1>1, ObjectForm, Disjoint
  <2>3. QED
    BY <1>1, <2>1, <2>2 DEF ClientsFit
<1> HIDE DEF x
<1>7. ClientJoins(u, tasks, x)
  <2>1. o.state[<<"pc", i>>] = "none" /\ o.state[<<"out", i>>] = "none"
    BY <1>1 DEF Fits, QueueFits, FirstFits
  <2>2. /\ <<"pc", i>> \in Objects /\ <<"pc", i>> # <<"ws", i>>
        /\ <<"out", i>> \in Objects /\ <<"out", i>> # <<"ws", i>>
    BY ObjectForm
  <2>3. QED
    BY <1>4, <1>5, <1>6, <2>1, <2>2 DEF ClientJoins, WsOps
<1>8. WsJoins(u, tasks, x) /\ PcJoins(u, tasks, x) /\ DcJoins(u, tasks, x)
  BY <1>5 DEF WsJoins, PcJoins, DcJoins, WsOps, PcOps, DcOps
<1>9. Fits(u, Append(tasks, x))
  BY <1>3, <1>5, <1>7, <1>8, TaskFits
<1>10. QED
  BY <1>1, <1>4, <1>9, Arrived DEF SameSessions

\* A message of a WebSocket.
LEMMA WsMessageKeeps ==
  ASSUME WrapperInv, NEW w \in Ws, WsMessage(w)
  PROVE  WrapperInv'
<1>1. Fits(o, tasks) /\ Shape(o) /\ o.bound[w] # None
  BY DEF WrapperInv, Fits, WsMessage, Open
<1>2. PICK i \in Sessions :
        /\ o.bound[w] = <<"ws", i>> /\ o.bound[w][2] = i
        /\ o.state[<<"ws", i>>] # "none" /\ o.data[w] \in {i, None}
        /\ \A v \in Wrappers : o.bound[v] = <<"ws", i>> => v = w
  BY <1>1, WsBound
<1> DEFINE x == Plain("wsMessage", w, i)
<1>3. Queues(o, x)
  BY <1>2 DEF WsMessage, Plain
<1>4. /\ x.op = "wsMessage" /\ x.w = w /\ x.of = i /\ Formed(x)
  BY FormedTasks, TaskIdentity DEF Plain, WsOps
<1> HIDE DEF x
<1>5. ClientJoins(o, tasks, x)
  BY <1>2, <1>4 DEF ClientJoins
<1>6. WsJoins(o, tasks, x)
  BY <1>2, <1>4, Disjoint DEF WsJoins
<1>7. PcJoins(o, tasks, x) /\ DcJoins(o, tasks, x)
  BY <1>4 DEF PcJoins, DcJoins, PcOps, DcOps
<1>8. Fits(o, Append(tasks, x))
  BY <1>1, <1>4, <1>5, <1>6, <1>7, TaskFits
<1>9. QED
  BY <1>3, <1>8, Arrived

\* An incoming data channel is announced behind everything about its wrapper.
LEMMA PcDataChannelKeeps ==
  ASSUME WrapperInv, NEW w \in Pc, NEW k \in {"in", "twin"}, NEW d \in Free(Dc),
         PcDataChannel(w, k, d)
  PROVE  WrapperInv'
<1>1. /\ Fits(o, tasks) /\ Shape(o) /\ o.bound[w] # None
      /\ o.state[o.bound[w]] = "open" /\ d \in Dc /\ o.bound[d] = None
  BY DEF WrapperInv, Fits, PcDataChannel, Open, Free
<1>2. PICK i \in Sessions :
        o.bound[w] = <<"pc", i>> /\ o.bound[w][2] = i /\ o.pc[i] = w
  BY <1>1, PcBound, ZenonT(40)
<1> DEFINE u == Bind(o, <<k, i>>, d)
<1>3. /\ o.state[<<k, i>>] = "none"
      /\ \E op \in Announced(i, k) : Queues(u, Task(op, w, i, d))
  BY <1>2 DEF PcDataChannel
<1>4. PICK op \in PcOps : Queues(u, Task(op, w, i, d))
  BY <1>3 DEF Announced, PcOps
<1>5. Suits(d, k)
  BY <1>1 DEF Suits
<1>6. Fits(u, tasks)
  BY <1>1, <1>3, <1>5, BindFits
<1>7. /\ u.bound[d] = <<k, i>> /\ u.data[d] = None /\ u.state[<<k, i>>] = "open"
      /\ \A y \in Objects : y # <<k, i>> => u.state[y] = o.state[y]
      /\ u.reports = o.reports /\ SameSessions(o, u)
  BY <1>1, <1>3, <1>5, BindEffect
<1> HIDE DEF u
<1> DEFINE x == Task(op, w, i, d)
<1>8. /\ x.op = op /\ x.w = w /\ x.of = i /\ x.dc = d /\ Formed(x) /\ op \in PcOps
  BY <1>1, FormedTasks, TaskIdentity
<1>9. op = "dataChannel" => ~Has(tasks, x)
  <2>1. DcFits(o, tasks)
    BY <1>1 DEF Fits, QueueFits
  <2>2. o.bound[d] \notin {<<"in", i>>, <<"twin", i>>}
    BY <1>1, ObjectForm, Disjoint
  <2>3. QED
    BY <1>1, <2>1, <2>2 DEF DcFits
<1> HIDE DEF x
<1>10. ClientJoins(u, tasks, x) /\ WsJoins(u, tasks, x)
  BY <1>8 DEF ClientJoins, WsJoins, WsOps, PcOps
<1>11. PcJoins(u, tasks, x)
  <2>1. u.state[<<"pc", i>>] = "open"
    <3>1. <<"pc", i>> \in Objects /\ <<"pc", i>> # <<k, i>>
      BY ObjectForm
    <3>2. QED
      BY <1>1, <1>2, <1>7, <3>1
  <2>2. u.pc[i] = w
    BY <1>2, <1>7 DEF SameSessions
  <2>3. QED
    BY <1>8, <2>1, <2>2 DEF PcJoins, PcOps
<1>12. DcJoins(u, tasks, x)
  BY <1>7, <1>8, <1>9 DEF DcJoins, DcOps, PcOps
<1>13. Fits(u, Append(tasks, x))
  <2>1. x.op \notin {"wsClosed", "pcClosed"}
    BY <1>8 DEF PcOps
  <2>2. QED
    BY <1>6, <1>8, <1>10, <1>11, <1>12, <2>1, TaskFits
<1>14. QED
  BY <1>4, <1>7, <1>13, Arrived DEF SameSessions, x

\* A message of a data channel.
LEMMA DcMessageKeeps ==
  ASSUME WrapperInv, NEW w \in Dc, DcMessage(w)
  PROVE  WrapperInv'
<1>1. Fits(o, tasks) /\ Shape(o) /\ o.bound[w] # None
  BY DEF WrapperInv, Fits, DcMessage, Open
<1>2. PICK i \in Sessions :
        /\ o.bound[w][2] = i
        /\ \A j \in Sessions : o.incoming[j] = w => j = i
        /\ \A j \in Sessions \ {i} : o.bound[w] \notin {<<"in", j>>, <<"twin", j>>}
  BY <1>1, DcBound
<1> DEFINE x == Plain("message", w, i)
<1>3. Queues(o, x)
  BY <1>2 DEF DcMessage, Plain
<1>4. /\ x.op = "message" /\ x.w = w /\ x.of = i /\ Formed(x)
  BY FormedTasks, TaskIdentity DEF Plain, DcOps
<1> HIDE DEF x
<1>5. ClientJoins(o, tasks, x) /\ WsJoins(o, tasks, x) /\ PcJoins(o, tasks, x)
  BY <1>4 DEF ClientJoins, WsJoins, PcJoins, WsOps, PcOps
<1>6. DcJoins(o, tasks, x)
  BY <1>2, <1>4 DEF DcJoins
<1>7. Fits(o, Append(tasks, x))
  BY <1>1, <1>4, <1>5, <1>6, TaskFits
<1>8. QED
  BY <1>3, <1>7, Arrived

\* What the close of an object x that had begun changes.
LEMMA ShutEffect ==
  ASSUME NEW t, Shape(t), NEW x \in Objects, t.state[x] # "none"
  PROVE  LET u == [t EXCEPT !.state[x] = "closed"] IN
           /\ Shape(u)
           /\ u.state[x] = "closed"
           /\ \A y \in Objects : y # x => u.state[y] = t.state[y]
           /\ \A y \in Objects : u.state[y] = "none" <=> t.state[y] = "none"
           /\ \A y \in Objects : u.state[y] \in {"open", "closing"} => u.state[y] = t.state[y]
           /\ u.data = t.data /\ u.bound = t.bound /\ u.reports = t.reports
           /\ SameSessions(t, u) /\ SameChannels(t, u)
<1> DEFINE s == [t.state EXCEPT ![x] = "closed"]
           u == [t EXCEPT !.state[x] = "closed"]
<1>1. /\ t \in Owned /\ BoundFits(t) /\ DataFits(t)
      /\ \A j \in Sessions : SessionFits(t, j) /\ ChannelFits(t, j)
  BY DEF Shape
<1>2. s \in [Objects -> {"none", "open", "closing", "closed"}]
  BY <1>1, WrapperFields
<1>3. u = [t EXCEPT !.state = s]
  BY <1>1 DEF Owned
<1>4. /\ s[x] = "closed" /\ \A y \in Objects : y # x => s[y] = t.state[y]
  BY <1>1, WrapperFields
<1> HIDE DEF s, u
<1>5. u \in Owned
  BY <1>1, <1>2, <1>3 DEF Owned
<1>6. /\ u.state = s /\ u.data = t.data /\ u.bound = t.bound /\ u.reports = t.reports
      /\ SameSessions(t, u) /\ SameChannels(t, u)
  BY <1>1, <1>3 DEF Owned, SameSessions, SameChannels
<1>7. /\ \A y \in Objects : u.state[y] = "none" <=> t.state[y] = "none"
      /\ \A y \in Objects : u.state[y] \in {"open", "closing"} => u.state[y] = t.state[y]
  BY <1>4, <1>6
<1>8. BoundFits(u)
  <2>1. \A w \in Wrappers : t.bound[w] # None => t.bound[w] \in Objects
    BY <1>1, WrapperFields
  <2>2. \A w \in Wrappers : u.bound[w] # None => u.state[u.bound[w]] # "none"
    BY <1>1, <1>6, <1>7, <2>1 DEF BoundFits
  <2>3. QED
    BY <1>1, <1>6, <2>2 DEF BoundFits, SameSessions
<1>9. DataFits(u)
  BY <1>1, <1>6 DEF DataFits, SameSessions, SameChannels
<1>10. ASSUME NEW j \in Sessions PROVE SessionFits(u, j) /\ ChannelFits(u, j)
  <2>1. SessionFits(t, j) /\ ChannelFits(t, j)
    BY <1>1
  <2>2. t.state[<<"out", j>>] = "none" => u.state[<<"out", j>>] = "none"
    BY <1>7, ObjectForm
  <2>3. /\ u.data = t.data /\ u.bound = t.bound
        /\ SameSessions(t, u) /\ SameChannels(t, u)
    BY <1>6
  <2>4. SessionFits(u, j)
    BY <2>1, <2>2, <2>3 DEF SessionFits, SameSessions
  <2>5. ChannelFits(u, j)
    BY <2>1, <2>3 DEF ChannelFits, SameSessions, SameChannels
  <2>6. QED
    BY <2>4, <2>5
<1>11. Shape(u)
  BY <1>5, <1>8, <1>9, <1>10 DEF Shape
<1>12. QED
  BY <1>4, <1>6, <1>7, <1>11 DEF u

\* What holds a session is as much as before, and its objects are not more.
LEMMA RefsLess ==
  ASSUME NEW t, NEW u, NEW h, RefsAre(t, h), h \in [Sessions -> Nat],
         u.ref = t.ref, u.active = t.active, u.cref = t.cref,
         \A j \in Sessions : /\ Live(u, "ws", j) => Live(t, "ws", j)
                             /\ Live(u, "pc", j) => Live(t, "pc", j)
  PROVE  RefsAre(u, h)
<1> SUFFICES ASSUME NEW j \in Sessions
             PROVE  /\ u.ref[j] = Count(j \in u.active) + h[j] + Count(u.cref[j] > 0)
                    /\ u.ref[j] > 0 =>
                         h[j] >= Count(Live(u, "ws", j)) + Count(Live(u, "pc", j))
  BY DEF RefsAre
<1>1. /\ t.ref[j] = Count(j \in t.active) + h[j] + Count(t.cref[j] > 0)
      /\ t.ref[j] > 0 => h[j] >= Count(Live(t, "ws", j)) + Count(Live(t, "pc", j))
      /\ h[j] \in Nat
  BY DEF RefsAre
<1>2. /\ Live(u, "ws", j) => Live(t, "ws", j)
      /\ Live(u, "pc", j) => Live(t, "pc", j)
  OBVIOUS
<1>3. QED
  BY <1>1, <1>2 DEF Count

\* What the events of peer connections are about.
LEMMA PcFitsSame ==
  ASSUME NEW t, NEW u, NEW q, PcFits(t, q), u.pc = t.pc,
         \A i \in Sessions : u.state[<<"pc", i>>] = t.state[<<"pc", i>>]
  PROVE  PcFits(u, q)
  BY DEF PcFits

\* A WebSocket closes.
LEMMA WsClosesKeeps ==
  ASSUME WrapperInv, NEW w \in Ws, Closes(w)
  PROVE  WrapperInv'
<1>1. /\ Fits(o, tasks) /\ Shape(o) /\ o.bound[w] # None
      /\ RefsAre(o, Holders(o, tasks)) /\ QueueFits(o, tasks)
      /\ o.state[o.bound[w]] \in {"open", "closing"}
  BY DEF WrapperInv, Fits, Closes
<1>2. PICK i \in Sessions :
        /\ o.bound[w] = <<"ws", i>> /\ o.bound[w][2] = i
        /\ o.state[<<"ws", i>>] # "none"
        /\ o.ws[i] \in {w, None} /\ o.data[w] \in {i, None}
        /\ \A v \in Wrappers : o.bound[v] = <<"ws", i>> => v = w
  BY <1>1, WsBound
<1> DEFINE y == <<"ws", i>>
           u == [o EXCEPT !.state[y] = "closed"]
           x == Plain("wsClosed", w, i)
           n == Append(tasks, x)
<1>3. Queues(u, x)
  <2>1. ClosedTask(o, w) = x
    <3>1. o.bound[w][1] = "ws"
      BY <1>2, ObjectForm
    <3>2. QED
      BY <1>2, <3>1 DEF ClosedTask, Plain
  <2>2. QED
    BY <1>2, <2>1 DEF Closes
<1>4. y \in Objects /\ o.state[y] \in {"open", "closing"}
  BY <1>1, <1>2, ObjectForm
<1> HIDE DEF y
<1>5. /\ Shape(u) /\ u.state[y] = "closed"
      /\ \A z \in Objects : z # y => u.state[z] = o.state[z]
      /\ u.data = o.data /\ u.bound = o.bound /\ u.reports = o.reports
      /\ SameSessions(o, u) /\ SameChannels(o, u)
  BY <1>1, <1>4, ShutEffect
<1> HIDE DEF u
<1>6. /\ u.data = o.data /\ u.bound = o.bound /\ u.reports = o.reports
      /\ u.ref = o.ref /\ u.active = o.active /\ u.ws = o.ws /\ u.pc = o.pc
      /\ u.received = o.received /\ u.cref = o.cref /\ u.incoming = o.incoming
  BY <1>5 DEF SameSessions, SameChannels
<1>7. /\ u.state[<<"ws", i>>] = "closed" /\ o.state[<<"ws", i>>] \in {"open", "closing"}
      /\ \A j \in Sessions : j # i => u.state[<<"ws", j>>] = o.state[<<"ws", j>>]
      /\ \A j \in Sessions : /\ u.state[<<"pc", j>>] = o.state[<<"pc", j>>]
                             /\ u.state[<<"out", j>>] = o.state[<<"out", j>>]
  <2>1. /\ \A j \in Sessions : j # i => <<"ws", j>> \in Objects /\ <<"ws", j>> # y
        /\ \A j \in Sessions : /\ <<"pc", j>> \in Objects /\ <<"pc", j>> # y
                               /\ <<"out", j>> \in Objects /\ <<"out", j>> # y
    BY ObjectForm DEF y
  <2>2. QED
    BY <1>4, <1>5, <2>1 DEF y
<1>8. /\ FormFits(tasks) /\ FirstFits(o) /\ ClientsFit(o, tasks) /\ WsFits(o, tasks)
      /\ PcFits(o, tasks) /\ DcFits(o, tasks)
  BY <1>1 DEF QueueFits
<1>9. /\ x.op = "wsClosed" /\ x.w = w /\ x.of = i /\ Formed(x)
      /\ \A v, j, op : Plain(op, v, j) = x <=> op = "wsClosed" /\ v = w /\ j = i
  BY FormedTasks, TaskIdentity DEF Plain, WsOps
<1>10. ~Has(tasks, x)
  BY <1>7, <1>8 DEF WsFits, WsOps
<1>11. Queued(tasks, x, n)
  BY <1>8, <1>9, QueuedForm DEF FormFits, Formed
<1> HIDE DEF x, n
<1>12. FormFits(n)
  BY <1>8, <1>9, <1>11, FormQueued
<1>13. FirstFits(u)
  BY <1>7, <1>8 DEF FirstFits
<1>14. ClientsFit(u, n)
  <2> SUFFICES ASSUME NEW j \in Sessions, NEW v \in Ws, Has(n, Plain("client", v, j))
               PROVE  /\ u.bound[v] = <<"ws", j>>
                      /\ u.state[<<"pc", j>>] = "none" /\ u.state[<<"out", j>>] = "none"
                      /\ Single(n, Plain("client", v, j))
                      /\ u.state[<<"ws", j>>] = "closed" =>
                           Follows(n, Plain("client", v, j), Plain("wsClosed", v, j))
                      /\ \A l \in Sessions \ {j}, op \in WsOps :
                           Follows(n, Plain(op, v, l), Plain("client", v, j))
    BY DEF ClientsFit
  <2>1. Plain("client", v, j) # x
    BY <1>9
  <2>2. Has(tasks, Plain("client", v, j))
    BY <1>11, <2>1 DEF Queued
  <2>3. /\ o.bound[v] = <<"ws", j>>
        /\ o.state[<<"pc", j>>] = "none" /\ o.state[<<"out", j>>] = "none"
        /\ Single(tasks, Plain("client", v, j))
        /\ o.state[<<"ws", j>>] = "closed" =>
             Follows(tasks, Plain("client", v, j), Plain("wsClosed", v, j))
        /\ \A l \in Sessions \ {j}, op \in WsOps :
             Follows(tasks, Plain(op, v, l), Plain("client", v, j))
    BY <1>8, <2>2 DEF ClientsFit
  <2>4. Single(n, Plain("client", v, j))
    BY <1>11, <2>1, <2>3 DEF Queued
  <2>5. ASSUME u.state[<<"ws", j>>] = "closed"
        PROVE  Follows(n, Plain("client", v, j), Plain("wsClosed", v, j))
    <3>1. CASE j = i
      <4>1. v = w
        BY <1>2, <2>3, <3>1, Disjoint
      <4>2. Plain("wsClosed", v, j) = x
        BY <1>9, <3>1, <4>1
      <4>3. QED
        BY <1>11, <2>1, <4>2 DEF Queued
    <3>2. CASE j # i
      BY <1>7, <1>11, <2>1, <2>3, <2>5, <3>2 DEF Queued
    <3>3. QED
      BY <3>1, <3>2
  <2>6. ASSUME NEW l \in Sessions \ {j}, NEW op \in WsOps
        PROVE  Follows(n, Plain(op, v, l), Plain("client", v, j))
    <3>1. Plain(op, v, l) # x
      <4>1. v = w => j = i
        BY <1>2, <2>3, ObjectForm
      <4>2. QED
        BY <1>9, <4>1
    <3>2. QED
      BY <1>11, <2>3, <3>1 DEF Queued
  <2>7. QED
    BY <1>6, <1>7, <2>3, <2>4, <2>5, <2>6
<1>15. WsFits(u, n)
  <2>1. WsFits(u, tasks)
    <3>1. \A j \in Sessions : /\ u.state[<<"ws", j>>] = "none" => o.state[<<"ws", j>>] = "none"
                              /\ o.state[<<"ws", j>>] = "closed" => u.state[<<"ws", j>>] = "closed"
      BY <1>7
    <3>2. QED
      BY <1>6, <1>8, <3>1 DEF WsFits
  <2>2. WsJoins(u, tasks, x)
    BY <1>2, <1>6, <1>7, <1>9, <1>10, Disjoint DEF WsJoins
  <2>3. QED
    BY <1>11, <2>1, <2>2, WsQueued
<1>16. PcFits(u, n)
  <2>1. PcFits(u, tasks)
    <3>1. \A j \in Sessions : u.state[<<"pc", j>>] = o.state[<<"pc", j>>]
      BY <1>7
    <3>2. QED
      BY <1>6, <1>8, <3>1, PcFitsSame
  <2>2. PcJoins(u, tasks, x)
    BY <1>9 DEF PcJoins, PcOps
  <2>3. QED
    BY <1>11, <2>1, <2>2, PcQueued
<1>17. DcFits(u, n)
  <2>1. DcFits(u, tasks)
    BY <1>6, <1>8 DEF DcFits
  <2>2. DcJoins(u, tasks, x)
    BY <1>9 DEF DcJoins, DcOps
  <2>3. QED
    BY <1>11, <2>1, <2>2, DcQueued
<1>18. Holders(u, n) = Holders(o, tasks)
  <2>1. ASSUME NEW j \in Sessions
        PROVE  /\ WsHolds(u, n, j) <=> WsHolds(o, tasks, j)
               /\ PcHolds(u, n, j) <=> PcHolds(o, tasks, j)
    <3>1. PcHolds(u, n, j) <=> PcHolds(o, tasks, j)
      <4>1. \A v : Has(n, Plain("pcClosed", v, j)) <=> Has(tasks, Plain("pcClosed", v, j))
        BY <1>9, <1>11 DEF Queued
      <4>2. Live(u, "pc", j) <=> Live(o, "pc", j)
        BY <1>7 DEF Live
      <4>3. QED
        BY <1>6, <4>1, <4>2 DEF PcHolds
    <3>2. CASE j = i
      <4>1. o.ws[i] # None => o.ws[i] = w
        BY <1>2
      <4>2. o.ws[i] # None => WsHolds(o, tasks, i)
        BY <1>7 DEF WsHolds, Live
      <4>3. o.ws[i] # None => WsHolds(u, n, i)
        BY <1>6, <1>9, <1>11, <4>1 DEF WsHolds, Queued
      <4>4. o.ws[i] = None => ~WsHolds(o, tasks, i) /\ ~WsHolds(u, n, i)
        BY <1>6 DEF WsHolds
      <4>5. QED
        BY <3>1, <3>2, <4>2, <4>3, <4>4
    <3>3. CASE j # i
      <4>1. WsHolds(u, n, j) <=> WsHolds(o, tasks, j)
        BY <1>6, <1>7, <1>9, <1>11, <3>3 DEF WsHolds, Live, Queued
      <4>2. QED
        BY <3>1, <4>1
    <3>4. QED
      BY <3>2, <3>3
  <2>2. QED
    BY <2>1 DEF Holders, Count
<1>19. RefsAre(u, Holders(u, n))
  <2> DEFINE h == Holders(o, tasks)
  <2>1. RefsAre(o, h) /\ h \in [Sessions -> Nat]
    BY <1>1, HoldersType
  <2>2. \A j \in Sessions : /\ Live(u, "ws", j) => Live(o, "ws", j)
                            /\ Live(u, "pc", j) => Live(o, "pc", j)
    BY <1>7 DEF Live
  <2> HIDE DEF h
  <2>3. RefsAre(u, h)
    BY <1>6, <2>1, <2>2, RefsLess
  <2>4. QED
    BY <1>18, <2>3 DEF h
<1>20. Fits(u, n)
  BY <1>5, <1>12, <1>13, <1>14, <1>15, <1>16, <1>17, <1>19 DEF Fits, QueueFits
<1>21. QED
  BY <1>3, <1>6, <1>20, Arrived DEF n

\* A peer connection closes.
LEMMA PcClosesKeeps ==
  ASSUME WrapperInv, NEW w \in Pc, Closes(w)
  PROVE  WrapperInv'
<1>1. /\ Fits(o, tasks) /\ Shape(o) /\ o.bound[w] # None
      /\ RefsAre(o, Holders(o, tasks)) /\ QueueFits(o, tasks)
      /\ o.state[o.bound[w]] \in {"open", "closing"}
  BY DEF WrapperInv, Fits, Closes
<1>2. PICK i \in Sessions :
        /\ o.bound[w] = <<"pc", i>> /\ o.bound[w][2] = i
        /\ o.state[<<"pc", i>>] # "none" /\ o.pc[i] = w
  BY <1>1, PcBound
<1> DEFINE y == <<"pc", i>>
           u == [o EXCEPT !.state[y] = "closed"]
           x == Plain("pcClosed", w, i)
           n == Append(tasks, x)
<1>3. Queues(u, x)
  <2>1. ClosedTask(o, w) = x
    <3>1. o.bound[w][1] = "pc"
      BY <1>2, ObjectForm
    <3>2. QED
      BY <1>2, <3>1 DEF ClosedTask, Plain
  <2>2. QED
    BY <1>2, <2>1 DEF Closes
<1>4. y \in Objects /\ o.state[y] \in {"open", "closing"} /\ w # None
  BY <1>1, <1>2, ObjectForm, Disjoint
<1> HIDE DEF y
<1>5. /\ Shape(u) /\ u.state[y] = "closed"
      /\ \A z \in Objects : z # y => u.state[z] = o.state[z]
      /\ \A z \in Objects : u.state[z] = "none" <=> o.state[z] = "none"
      /\ u.data = o.data /\ u.bound = o.bound /\ u.reports = o.reports
      /\ SameSessions(o, u) /\ SameChannels(o, u)
  BY <1>1, <1>4, ShutEffect
<1> HIDE DEF u
<1>6. /\ u.data = o.data /\ u.bound = o.bound /\ u.reports = o.reports
      /\ u.ref = o.ref /\ u.active = o.active /\ u.ws = o.ws /\ u.pc = o.pc
      /\ u.received = o.received /\ u.cref = o.cref /\ u.incoming = o.incoming
  BY <1>5 DEF SameSessions, SameChannels
<1>7. /\ u.state[<<"pc", i>>] = "closed" /\ o.state[<<"pc", i>>] \in {"open", "closing"}
      /\ \A j \in Sessions : j # i => u.state[<<"pc", j>>] = o.state[<<"pc", j>>]
      /\ \A j \in Sessions : u.state[<<"ws", j>>] = o.state[<<"ws", j>>]
      /\ \A j \in Sessions : u.state[<<"out", j>>] = o.state[<<"out", j>>]
      /\ \A j \in Sessions : u.state[<<"pc", j>>] = "none" <=> o.state[<<"pc", j>>] = "none"
  <2>1. /\ \A j \in Sessions : j # i => <<"pc", j>> \in Objects /\ <<"pc", j>> # y
        /\ \A j \in Sessions : <<"ws", j>> \in Objects /\ <<"ws", j>> # y
        /\ \A j \in Sessions : <<"out", j>> \in Objects /\ <<"out", j>> # y
        /\ \A j \in Sessions : <<"pc", j>> \in Objects
    BY ObjectForm DEF y
  <2>2. QED
    BY <1>4, <1>5, <2>1 DEF y
<1>8. /\ FormFits(tasks) /\ FirstFits(o) /\ ClientsFit(o, tasks) /\ WsFits(o, tasks)
      /\ PcFits(o, tasks) /\ DcFits(o, tasks)
  BY <1>1 DEF QueueFits
<1>9. /\ x.op = "pcClosed" /\ x.w = w /\ x.of = i /\ Formed(x)
      /\ \A v, j, op : Plain(op, v, j) = x <=> op = "pcClosed" /\ v = w /\ j = i
      /\ \A op \in PcOps : \A v, j, d : Task(op, v, j, d) # x
  BY FormedTasks, TaskIdentity DEF Plain, PcOps
<1>10. ~Has(tasks, x)
  BY <1>7, <1>8 DEF PcFits
<1>11. Queued(tasks, x, n)
  BY <1>8, <1>9, QueuedForm DEF FormFits, Formed
<1> HIDE DEF x, n
<1>12. FormFits(n)
  BY <1>8, <1>9, <1>11, FormQueued
<1>13. FirstFits(u)
  BY <1>7, <1>8 DEF FirstFits
<1>14. ClientsFit(u, n)
  <2>1. ClientsFit(u, tasks)
    BY <1>6, <1>7, <1>8 DEF ClientsFit
  <2>2. ClientJoins(u, tasks, x)
    BY <1>9 DEF ClientJoins, WsOps
  <2>3. QED
    BY <1>9, <1>11, <2>1, <2>2, ClientsQueued
<1>15. WsFits(u, n)
  <2>1. WsFits(u, tasks)
    <3>1. \A j \in Sessions : u.state[<<"ws", j>>] = o.state[<<"ws", j>>]
      BY <1>7
    <3>2. QED
      BY <1>6, <1>8, <3>1, WsFitsSame
  <2>2. WsJoins(u, tasks, x)
    BY <1>9 DEF WsJoins, WsOps
  <2>3. QED
    BY <1>11, <2>1, <2>2, WsQueued
<1>16. PcFits(u, n)
  <2>1. ASSUME NEW j \in Sessions, NEW p \in Pc, Has(n, Plain("pcClosed", p, j))
        PROVE  /\ u.pc[j] = p /\ u.state[<<"pc", j>>] = "closed"
               /\ Single(n, Plain("pcClosed", p, j))
    <3>1. CASE Plain("pcClosed", p, j) = x
      <4>1. p = w /\ j = i
        BY <1>9, <3>1
      <4>2. Single(n, x)
        BY <1>10, <1>11 DEF Queued
      <4>3. QED
        BY <1>2, <1>6, <1>7, <3>1, <4>1, <4>2
    <3>2. CASE Plain("pcClosed", p, j) # x
      <4>1. Has(tasks, Plain("pcClosed", p, j))
        BY <1>11, <2>1, <3>2 DEF Queued
      <4>2. /\ o.pc[j] = p /\ o.state[<<"pc", j>>] = "closed"
            /\ Single(tasks, Plain("pcClosed", p, j))
        BY <1>8, <4>1 DEF PcFits
      <4>3. Single(n, Plain("pcClosed", p, j))
        BY <1>11, <3>2, <4>2 DEF Queued
      <4>4. u.state[<<"pc", j>>] = "closed"
        BY <1>7, <4>2
      <4>5. QED
        BY <1>6, <4>2, <4>3, <4>4
    <3>3. QED
      BY <3>1, <3>2
  <2>2. ASSUME NEW j \in Sessions, NEW p \in Pc, NEW op \in PcOps, NEW d \in Dc,
               Has(n, Task(op, p, j, d))
        PROVE  /\ u.pc[j] = p
               /\ u.state[<<"pc", j>>] = "closed" =>
                    Follows(n, Task(op, p, j, d), Plain("pcClosed", p, j))
    <3>1. Task(op, p, j, d) # x
      BY <1>9
    <3>2. Has(tasks, Task(op, p, j, d))
      BY <1>11, <2>2, <3>1 DEF Queued
    <3>3. /\ o.pc[j] = p
          /\ o.state[<<"pc", j>>] = "closed" =>
               Follows(tasks, Task(op, p, j, d), Plain("pcClosed", p, j))
      BY <1>8, <3>2 DEF PcFits
    <3>4. ASSUME u.state[<<"pc", j>>] = "closed"
          PROVE  Follows(n, Task(op, p, j, d), Plain("pcClosed", p, j))
      <4>1. CASE j = i
        <5>1. Plain("pcClosed", p, j) = x
          BY <1>2, <1>9, <3>3, <4>1
        <5>2. QED
          BY <1>11, <3>1, <5>1 DEF Queued
      <4>2. CASE j # i
        BY <1>7, <1>11, <3>1, <3>3, <3>4, <4>2 DEF Queued
      <4>3. QED
        BY <4>1, <4>2
    <3>5. QED
      BY <1>6, <3>3, <3>4
  <2>3. QED
    BY <2>1, <2>2 DEF PcFits
<1>17. DcFits(u, n)
  <2>1. DcFits(u, tasks)
    BY <1>6, <1>8 DEF DcFits
  <2>2. DcJoins(u, tasks, x)
    BY <1>9 DEF DcJoins, DcOps
  <2>3. QED
    BY <1>11, <2>1, <2>2, DcQueued
<1>18. Holders(u, n) = Holders(o, tasks)
  <2>1. ASSUME NEW j \in Sessions
        PROVE  /\ WsHolds(u, n, j) <=> WsHolds(o, tasks, j)
               /\ PcHolds(u, n, j) <=> PcHolds(o, tasks, j)
    <3>1. WsHolds(u, n, j) <=> WsHolds(o, tasks, j)
      <4>1. \A v : Has(n, Plain("wsClosed", v, j)) <=> Has(tasks, Plain("wsClosed", v, j))
        BY <1>9, <1>11 DEF Queued
      <4>2. Live(u, "ws", j) <=> Live(o, "ws", j)
        BY <1>7 DEF Live
      <4>3. QED
        BY <1>6, <4>1, <4>2 DEF WsHolds
    <3>2. CASE j = i
      <4>1. PcHolds(o, tasks, i)
        BY <1>2, <1>4, <1>7 DEF PcHolds, Live
      <4>2. Has(n, Plain("pcClosed", w, i))
        BY <1>9, <1>11 DEF Queued
      <4>3. PcHolds(u, n, i)
        BY <1>2, <1>4, <1>6, <4>2 DEF PcHolds
      <4>4. QED
        BY <3>1, <3>2, <4>1, <4>3
    <3>3. CASE j # i
      <4>1. \A v : Has(n, Plain("pcClosed", v, j)) <=> Has(tasks, Plain("pcClosed", v, j))
        BY <1>9, <1>11, <3>3 DEF Queued
      <4>2. Live(u, "pc", j) <=> Live(o, "pc", j)
        BY <1>7, <3>3 DEF Live
      <4>3. QED
        BY <1>6, <3>1, <4>1, <4>2 DEF PcHolds
    <3>4. QED
      BY <3>2, <3>3
  <2>2. QED
    BY <2>1 DEF Holders, Count
<1>19. RefsAre(u, Holders(u, n))
  <2> DEFINE h == Holders(o, tasks)
  <2>1. RefsAre(o, h) /\ h \in [Sessions -> Nat]
    BY <1>1, HoldersType
  <2>2. \A j \in Sessions : /\ Live(u, "ws", j) => Live(o, "ws", j)
                            /\ Live(u, "pc", j) => Live(o, "pc", j)
    BY <1>7 DEF Live
  <2> HIDE DEF h
  <2>3. RefsAre(u, h)
    BY <1>6, <2>1, <2>2, RefsLess
  <2>4. QED
    BY <1>18, <2>3 DEF h
<1>20. Fits(u, n)
  BY <1>5, <1>12, <1>13, <1>14, <1>15, <1>16, <1>17, <1>19 DEF Fits, QueueFits
<1>21. QED
  BY <1>3, <1>6, <1>20, Arrived DEF n

\* A data channel closes.
LEMMA DcClosesKeeps ==
  ASSUME WrapperInv, NEW w \in Dc, Closes(w)
  PROVE  WrapperInv'
<1>1. /\ Fits(o, tasks) /\ Shape(o) /\ o.bound[w] # None
      /\ RefsAre(o, Holders(o, tasks)) /\ QueueFits(o, tasks)
  BY DEF WrapperInv, Fits, Closes
<1>2. \E i \in Sessions, k \in {"out", "in", "twin"} :
        /\ o.bound[w] = <<k, i>> /\ o.bound[w][1] = k /\ o.bound[w][2] = i
        /\ o.state[<<k, i>>] # "none"
        /\ \A j \in Sessions : o.incoming[j] = w => j = i
        /\ \A j \in Sessions \ {i} : o.bound[w] \notin {<<"in", j>>, <<"twin", j>>}
  BY <1>1, DcBound
<1>3. PICK i \in Sessions : \E k \in {"out", "in", "twin"} :
        /\ o.bound[w] = <<k, i>> /\ o.bound[w][1] = k /\ o.bound[w][2] = i
        /\ o.state[<<k, i>>] # "none"
        /\ \A j \in Sessions : o.incoming[j] = w => j = i
        /\ \A j \in Sessions \ {i} : o.bound[w] \notin {<<"in", j>>, <<"twin", j>>}
  BY <1>2
<1>4. PICK k \in {"out", "in", "twin"} :
        /\ o.bound[w] = <<k, i>> /\ o.bound[w][1] = k /\ o.bound[w][2] = i
        /\ o.state[<<k, i>>] # "none"
        /\ \A j \in Sessions : o.incoming[j] = w => j = i
        /\ \A j \in Sessions \ {i} : o.bound[w] \notin {<<"in", j>>, <<"twin", j>>}
  BY <1>3
<1> DEFINE y == <<k, i>>
           u == [o EXCEPT !.state[y] = "closed"]
           x == Plain("dcClosed", w, i)
<1>5. Queues(u, x)
  <2>1. ClosedTask(o, w) = x
    BY <1>4 DEF ClosedTask, Plain
  <2>2. QED
    BY <1>4, <2>1 DEF Closes
<1>6. y \in Objects /\ o.state[y] # "none"
  BY <1>4, ObjectForm
<1>7. \A j \in Sessions : /\ <<"ws", j>> \in Objects /\ <<"ws", j>> # y
                          /\ <<"pc", j>> \in Objects /\ <<"pc", j>> # y
                          /\ <<"out", j>> \in Objects
  BY ObjectForm
<1> HIDE DEF y
<1>8. /\ Shape(u)
      /\ \A z \in Objects : z # y => u.state[z] = o.state[z]
      /\ \A z \in Objects : u.state[z] = "none" <=> o.state[z] = "none"
      /\ u.data = o.data /\ u.bound = o.bound /\ u.reports = o.reports
      /\ SameSessions(o, u) /\ SameChannels(o, u)
  BY <1>1, <1>6, ShutEffect
<1> HIDE DEF u
<1>9. /\ u.data = o.data /\ u.bound = o.bound /\ u.reports = o.reports
      /\ u.ref = o.ref /\ u.active = o.active /\ u.ws = o.ws /\ u.pc = o.pc
      /\ u.received = o.received /\ u.cref = o.cref /\ u.incoming = o.incoming
  BY <1>8 DEF SameSessions, SameChannels
<1>10. /\ \A j \in Sessions : u.state[<<"ws", j>>] = o.state[<<"ws", j>>]
       /\ \A j \in Sessions : u.state[<<"pc", j>>] = o.state[<<"pc", j>>]
       /\ \A j \in Sessions : u.state[<<"out", j>>] = "none" <=> o.state[<<"out", j>>] = "none"
  BY <1>7, <1>8
<1>11. /\ FormFits(tasks) /\ FirstFits(o) /\ ClientsFit(o, tasks) /\ WsFits(o, tasks)
       /\ PcFits(o, tasks) /\ DcFits(o, tasks)
  BY <1>1 DEF QueueFits
<1>12. /\ x.op = "dcClosed" /\ x.w = w /\ x.of = i /\ Formed(x)
  BY FormedTasks, TaskIdentity DEF Plain, DcOps
<1> HIDE DEF x
<1>13. QueueFits(u, tasks)
  <2>1. FirstFits(u)
    BY <1>10, <1>11 DEF FirstFits
  <2>2. ClientsFit(u, tasks)
    BY <1>9, <1>10, <1>11 DEF ClientsFit
  <2>3. WsFits(u, tasks)
    <3>1. \A j \in Sessions : u.state[<<"ws", j>>] = o.state[<<"ws", j>>]
      BY <1>10
    <3>2. QED
      BY <1>9, <1>11, <3>1, WsFitsSame
  <2>4. PcFits(u, tasks)
    <3>1. \A j \in Sessions : u.state[<<"pc", j>>] = o.state[<<"pc", j>>]
      BY <1>10
    <3>2. QED
      BY <1>9, <1>11, <3>1, PcFitsSame
  <2>5. DcFits(u, tasks)
    BY <1>9, <1>11 DEF DcFits
  <2>6. QED
    BY <1>11, <2>1, <2>2, <2>3, <2>4, <2>5 DEF QueueFits
<1>14. Fits(u, tasks)
  <2> DEFINE h == Holders(o, tasks)
  <2>1. RefsAre(o, h) /\ h \in [Sessions -> Nat]
    BY <1>1, HoldersType
  <2>2. \A j \in Sessions : /\ Live(u, "ws", j) <=> Live(o, "ws", j)
                            /\ Live(u, "pc", j) <=> Live(o, "pc", j)
    BY <1>10 DEF Live
  <2>3. Holders(u, tasks) = h
    <3>1. \A j \in Sessions : /\ WsHolds(u, tasks, j) <=> WsHolds(o, tasks, j)
                              /\ PcHolds(u, tasks, j) <=> PcHolds(o, tasks, j)
      BY <1>9, <2>2 DEF WsHolds, PcHolds
    <3>2. QED
      BY <3>1 DEF Holders, Count
  <2> HIDE DEF h
  <2>4. RefsAre(u, h)
    BY <1>9, <2>1, <2>2, RefsLess
  <2>5. QED
    BY <1>8, <1>13, <2>3, <2>4 DEF Fits
<1>15. /\ ClientJoins(u, tasks, x) /\ WsJoins(u, tasks, x) /\ PcJoins(u, tasks, x)
  BY <1>12 DEF ClientJoins, WsJoins, PcJoins, WsOps, PcOps
<1>16. DcJoins(u, tasks, x)
  BY <1>4, <1>9, <1>12 DEF DcJoins
<1>17. Fits(u, Append(tasks, x))
  BY <1>12, <1>14, <1>15, <1>16, TaskFits
<1>18. QED
  BY <1>5, <1>9, <1>17, Arrived

\* The socket has stopped, and the client is refused: its wrapper goes back to
\* the pool, and the close of its WebSocket may find nothing.
LEMMA ClientRefused ==
  ASSUME WrapperInv, tasks # <<>>, Event.op = "client",
         Ends(Destroy(o, {Event.w}), Tail(tasks))
  PROVE  WrapperInv'
<1> DEFINE i == Event.of
           w == Event.w
           q == Tail(tasks)
           u == Destroy(o, {w})
           x == Plain("wsClosed", w, i)
<1>1. /\ i \in Sessions /\ w \in Ws
      /\ Shape(o) /\ RefsAre(o, Holders(o, q)) /\ QueueFits(o, q)
      /\ o.bound[w] = <<"ws", i>> /\ o.data[w] = None
      /\ o.ws[i] = None
      /\ \A j \in Sessions, v \in Ws : Has(q, Plain("client", v, j)) => j # i /\ v # w
  BY ClientTaken
<1>2. /\ o \in Owned /\ BoundFits(o) /\ DataFits(o)
      /\ \A j \in Sessions : SessionFits(o, j) /\ ChannelFits(o, j)
  BY <1>1 DEF Shape
<1>3. Ends(u, q) /\ o.reports = {}
  BY DEF WrapperInv
<1> HIDE DEF i, w, q
<1>4. /\ w \in Wrappers /\ <<"ws", i>> \in Objects /\ o.bound[w] # None
      /\ w \notin Pc /\ w \notin Dc
  <2>1. <<"ws", i>> \in Objects
    BY <1>1, ObjectForm
  <2>2. QED
    BY <1>1, <2>1, Disjoint
<1>5. ClosedTask(o, w) = x
  <2>1. o.bound[w][1] = "ws" /\ o.bound[w][2] = i
    BY <1>1, ObjectForm
  <2>2. QED
    BY <2>1 DEF ClosedTask, Plain
<1>6. /\ u \in Owned
      /\ u.state = [y \in Objects |->
           IF \E v \in {w} : o.bound[v] = y THEN "closed" ELSE o.state[y]]
      /\ u.data = [v \in Wrappers |-> IF v \in {w} THEN None ELSE o.data[v]]
      /\ u.bound = [v \in Wrappers |-> IF v \in {w} THEN None ELSE o.bound[v]]
      /\ u.reports = o.reports \cup {ClosedTask(o, v) : v \in
           {v \in {w} : o.state[o.bound[v]] # "closed"}}
      /\ SameSessions(o, u) /\ SameChannels(o, u)
  BY <1>2, <1>4, DestroyForm
<1> HIDE DEF u
<1>7. /\ u.bound[w] = None
      /\ \A v \in Wrappers : v # w => u.bound[v] = o.bound[v]
      /\ \A v \in Wrappers : u.data[v] = o.data[v]
      /\ u.state[<<"ws", i>>] = "closed"
      /\ \A y \in Objects : y # <<"ws", i>> => u.state[y] = o.state[y]
  BY <1>1, <1>4, <1>6
<1>8. /\ u.reports \subseteq {x}
      /\ u.reports # {} => o.state[<<"ws", i>>] # "closed"
  BY <1>1, <1>3, <1>5, <1>6
<1>9. /\ u.ref = o.ref /\ u.active = o.active /\ u.authenticated = o.authenticated
      /\ u.ws = o.ws /\ u.pc = o.pc /\ u.received = o.received
      /\ u.listed = o.listed /\ u.cref = o.cref /\ u.cactive = o.cactive
      /\ u.outgoing = o.outgoing /\ u.incoming = o.incoming
  BY <1>6 DEF SameSessions, SameChannels
<1>10. /\ \A j \in Sessions : j # i => u.state[<<"ws", j>>] = o.state[<<"ws", j>>]
       /\ \A j \in Sessions : u.state[<<"pc", j>>] = o.state[<<"pc", j>>]
       /\ \A j \in Sessions : u.state[<<"out", j>>] = o.state[<<"out", j>>]
  <2>1. /\ \A j \in Sessions : j # i => <<"ws", j>> \in Objects /\ <<"ws", j>> # <<"ws", i>>
        /\ \A j \in Sessions : <<"pc", j>> \in Objects /\ <<"pc", j>> # <<"ws", i>>
        /\ \A j \in Sessions : <<"out", j>> \in Objects /\ <<"out", j>> # <<"ws", i>>
    BY ObjectForm
  <2>2. QED
    BY <1>7, <2>1
<1>11. Shape(u)
  <2>1. BoundFits(u)
    <3>1. \A v \in Wrappers : u.bound[v] # None =>
            /\ u.bound[v] = o.bound[v] /\ u.bound[v] # <<"ws", i>>
            /\ u.bound[v] \in Objects
      <4> SUFFICES ASSUME NEW v \in Wrappers, u.bound[v] # None
                   PROVE  /\ u.bound[v] = o.bound[v] /\ u.bound[v] # <<"ws", i>>
                          /\ u.bound[v] \in Objects
        OBVIOUS
      <4>1. v # w /\ u.bound[v] = o.bound[v]
        BY <1>7
      <4>2. o.bound[v] # o.bound[w]
        BY <1>2, <1>4, <4>1 DEF BoundFits
      <4>3. u.bound[v] \in Objects
        BY <1>6, WrapperFields
      <4>4. QED
        BY <1>1, <4>1, <4>2, <4>3
    <3>2. \A v \in Wrappers : u.bound[v] # None => u.state[u.bound[v]] # "none"
      BY <1>2, <1>7, <3>1 DEF BoundFits
    <3>3. \A v, y \in Wrappers : u.bound[v] # None /\ u.bound[v] = u.bound[y] => v = y
      BY <1>2, <3>1 DEF BoundFits
    <3>4. \A v \in Wrappers, j \in Sessions : u.bound[v] = <<"pc", j>> => u.pc[j] = v
      <4>1. \A j \in Sessions : <<"pc", j>> # None
        BY ObjectForm, Disjoint
      <4>2. ASSUME NEW v \in Wrappers, NEW j \in Sessions, u.bound[v] = <<"pc", j>>
            PROVE  u.pc[j] = v
        <5>1. o.bound[v] = <<"pc", j>>
          BY <3>1, <4>1, <4>2
        <5>2. o.pc[j] = v
          BY <1>2, <5>1 DEF BoundFits
        <5>3. QED
          BY <1>9, <5>2
      <4>3. QED
        BY <4>2
    <3>5. /\ \A v \in Ws : u.bound[v] # None => \E j \in Sessions : u.bound[v] = <<"ws", j>>
          /\ \A v \in Pc : u.bound[v] # None => \E j \in Sessions : u.bound[v] = <<"pc", j>>
          /\ \A v \in Dc : u.bound[v] # None =>
               \E j \in Sessions, k \in {"out", "in", "twin"} : u.bound[v] = <<k, j>>
      BY <1>2, <3>1, Disjoint DEF BoundFits
    <3>6. QED
      BY <3>2, <3>3, <3>4, <3>5 DEF BoundFits
  <2>2. DataFits(u)
    BY <1>2, <1>7, <1>9 DEF DataFits
  <2>3. ASSUME NEW j \in Sessions PROVE SessionFits(u, j) /\ ChannelFits(u, j)
    <3>1. SessionFits(o, j) /\ ChannelFits(o, j)
      BY <1>2
    <3>2. /\ o.ws[j] \in Ws \cup {None} /\ o.pc[j] \in Pc \cup {None}
          /\ o.outgoing[j] \in Dc \cup {None} /\ o.incoming[j] \in Dc \cup {None}
      BY <1>2, WrapperFields
    <3>3. \A v \in Wrappers : o.data[v] = j => u.data[v] = j /\ u.bound[v] = o.bound[v]
      BY <1>1, <1>7, Disjoint
    <3>4. /\ o.ws[j] # None => u.bound[o.ws[j]] = <<"ws", j>> /\ u.data[o.ws[j]] = j
          /\ o.pc[j] # None => u.bound[o.pc[j]] = <<"pc", j>> /\ u.data[o.pc[j]] = j
      BY <3>1, <3>2, <3>3, Disjoint DEF SessionFits
    <3>5. SessionFits(u, j)
      <4>1. u.state[<<"out", j>>] = o.state[<<"out", j>>]
        BY <1>10
      <4>2. QED
        BY <1>9, <3>1, <3>4, <4>1 DEF SessionFits
    <3>6. /\ o.outgoing[j] # None =>
               u.bound[o.outgoing[j]] = <<"out", j>> /\ u.data[o.outgoing[j]] = j
          /\ o.incoming[j] # None =>
               /\ u.bound[o.incoming[j]] \in {<<"in", j>>, <<"twin", j>>}
               /\ u.data[o.incoming[j]] = j
      BY <3>1, <3>2, <3>3, Disjoint DEF ChannelFits
    <3>7. ChannelFits(u, j)
      BY <1>9, <3>1, <3>6 DEF ChannelFits
    <3>8. QED
      BY <3>5, <3>7
  <2>4. QED
    BY <1>6, <2>1, <2>2, <2>3 DEF Shape
<1>12. /\ FormFits(q) /\ FirstFits(o) /\ ClientsFit(o, q) /\ WsFits(o, q)
       /\ PcFits(o, q) /\ DcFits(o, q)
  BY <1>1 DEF QueueFits
<1>13. QueueFits(u, q)
  <2>1. FirstFits(u)
    <3>1. \A j \in Sessions : u.state[<<"ws", j>>] = "none" => o.state[<<"ws", j>>] = "none"
      BY <1>7, <1>10
    <3>2. QED
      BY <1>10, <1>12, <3>1 DEF FirstFits
  <2>2. ClientsFit(u, q)
    <3>1. ASSUME NEW j \in Sessions, NEW v \in Ws, Has(q, Plain("client", v, j))
          PROVE  /\ u.bound[v] = o.bound[v]
                 /\ u.state[<<"ws", j>>] = o.state[<<"ws", j>>]
      <4>1. j # i /\ v # w /\ v \in Wrappers
        BY <1>1, <3>1, Disjoint
      <4>2. QED
        BY <1>7, <1>10, <4>1
    <3>2. QED
      BY <1>10, <1>12, <3>1 DEF ClientsFit
  <2>3. WsFits(u, q)
    <3>1. \A j \in Sessions : /\ u.state[<<"ws", j>>] = "none" => o.state[<<"ws", j>>] = "none"
                              /\ o.state[<<"ws", j>>] = "closed" => u.state[<<"ws", j>>] = "closed"
      BY <1>7, <1>10
    <3>2. \A v \in Ws : u.data[v] = o.data[v] /\ u.bound[v] \in {o.bound[v], None}
      BY <1>7, Disjoint
    <3>3. \A j \in Sessions : <<"ws", j>> # None
      BY ObjectForm, Disjoint
    <3>4. \A v \in Ws, j \in Sessions : u.bound[v] = <<"ws", j>> => o.bound[v] = <<"ws", j>>
      BY <3>2, <3>3
    <3>5. QED
      BY <1>12, <3>1, <3>2, <3>4 DEF WsFits
  <2>4. PcFits(u, q)
    BY <1>9, <1>10, <1>12, PcFitsSame
  <2>5. DcFits(u, q)
    <3>1. \A d \in Dc : u.bound[d] = o.bound[d] /\ u.data[d] = o.data[d]
      BY <1>4, <1>7, Disjoint
    <3>2. QED
      BY <1>9, <1>12, <3>1 DEF DcFits
  <2>6. QED
    BY <1>12, <2>1, <2>2, <2>3, <2>4, <2>5 DEF QueueFits
<1>14. Fits(u, q)
  <2> DEFINE h == Holders(o, q)
  <2>1. RefsAre(o, h) /\ h \in [Sessions -> Nat]
    BY <1>1, HoldersType
  <2>2. \A j \in Sessions : /\ j # i => (Live(u, "ws", j) <=> Live(o, "ws", j))
                            /\ Live(u, "pc", j) <=> Live(o, "pc", j)
    BY <1>10 DEF Live
  <2>3. ~Live(u, "ws", i)
    BY <1>7 DEF Live
  <2>4. Holders(u, q) = h
    <3>1. \A j \in Sessions : /\ WsHolds(u, q, j) <=> WsHolds(o, q, j)
                              /\ PcHolds(u, q, j) <=> PcHolds(o, q, j)
      BY <1>1, <1>9, <2>2 DEF WsHolds, PcHolds
    <3>2. QED
      BY <3>1 DEF Holders, Count
  <2>5. \A j \in Sessions : /\ Live(u, "ws", j) => Live(o, "ws", j)
                            /\ Live(u, "pc", j) => Live(o, "pc", j)
    BY <2>2, <2>3
  <2> HIDE DEF h
  <2>6. RefsAre(u, h)
    BY <1>9, <2>1, <2>5, RefsLess
  <2>7. QED
    BY <1>11, <1>13, <2>4, <2>6 DEF Fits
<1>15. /\ x.op = "wsClosed" /\ x.w = w /\ x.of = i /\ Formed(x)
       /\ \A v, j : Plain("wsClosed", v, j) = x => j = i
       /\ \A v, j : Plain("pcClosed", v, j) # x
  BY <1>1, FormedTasks, TaskIdentity DEF Plain, WsOps
<1>16. o.state[<<"ws", i>>] # "closed" => ~Has(q, x)
  BY <1>1, <1>12 DEF WsFits, WsOps
<1> HIDE DEF x
<1>17. u.reports # {} => Fits(u, Append(q, x))
  <2> SUFFICES ASSUME u.reports # {} PROVE Fits(u, Append(q, x))
    OBVIOUS
  <2>1. ClientJoins(u, q, x)
    BY <1>7, <1>15 DEF ClientJoins
  <2>2. WsJoins(u, q, x)
    <3>1. \A v \in Ws : u.bound[v] = <<"ws", i>> => v = w
      <4>1. \A v \in Wrappers : o.bound[v] = <<"ws", i>> => v = w
        BY <1>1, <1>2, <1>4 DEF BoundFits
      <4>2. QED
        BY <1>7, <4>1, Disjoint
    <3>2. u.data[w] = None
      BY <1>1, <1>4, <1>7
    <3>3. QED
      BY <1>7, <1>8, <1>15, <1>16, <3>1, <3>2 DEF WsJoins
  <2>3. PcJoins(u, q, x) /\ DcJoins(u, q, x)
    BY <1>15 DEF PcJoins, DcJoins, PcOps, DcOps
  <2>4. QueueFits(u, Append(q, x))
    BY <1>13, <1>15, <2>1, <2>2, <2>3, TaskQueued
  <2>5. Queued(q, x, Append(q, x))
    BY <1>12, <1>15, QueuedForm DEF FormFits, Formed
  <2>6. \A j \in Sessions : /\ u.ws[j] # None => x # Plain("wsClosed", u.ws[j], j)
                            /\ u.pc[j] # None => x # Plain("pcClosed", u.pc[j], j)
    BY <1>1, <1>9, <1>15
  <2>7. Holders(u, Append(q, x)) = Holders(u, q)
    BY <2>5, <2>6, QueuedHolders
  <2>8. QED
    BY <1>14, <2>4, <2>7 DEF Fits
<1>18. Fits(u, tasks') /\ o' = [u EXCEPT !.reports = {}]
  <2>0. PICK R \in SUBSET u.reports : \E r \in SetToSeqs(R) : tasks' = q \o r
    BY <1>3 DEF Ends
  <2>1. PICK r \in SetToSeqs(R) : tasks' = q \o r
    BY <2>0
  <2>2. o' = [u EXCEPT !.reports = {}]
    BY <1>3 DEF Ends
  <2>3. q \in Seq(TaskRecords) /\ x \in TaskRecords
    BY <1>12, <1>15 DEF FormFits, Formed
  <2>4. r \in [1 .. Cardinality(R) -> R]
    BY DEF SetToSeqs
  <2>5. CASE R = {}
    <3>1. Cardinality(R) = 0
      BY <2>5, FS_EmptySet
    <3>2. r \in [1 .. 0 -> R]
      BY <2>4, <3>1
    <3>3. r = <<>>
      BY <3>2
    <3>4. tasks' = q
      BY <2>1, <2>3, <3>3
    <3>5. QED
      BY <1>14, <2>2, <3>4
  <2>6. CASE R # {}
    <3>1. R = {x} /\ u.reports # {}
      BY <1>8, <2>6
    <3>2. Cardinality(R) = 1
      BY <3>1, FS_Singleton
    <3>3. r \in [1 .. 1 -> {x}]
      BY <2>4, <3>1, <3>2
    <3>4. r = <<x>>
      BY <3>3
    <3>5. tasks' = Append(q, x)
      BY <2>1, <2>3, <3>4
    <3>6. QED
      BY <1>17, <2>2, <3>1, <3>5
  <2>7. QED
    BY <2>5, <2>6
<1>19. Fits(o', tasks') /\ o'.reports = {} /\ o'.received = u.received
  BY <1>18, Unreported
<1>20. QED
  BY <1>9, <1>19 DEF WrapperInv, MessagesReachOwn

\* A client whose task is taken, when its session can be allocated.
LEMMA OnClientKeeps ==
  ASSUME WrapperInv, "memory" \notin Faults, OnClient
  PROVE  WrapperInv'
<1>1. tasks # <<>> /\ Event.op = "client"
  BY DEF OnClient, Handles, Takes
<1>2. CASE Ends(Destroy(o, {Event.w}), Tail(tasks))
  BY <1>1, <1>2, ClientRefused
<1>3. CASE \E p \in Free(Pc) : Ends(SessionInit(o, Event.of, Event.w, p), Tail(tasks))
  BY <1>1, <1>3, ClientBegins
<1>4. QED
  BY <1>2, <1>3 DEF OnClient, Handles, Allocated
-----------------------------------------------------------------------------
(***************************************************************************)
(* The invariant, and what follows from it.                                *)
(***************************************************************************)
\* Nothing has begun.
LEMMA InitKeeps ==
  ASSUME Init
  PROVE  WrapperInv
<1>1. /\ o.state = [x \in Objects |-> "none"]
      /\ o.data = [w \in Wrappers |-> None] /\ o.bound = [w \in Wrappers |-> None]
      /\ o.reports = {} /\ o.ref = [i \in Sessions |-> 0]
      /\ o.active = {} /\ o.authenticated = {} /\ o.listed = {} /\ o.cactive = {}
      /\ o.ws = [i \in Sessions |-> None] /\ o.pc = [i \in Sessions |-> None]
      /\ o.cref = [i \in Sessions |-> 0]
      /\ o.outgoing = [i \in Sessions |-> None] /\ o.incoming = [i \in Sessions |-> None]
      /\ o.received = [i \in Sessions |-> {}]
      /\ tasks = <<>>
  BY DEF Init
<1>2. o \in Owned
  BY DEF Init, Owned
<1>3. /\ \A i \in Sessions : /\ <<"ws", i>> \in Objects /\ <<"pc", i>> \in Objects
                             /\ <<"out", i>> \in Objects
      /\ None \notin Sessions
  BY ObjectForm, Disjoint
<1>4. \A i \in Sessions : /\ o.state[<<"ws", i>>] = "none"
                          /\ o.state[<<"pc", i>>] = "none"
                          /\ o.state[<<"out", i>>] = "none"
  BY <1>1, <1>3, ZenonT(40)
<1>5. \A x : ~Has(tasks, x)
  BY <1>1 DEF Has
<1>6. BoundFits(o)
  <2>1. \A w \in Wrappers : o.bound[w] = None
    BY <1>1
  <2>2. \A i \in Sessions : <<"pc", i>> # None
    BY <1>3, Disjoint
  <2>3. QED
    BY <2>1, <2>2, Disjoint DEF BoundFits
<1>7. DataFits(o)
  BY <1>1, <1>3 DEF DataFits
<1>8. ASSUME NEW i \in Sessions PROVE SessionFits(o, i) /\ ChannelFits(o, i)
  <2>1. /\ o.ref[i] = 0 /\ o.ws[i] = None /\ o.pc[i] = None /\ o.cref[i] = 0
        /\ o.outgoing[i] = None /\ o.incoming[i] = None
    BY <1>1
  <2>2. SessionFits(o, i)
    BY <1>1, <2>1 DEF SessionFits
  <2>3. ChannelFits(o, i)
    BY <1>1, <2>1 DEF ChannelFits
  <2>4. QED
    BY <2>2, <2>3
<1>9. Shape(o)
  BY <1>2, <1>6, <1>7, <1>8 DEF Shape
<1>10. RefsAre(o, Holders(o, tasks))
  <2> SUFFICES ASSUME NEW i \in Sessions
               PROVE  /\ o.ref[i] = Count(i \in o.active) + Holders(o, tasks)[i]
                                      + Count(o.cref[i] > 0)
                      /\ ~(o.ref[i] > 0)
    BY DEF RefsAre
  <2>1. o.ref[i] = 0 /\ o.cref[i] = 0 /\ i \notin o.active
    BY <1>1
  <2>2. ~WsHolds(o, tasks, i) /\ ~PcHolds(o, tasks, i)
    BY <1>1 DEF WsHolds, PcHolds
  <2>3. Holders(o, tasks)[i] = 0
    BY <2>2, HoldersType DEF Count
  <2>4. QED
    BY <2>1, <2>3 DEF Count
<1>11. QueueFits(o, tasks)
  <2>1. FormFits(tasks)
    BY <1>1, <1>5 DEF FormFits
  <2>2. FirstFits(o)
    BY <1>4 DEF FirstFits
  <2>3. ClientsFit(o, tasks) /\ WsFits(o, tasks)
    BY <1>5 DEF ClientsFit, WsFits
  <2>4. PcFits(o, tasks) /\ DcFits(o, tasks)
    BY <1>5 DEF PcFits, DcFits
  <2>5. QED
    BY <2>1, <2>2, <2>3, <2>4 DEF QueueFits
<1>12. MessagesReachOwn
  BY <1>1 DEF MessagesReachOwn
<1>13. QED
  BY <1>1, <1>9, <1>10, <1>11, <1>12 DEF WrapperInv, Fits

\* Every step keeps the invariant, when the timers of sessions can be allocated.
LEMMA NextKeeps ==
  ASSUME WrapperInv, "memory" \notin Faults, [Next]_vars
  PROVE  WrapperInv'
<1>1. CASE UNCHANGED vars
  <2>1. o' = o /\ tasks' = tasks
    BY <1>1 DEF vars
  <2>2. Fits(o', tasks') /\ o'.reports = {}
    BY <2>1 DEF WrapperInv
  <2>3. QED
    BY <2>1, <2>2 DEF WrapperInv, MessagesReachOwn
<1>2. CASE PluginThread
  <2>1. CASE OnClient
    BY <2>1, OnClientKeeps
  <2>2. CASE OnWsMessage
    BY <2>2, OnWsMessageKeeps
  <2>3. CASE OnWsClosed
    BY <2>3, OnWsClosedKeeps
  <2>4. CASE OnPcClosed
    BY <2>4, OnPcClosedKeeps
  <2>5. CASE OnBadChannel
    BY <2>5, OnBadChannelKeeps
  <2>6. CASE OnDataChannel
    BY <2>6, OnDataChannelKeeps
  <2>7. CASE OnMessage
    BY <2>7, OnMessageKeeps
  <2>8. CASE OnDcClosed
    BY <2>8, OnDcClosedKeeps
  <2>9. CASE \E i \in Sessions : Expires(i)
    BY <2>9, ExpiresKeeps
  <2>10. QED
    BY <1>2, <2>1, <2>2, <2>3, <2>4, <2>5, <2>6, <2>7, <2>8, <2>9 DEF PluginThread
<1>3. CASE RtcThreads
  <2>1. CASE \E i \in Sessions, w \in Free(Ws) : Accept(i, w)
    BY <2>1, AcceptKeeps
  <2>2. CASE \E w \in Ws : WsMessage(w)
    BY <2>2, WsMessageKeeps
  <2>3. CASE \E w \in Pc, k \in {"in", "twin"}, d \in Free(Dc) : PcDataChannel(w, k, d)
    BY <2>3, PcDataChannelKeeps
  <2>4. CASE \E w \in Dc : DcMessage(w)
    BY <2>4, DcMessageKeeps
  <2>5. CASE \E w \in Wrappers : Closes(w)
    BY <2>5, WsClosesKeeps, PcClosesKeeps, DcClosesKeeps, Disjoint
  <2>6. QED
    BY <1>3, <2>1, <2>2, <2>3, <2>4, <2>5 DEF RtcThreads
<1>4. QED
  BY <1>1, <1>2, <1>3 DEF Next

\* The invariant holds in every state, when the timers of sessions can
\* be allocated.
THEOREM WrapperInvariance ==
  ASSUME "memory" \notin Faults
  PROVE  Spec => []WrapperInv
<1>1. Init => WrapperInv
  BY InitKeeps
<1>2. WrapperInv /\ [Next]_vars => WrapperInv'
  BY NextKeeps
<1>3. QED
  BY <1>1, <1>2, PTL DEF Spec

\* The tasks of the queue are what Has finds.
LEMMA QueueElements ==
  ASSUME FormFits(tasks)
  PROVE  \A k \in DOMAIN tasks :
           /\ tasks[k] \in TaskRecords /\ Has(tasks, tasks[k])
           /\ tasks[k].w \in Wrappers /\ tasks[k].of \in Sessions
           /\ tasks[k] = Task(tasks[k].op, tasks[k].w, tasks[k].of, tasks[k].dc)
<1>1. tasks \in Seq(TaskRecords)
  BY DEF FormFits
<1>2. \A k \in DOMAIN tasks : k \in 1 .. Len(tasks) /\ tasks[k] \in TaskRecords
  BY <1>1
<1>3. \A x \in TaskRecords :
        x.w \in Wrappers /\ x.of \in Sessions /\ x = Task(x.op, x.w, x.of, x.dc)
  BY DEF TaskRecords, Task
<1>4. \A k \in DOMAIN tasks : Has(tasks, tasks[k])
  BY <1>2 DEF Has
<1>5. QED
  BY <1>2, <1>3, <1>4

\* The types of the objects and wrappers and of the queue (rtc-object.hpp), when
\* the timers of sessions can be allocated.
THEOREM WrapperTypes ==
  ASSUME "memory" \notin Faults
  PROVE  Spec => []TypeOK
<1>1. WrapperInv => TypeOK
  BY DEF WrapperInv, Fits, Shape, QueueFits, FormFits, TypeOK
<1>2. QED
  BY <1>1, WrapperInvariance, PTL

\* A wrapper's data is alive and knows the wrapper (rtc-object.cpp:20), when
\* the timers of sessions can be allocated.
THEOREM WrapperData ==
  ASSUME "memory" \notin Faults
  PROVE  Spec => []DataIsLive
<1>1. ASSUME WrapperInv PROVE DataIsLive
  <2> SUFFICES ASSUME NEW w \in Wrappers, o.data[w] # None
               PROVE  LET i == o.data[w] IN
                        IF w \in Dc THEN o.cref[i] > 0 /\ w \in {o.outgoing[i], o.incoming[i]}
                                    ELSE o.ref[i] > 0 /\ w \in {o.ws[i], o.pc[i]}
    BY DEF DataIsLive
  <2> DEFINE i == o.data[w]
  <2>1. Shape(o) /\ o \in Owned
    BY <1>1 DEF WrapperInv, Fits, Shape
  <2>2. i \in Sessions
    BY <2>1, WrapperFields
  <2> HIDE DEF i
  <2>3. /\ w \in Ws => o.ws[i] = w /\ o.ref[i] > 0
        /\ w \in Pc => o.pc[i] = w /\ o.ref[i] > 0
        /\ w \in Dc => w \in {o.outgoing[i], o.incoming[i]} /\ o.cref[i] > 0
    BY <2>1, <2>2, DataOwn DEF i
  <2>4. QED
    BY <2>3, Disjoint DEF i
<1>2. QED
  BY <1>1, WrapperInvariance, PTL

\* A message or close of a WebSocket finds its own session or none
\* (session-ws.c:167), when the timers of sessions can be allocated.
THEOREM WrapperWs ==
  ASSUME "memory" \notin Faults
  PROVE  Spec => []WsFindsOwn
<1>1. ASSUME WrapperInv PROVE WsFindsOwn
  <2> SUFFICES ASSUME NEW k \in DOMAIN tasks, tasks[k].op \in WsOps
               PROVE  o.data[tasks[k].w] \in {tasks[k].of, None}
    BY DEF WsFindsOwn, WsOps
  <2> DEFINE x == tasks[k]
  <2>1. FormFits(tasks) /\ WsFits(o, tasks)
    BY <1>1 DEF WrapperInv, Fits, QueueFits
  <2>2. /\ x \in TaskRecords /\ Has(tasks, x) /\ x.of \in Sessions
        /\ x = Task(x.op, x.w, x.of, x.dc)
    BY <2>1, QueueElements
  <2>3. x.w \in Ws /\ x.dc = None
    BY <2>1, <2>2 DEF FormFits, WsOps
  <2>4. Has(tasks, Plain(x.op, x.w, x.of))
    BY <2>2, <2>3 DEF Plain
  <2>5. QED
    BY <2>1, <2>2, <2>3, <2>4 DEF WsFits
<1>2. QED
  BY <1>1, WrapperInvariance, PTL

\* An event of a peer connection finds its own session (session-pc.c:38, 100,
\* 158), when the timers of sessions can be allocated.
THEOREM WrapperPc ==
  ASSUME "memory" \notin Faults
  PROVE  Spec => []PcFindsOwn
<1>1. ASSUME WrapperInv PROVE PcFindsOwn
  <2> SUFFICES ASSUME NEW k \in DOMAIN tasks, tasks[k].op \in PcOps \cup {"pcClosed"}
               PROVE  o.data[tasks[k].w] = tasks[k].of
    BY DEF PcFindsOwn, PcOps
  <2> DEFINE x == tasks[k]
  <2>1. FormFits(tasks) /\ PcFits(o, tasks) /\ \A i \in Sessions : SessionFits(o, i)
    BY <1>1 DEF WrapperInv, Fits, QueueFits, Shape
  <2>2. /\ x \in TaskRecords /\ Has(tasks, x) /\ x.of \in Sessions
        /\ x = Task(x.op, x.w, x.of, x.dc)
    BY <2>1, QueueElements
  <2> HIDE DEF x
  <2>3. x.w \in Pc /\ o.pc[x.of] = x.w
    <3>1. CASE x.op = "pcClosed"
      <4>1. x.w \in Pc /\ Has(tasks, Plain("pcClosed", x.w, x.of))
        BY <2>1, <2>2, <3>1 DEF FormFits, Plain
      <4>2. QED
        BY <2>1, <2>2, <4>1 DEF PcFits
    <3>2. CASE x.op \in PcOps
      <4>1. x.w \in Pc /\ x.dc \in Dc
        BY <2>1, <2>2, <3>2 DEF FormFits
      <4>2. Has(tasks, Task(x.op, x.w, x.of, x.dc))
        BY <2>2
      <4>3. QED
        BY <2>1, <2>2, <3>2, <4>1, <4>2 DEF PcFits
    <3>3. QED
      BY <3>1, <3>2 DEF x
  <2>4. o.data[o.pc[x.of]] = x.of
    <3>1. SessionFits(o, x.of) /\ o.pc[x.of] # None
      BY <2>1, <2>2, <2>3, Disjoint
    <3>2. QED
      BY <3>1 DEF SessionFits
  <2>5. QED
    BY <2>3, <2>4 DEF x
<1>2. QED
  BY <1>1, WrapperInvariance, PTL

\* A data message reaches the channel it was sent on or none (channel-dc.c:166),
\* when the timers of sessions can be allocated.
THEOREM WrapperMessages ==
  ASSUME "memory" \notin Faults
  PROVE  Spec => []MessagesReachOwn
<1>1. WrapperInv => MessagesReachOwn
  BY DEF WrapperInv
<1>2. QED
  BY <1>1, WrapperInvariance, PTL

\* The close of a data channel that finds another channel has found it by that
\* channel's outgoing wrapper (rtc-peer-connection.cpp:186), when the timers of
\* sessions can be allocated.
THEOREM WrapperStrayCloses ==
  ASSUME "memory" \notin Faults
  PROVE  Spec => []StrayClosesAreOutgoing
<1>1. ASSUME WrapperInv PROVE StrayClosesAreOutgoing
  <2> SUFFICES ASSUME NEW k \in DOMAIN tasks, tasks[k].op = "dcClosed",
                      o.data[tasks[k].w] \notin {None, tasks[k].of}
               PROVE  o.outgoing[o.data[tasks[k].w]] = tasks[k].w
    BY DEF StrayClosesAreOutgoing
  <2> DEFINE x == tasks[k]
             i == o.data[x.w]
  <2>1. /\ FormFits(tasks) /\ DcFits(o, tasks) /\ Shape(o) /\ o \in Owned
    BY <1>1 DEF WrapperInv, Fits, QueueFits, Shape
  <2>2. /\ x \in TaskRecords /\ Has(tasks, x) /\ x.of \in Sessions /\ x.w \in Wrappers
        /\ x = Task(x.op, x.w, x.of, x.dc)
    BY <2>1, QueueElements
  <2>3. x.op = "dcClosed" /\ i \notin {None, x.of}
    OBVIOUS
  <2> HIDE DEF x
  <2>4. x.w \in Dc /\ x.dc = None
    BY <2>1, <2>2, <2>3 DEF FormFits, DcOps
  <2>5. Has(tasks, Plain("dcClosed", x.w, x.of))
    BY <2>2, <2>3, <2>4 DEF Plain
  <2>6. i \in Sessions
    BY <2>1, <2>2, <2>3, WrapperFields
  <2>7. o.incoming[i] # x.w
    BY <2>1, <2>2, <2>3, <2>4, <2>5, <2>6 DEF DcFits, DcOps
  <2>8. o.incoming[i] = x.w \/ o.outgoing[i] = x.w
    BY <2>1, <2>2, <2>4, <2>6, DataOwn
  <2>9. QED
    BY <2>7, <2>8 DEF x
<1>2. QED
  BY <1>1, WrapperInvariance, PTL
=============================================================================
