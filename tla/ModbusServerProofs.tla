------------------------- MODULE ModbusServerProofs -------------------------
(***************************************************************************)
(* The safety invariants of ModbusServer, for every number of connections, *)
(* listeners and accept goroutines and every connection limit.             *)
(***************************************************************************)
EXTENDS ModbusServer, FiniteSetTheorems, TLAPS

\* What is in the hands of an accept goroutine belongs to it alone and is not
\* in the pool yet; without it Admit could enter a connection twice.
GotInv ==
  /\ \A a \in Acceptors : acceptor[a] = "admit" =>
       got[a] \in Sockets /\ conn[got[a]] = "accepted"
  /\ \A a, b \in Acceptors :
       acceptor[a] = "admit" /\ acceptor[b] = "admit" /\ got[a] = got[b] => a = b

Distinct(q) == \A i, j \in 1 .. Len(q) : q[i] = q[j] => i = j
In(q, s) == \E i \in 1 .. Len(q) : q[i] = s

\* The removal loop (server.go:363-369): from a pool without repetitions the
\* swap with the last entry takes out s and nothing else.
LEMMA RemoveExact ==
  ASSUME NEW q \in Seq(Sockets), NEW s \in Sockets, Distinct(q)
  PROVE  /\ Remove(q, s) \in Seq(Sockets)
         /\ Len(Remove(q, s)) <= Len(q)
         /\ Distinct(Remove(q, s))
         /\ \A r \in Sockets : In(Remove(q, s), r) <=> In(q, r) /\ r # s
<1>1. CASE ~In(q, s)
  <2>1. Remove(q, s) = q
    BY <1>1 DEF Remove, In
  <2> QED BY <1>1, <2>1 DEF In
<1>2. CASE In(q, s)
  <2> DEFINE n == Len(q)
  <2>1. n \in Nat /\ \A j \in 1 .. n : q[j] \in Sockets
    OBVIOUS
  <2>2. PICK i \in 1 .. n : q[i] = s
    BY <1>2 DEF In
  <2>3. \A k \in 1 .. i - 1 : q[k] # s
    BY <2>1, <2>2 DEF Distinct
  <2>4. \A j \in 1 .. n : q[j] = s => j = i
    BY <2>2 DEF Distinct
  <2>5. i = CHOOSE j \in 1 .. Len(q) : q[j] = s /\ \A k \in 1 .. j - 1 : q[k] # s
    BY <2>2, <2>3, <2>4
  <2> DEFINE r == [j \in 1 .. n - 1 |-> IF j = i THEN q[n] ELSE q[j]]
  <2>6. Remove(q, s) = r
    BY <2>2, <2>5 DEF Remove
  <2>7. r \in Seq(Sockets) /\ Len(r) = n - 1
    BY <2>1, <2>2
  <2>8. Distinct(r)
    BY <2>1, <2>2, <2>7 DEF Distinct
  <2>9. ASSUME NEW c \in Sockets PROVE In(r, c) <=> In(q, c) /\ c # s
    <3>1. ASSUME In(r, c) PROVE In(q, c) /\ c # s
      BY <2>1, <2>2, <2>4, <2>7, <3>1 DEF In
    <3>2. ASSUME In(q, c), c # s PROVE In(r, c)
      <4>1. PICK j \in 1 .. n : q[j] = c
        BY <3>2 DEF In
      <4>2. j # i
        BY <2>2, <3>2, <4>1
      <4>3. CASE j = n
        <5>1. i \in 1 .. n - 1 /\ r[i] = c
          BY <2>1, <4>1, <4>2, <4>3
        <5> QED BY <2>7, <5>1 DEF In
      <4>4. CASE j # n
        BY <2>1, <2>7, <4>1, <4>2, <4>4 DEF In
      <4> QED BY <4>3, <4>4
    <3> QED BY <3>1, <3>2
  <2> HIDE DEF r
  <2> QED BY <2>1, <2>6, <2>7, <2>8, <2>9
<1> QED BY <1>1, <1>2

\* Appending a connection that is not in the pool.
LEMMA AppendExact ==
  ASSUME NEW q \in Seq(Sockets), NEW s \in Sockets, Distinct(q), ~In(q, s)
  PROVE  /\ Append(q, s) \in Seq(Sockets)
         /\ Len(Append(q, s)) = Len(q) + 1
         /\ Distinct(Append(q, s))
         /\ \A r \in Sockets : In(Append(q, s), r) <=> In(q, r) \/ r = s
<1> DEFINE n == Len(q)
           p == Append(q, s)
<1>1. n \in Nat /\ p \in Seq(Sockets) /\ Len(p) = n + 1
  OBVIOUS
<1>2. /\ \A j \in 1 .. n : p[j] = q[j] /\ q[j] # s
      /\ p[n + 1] = s
  BY DEF In
<1> HIDE DEF p
<1>3. Distinct(p)
  BY <1>1, <1>2 DEF Distinct
<1>4. ASSUME NEW r \in Sockets PROVE In(p, r) <=> In(q, r) \/ r = s
  <2>1. In(p, r) => In(q, r) \/ r = s
    BY <1>1, <1>2 DEF In
  <2>2. In(q, r) => In(p, r)
    BY <1>1, <1>2 DEF In
  <2>3. In(p, s)
    BY <1>1, <1>2 DEF In
  <2> QED BY <2>1, <2>2, <2>3
<1> QED BY <1>1, <1>3, <1>4 DEF p

-----------------------------------------------------------------------------
\* The pool and the progress of the connections, which PoolExact ties.
PoolInv == TypeOK /\ GotInv /\ PoolExact

\* PoolExact in the words of the two lemmas.
LEMMA PoolExactIs ==
  PoolExact <=> /\ Distinct(clients)
                /\ \A s \in Sockets : In(clients, s) <=> conn[s] \in {"serving", "ending"}
BY DEF PoolExact, InPool, Distinct, In

\* Admission, the only step that lets a connection into the pool.
LEMMA AdmitStep ==
  ASSUME PoolInv, NEW a \in Acceptors, Admit(a)
  PROVE  PoolInv'
<1> USE ServerAssumption
<1> DEFINE s == got[a]
<1>1. s \in Sockets /\ conn[s] = "accepted"
  BY DEF PoolInv, GotInv, Admit
<1>2. Distinct(clients) /\ ~In(clients, s) /\ clients \in Seq(Sockets)
  BY <1>1, PoolExactIs DEF PoolInv, TypeOK
<1>3. PICK c \in {"serving", "free"} :
        /\ conn' = [conn EXCEPT ![s] = c]
        /\ clients' = IF c = "serving" THEN Append(clients, s) ELSE clients
  BY DEF Admit
<1>4. /\ clients' \in Seq(Sockets) /\ Distinct(clients')
      /\ \A r \in Sockets : In(clients', r) <=> In(clients, r) \/ (c = "serving" /\ r = s)
  BY <1>1, <1>2, <1>3, AppendExact
<1>5. conn \in [Sockets -> ConnState] /\ conn' \in [Sockets -> ConnState]
  BY <1>1, <1>3 DEF PoolInv, TypeOK, ConnState
<1>6. TypeOK'
  BY <1>4, <1>5 DEF PoolInv, TypeOK, Admit
<1>7. \A r \in Sockets : In(clients', r) <=> conn'[r] \in {"serving", "ending"}
  BY <1>1, <1>2, <1>3, <1>4, <1>5, PoolExactIs DEF PoolInv
<1>8. PoolExact'
  BY <1>4, <1>7 DEF PoolExact, InPool, Distinct, In
<1>9. GotInv'
  BY <1>1, <1>3, <1>5 DEF PoolInv, TypeOK, GotInv, Admit
<1> QED BY <1>6, <1>8, <1>9 DEF PoolInv

\* The handler's removal of its connection.
LEMMA LeaveStep ==
  ASSUME PoolInv, NEW s \in Sockets, Leave(s)
  PROVE  PoolInv' /\ Len(clients') <= Len(clients)
<1>1. /\ clients' = Remove(clients, s) /\ conn' = [conn EXCEPT ![s] = "removed"]
      /\ clients \in Seq(Sockets) /\ Distinct(clients) /\ conn \in [Sockets -> ConnState]
  BY PoolExactIs DEF Leave, PoolInv, TypeOK
<1>2. /\ clients' \in Seq(Sockets) /\ Distinct(clients') /\ Len(clients') <= Len(clients)
      /\ \A r \in Sockets : In(clients', r) <=> In(clients, r) /\ r # s
  BY <1>1, RemoveExact
<1>3. \A r \in Sockets : In(clients', r) <=> conn'[r] \in {"serving", "ending"}
  BY <1>1, <1>2, PoolExactIs DEF PoolInv
<1>4. PoolExact'
  BY <1>2, <1>3 DEF PoolExact, InPool, Distinct, In
<1>5. TypeOK'
  BY <1>1, <1>2 DEF PoolInv, TypeOK, Leave, accepts, ConnState
<1>6. GotInv'
  BY <1>1 DEF PoolInv, TypeOK, GotInv, Leave, accepts
<1> QED BY <1>2, <1>4, <1>5, <1>6 DEF PoolInv

\* Everything else leaves the pool alone.
LEMMA PoolFrame ==
  ASSUME PoolInv, UNCHANGED clients, TypeOK', GotInv',
         \A s \in Sockets : conn'[s] \in {"serving", "ending"}
                              <=> conn[s] \in {"serving", "ending"}
  PROVE  PoolInv'
BY DEF PoolInv, PoolExact, InPool

\* The pool invariant is inductive: one step per action.
LEMMA PoolStep ==
  ASSUME PoolInv, [Next]_vars
  PROVE  PoolInv'
<1> USE ServerAssumption DEF PoolInv
<1>1. CASE Start
  BY <1>1, PoolFrame DEF TypeOK, GotInv, Start, Unreferenced
<1>2. CASE Stop
  BY <1>2, PoolFrame DEF TypeOK, GotInv, Stop, accepts, ConnState
<1>3. ASSUME NEW a \in Acceptors, CallAccept(a) PROVE PoolInv'
  BY <1>3, PoolFrame DEF TypeOK, GotInv, CallAccept, server
<1>4. ASSUME NEW a \in Acceptors, AcceptClosed(a) \/ AcceptError(a) PROVE PoolInv'
  BY <1>4, PoolFrame DEF TypeOK, GotInv, AcceptClosed, AcceptError, server
<1>5. ASSUME NEW a \in Acceptors, NEW s \in Sockets, Accept(a, s) PROVE PoolInv'
  BY <1>5, PoolFrame DEF TypeOK, GotInv, Accept, server, ConnState
<1>6. ASSUME NEW s \in Sockets, Connect(s) \/ ServeEnd(s) \/ CloseConn(s) PROVE PoolInv'
  BY <1>6, PoolFrame
  DEF TypeOK, GotInv, Connect, ServeEnd, CloseConn, server, accepts, ConnState
<1>7. CASE UNCHANGED vars
  BY <1>7, PoolFrame DEF vars, server, accepts, TypeOK, GotInv
<1> QED
  BY <1>1, <1>2, <1>3, <1>4, <1>5, <1>6, <1>7, AdmitStep, LeaveStep
  DEF Next, AcceptorStep, HandlerStep

-----------------------------------------------------------------------------
\* Every reachable state of the server has the pool invariant.
THEOREM PoolInvariance == Spec => []PoolInv
<1>1. Init => PoolInv
  <2> SUFFICES ASSUME Init PROVE PoolInv
    OBVIOUS
  <2>1. TypeOK
    <3>1. clients \in Seq(Sockets)
      BY DEF Init
    <3>2. started \in BOOLEAN /\ listener \in Listeners \cup {None} /\ bound \subseteq Listeners
      BY DEF Init
    <3>3. /\ acceptor \in [Acceptors -> {"idle", "loop", "accept", "admit"}]
          /\ on \in [Acceptors -> Listeners \cup {None}]
          /\ got \in [Acceptors -> Sockets \cup {None}]
      BY DEF Init
    <3>4. conn \in [Sockets -> ConnState] /\ shut \subseteq Sockets
      BY DEF Init, ConnState
    <3> QED BY <3>1, <3>2, <3>3, <3>4 DEF TypeOK
  <2>2. GotInv
    BY DEF Init, GotInv
  <2>3. PoolExact
    BY DEF Init, PoolExact, InPool
  <2> QED BY <2>1, <2>2, <2>3 DEF PoolInv
<1>2. PoolInv /\ [Next]_vars => PoolInv'
  BY PoolStep
<1> QED BY <1>1, <1>2, PTL DEF Spec

\* Types.
THEOREM TypeCorrect == Spec => []TypeOK
<1>1. PoolInv => TypeOK
  BY DEF PoolInv
<1> QED BY <1>1, PoolInvariance, PTL

\* tcpClients holds each connection with an unfinished handler exactly once.
THEOREM PoolExactAlways == Spec => []PoolExact
<1>1. PoolInv => PoolExact
  BY DEF PoolInv
<1> QED BY <1>1, PoolInvariance, PTL

\* The connection limit holds, whatever number of accept goroutines compete.
THEOREM PoolBoundAlways == Spec => []PoolBound
<1> USE ServerAssumption
<1>1. Init => PoolBound
  BY DEF Init, PoolBound
<1>2. PoolInv /\ PoolBound /\ [Next]_vars => PoolBound'
  <2> SUFFICES ASSUME PoolInv, PoolBound, [Next]_vars PROVE PoolBound'
    OBVIOUS
  <2>1. ASSUME NEW a \in Acceptors, Admit(a) PROVE PoolBound'
    <3>1. clients \in Seq(Sockets) /\ got[a] \in Sockets
      BY <2>1 DEF PoolInv, TypeOK, GotInv, Admit
    <3> QED BY <2>1, <3>1 DEF PoolBound, Admit, MayAdmit
  <2>2. ASSUME NEW s \in Sockets, Leave(s) PROVE PoolBound'
    <3>1. Len(clients') <= Len(clients) /\ Len(clients) \in Nat /\ Len(clients') \in Nat
      BY <2>2, LeaveStep DEF PoolInv, TypeOK
    <3> QED BY <3>1 DEF PoolBound
  <2>3. CASE UNCHANGED clients
    BY <2>3 DEF PoolBound
  <2> QED
    BY <2>1, <2>2, <2>3
    DEF Next, vars, server, accepts, AcceptorStep, HandlerStep, Start, Stop, CallAccept,
        AcceptClosed, AcceptError, Accept, Connect, ServeEnd, CloseConn
<1> QED BY <1>1, <1>2, PoolInvariance, PTL DEF Spec

\* A stopped server has no open session: admission and Stop exclude each other
\* by ms.lock, and a session Stop closed stays closed until it is removed.
THEOREM StoppedIsClosedAlways == Spec => []StoppedIsClosed
<1>1. Init => StoppedIsClosed
  BY DEF Init, StoppedIsClosed, InPool
<1>2. PoolInv /\ StoppedIsClosed /\ [Next]_vars => StoppedIsClosed'
  <2> SUFFICES ASSUME PoolInv, StoppedIsClosed, [Next]_vars PROVE StoppedIsClosed'
    OBVIOUS
  <2>1. CASE Start
    BY <2>1 DEF Start, StoppedIsClosed
  <2>2. CASE Stop
    BY <2>2 DEF Stop, StoppedIsClosed, InPool
  <2>3. ASSUME NEW a \in Acceptors, Admit(a) PROVE StoppedIsClosed'
    BY <2>3 DEF Admit, MayAdmit, StoppedIsClosed, InPool
  <2>4. ASSUME NEW s \in Sockets, Leave(s) PROVE StoppedIsClosed'
    <3>1. clients \in Seq(Sockets) /\ Distinct(clients) /\ clients' = Remove(clients, s)
      BY <2>4, PoolExactIs DEF PoolInv, TypeOK, Leave
    <3>2. \A r \in Sockets : In(clients', r) => In(clients, r)
      BY <3>1, RemoveExact
    <3> QED BY <2>4, <3>2 DEF StoppedIsClosed, InPool, In, Leave
  <2>5. ASSUME NEW s \in Sockets, CloseConn(s) PROVE StoppedIsClosed'
    BY <2>5 DEF CloseConn, StoppedIsClosed, PoolInv, PoolExact, InPool, server
  <2>6. CASE UNCHANGED <<started, clients, shut>>
    BY <2>6 DEF StoppedIsClosed, InPool
  <2> QED
    BY <2>1, <2>2, <2>3, <2>4, <2>5, <2>6
    DEF Next, vars, server, accepts, AcceptorStep, HandlerStep, CallAccept,
        AcceptClosed, AcceptError, Accept, Connect, ServeEnd
<1> QED BY <1>1, <1>2, PoolInvariance, PTL DEF Spec

\* However Starts and Stops race with old accept loops, a started server has a
\* goroutine that accepts, or will accept, on its open listener.
THEOREM SomebodyAcceptsAlways == Spec => []SomebodyAccepts
<1>1. Init => SomebodyAccepts
  BY DEF Init, SomebodyAccepts
<1>2. PoolInv /\ SomebodyAccepts /\ [Next]_vars => SomebodyAccepts'
  <2> SUFFICES ASSUME TypeOK, SomebodyAccepts, [Next]_vars PROVE SomebodyAccepts'
    BY DEF PoolInv
  <2>1. CASE Start
    BY <2>1 DEF Start, Unreferenced, SomebodyAccepts, TypeOK
  <2>2. CASE Stop
    BY <2>2 DEF Stop, SomebodyAccepts
  <2>3. ASSUME NEW a \in Acceptors, CallAccept(a) PROVE SomebodyAccepts'
    BY <2>3 DEF CallAccept, SomebodyAccepts, TypeOK, server
  <2>4. ASSUME NEW a \in Acceptors, AcceptClosed(a) PROVE SomebodyAccepts'
    BY <2>4 DEF AcceptClosed, SomebodyAccepts, TypeOK, server
  <2>5. ASSUME NEW a \in Acceptors, AcceptError(a) PROVE SomebodyAccepts'
    BY <2>5 DEF AcceptError, SomebodyAccepts, TypeOK, server
  <2>6. ASSUME NEW a \in Acceptors, NEW s \in Sockets, Accept(a, s) PROVE SomebodyAccepts'
    BY <2>6 DEF Accept, SomebodyAccepts, TypeOK, server
  <2>7. ASSUME NEW a \in Acceptors, Admit(a) PROVE SomebodyAccepts'
    BY <2>7 DEF Admit, SomebodyAccepts, TypeOK
  <2>8. CASE UNCHANGED <<started, listener, bound, accepts>>
    BY <2>8 DEF SomebodyAccepts, accepts
  <2> QED
    BY <2>1, <2>2, <2>3, <2>4, <2>5, <2>6, <2>7, <2>8
    DEF Next, vars, server, accepts, AcceptorStep, HandlerStep, Connect, ServeEnd,
        Leave, CloseConn
<1> QED BY <1>1, <1>2, PoolInvariance, PTL DEF Spec

\* The four together: what the pool and the accept loops keep, whatever races.
THEOREM ServerSafeAlways == Spec => []ServerSafe
  BY PoolBoundAlways, PoolExactAlways, StoppedIsClosedAlways, SomebodyAcceptsAlways, PTL
  DEF ServerSafe

\* One listening socket while the server is started, none else, and clients
\* wait only then: repeated Starts and Stops leave no listener behind.
ListenerInv ==
  /\ bound = IF started THEN {listener} ELSE {}
  /\ \A s \in Sockets : conn[s] = "backlog" => started

THEOREM ListenerExact == Spec => []ListenerInv
<1>1. Init => ListenerInv
  BY DEF Init, ListenerInv
<1>2. PoolInv /\ ListenerInv /\ [Next]_vars => ListenerInv'
  <2> SUFFICES ASSUME TypeOK, GotInv, ListenerInv, [Next]_vars PROVE ListenerInv'
    BY DEF PoolInv
  <2> USE DEF TypeOK, ListenerInv
  <2>1. CASE Start
    BY <2>1 DEF Start
  <2>2. CASE Stop
    BY <2>2 DEF Stop
  <2>3. ASSUME NEW s \in Sockets, Connect(s) \/ ServeEnd(s) \/ Leave(s) \/ CloseConn(s)
        PROVE  ListenerInv'
    BY <2>3 DEF Connect, ServeEnd, Leave, CloseConn, server
  <2>4. ASSUME NEW a \in Acceptors, NEW s \in Sockets, Accept(a, s) PROVE ListenerInv'
    BY <2>4 DEF Accept, server
  <2>5. ASSUME NEW a \in Acceptors, Admit(a) PROVE ListenerInv'
    BY <2>5 DEF Admit, GotInv
  <2>6. CASE UNCHANGED <<server, conn>>
    BY <2>6 DEF server
  <2> QED
    BY <2>1, <2>2, <2>3, <2>4, <2>5, <2>6
    DEF Next, vars, AcceptorStep, HandlerStep, CallAccept, AcceptClosed, AcceptError
<1> QED BY <1>1, <1>2, PoolInvariance, PTL DEF Spec

\* Why BacklogServed holds: a client that waits does so at a listener that a
\* goroutine accepts on, or comes back to.
THEOREM BacklogHasAcceptor ==
  Spec => [](\A s \in Sockets : conn[s] = "backlog" =>
               /\ bound = {listener}
               /\ \E a \in Acceptors : \/ acceptor[a] \in {"loop", "admit"}
                                       \/ acceptor[a] = "accept" /\ on[a] = listener)
<1>1. ListenerInv /\ SomebodyAccepts =>
        \A s \in Sockets : conn[s] = "backlog" =>
          /\ bound = {listener}
          /\ \E a \in Acceptors : \/ acceptor[a] \in {"loop", "admit"}
                                  \/ acceptor[a] = "accept" /\ on[a] = listener
  BY DEF ListenerInv, SomebodyAccepts
<1> QED BY <1>1, ListenerExact, SomebodyAcceptsAlways, PTL

-----------------------------------------------------------------------------
(***************************************************************************)
(* The safe part of the refinement: every step of the server is one of     *)
(* ConnectionPool, seen through started, the pool as a set and its open    *)
(* sessions, or leaves the three alone.                                    *)
(***************************************************************************)
\* Only a connection with a handler is ever closed under it: one the accept
\* loop has just got is not, so a new session is open.
ShutInv == \A s \in shut : conn[s] \in {"serving", "ending", "removed"}

THEOREM ShutAlways == Spec => []ShutInv
<1>1. Init => ShutInv
  BY DEF Init, ShutInv
<1>2. PoolInv /\ ShutInv /\ [Next]_vars => ShutInv'
  <2> SUFFICES ASSUME PoolInv, ShutInv, [Next]_vars PROVE ShutInv'
    OBVIOUS
  <2> USE DEF PoolInv, TypeOK, ShutInv
  <2>1. CASE Stop
    BY <2>1 DEF Stop, PoolExact
  <2>2. ASSUME NEW a \in Acceptors, Admit(a) PROVE ShutInv'
    <3>1. conn[got[a]] = "accepted"
      BY <2>2 DEF GotInv, Admit
    <3> QED BY <2>2, <3>1 DEF Admit
  <2>3. ASSUME NEW a \in Acceptors, NEW s \in Sockets, Accept(a, s) PROVE ShutInv'
    BY <2>3 DEF Accept
  <2>4. ASSUME NEW s \in Sockets, Connect(s) \/ ServeEnd(s) \/ Leave(s) \/ CloseConn(s)
        PROVE  ShutInv'
    BY <2>4 DEF Connect, ServeEnd, Leave, CloseConn
  <2>5. CASE UNCHANGED <<conn, shut>>
    BY <2>5
  <2> QED
    BY <2>1, <2>2, <2>3, <2>4, <2>5
    DEF Next, vars, AcceptorStep, HandlerStep, Start, CallAccept, AcceptClosed, AcceptError
<1> QED BY <1>1, <1>2, PoolInvariance, PTL DEF Spec

\* A list without repetitions is as long as it has members: what MaxClients
\* bounds is the number of sessions.
LEMMA PoolSize ==
  ASSUME NEW q \in Seq(Sockets), Distinct(q)
  PROVE  LET P == {s \in Sockets : In(q, s)}
         IN  IsFiniteSet(P) /\ Cardinality(P) = Len(q)
<1> DEFINE n == Len(q)
           P == {s \in Sockets : In(q, s)}
<1>1. n \in Nat /\ q \in [1 .. n -> Sockets]
  OBVIOUS
<1>2. q \in [1 .. n -> P]
  BY <1>1 DEF In
<1>3. q \in Injection(1 .. n, P)
  BY <1>2 DEF Injection, IsInjective, Distinct
<1>4. q \in Surjection(1 .. n, P)
  BY <1>2 DEF Surjection, In
<1>5. ExistsBijection(1 .. n, P)
  BY <1>3, <1>4 DEF ExistsBijection, Bijection
<1> HIDE DEF n, P
<1>6. IsFiniteSet(P) /\ Cardinality(P) = n
  BY <1>1, <1>5, FS_NatBijection, FS_CountingElements
<1> QED BY <1>6 DEF n, P

\* The sessions as a set, and what PoolExact says of it.
Sessions == {s \in Sockets : InPool(s)}
PoolStepOrStutter == [Pool!Next]_(Pool!vars)

LEMMA SessionsAre ==
  PoolInv => Sessions = {s \in Sockets : conn[s] \in {"serving", "ending"}}
BY DEF PoolInv, PoolExact, Sessions

\* What the limit is for: never are more than MaxClients connections served.
THEOREM SessionsBounded == Spec => [](Cardinality(Sessions) <= MaxClients)
<1>1. PoolInv /\ PoolBound => Cardinality(Sessions) <= MaxClients
  <2> SUFFICES ASSUME PoolInv, PoolBound PROVE Cardinality(Sessions) <= MaxClients
    OBVIOUS
  <2>1. Sessions = {c \in Sockets : In(clients, c)}
    BY DEF Sessions, InPool, In
  <2>2. clients \in Seq(Sockets) /\ Distinct(clients)
    BY PoolExactIs DEF TypeOK, PoolInv
  <2> QED BY <2>1, <2>2, PoolSize DEF PoolBound
<1> QED BY <1>1, PoolInvariance, PoolBoundAlways, PTL

\* The steps ConnectionPool has, in terms of the server's state.
LEMMA PoolMoves ==
  /\ UNCHANGED <<started, Sessions, Live>> => PoolStepOrStutter
  /\ ~started /\ started' = TRUE /\ UNCHANGED <<Sessions, Live>> => PoolStepOrStutter
  /\ started /\ started' = FALSE /\ Live' = {} /\ UNCHANGED Sessions => PoolStepOrStutter
  /\ \A s \in Sockets :
       /\ started /\ s \notin Sessions /\ Cardinality(Sessions) < MaxClients
       /\ Sessions' = Sessions \cup {s} /\ Live' = Live \cup {s} /\ UNCHANGED started
       => PoolStepOrStutter
  /\ \A s \in Sessions :
       Sessions' = Sessions \ {s} /\ Live' = Live \ {s} /\ UNCHANGED started
       => PoolStepOrStutter
<1> USE DEF PoolStepOrStutter, Sessions
<1>1. UNCHANGED <<started, Sessions, Live>> => PoolStepOrStutter
  BY DEF Pool!vars
<1>2. ~started /\ started' = TRUE /\ UNCHANGED <<Sessions, Live>> => PoolStepOrStutter
  BY DEF Pool!Next, Pool!Up
<1>3. started /\ started' = FALSE /\ Live' = {} /\ UNCHANGED Sessions => PoolStepOrStutter
  BY DEF Pool!Next, Pool!Down
<1>4. ASSUME NEW s \in Sockets,
             started, s \notin Sessions, Cardinality(Sessions) < MaxClients,
             Sessions' = Sessions \cup {s}, Live' = Live \cup {s}, UNCHANGED started
      PROVE  PoolStepOrStutter
  <2>1. Pool!Cardinality(Sessions) = Cardinality(Sessions)
    BY DEF Pool!Cardinality, Cardinality
  <2> QED BY <1>4, <2>1 DEF Pool!Next, Pool!Admit
<1>5. ASSUME NEW s \in Sessions,
             Sessions' = Sessions \ {s}, Live' = Live \ {s}, UNCHANGED started
      PROVE  PoolStepOrStutter
  BY <1>5 DEF Pool!Next, Pool!Leave
<1> QED BY <1>1, <1>2, <1>3, <1>4, <1>5

\* Every step is one of the pool's or a stutter: one step per action.
LEMMA PoolRefines ==
  ASSUME PoolInv, PoolInv', ShutInv, [Next]_vars
  PROVE  PoolStepOrStutter
<1>0. /\ Sessions = {s \in Sockets : conn[s] \in {"serving", "ending"}}
      /\ Sessions' = {s \in Sockets : conn'[s] \in {"serving", "ending"}}
      /\ Live = Sessions \ shut /\ Live' = Sessions' \ shut'
  BY SessionsAre DEF Sessions, Live, InPool, PoolInv, PoolExact
<1>1. TypeOK
  BY DEF PoolInv
<1>2. CASE UNCHANGED <<started, clients, shut>>
  <2>1. UNCHANGED <<Sessions, Live>>
    BY <1>2 DEF Sessions, Live, InPool
  <2> QED BY <1>2, <2>1, PoolMoves
<1>3. CASE Start
  <2>1. UNCHANGED <<Sessions, Live>>
    BY <1>3 DEF Start, Sessions, Live, InPool
  <2> QED BY <1>3, <2>1, PoolMoves DEF Start
<1>4. CASE Stop
  <2>1. UNCHANGED Sessions /\ shut' = shut \cup Sessions
    BY <1>4 DEF Stop, Sessions, InPool
  <2>2. Live' = {}
    BY <1>0, <2>1
  <2> QED BY <1>4, <2>1, <2>2, PoolMoves DEF Stop
<1>5. ASSUME NEW a \in Acceptors, Admit(a) PROVE PoolStepOrStutter
  <2> DEFINE s == got[a]
  <2>1. s \in Sockets /\ conn[s] = "accepted" /\ UNCHANGED <<started, shut>>
    BY <1>5 DEF PoolInv, GotInv, Admit
  <2>2. s \notin Sessions /\ s \notin shut
    BY <1>0, <2>1 DEF ShutInv
  <2>3. CASE ~MayAdmit
    <3>1. UNCHANGED clients
      BY <1>5, <2>3 DEF Admit
    <3> QED BY <1>2, <2>1, <3>1
  <2>4. CASE MayAdmit /\ conn' = [conn EXCEPT ![s] = "serving"]
    <3>1. started /\ Cardinality(Sessions) < MaxClients
      <4>1. Sessions = {c \in Sockets : In(clients, c)}
        BY DEF Sessions, InPool, In
      <4>2. clients \in Seq(Sockets) /\ Distinct(clients)
        BY <1>1, PoolExactIs DEF TypeOK, PoolInv
      <4>3. Cardinality(Sessions) = Len(clients)
        BY <4>1, <4>2, PoolSize
      <4> QED BY <2>4, <4>3 DEF MayAdmit
    <3>2. Sessions' = Sessions \cup {s}
      BY <1>0, <1>1, <2>1, <2>4 DEF TypeOK
    <3>3. Live' = Live \cup {s}
      BY <1>0, <2>1, <2>2, <3>2
    <3> QED BY <2>1, <2>2, <3>1, <3>2, <3>3, PoolMoves
  <2> QED BY <1>5, <2>3, <2>4 DEF Admit
<1>6. ASSUME NEW s \in Sockets, Leave(s) PROVE PoolStepOrStutter
  <2>1. conn[s] = "ending" /\ conn' = [conn EXCEPT ![s] = "removed"]
        /\ UNCHANGED <<started, shut>>
    BY <1>6 DEF Leave
  <2>2. s \in Sessions /\ Sessions' = Sessions \ {s}
    BY <1>0, <1>1, <2>1 DEF TypeOK
  <2>3. Live' = Live \ {s}
    BY <1>0, <2>1, <2>2
  <2> QED BY <2>1, <2>2, <2>3, PoolMoves
<1>7. ASSUME NEW s \in Sockets, CloseConn(s) PROVE PoolStepOrStutter
  <2>1. conn[s] = "removed" /\ shut' = shut \ {s} /\ UNCHANGED <<started, clients>>
    BY <1>7 DEF CloseConn, server
  <2>2. UNCHANGED Sessions /\ s \notin Sessions
    BY <1>0, <2>1 DEF Sessions, InPool
  <2>3. UNCHANGED Live
    BY <1>0, <2>1, <2>2
  <2> QED BY <2>1, <2>2, <2>3, PoolMoves
<1> QED
  BY <1>2, <1>3, <1>4, <1>5, <1>6, <1>7
  DEF Next, vars, server, accepts, AcceptorStep, HandlerStep, CallAccept, AcceptClosed,
      AcceptError, Accept, Connect, ServeEnd

\* However accept loops, handlers, Starts and Stops interleave, the sessions
\* are those of a bounded pool that only an up server admits to and that going
\* down cuts off as a whole.
THEOREM RefinesPool == Spec => Pool!Init /\ [][Pool!Next]_(Pool!vars)
<1>1. Init => Pool!Init
  BY DEF Init, Pool!Init, InPool, Live
<1>2. PoolInv /\ PoolInv' /\ ShutInv /\ [Next]_vars => PoolStepOrStutter
  BY PoolRefines
<1> QED BY <1>1, <1>2, PoolInvariance, ShutAlways, PTL DEF Spec, PoolStepOrStutter
=============================================================================
