---------------------------- MODULE ModbusServer ----------------------------
(***************************************************************************)
(* The connection side of the Modbus TCP server (utils/modbus/server.go):  *)
(* Start and Stop, the accept goroutine each Start launches, and one       *)
(* handler goroutine per admitted connection.  ms.lock protects started    *)
(* and tcpClients; the accept loop reads ms.tcpListener without it.        *)
(***************************************************************************)
EXTENDS Naturals, FiniteSets, Sequences

CONSTANTS Sockets,    \* client connections, reused once closed
          Listeners,  \* listening sockets, reused once closed and forgotten
          Acceptors,  \* accept goroutines: the bound on Starts that overlap
          MaxClients, \* ms.conf.MaxClients
          None

ASSUME ServerAssumption ==
  /\ MaxClients \in Nat \ {0}
  /\ None \notin Sockets \cup Listeners

VARIABLES started, listener, \* ms.started, ms.tcpListener
          clients,           \* ms.tcpClients
          bound,             \* listening sockets that are open
          acceptor,          \* each accept goroutine: where it is,
          on, got,           \*   the listener it blocks on, the connection it has
          conn,              \* each connection's progress
          shut               \* connections Stop has closed under their handler

server == <<started, listener, clients, bound>>
accepts == <<acceptor, on, got>>
vars == <<server, accepts, conn, shut>>

ConnState == {"free", "backlog", "accepted", "serving", "ending", "removed"}

TypeOK ==
  /\ started \in BOOLEAN /\ listener \in Listeners \cup {None}
  /\ clients \in Seq(Sockets) /\ bound \subseteq Listeners
  /\ acceptor \in [Acceptors -> {"idle", "loop", "accept", "admit"}]
  /\ on \in [Acceptors -> Listeners \cup {None}]
  /\ got \in [Acceptors -> Sockets \cup {None}]
  /\ conn \in [Sockets -> ConnState] /\ shut \subseteq Sockets

Init ==
  /\ started = FALSE /\ listener = None /\ clients = <<>> /\ bound = {}
  /\ acceptor = [a \in Acceptors |-> "idle"]
  /\ on = [a \in Acceptors |-> None] /\ got = [a \in Acceptors |-> None]
  /\ conn = [s \in Sockets |-> "free"] /\ shut = {}

InPool(s) == \E i \in 1 .. Len(clients) : clients[i] = s

-----------------------------------------------------------------------------
(* Start and Stop, each under ms.lock from beginning to end.               *)

Unreferenced == {l \in Listeners : l # listener /\ \A a \in Acceptors : on[a] # l}

Start ==
  /\ ~started
  /\ \E l \in Unreferenced, a \in {b \in Acceptors : acceptor[b] = "idle"} :
       /\ listener' = l /\ bound' = bound \cup {l}
       /\ acceptor' = [acceptor EXCEPT ![a] = "loop"]
  /\ started' = TRUE
  /\ UNCHANGED <<clients, on, got, conn, shut>>

\* bug: the sessions are left open
MutantStop ==
  /\ started /\ started' = FALSE
  /\ bound' = bound \ {listener}
  /\ conn' = [s \in Sockets |-> IF conn[s] = "backlog" THEN "free" ELSE conn[s]]
  /\ UNCHANGED <<listener, clients, accepts, shut>>

\* The kernel resets the connections nobody had accepted yet.
Stop ==
  /\ started /\ started' = FALSE
  /\ bound' = bound \ {listener}
  /\ shut' = shut \cup {s \in Sockets : InPool(s)}
  /\ conn' = [s \in Sockets |-> IF conn[s] = "backlog" THEN "free" ELSE conn[s]]
  /\ UNCHANGED <<listener, clients, accepts>>

-----------------------------------------------------------------------------
(* acceptTCPClients.                                                       *)

\* A client dials; the connection waits in the backlog.
Connect(s) ==
  /\ bound # {} /\ conn[s] = "free"
  /\ conn' = [conn EXCEPT ![s] = "backlog"]
  /\ UNCHANGED <<server, accepts, shut>>

\* The loop evaluates ms.tcpListener, whichever listener that is by now.
CallAccept(a) ==
  /\ acceptor[a] = "loop"
  /\ acceptor' = [acceptor EXCEPT ![a] = "accept"]
  /\ on' = [on EXCEPT ![a] = listener]
  /\ UNCHANGED <<server, got, conn, shut>>

Accept(a, s) ==
  /\ acceptor[a] = "accept" /\ on[a] \in bound /\ conn[s] = "backlog"
  /\ acceptor' = [acceptor EXCEPT ![a] = "admit"]
  /\ on' = [on EXCEPT ![a] = None] /\ got' = [got EXCEPT ![a] = s]
  /\ conn' = [conn EXCEPT ![s] = "accepted"]
  /\ UNCHANGED <<server, shut>>

\* bug: a missing continue admits a nil connection
MutantAdmitNil(a) ==
  /\ acceptor[a] = "accept" /\ on[a] \in bound
  /\ acceptor' = [acceptor EXCEPT ![a] = "admit"] /\ on' = [on EXCEPT ![a] = None]
  /\ UNCHANGED <<server, got, conn, shut>>

\* Any other error than a closed listener is logged and the loop goes on.
AcceptError(a) ==
  /\ acceptor[a] = "accept" /\ on[a] \in bound
  /\ acceptor' = [acceptor EXCEPT ![a] = "loop"] /\ on' = [on EXCEPT ![a] = None]
  /\ UNCHANGED <<server, got, conn, shut>>

AcceptClosed(a) ==
  /\ acceptor[a] = "accept" /\ on[a] \notin bound
  /\ acceptor' = [acceptor EXCEPT ![a] = "idle"] /\ on' = [on EXCEPT ![a] = None]
  /\ UNCHANGED <<server, got, conn, shut>>

MayAdmit == started /\ Len(clients) < MaxClients

\* bug: the goroutine returns after a rejection
MutantAdmit(a) ==
  /\ acceptor[a] = "admit" /\ got' = [got EXCEPT ![a] = None]
  /\ \/ /\ MayAdmit
        /\ clients' = Append(clients, got[a])
        /\ conn' = [conn EXCEPT ![got[a]] = "serving"]
        /\ acceptor' = [acceptor EXCEPT ![a] = "loop"]
     \/ /\ ~MayAdmit
        /\ conn' = [conn EXCEPT ![got[a]] = "free"]
        /\ acceptor' = [acceptor EXCEPT ![a] = "idle"]
        /\ UNCHANGED clients
  /\ UNCHANGED <<started, listener, bound, on, shut>>

\* Under ms.lock: into the pool with a handler, or closed at once.
Admit(a) ==
  /\ acceptor[a] = "admit"
  /\ \/ /\ MayAdmit
        /\ clients' = Append(clients, got[a])
        /\ conn' = [conn EXCEPT ![got[a]] = "serving"]
     \/ /\ ~MayAdmit
        /\ conn' = [conn EXCEPT ![got[a]] = "free"]
        /\ UNCHANGED clients
  /\ acceptor' = [acceptor EXCEPT ![a] = "loop"] /\ got' = [got EXCEPT ![a] = None]
  /\ UNCHANGED <<started, listener, bound, on, shut>>

-----------------------------------------------------------------------------
(* handleTCPClient.                                                        *)

\* handleTransport (or the TLS handshake) is over: the peer left, timed out,
\* broke the protocol, or Stop closed the connection.
ServeEnd(s) ==
  /\ conn[s] = "serving"
  /\ conn' = [conn EXCEPT ![s] = "ending"]
  /\ UNCHANGED <<server, accepts, shut>>

\* bug: the last connection is dropped, whichever left
MutantRemove(seq, s) == SubSeq(seq, 1, Len(seq) - 1)
\* The last entry takes the place of the first one that is s.
Remove(seq, s) ==
  IF \A i \in 1 .. Len(seq) : seq[i] # s THEN seq
  ELSE LET i == CHOOSE j \in 1 .. Len(seq) :
                  seq[j] = s /\ \A k \in 1 .. j - 1 : seq[k] # s
       IN  [j \in 1 .. Len(seq) - 1 |-> IF j = i THEN seq[Len(seq)] ELSE seq[j]]

Leave(s) ==
  /\ conn[s] = "ending"
  /\ clients' = Remove(clients, s)
  /\ conn' = [conn EXCEPT ![s] = "removed"]
  /\ UNCHANGED <<started, listener, bound, accepts, shut>>

\* The handler's own sock.Close() comes after the removal.
CloseConn(s) ==
  /\ conn[s] = "removed"
  /\ conn' = [conn EXCEPT ![s] = "free"] /\ shut' = shut \ {s}
  /\ UNCHANGED <<server, accepts>>

-----------------------------------------------------------------------------
AcceptorStep(a) == CallAccept(a) \/ AcceptClosed(a) \/ Admit(a)
HandlerStep(s)  == Leave(s) \/ CloseConn(s)

Next ==
  \/ Start \/ Stop
  \/ \E a \in Acceptors : \/ AcceptorStep(a) \/ AcceptError(a)
                          \/ \E s \in Sockets : Accept(a, s)
  \/ \E s \in Sockets : Connect(s) \/ ServeEnd(s) \/ HandlerStep(s)

(***************************************************************************)
(* Goroutines run; a read from a connection Stop has closed fails; and the *)
(* kernel hands a waiting connection to a goroutine that keeps asking for  *)
(* one (strong fairness: the goroutine is elsewhere in between).           *)
(***************************************************************************)
Fairness ==
  /\ \A a \in Acceptors : WF_vars(AcceptorStep(a))
  /\ \A s \in Sockets : /\ WF_vars(HandlerStep(s))
                        /\ WF_vars(s \in shut /\ ServeEnd(s))
                        /\ SF_vars(\E a \in Acceptors : Accept(a, s))

Spec == Init /\ [][Next]_vars
FairSpec == Spec /\ Fairness

-----------------------------------------------------------------------------
(* Properties *)

\* The connection limit (server.go:303-310) bounds the pool although several
\* accept goroutines may compete after a quick Stop and Start.
PoolBound == Len(clients) <= MaxClients

\* tcpClients holds exactly the connections whose handler has not removed
\* them yet, each once: the swap with the last entry (server.go:363-369)
\* loses and duplicates nobody.
PoolExact ==
  /\ \A i, j \in 1 .. Len(clients) : clients[i] = clients[j] => i = j
  /\ \A s \in Sockets : InPool(s) <=> conn[s] \in {"serving", "ending"}

\* "Stops accepting new client connections and closes any active session"
\* (server.go:258): a stopped server has no open session, not even one whose
\* admission raced with Stop.
StoppedIsClosed == ~started => \A s \in Sockets : InPool(s) => s \in shut

\* A started server has a goroutine that accepts, or is about to accept, on
\* its listener, however Starts and Stops raced with the accept loops.
SomebodyAccepts ==
  started => /\ listener \in bound
             /\ \E a \in Acceptors : \/ acceptor[a] \in {"loop", "admit"}
                                     \/ acceptor[a] = "accept" /\ on[a] = listener

\* However Starts and Stops race with old accept loops and handlers: a bounded
\* and exact pool, no session on a stopped server, a started one accepts.
ServerSafe == PoolBound /\ PoolExact /\ StoppedIsClosed /\ SomebodyAccepts

\* A waiting connection is accepted or reset: none is left in the backlog.
BacklogServed == \A s \in Sockets : conn[s] = "backlog" ~> conn[s] # "backlog"

\* The sessions are those of a bounded pool.
Live == {s \in Sockets : InPool(s) /\ s \notin shut}
Pool == INSTANCE ConnectionPool WITH
  up <- started, pool <- {s \in Sockets : InPool(s)}, live <- Live
PoolSpec == Pool!Spec
=============================================================================
