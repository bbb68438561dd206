-------------------------- MODULE SimulatorProofs --------------------------
(***************************************************************************)
(* Proofs about the simulator: first the life of an instance with its RTU  *)
(* servers (SimulatorInstance), for any number of callers, poller slots,   *)
(* servers, serving loops and channels; then the requests that it answers  *)
(* (ModbusRequests), for any calls, requests of other masters and          *)
(* memories.                                                               *)
(***************************************************************************)
EXTENDS SimulatorInstance, ModbusRequests, TLAPS

\* A slot that was taken was free.
LEMMA AnyOfFree == \A free : \A x \in AnyOf(free) : x \in free
BY DEF AnyOf

\* Before the first Init nothing is there.
LEMMA SimInitIInv == Init => IInv
<1> SUFFICES ASSUME Init PROVE IInv
  OBVIOUS
<1>1. None \notin Threads /\ None \notin Servers
  BY SimulatorAssumption, RtuAssumption
<1>2. TypeOK
  BY DEF Init, RtuInit, TypeOK, RtuTypeOK
<1>3. MutexInv /\ InitInv
  BY <1>1 DEF Init, RtuInit, MutexInv, Closing, InitInv, Alive
<1>4. ServerOwned /\ LockInv
  BY DEF Init, RtuInit, ServerOwned, PollerHasServer, PortOwned, Alive, LockInv
<1>. QED
  BY <1>2, <1>3, <1>4 DEF IInv

-----------------------------------------------------------------------------
(***************************************************************************)
(* Types.                                                                  *)
(***************************************************************************)
\* What Start and Stop of a server do to its variables.
LEMMA RtuTypes ==
  ASSUME RtuTypeOK, NEW s \in Servers,
         StartOk(s) \/ StartFail(s) \/ Stop(s) \/ NewRTUServer(s)
  PROVE  RtuTypeOK'
<1> USE DEF RtuTypeOK
<1>1. CASE StartOk(s)
  <2>1. CASE UNCHANGED rtu
    BY <2>1 DEF rtu
  <2>2. ASSUME NEW g \in Loops,
               loop' = [loop EXCEPT ![g] = "begin"] /\ of' = [of EXCEPT ![g] = s],
               port' = [port EXCEPT ![s] = "open"],
               started' = [started EXCEPT ![s] = TRUE], UNCHANGED lock
        PROVE  RtuTypeOK'
    BY <2>2
  <2>. QED
    BY <1>1, <2>1, <2>2, AnyOfFree DEF StartOk
<1>2. CASE StartFail(s)
  BY <1>2 DEF StartFail
<1>3. CASE Stop(s)
  <2>1. \A b \in {FALSE, port[s] = "open"} : b \in BOOLEAN
    OBVIOUS
  <2>. QED
    BY <1>3, <2>1 DEF Stop, rtu
<1>4. CASE NewRTUServer(s)
  BY <1>4 DEF NewRTUServer
<1>. QED
  BY <1>1, <1>2, <1>3, <1>4

\* The types of Init's variables.
LEMMA SimInitBodyTypes ==
  ASSUME TypeOK, InitBody
  PROVE  /\ RtuTypeOK' /\ init' \in BOOLEAN /\ created' \in BOOLEAN
         /\ ctx' \in {"nil", "live", "cancelled"}
         /\ server1' \in Servers \cup {None} /\ cfg' \in Channels
         /\ poller' \in [Pollers -> {"idle", "top", "start", "wait", "select", "stop"}]
         /\ mine' \in [Pollers -> Channels \cup {None}]
<1> USE DEF TypeOK
<1>1. CASE init /\ UNCHANGED <<rtu, object, pollers>>
  BY <1>1 DEF rtu, object, pollers, RtuTypeOK
<1>2. CASE ~init
  <2>1. RtuTypeOK'
    <3>1. CASE \E s \in Servers : NewRTUServer(s)
      BY <3>1, RtuTypes
    <3>2. CASE UNCHANGED rtu
      BY <3>2 DEF rtu, RtuTypeOK
    <3>. QED
      BY <1>2, <3>1, <3>2 DEF InitBody
  <2>2. /\ init' \in BOOLEAN /\ created' \in BOOLEAN /\ ctx' = "live" /\ cfg' = cfg
        /\ server1' \in Servers \cup {None}
    BY <1>2 DEF InitBody
  <2>3. \/ UNCHANGED pollers
        \/ \E p \in Pollers : /\ poller' = [poller EXCEPT ![p] = "top"]
                              /\ mine' = [mine EXCEPT ![p] = cfg]
    BY <1>2, AnyOfFree DEF InitBody
  <2>. QED
    BY <2>1, <2>2, <2>3 DEF pollers
<1>. QED
  BY <1>1, <1>2 DEF InitBody

\* Every step keeps the types.
LEMMA SimTypeStep == TypeOK /\ InitInv /\ [Next]_vars => TypeOK'
<1> SUFFICES ASSUME TypeOK, InitInv, [Next]_vars PROVE TypeOK'
  OBVIOUS
<1> USE DEF TypeOK, Goto
<1>1. ASSUME NEW t \in Threads, CallClose(t) \/ CallUpdate(t) PROVE TypeOK'
  BY <1>1 DEF CallClose, CallUpdate, rtu, object, pollers, RtuTypeOK
<1>2. CASE RootCancel
  BY <1>2 DEF RootCancel, rtu, object, pollers, RtuTypeOK
<1>3. ASSUME NEW t \in Threads, Create(t) \/ UpdateInit(t) PROVE TypeOK'
  BY <1>3, SimInitBodyTypes DEF Create, UpdateInit
<1>4. ASSUME NEW t \in Threads, CloseBegin(t) PROVE TypeOK'
  BY <1>4 DEF CloseBegin, Via, rtu, pollers, RtuTypeOK
<1>5. ASSUME NEW t \in Threads, CloseWait(t) PROVE TypeOK'
  BY <1>5 DEF CloseWait, Via, rtu, object, pollers, RtuTypeOK
<1>6. ASSUME NEW t \in Threads, CloseEnd(t) PROVE TypeOK'
  <2>1. RtuTypeOK'
    <3>1. CASE server1 = None /\ UNCHANGED rtu
      BY <3>1 DEF rtu, RtuTypeOK
    <3>2. CASE server1 # None /\ Stop(server1)
      BY <3>2, RtuTypes
    <3>. QED
      BY <1>6, <3>1, <3>2 DEF CloseEnd
  <2>. QED
    BY <1>6, <2>1 DEF CloseEnd, Via, pollers
<1>7. ASSUME NEW t \in Threads, UpdateStore(t) \/ UpdateCheck(t) PROVE TypeOK'
  BY <1>7 DEF UpdateStore, UpdateCheck, rtu, object, pollers, RtuTypeOK
<1>8. ASSUME NEW p \in Pollers, Top(p) \/ Wait(p) \/ SelectDone(p)
      PROVE  TypeOK'
  BY <1>8 DEF Top, Wait, SelectDone, Move, rtu, object, RtuTypeOK
<1>9. ASSUME NEW p \in Pollers, StartServer(p) PROVE TypeOK'
  <2>1. RtuTypeOK'
    <3>1. CASE server1 # None /\ (StartOk(server1) \/ StartFail(server1))
      BY <3>1, RtuTypes
    <3>2. CASE UNCHANGED rtu
      BY <3>2 DEF rtu, RtuTypeOK
    <3>. QED
      BY <1>9, <3>1, <3>2 DEF StartServer
  <2>. QED
    BY <1>9, <2>1 DEF StartServer, Move, object
<1>10. ASSUME NEW p \in Pollers, StopServer(p) PROVE TypeOK'
  <2>1. RtuTypeOK'
    BY <1>10, RtuTypes DEF StopServer, Move, InitInv
  <2>. QED
    BY <1>10, <2>1 DEF StopServer, Move, object
<1>11. ASSUME NEW g \in Loops, ServerStep(g) PROVE TypeOK'
  <2>1. RtuTypeOK'
    BY <1>11 DEF ServerStep, LoopStep, LoopCheck, LoopLock, RtuTypeOK
  <2>. QED
    BY <1>11, <2>1 DEF ServerStep, object, pollers
<1>12. CASE UNCHANGED vars
  BY <1>12 DEF vars, rtu, object, pollers, RtuTypeOK
<1>. QED
  BY <1>1, <1>2, <1>3, <1>4, <1>5, <1>6, <1>7, <1>8, <1>9, <1>10, <1>11, <1>12
  DEF Next, CallerStep, PollerStep

-----------------------------------------------------------------------------
(***************************************************************************)
(* The poller and its instance.                                            *)
(***************************************************************************)
\* A poller's step is that of a live poller and brings no other to life.
LEMMA SimMoveFacts ==
  ASSUME TypeOK, NEW p \in Pollers, PollerStep(p)
  PROVE  /\ p \in Alive /\ Alive' \subseteq Alive /\ mine'[p] \in {mine[p], None}
         /\ \A q \in Pollers \ {p} : poller'[q] = poller[q] /\ mine'[q] = mine[q]
         /\ UNCHANGED <<mu, object, rootDone, pc>>
<1>1. PICK from \in {"top", "start", "wait", "select", "stop"},
           to \in {"idle", "top", "start", "wait", "select", "stop"} : Move(p, from, to)
  BY DEF PollerStep, Top, StartServer, Wait, SelectDone, StopServer
<1>. QED
  BY <1>1 DEF Move, TypeOK, Alive

\* What Init does to pollers and server: nothing, or the instance was closed
\* and at most one poller is there afterwards, at the top.
LEMMA SimInitBodyFacts ==
  ASSUME TypeOK, InitInv, InitBody
  PROVE  \/ UNCHANGED <<rtu, object, pollers>>
         \/ /\ ~init /\ ~init' /\ server1' = None /\ ctx' = "live"
            /\ UNCHANGED <<rtu, pollers>>
         \/ /\ ~init /\ init' /\ ctx' = "live" /\ cfg \in Serial \cup Tcp
            /\ \E p \in Pollers : /\ poller' = [poller EXCEPT ![p] = "top"]
                                  /\ mine' = [mine EXCEPT ![p] = cfg]
            /\ \/ cfg \in Serial /\ server1' \in Servers /\ NewRTUServer(server1')
               \/ cfg \in Tcp /\ UNCHANGED <<rtu, server1>>
<1> USE DEF InitBody
<1>1. CASE init
  BY <1>1
<1>2. CASE ~init /\ cfg \in Unnamed
  BY <1>2 DEF pollers
<1>3. CASE ~init /\ cfg \notin Unnamed
  <2>1. cfg \in Serial \cup Tcp
    BY <1>3 DEF TypeOK, Channels
  <2>2. \E p \in Pollers : /\ poller' = [poller EXCEPT ![p] = "top"]
                           /\ mine' = [mine EXCEPT ![p] = cfg]
    BY <1>3, AnyOfFree
  <2>3. \/ cfg \in Serial /\ server1' \in Servers /\ NewRTUServer(server1')
        \/ cfg \in Tcp /\ UNCHANGED <<rtu, server1>>
    BY <1>3
  <2>. QED
    BY <1>3, <2>1, <2>2, <2>3
<1>. QED
  BY <1>1, <1>2, <1>3

\* The mutex: nobody but the holder leaves a closing, and no poller is born
\* under it.
LEMMA SimMutexStep == IInv /\ [Next]_vars => MutexInv'
<1> SUFFICES ASSUME IInv, [Next]_vars PROVE MutexInv'
  OBVIOUS
<1>0. None \notin Threads
  BY SimulatorAssumption, RtuAssumption
<1> USE <1>0 DEF IInv, TypeOK, MutexInv, Closing, Goto
<1>1. ASSUME NEW t \in Threads, CallClose(t) \/ CallUpdate(t) PROVE MutexInv'
  BY <1>1 DEF CallClose, CallUpdate, object, pollers, Alive
<1>2. CASE RootCancel
  BY <1>2 DEF RootCancel, object, pollers, Alive
<1>3. ASSUME NEW t \in Threads, Create(t) \/ UpdateInit(t) PROVE MutexInv'
  <2>1. mu = None /\ mu' = None /\ \A u \in Threads : ~Closing(u)
    BY <1>3 DEF Create, UpdateInit
  <2>2. \A u \in Threads : ~Closing(u)'
    BY <1>3, <2>1 DEF Create, UpdateInit
  <2>. QED
    BY <2>1, <2>2
<1>4. ASSUME NEW t \in Threads, CloseBegin(t) PROVE MutexInv'
  BY <1>4 DEF CloseBegin, Via, pollers, Alive
<1>5. ASSUME NEW t \in Threads, CloseWait(t) PROVE MutexInv'
  BY <1>5 DEF CloseWait, Via, WaitOver, object, pollers, Alive
<1>6. ASSUME NEW t \in Threads, CloseEnd(t) PROVE MutexInv'
  BY <1>6 DEF CloseEnd, Via, pollers, Alive
<1>7. ASSUME NEW t \in Threads, UpdateStore(t) \/ UpdateCheck(t) PROVE MutexInv'
  BY <1>7 DEF UpdateStore, UpdateCheck, object, pollers, Alive
<1>8. ASSUME NEW p \in Pollers, PollerStep(p) PROVE MutexInv'
  BY <1>8, SimMoveFacts DEF object
<1>9. ASSUME NEW g \in Loops, ServerStep(g) PROVE MutexInv'
  BY <1>9 DEF ServerStep, object, pollers, Alive
<1>10. CASE UNCHANGED vars
  BY <1>10 DEF vars, object, pollers, Alive
<1>. QED
  BY <1>1, <1>2, <1>3, <1>4, <1>5, <1>6, <1>7, <1>8, <1>9, <1>10 DEF Next, CallerStep

\* An open port stays one of a started server, whatever a server does.
LEMMA RtuOpen ==
  ASSUME RtuTypeOK, \A s \in Servers : port[s] = "open" => started[s],
         NEW r \in Servers,
         StartOk(r) \/ StartFail(r) \/ Stop(r) \/ NewRTUServer(r)
  PROVE  \A s \in Servers : /\ port'[s] = "open" => started'[s]
                            /\ s # r => port'[s] = port[s]
<1> USE DEF RtuTypeOK, rtu
<1>1. CASE StartOk(r)
  BY <1>1 DEF StartOk
<1>2. CASE StartFail(r)
  BY <1>2 DEF StartFail
<1>3. CASE Stop(r)
  BY <1>3 DEF Stop
<1>4. CASE NewRTUServer(r)
  BY <1>4 DEF NewRTUServer
<1>. QED
  BY <1>1, <1>2, <1>3, <1>4

\* Stopped means that the port is given up, also when closing it fails.
LEMMA StopCloses ==
  ASSUME RtuTypeOK, NEW s \in Servers, Stop(s), port[s] = "open" => started[s]
  PROVE  port'[s] # "open"
BY DEF Stop, RtuTypeOK, rtu

\* A new server has no port yet.
LEMMA NewClosed ==
  ASSUME RtuTypeOK, NEW s \in Servers, NewRTUServer(s)
  PROVE  port'[s] # "open"
BY DEF NewRTUServer, RtuTypeOK

\* What a closed instance has not, and what a poller in the inner loop has.
LEMMA SimInitStep == IInv /\ ~panicked /\ Next => InitInv'
<1> SUFFICES ASSUME IInv, ~panicked, Next PROVE InitInv'
  OBVIOUS
<1>0. None \notin Servers
  BY SimulatorAssumption, RtuAssumption
<1> USE <1>0 DEF IInv, InitInv, Done
<1>1. ASSUME NEW t \in Threads,
             \/ CallClose(t) \/ CallUpdate(t) \/ CloseBegin(t) \/ CloseWait(t)
             \/ UpdateStore(t) \/ UpdateCheck(t)
      PROVE  InitInv'
  <2>1. /\ UNCHANGED <<init, server1, port, started, poller, rootDone, panicked>>
        /\ ctx' = ctx \/ ctx' = "cancelled"
    BY <1>1
    DEF CallClose, CallUpdate, CloseBegin, CloseWait, UpdateStore, UpdateCheck, object,
        pollers, rtu
  <2>. QED
    BY <2>1 DEF Alive
<1>2. CASE RootCancel
  BY <1>2 DEF RootCancel, rtu, object, pollers, Alive
<1>3. ASSUME NEW t \in Threads, Create(t) \/ UpdateInit(t) PROVE InitInv'
  <2>1. InitBody /\ UNCHANGED <<rootDone, panicked>>
    BY <1>3 DEF Create, UpdateInit
  <2>2. CASE UNCHANGED <<rtu, object, pollers>>
    BY <2>1, <2>2 DEF rtu, object, pollers, Alive
  <2>3. CASE ~init /\ ~init' /\ server1' = None /\ UNCHANGED <<rtu, pollers>>
    <3>1. UNCHANGED <<port, started, poller, panicked>> /\ Alive = {} /\ Alive' = {}
      BY <2>1, <2>3 DEF rtu, pollers, Alive
    <3>. QED
      BY <2>3, <3>1 DEF Alive
  <2>4. CASE /\ ~init /\ init'
             /\ \E p \in Pollers : poller' = [poller EXCEPT ![p] = "top"]
             /\ \/ server1' \in Servers /\ NewRTUServer(server1')
                \/ UNCHANGED <<rtu, server1>>
    <3>1. \A p \in Pollers : poller[p] = "idle"
      BY <2>4 DEF Alive
    <3>2. \A p \in Pollers : poller'[p] \in {"idle", "top"}
      BY <2>4, <3>1 DEF TypeOK
    <3>3. \A s \in Servers : port'[s] = "open" => started'[s]
      <4>1. CASE UNCHANGED rtu
        BY <4>1 DEF rtu
      <4>2. ASSUME NEW r \in Servers, NewRTUServer(r)
            PROVE  \A s \in Servers : port'[s] = "open" => started'[s]
        BY <4>2, RtuOpen DEF TypeOK
      <4>. QED
        BY <2>4, <4>1, <4>2
    <3>. QED
      BY <2>1, <2>4, <3>2, <3>3
  <2>. QED
    BY <2>1, <2>2, <2>3, <2>4, SimInitBodyFacts
<1>4. ASSUME NEW t \in Threads, CloseEnd(t) PROVE InitInv'
  <2>1. Alive = {} /\ Alive' = {} /\ server1' = None /\ UNCHANGED <<poller, panicked>>
    BY <1>4 DEF CloseEnd, MutexInv, pollers, Alive
  <2>2. \A s \in Servers : port'[s] = "open" => started'[s]
    <3>1. CASE UNCHANGED rtu
      BY <3>1 DEF rtu
    <3>2. CASE server1 # None /\ Stop(server1)
      BY <3>2, RtuOpen DEF TypeOK
    <3>. QED
      BY <1>4, <3>1, <3>2 DEF CloseEnd
  <2>. QED
    BY <2>1, <2>2 DEF Alive
<1>5. ASSUME NEW p \in Pollers, PollerStep(p) PROVE InitInv'
  <2>1. /\ p \in Alive /\ Alive' \subseteq Alive
        /\ UNCHANGED <<object, rootDone>>
        /\ \A q \in Pollers \ {p} : poller'[q] = poller[q]
    BY <1>5, SimMoveFacts
  <2>2. poller'[p] \in {"select", "stop"} => server1 # None
    BY <1>5 DEF PollerStep, Top, StartServer, Wait, SelectDone, StopServer, Move, TypeOK
  <2>3. poller'[p] = "stop" => Done
    BY <1>5 DEF PollerStep, Top, StartServer, Wait, SelectDone, StopServer, Move, TypeOK
  <2>4. panicked' => server1 = None
    BY <1>5 DEF PollerStep, Top, StartServer, Wait, SelectDone, StopServer
  <2>5. \A s \in Servers : port'[s] = "open" => started'[s]
    <3>1. CASE UNCHANGED rtu
      BY <3>1 DEF rtu
    <3>2. CASE /\ server1 # None
               /\ StartOk(server1) \/ StartFail(server1) \/ Stop(server1)
      BY <3>2, RtuOpen DEF TypeOK
    <3>3. StopServer(p) => server1 # None
      BY DEF StopServer, Move
    <3>. QED
      BY <1>5, <3>1, <3>2, <3>3
      DEF PollerStep, Top, StartServer, Wait, SelectDone, StopServer
  <2>. QED
    BY <2>1, <2>2, <2>3, <2>4, <2>5 DEF object
<1>6. ASSUME NEW g \in Loops, ServerStep(g) PROVE InitInv'
  BY <1>6 DEF ServerStep, LoopStep, LoopCheck, LoopLock, object, pollers, Alive
<1>. QED
  BY <1>1, <1>2, <1>3, <1>4, <1>5, <1>6 DEF Next, CallerStep

\* One poller, with its server, owning the open port.
LEMMA SimOwnedStep == IInv /\ ~panicked /\ Next => ServerOwned'
<1> SUFFICES ASSUME IInv, ~panicked, Next PROVE ServerOwned'
  OBVIOUS
<1>0. None \notin Servers /\ Serial \cap Tcp = {}
  BY SimulatorAssumption, RtuAssumption
<1> USE <1>0 DEF IInv, ServerOwned, PollerHasServer, PortOwned
<1>1. ASSUME NEW t \in Threads,
             \/ CallClose(t) \/ CallUpdate(t) \/ CloseBegin(t) \/ CloseWait(t)
             \/ UpdateStore(t) \/ UpdateCheck(t)
      PROVE  ServerOwned'
  <2>1. UNCHANGED <<server1, port, poller, mine, panicked>>
    BY <1>1
    DEF CallClose, CallUpdate, CloseBegin, CloseWait, UpdateStore, UpdateCheck, object,
        pollers, rtu
  <2>. QED
    BY <2>1 DEF Alive
<1>2. CASE RootCancel
  BY <1>2 DEF RootCancel, rtu, object, pollers, Alive
<1>3. ASSUME NEW t \in Threads, Create(t) \/ UpdateInit(t) PROVE ServerOwned'
  <2>1. InitBody /\ UNCHANGED panicked
    BY <1>3 DEF Create, UpdateInit
  <2>2. CASE UNCHANGED <<rtu, object, pollers>>
    BY <2>1, <2>2 DEF rtu, object, pollers, Alive
  <2>3. ASSUME ~init
        PROVE  Alive = {} /\ server1 = None /\ \A s \in Servers : port[s] # "open"
    BY <2>3 DEF InitInv, Alive
  <2>4. CASE ~init /\ server1' = None /\ UNCHANGED <<rtu, pollers>>
    BY <2>3, <2>4 DEF rtu, pollers, Alive
  <2>5. ASSUME ~init, NEW p \in Pollers,
               poller' = [poller EXCEPT ![p] = "top"], mine' = [mine EXCEPT ![p] = cfg],
               \/ cfg \in Serial /\ server1' \in Servers /\ NewRTUServer(server1')
               \/ cfg \in Tcp /\ UNCHANGED <<rtu, server1>>
        PROVE  ServerOwned'
    <3>1. Alive' = {p} /\ mine'[p] = cfg
      BY <2>3, <2>5 DEF TypeOK, Alive
    <3>2. cfg \in Serial => server1' # None
      BY <2>5
    <3>3. \A s \in Servers : port'[s] # "open"
      <4>1. CASE UNCHANGED rtu
        BY <2>3, <2>5, <4>1 DEF rtu
      <4>2. ASSUME NEW r \in Servers, NewRTUServer(r)
            PROVE  \A s \in Servers : port'[s] # "open"
        BY <2>3, <2>5, <4>2 DEF NewRTUServer, TypeOK, RtuTypeOK
      <4>. QED
        BY <2>5, <4>1, <4>2
    <3>. QED
      BY <2>1, <3>1, <3>2, <3>3
  <2>. QED
    BY <2>1, <2>2, <2>4, <2>5, SimInitBodyFacts
<1>4. ASSUME NEW t \in Threads, CloseEnd(t) PROVE ServerOwned'
  <2>1. Alive = {} /\ Alive' = {} /\ \A s \in Servers : port[s] # "open"
    BY <1>4 DEF CloseEnd, MutexInv, pollers, Alive
  <2>2. \A s \in Servers : port'[s] # "open"
    BY <1>4, <2>1 DEF CloseEnd, Stop, rtu, TypeOK, RtuTypeOK
  <2>. QED
    BY <2>1, <2>2
<1>5. ASSUME NEW p \in Pollers, PollerStep(p) PROVE ServerOwned'
  <2>1. /\ p \in Alive /\ Alive' \subseteq Alive /\ mine'[p] \in {mine[p], None}
        /\ \A q \in Pollers \ {p} : poller'[q] = poller[q] /\ mine'[q] = mine[q]
        /\ UNCHANGED <<object, rootDone>>
    BY <1>5, SimMoveFacts
  <2>2. None \notin Serial /\ \A q \in Alive : q = p
    BY <2>1, SimulatorAssumption DEF Channels
  <2>3. PollerHasServer'
    <3>1. mine[p] \in Serial => ~panicked'
      BY <1>5, <2>1 DEF PollerStep, Top, StartServer, Wait, SelectDone, StopServer
    <3>. QED
      BY <2>1, <2>2, <3>1 DEF object
  <2>4. ASSUME NEW s \in Servers, port'[s] = "open"
        PROVE  s = server1 /\ poller'[p] \in {"select", "stop"}
    <3>1. CASE Top(p) \/ Wait(p) \/ SelectDone(p)
      <4>1. port[s] = "open" /\ poller[p] \in {"select", "stop"}
        BY <2>2, <2>4, <3>1 DEF Top, Wait, SelectDone, rtu, Alive
      <4>. QED
        BY <2>4, <3>1, <4>1 DEF Top, Wait, SelectDone, Move, rtu, TypeOK
    <3>2. CASE StartServer(p)
      <4>1. poller[p] = "start" /\ port[s] # "open"
        BY <2>2, <3>2 DEF StartServer, Move, Alive
      <4>2. CASE server1 # None /\ Move(p, "start", "select") /\ StartOk(server1)
        BY <2>4, <4>1, <4>2 DEF Move, StartOk, rtu, TypeOK, RtuTypeOK
      <4>3. CASE server1 # None /\ StartFail(server1)
        BY <2>4, <4>1, <4>3 DEF StartFail, TypeOK, RtuTypeOK
      <4>4. CASE UNCHANGED rtu
        BY <2>4, <4>1, <4>4 DEF rtu
      <4>. QED
        BY <3>2, <4>2, <4>3, <4>4 DEF StartServer
    <3>3. CASE StopServer(p)
      <4>1. server1 \in Servers /\ Stop(server1)
        BY <3>3 DEF StopServer, Move, InitInv, TypeOK
      <4>2. port'[server1] # "open"
        BY <4>1, StopCloses DEF TypeOK, InitInv
      <4>3. s # server1 /\ port'[s] = port[s]
        BY <2>4, <4>1, <4>2, RtuOpen DEF TypeOK, InitInv
      <4>. QED
        BY <2>4, <4>3
    <3>. QED
      BY <1>5, <3>1, <3>2, <3>3 DEF PollerStep
  <2>. QED
    BY <2>1, <2>3, <2>4 DEF object
<1>6. ASSUME NEW g \in Loops, ServerStep(g) PROVE ServerOwned'
  BY <1>6 DEF ServerStep, LoopStep, LoopCheck, LoopLock, object, pollers, Alive
<1>. QED
  BY <1>1, <1>2, <1>3, <1>4, <1>5, <1>6 DEF Next, CallerStep

-----------------------------------------------------------------------------
(***************************************************************************)
(* The lock of a server that serves.                                       *)
(***************************************************************************)
\* Start takes a goroutine that was idle.
LEMMA StartLoop ==
  ASSUME RtuTypeOK, NEW s \in Servers, StartOk(s)
  PROVE  /\ UNCHANGED lock
         /\ \A g \in Loops : loop[g] = "serving" => UNCHANGED <<loop[g], of[g]>>
<1>1. CASE UNCHANGED rtu
  BY <1>1 DEF rtu
<1>2. ASSUME NEW h \in Loops, loop[h] = "idle", UNCHANGED lock,
             loop' = [loop EXCEPT ![h] = "begin"], of' = [of EXCEPT ![h] = s]
      PROVE  \A g \in Loops : loop[g] = "serving" => UNCHANGED <<loop[g], of[g]>>
  BY <1>2 DEF RtuTypeOK
<1>. QED
  BY <1>1, <1>2, AnyOfFree DEF StartOk

\* Every step keeps a server's lock in the hands of its serving loop, and no
\* step takes it away.
LEMMA SimLockStep ==
  ASSUME IInv, ~panicked, Next
  PROVE  LockInv' /\ \A s \in Servers : lock[s] # None => lock'[s] = lock[s]
<1> DEFINE Kept == \A s \in Servers : lock[s] # None => lock'[s] = lock[s]
<1> USE DEF IInv, LockInv
<1>0. RtuTypeOK /\ None \notin Loops
  BY SimulatorAssumption, RtuAssumption DEF TypeOK
<1>1. ASSUME UNCHANGED <<lock, loop, of>> PROVE LockInv' /\ Kept
  BY <1>1
<1>2. ASSUME NEW s \in Servers, StartOk(s) PROVE LockInv' /\ Kept
  <2>1. /\ UNCHANGED lock
        /\ \A g \in Loops : loop[g] = "serving" => UNCHANGED <<loop[g], of[g]>>
    BY <1>0, <1>2, StartLoop
  <2>. QED
    BY <2>1
<1>3. ASSUME NEW s \in Servers, NewRTUServer(s) PROVE LockInv' /\ Kept
  <2>1. lock[s] = None
    BY <1>3 DEF NewRTUServer, Garbage
  <2>2. lock' = [lock EXCEPT ![s] = None] /\ UNCHANGED <<loop, of>>
    BY <1>3 DEF NewRTUServer
  <2>. QED
    BY <1>0, <2>1, <2>2 DEF RtuTypeOK
<1>4. ASSUME NEW s \in Servers, StartFail(s) \/ Stop(s) PROVE LockInv' /\ Kept
  BY <1>4, <1>1 DEF StartFail, Stop, rtu
<1>5. ASSUME NEW g \in Loops, LoopStep(g) PROVE LockInv' /\ Kept
  <2>1. CASE LoopCheck(g)
    <3>1. UNCHANGED lock /\ \A h \in Loops \ {g} : UNCHANGED <<loop[h], of[h]>>
      BY <1>0, <2>1 DEF LoopCheck, RtuTypeOK
    <3>2. \A s \in Servers : lock[s] # g
      BY <1>0, <2>1 DEF LoopCheck
    <3>. QED
      BY <3>1, <3>2
  <2>2. CASE LoopLock(g)
    <3>1. /\ lock' = [lock EXCEPT ![of[g]] = g] /\ lock[of[g]] = None
          /\ loop' = [loop EXCEPT ![g] = "serving"] /\ of' = of
      BY <2>2 DEF LoopLock
    <3>2. ASSUME NEW s \in Servers, lock'[s] # None
          PROVE  lock'[s] \in Loops /\ loop'[lock'[s]] = "serving" /\ of'[lock'[s]] = s
      <4>1. CASE s = of[g]
        BY <1>0, <3>1, <4>1 DEF RtuTypeOK
      <4>2. CASE s # of[g]
        BY <1>0, <3>1, <3>2, <4>2 DEF RtuTypeOK
      <4>. QED
        BY <4>1, <4>2
    <3>3. Kept
      BY <1>0, <3>1 DEF RtuTypeOK
    <3>. QED
      BY <3>2, <3>3
  <2>. QED
    BY <1>5, <2>1, <2>2 DEF LoopStep
<1>6. ASSUME NEW t \in Threads, Create(t) \/ UpdateInit(t) PROVE LockInv' /\ Kept
  <2>1. UNCHANGED rtu \/ \E s \in Servers : NewRTUServer(s)
    BY <1>6, SimInitBodyFacts DEF Create, UpdateInit
  <2>. QED
    BY <1>1, <1>3, <2>1 DEF rtu
<1>7. ASSUME NEW t \in Threads, CloseEnd(t) PROVE LockInv' /\ Kept
  <2>1. UNCHANGED rtu \/ \E s \in Servers : Stop(s)
    BY <1>7 DEF CloseEnd, TypeOK
  <2>. QED
    BY <1>1, <1>4, <2>1 DEF rtu
<1>8. ASSUME NEW p \in Pollers, PollerStep(p) PROVE LockInv' /\ Kept
  <2>1. \/ UNCHANGED rtu
        \/ /\ server1 \in Servers
           /\ StartOk(server1) \/ StartFail(server1) \/ Stop(server1)
    BY <1>8
    DEF PollerStep, Top, StartServer, Wait, SelectDone, StopServer, Move, TypeOK, InitInv
  <2>. QED
    BY <1>1, <1>2, <1>4, <2>1 DEF rtu
<1>9. ASSUME UNCHANGED rtu PROVE LockInv' /\ Kept
  BY <1>1, <1>9 DEF rtu
<1>. QED
  BY <1>5, <1>6, <1>7, <1>8, <1>9
  DEF Next, CallerStep, ServerStep, CallClose, CallUpdate, RootCancel, CloseBegin,
      CloseWait, UpdateStore, UpdateCheck

\* The inductive invariant holds in every reachable state.
THEOREM SimInvariance ==
  Spec => []IInv
<1>1. IInv /\ [Next]_vars => IInv'
  <2> SUFFICES ASSUME IInv, [Next]_vars PROVE IInv'
    OBVIOUS
  <2>1. CASE Next
    <3>1. ~panicked
      BY <2>1 DEF Next
    <3>. QED
      BY <2>1, <3>1, SimTypeStep, SimMutexStep, SimInitStep, SimOwnedStep, SimLockStep
      DEF IInv
  <2>2. CASE UNCHANGED vars
    <3>1. TypeOK' /\ MutexInv'
      BY SimTypeStep, SimMutexStep DEF IInv
    <3>2. InitInv' /\ ServerOwned' /\ LockInv'
      BY <2>2
      DEF vars, rtu, object, pollers, IInv, InitInv, Done, ServerOwned, PollerHasServer,
          PortOwned, LockInv, Alive
    <3>. QED
      BY <3>1, <3>2 DEF IInv
  <2>. QED
    BY <2>1, <2>2
<1>. QED
  BY SimInitIInv, <1>1, PTL DEF Spec

\* The variables of a simulator instance and of its servers keep their types.
THEOREM SimTypeCorrect ==
  Spec => []TypeOK
  BY SimInvariance, PTL DEF IInv

\* However calls of Close and UpdateConfig overlap: one poller, which has its
\* server, and an open port that is the current server's and will be stopped.
THEOREM SimServerOwnedAlways ==
  Spec => []ServerOwned
  BY SimInvariance, PTL DEF IInv

-----------------------------------------------------------------------------
(***************************************************************************)
(* The defect, for every instance: no fairness brings such a call back.    *)
(***************************************************************************)
\* Whoever could let the call go on waits for it or for the loop.
LEMMA SimStuckStep ==
  ASSUME NEW t \in Threads, IInv, Stuck(t), [Next]_vars
  PROVE  Stuck(t)'
<1>0. None \notin Threads /\ None \notin Servers
  BY SimulatorAssumption, RtuAssumption
<1> USE <1>0 DEF Stuck, Goto
<1>1. mu = t /\ \A u \in Threads : Closing(u) => u = t
  BY DEF IInv, MutexInv, Closing
<1>2. PICK p \in Pollers : poller[p] \in {"select", "stop"}
  OBVIOUS
<1>3. p \in Alive /\ \A q \in Alive : q = p
  BY <1>2 DEF IInv, ServerOwned, PollerHasServer, Alive
<1>4. /\ server1 \in Servers
      /\ \A u \in Threads \ {t} : \A at : [pc EXCEPT ![u] = at][t] = pc[t]
      /\ \A at : [poller EXCEPT ![p] = at][p] = at
  BY DEF IInv, TypeOK
<1>5. CASE UNCHANGED vars
  BY <1>5 DEF vars, rtu, object, pollers
<1>6. ASSUME ~panicked, Next, UNCHANGED <<pc[t], server1>>,
             poller'[p] \in {"select", "stop"}
      PROVE  Stuck(t)'
  BY <1>2, <1>4, <1>6, SimLockStep
<1>7. ASSUME ~panicked, Next, NEW u \in Threads,
             CallClose(u) \/ CallUpdate(u) \/ UpdateCheck(u)
      PROVE  Stuck(t)'
  <2>1. /\ u # t /\ UNCHANGED <<server1, poller>>
        /\ \E at \in {"close", "update", "rest", "updInit"} : pc' = [pc EXCEPT ![u] = at]
    BY <1>7 DEF CallClose, CallUpdate, UpdateCheck, object, pollers
  <2>2. pc'[t] = pc[t]
    BY <1>4, <2>1
  <2>. QED
    BY <1>2, <1>6, <1>7, <2>1, <2>2
<1>8. ASSUME NEW u \in Threads,
             Create(u) \/ CloseBegin(u) \/ UpdateStore(u) \/ UpdateInit(u)
      PROVE  FALSE
  BY <1>1, <1>8 DEF Create, CloseBegin, UpdateStore, UpdateInit
<1>9. ASSUME NEW u \in Threads, CloseWait(u) \/ CloseEnd(u) PROVE FALSE
  BY <1>1, <1>3, <1>9 DEF CloseWait, WaitOver, CloseEnd, Closing
<1>10. ASSUME ~panicked, Next, NEW q \in Pollers, PollerStep(q) PROVE Stuck(t)'
  <2>1. q = p /\ UNCHANGED <<object, pc>>
    BY <1>3, <1>10, SimMoveFacts DEF IInv
  <2>2. ~StopServer(p)
    BY DEF StopServer, Stop
  <2>3. SelectDone(p)
    BY <1>2, <1>10, <2>1, <2>2 DEF PollerStep, Top, StartServer, Wait, Move
  <2>. QED
    BY <1>4, <1>6, <1>10, <2>1, <2>3 DEF SelectDone, Move, object
<1>11. ASSUME ~panicked, Next, RootCancel \/ \E g \in Loops : ServerStep(g)
       PROVE  Stuck(t)'
  BY <1>2, <1>6, <1>11 DEF RootCancel, ServerStep, object, pollers
<1>. QED
  BY <1>5, <1>7, <1>8, <1>9, <1>10, <1>11 DEF Next, CallerStep

\* Once the serving loop has its server's lock no step ever gives it back.
THEOREM LockNeverReleased ==
  Spec => [][\A s \in Servers : lock[s] # None => lock'[s] = lock[s]]_vars
<1>1. IInv /\ [Next]_vars =>
        [\A s \in Servers : lock[s] # None => lock'[s] = lock[s]]_vars
  BY SimLockStep DEF Next
<1>. QED
  BY <1>1, SimInvariance, PTL DEF Spec

\* "Close: stop poller and close client" (cmbus.go:235), refuted for every
\* instance and under every scheduling: a Close, or the one in UpdateConfig,
\* that finds the server serving never returns.
THEOREM CloseNeverReturns ==
  ASSUME NEW t \in Threads
  PROVE  Spec => [](Stuck(t) => [](pc[t] # "rest" /\ Stuck(t)))
<1>1. IInv /\ Stuck(t) /\ [Next]_vars => Stuck(t)'
  BY SimStuckStep
<1>2. Stuck(t) => pc[t] # "rest"
  BY DEF Stuck
<1>. QED
  BY <1>1, <1>2, SimInvariance, PTL DEF Spec

-----------------------------------------------------------------------------
(***************************************************************************)
(* The safe part of OnlyServingBlocks.                                     *)
(***************************************************************************)
\* What a caller and a poller wait for: a mutex, the WaitGroup, a server's lock,
\* the context.
Unlocked == server1 = None \/ lock[server1] = None
CallerCan(t) ==
  \/ pc[t] \in {"close", "updClose", "update", "updInit"} /\ mu = None
  \/ pc[t] = "updCheck"
  \/ pc[t] \in {"closing", "updClosing"} /\ Alive = {}
  \/ pc[t] \in {"ending", "updEnding"} /\ Unlocked
PollerCan(p) ==
  \/ poller[p] \in {"top", "wait"}
  \/ poller[p] = "select" /\ Done
  \/ poller[p] \in {"start", "stop"} /\ Unlocked

\* A call of Close or UpdateConfig that cannot go on waits for the holder of
\* m.mu, that one for the poller, and the poller for nothing but the serving
\* loop of the current server: there is no other deadlock.
OnlyLoopBlocks ==
  \A t \in Threads : pc[t] # "rest" =>
    \/ \E u \in Threads : (u = t \/ mu = u) /\ CallerCan(u)
    \/ mu \in Threads /\ \E p \in Alive : PollerCan(p)
    \/ \E g \in Loops : loop[g] = "serving" /\ of[g] = server1

THEOREM OnlyLoopBlocksAlways == Spec => []OnlyLoopBlocks
<1>1. ASSUME IInv, NEW t \in Threads, pc[t] # "rest"
      PROVE  \/ \E u \in Threads : (u = t \/ mu = u) /\ CallerCan(u)
             \/ mu \in Threads /\ \E p \in Alive : PollerCan(p)
             \/ \E g \in Loops : loop[g] = "serving" /\ of[g] = server1
  <2> DEFINE Serving == \E g \in Loops : loop[g] = "serving" /\ of[g] = server1
             Can == \E u \in Threads : (u = t \/ mu = u) /\ CallerCan(u)
  <2>1. Unlocked \/ Serving
    BY <1>1, RtuAssumption DEF Unlocked, IInv, TypeOK, LockInv
  <2>2. ASSUME NEW u \in Threads, Closing(u), u = t \/ mu = u
        PROVE  Can \/ (mu \in Threads /\ \E p \in Alive : PollerCan(p)) \/ Serving
    <3>1. mu = u /\ ctx = "cancelled" /\ (pc[u] \in {"ending", "updEnding"} => Alive = {})
      BY <1>1, <2>2 DEF IInv, MutexInv
    <3>2. ASSUME NEW p \in Alive PROVE PollerCan(p) \/ Serving
      <4>1. poller[p] \in {"top", "start", "wait", "select", "stop"} /\ Done
        BY <1>1, <3>1, <3>2 DEF Alive, IInv, TypeOK, Done
      <4>2. QED BY <2>1, <4>1 DEF PollerCan
    <3>3. Alive = {} => CallerCan(u) \/ Serving
      BY <2>1, <2>2 DEF CallerCan, Closing
    <3>4. QED BY <3>1, <3>2, <3>3
  <2>3. CASE Closing(t)
    BY <2>2, <2>3
  <2>4. CASE ~Closing(t) /\ mu = None
    <3>1. CallerCan(t)
      BY <1>1, <2>4 DEF IInv, TypeOK, CallerCan, Closing
    <3>2. QED BY <3>1
  <2>5. CASE ~Closing(t) /\ mu # None
    <3>1. mu \in Threads /\ Closing(mu)
      BY <1>1, <2>5 DEF IInv, TypeOK, MutexInv
    <3>2. QED BY <2>2, <3>1
  <2>6. QED BY <2>3, <2>4, <2>5
<1>2. IInv => OnlyLoopBlocks
  BY <1>1 DEF OnlyLoopBlocks
<1>3. QED
  BY <1>2, SimInvariance, PTL

\* How many steps a poller still has, once it is told to end.
Left(at) ==
  IF at = "idle" THEN 0
  ELSE IF at \in {"top", "stop"} THEN 1
  ELSE IF at \in {"wait", "select"} THEN 2 ELSE 3

\* While a Close waits no poller is born, and every step of the one it waits
\* for brings that one nearer to its end: three steps are enough.
ShortWait ==
  \A t \in Threads : Closing(t) /\ Closing(t)' =>
    \A p \in Pollers :
      poller'[p] = poller[p] \/ panicked' \/ Left(poller'[p]) < Left(poller[p])

THEOREM ShortWaitAlways == Spec => [][ShortWait]_vars
<1>1. ASSUME IInv, IInv', Next, NEW t \in Threads, Closing(t), Closing(t)', NEW p \in Pollers
      PROVE  poller'[p] = poller[p] \/ panicked' \/ Left(poller'[p]) < Left(poller[p])
  <2>1. mu = t /\ mu # None /\ ctx = "cancelled" /\ Done
    BY <1>1, SimulatorAssumption DEF IInv, MutexInv, Done
  <2>2. CASE UNCHANGED poller
    BY <2>2
  <2>3. ASSUME NEW q \in Pollers, PollerStep(q)
        PROVE  poller'[p] = poller[p] \/ panicked' \/ Left(poller'[p]) < Left(poller[p])
    <3>1. CASE p = q
      <4>1. poller \in [Pollers -> {"idle", "top", "start", "wait", "select", "stop"}]
        BY <1>1 DEF IInv, TypeOK
      <4>2. \/ poller[q] = "top" /\ poller'[q] = "idle"
            \/ poller[q] = "start" /\ poller'[q] \in {"select", "wait"}
            \/ panicked'
            \/ poller[q] = "wait" /\ poller'[q] \in {"top", "idle"}
            \/ poller[q] = "select" /\ poller'[q] = "stop"
            \/ poller[q] = "stop" /\ poller'[q] = "idle"
        BY <2>1, <2>3, <4>1
        DEF PollerStep, Top, StartServer, Wait, SelectDone, StopServer, Move
      <4>3. QED BY <3>1, <4>2 DEF Left
    <3>2. CASE p # q
      BY <1>1, <2>3, <3>2, SimMoveFacts DEF IInv
    <3>3. QED BY <3>1, <3>2
  <2>4. ASSUME NEW u \in Threads, Create(u) \/ UpdateInit(u) PROVE FALSE
    BY <2>1, <2>4 DEF Create, UpdateInit
  <2>5. QED
    BY <1>1, <2>2, <2>3, <2>4
    DEF Next, CallerStep, CallClose, CallUpdate, RootCancel, CloseBegin, CloseWait, CloseEnd,
        UpdateStore, UpdateCheck, ServerStep, pollers
<1>2. IInv /\ IInv' /\ [Next]_vars => [ShortWait]_vars
  BY <1>1 DEF ShortWait
<1>3. QED
  BY <1>2, SimInvariance, PTL DEF Spec

-----------------------------------------------------------------------------
(***************************************************************************)
(* The safe part of the lifecycle: every step is one of PollerLifecycle or *)
(* leaves phase and link alone.  Its fairness is what the defect breaks.   *)
(***************************************************************************)
SimLifecycle == INSTANCE PollerLifecycle WITH phase <- Phase, link <- Linked
SimLifecycleStep == [SimLifecycle!Next]_(SimLifecycle!vars)

\* The link is the current server's, and up only while its poller is there.
LEMMA SimLinkedFacts ==
  ASSUME IInv
  PROVE  /\ Linked <=> server1 # None /\ port[server1] = "open"
         /\ Linked => \E p \in Pollers : poller[p] \in {"select", "stop"}
         /\ Linked => Alive # {}
<1>1. \A s \in Servers : port[s] = "open" =>
        s = server1 /\ \E p \in Pollers : poller[p] \in {"select", "stop"}
  BY DEF IInv, ServerOwned, PortOwned
<1>2. None \notin Servers /\ server1 \in Servers \cup {None}
  BY RtuAssumption DEF IInv, TypeOK
<1>. QED
  BY <1>1, <1>2 DEF Linked, Alive

\* A step that changes neither pollers nor ports, and cancels at most.
LEMMA SimQuietRefines ==
  ASSUME UNCHANGED <<poller, port>>, Done => Done'
  PROVE  SimLifecycleStep
<1>1. Alive' = Alive /\ Linked' = Linked
  BY DEF Alive, Linked
<1>2. \/ Phase' = Phase
      \/ Phase = "running" /\ Phase' = "stopping"
  BY <1>1 DEF Phase
<1>. QED
  BY <1>1, <1>2
  DEF SimLifecycleStep, SimLifecycle!Next, SimLifecycle!Cancel, SimLifecycle!vars

\* Init starts a poller, for the live or the cancelled context, or nothing.
LEMMA SimInitBodyRefines ==
  ASSUME IInv, IInv', InitBody, UNCHANGED rootDone
  PROVE  SimLifecycleStep
<1> USE DEF IInv
<1>1. CASE UNCHANGED <<rtu, object, pollers>>
  BY <1>1, SimQuietRefines DEF rtu, object, pollers, Done
<1>2. CASE ~init
  <2>1. Alive = {} /\ ~Linked
    BY <1>2, SimLinkedFacts DEF InitInv
  <2>2. Alive' = {} \/ \E p \in Pollers : poller' = [poller EXCEPT ![p] = "top"]
    BY <1>2, <2>1, SimInitBodyFacts DEF pollers, Alive
  <2>3. ~Linked'
    <3>1. \A p \in Pollers : poller[p] = "idle"
      BY <2>1 DEF Alive
    <3>2. \A p \in Pollers : poller'[p] \notin {"select", "stop"}
      BY <2>2, <3>1 DEF TypeOK, Alive
    <3>. QED
      BY <3>2 DEF Linked, ServerOwned, PortOwned
  <2>4. Phase = "stopped" /\ Phase' \in {"stopped", "running", "stopping"}
    BY <2>1 DEF Phase
  <2>5. Linked = FALSE /\ Linked' = FALSE
    BY <2>1, <2>3 DEF Linked
  <2>6. CASE Phase' = "stopped"
    BY <2>4, <2>5, <2>6 DEF SimLifecycleStep, SimLifecycle!vars
  <2>7. CASE Phase' \in {"running", "stopping"}
    BY <2>4, <2>5, <2>7 DEF SimLifecycleStep, SimLifecycle!Next, SimLifecycle!Start
  <2>. QED
    BY <2>4, <2>6, <2>7
<1>. QED
  BY <1>1, <1>2, SimInitBodyFacts

\* The poller opens and closes the port while it runs, and ends once told to.
LEMMA SimPollerRefines ==
  ASSUME IInv, IInv', NEW p \in Pollers, PollerStep(p) PROVE SimLifecycleStep
<1> USE DEF IInv
<1>1. /\ Alive = {p} /\ Alive' \subseteq {p} /\ UNCHANGED <<object, rootDone>>
      /\ \A q \in Pollers \ {p} : poller'[q] = poller[q]
  BY SimMoveFacts DEF ServerOwned, PollerHasServer
<1>2. Done' = Done
  BY <1>1 DEF Done, object
<1>3. CASE poller'[p] = "idle"
  <2>1. Done
    BY <1>3
    DEF PollerStep, Top, StartServer, Wait, SelectDone, StopServer, Move, TypeOK, InitInv
  <2>2. Alive' = {}
    BY <1>1, <1>3 DEF Alive
  <2>3. Linked' = FALSE /\ Phase = "stopping" /\ Phase' = "stopped"
    <3>1. \A q \in Pollers : poller'[q] = "idle"
      BY <2>2, SimMoveFacts DEF Alive
    <3>2. ~Linked'
      BY <3>1 DEF Linked, ServerOwned, PortOwned
    <3>. QED
      BY <1>1, <2>1, <2>2, <3>2 DEF Phase
  <2>. QED
    BY <2>3 DEF SimLifecycleStep, SimLifecycle!Next, SimLifecycle!Stop
<1>4. CASE poller'[p] # "idle"
  <2>1. Alive' = {p}
    BY <1>1, <1>4 DEF Alive
  <2>2. Phase # "stopped" /\ Phase' = Phase
    BY <1>1, <1>2, <2>1 DEF Phase
  <2>3. Linked \in BOOLEAN /\ Linked' \in BOOLEAN
    BY DEF Linked
  <2>. QED
    BY <2>2, <2>3 DEF SimLifecycleStep, SimLifecycle!Next, SimLifecycle!LinkUp,
                      SimLifecycle!LinkDown, SimLifecycle!vars
<1>. QED
  BY <1>3, <1>4

\* A simulator instance, like one of mbus, is what the host may rely on: one
\* poller, born stopped, which alone opens the port and takes it down with it.
THEOREM SimRefinesLifecycle ==
  Spec => SimLifecycle!Init /\ [][SimLifecycle!Next]_(SimLifecycle!vars)
<1>1. Init => SimLifecycle!Init
  BY DEF Init, RtuInit, SimLifecycle!Init, Phase, Linked, Alive
<1>2. IInv /\ IInv' /\ [Next]_vars => SimLifecycleStep
  <2> SUFFICES ASSUME IInv, IInv', [Next]_vars PROVE SimLifecycleStep
    OBVIOUS
  <2>1. ASSUME NEW t \in Threads, Create(t) \/ UpdateInit(t) PROVE SimLifecycleStep
    BY <2>1, SimInitBodyRefines DEF Create, UpdateInit
  <2>2. ASSUME NEW p \in Pollers, PollerStep(p) PROVE SimLifecycleStep
    BY <2>2, SimPollerRefines
  <2>3. ASSUME NEW t \in Threads, CloseEnd(t) PROVE SimLifecycleStep
    <3>1. Alive = {} /\ Alive' = {}
      BY <2>3 DEF CloseEnd, IInv, MutexInv, pollers, Alive
    <3>2. ~Linked /\ ~Linked'
      <4>1. \A p \in Pollers : poller[p] = "idle" /\ poller'[p] = "idle"
        BY <3>1 DEF Alive
      <4>. QED
        BY <4>1 DEF Linked, IInv, ServerOwned, PortOwned
    <3>. QED
      BY <3>1, <3>2 DEF SimLifecycleStep, Phase, Linked, SimLifecycle!vars
  <2>4. ASSUME NEW t \in Threads,
               \/ CallClose(t) \/ CallUpdate(t) \/ CloseBegin(t) \/ CloseWait(t)
               \/ UpdateStore(t) \/ UpdateCheck(t)
        PROVE  SimLifecycleStep
    BY <2>4, SimQuietRefines
    DEF CallClose, CallUpdate, CloseBegin, CloseWait, UpdateStore, UpdateCheck, rtu,
        object, pollers, Done
  <2>5. CASE RootCancel
    BY <2>5, SimQuietRefines DEF RootCancel, rtu, object, pollers, Done
  <2>6. ASSUME NEW g \in Loops, ServerStep(g) PROVE SimLifecycleStep
    BY <2>6, SimQuietRefines
    DEF ServerStep, LoopStep, LoopCheck, LoopLock, object, pollers, Done
  <2>7. CASE UNCHANGED vars
    BY <2>7, SimQuietRefines DEF vars, rtu, object, pollers, Done
  <2>. QED
    BY <2>1, <2>2, <2>3, <2>4, <2>5, <2>6, <2>7 DEF Next, CallerStep
<1>. QED
  BY <1>1, <1>2, SimInvariance, PTL DEF Spec, SimLifecycleStep

\* The root context is cancelled, no poller is before its server's start, and
\* no UpdateConfig is past its check of the parent.
SimQuiet ==
  /\ rootDone /\ created /\ \A p \in Pollers : poller[p] \in {"idle", "stop"}
  /\ \A t \in Threads : pc[t] # "updInit"

\* What RootStopsStarting comes to stays: no server is started any more, also
\* when one of them keeps its poller and a Close waiting for ever.
THEOREM SimQuietForGood ==
  Spec => [](SimQuiet => []SimQuiet)
<1>1. TypeOK /\ SimQuiet /\ [Next]_vars => SimQuiet'
  <2> SUFFICES ASSUME TypeOK, SimQuiet, [Next]_vars PROVE SimQuiet'
    OBVIOUS
  <2> USE DEF TypeOK, Goto, SimQuiet
  <2>1. ASSUME NEW t \in Threads, Create(t) \/ UpdateInit(t) PROVE FALSE
    BY <2>1 DEF Create, UpdateInit
  <2>2. ASSUME NEW t \in Threads, CallClose(t) \/ CallUpdate(t) PROVE SimQuiet'
    BY <2>2 DEF CallClose, CallUpdate, object, pollers
  <2>3. ASSUME NEW t \in Threads, UpdateStore(t) \/ UpdateCheck(t) PROVE SimQuiet'
    BY <2>3 DEF UpdateStore, UpdateCheck, object, pollers
  <2>4. ASSUME NEW t \in Threads, CloseBegin(t) \/ CloseWait(t) \/ CloseEnd(t)
        PROVE  SimQuiet'
    BY <2>4 DEF CloseBegin, CloseWait, CloseEnd, Via, object, pollers
  <2>5. ASSUME NEW p \in Pollers, PollerStep(p) PROVE SimQuiet'
    BY <2>5 DEF PollerStep, Top, StartServer, Wait, SelectDone, StopServer, Move, object
  <2>6. CASE RootCancel
    BY <2>6 DEF RootCancel
  <2>7. ASSUME NEW g \in Loops, ServerStep(g) PROVE SimQuiet'
    BY <2>7 DEF ServerStep, object, pollers
  <2>8. CASE UNCHANGED vars
    BY <2>8 DEF vars, object, pollers
  <2>. QED
    BY <2>1, <2>2, <2>3, <2>4, <2>5, <2>6, <2>7, <2>8 DEF Next, CallerStep
<1>. QED
  BY <1>1, SimTypeCorrect, PTL DEF Spec

-----------------------------------------------------------------------------
(***************************************************************************)
(* The requests.  Word stays closed where it can: the provers reason about *)
(* a large number, not about a range of 65536.                             *)
(***************************************************************************)
\* The number of 16-bit words is a natural number.
LEMMA WordNat == Word \in Nat
  BY DEF Word

\* What a 16-bit field keeps of a number.
LEMMA WordMod ==
  ASSUME NEW x \in Nat
  PROVE  /\ x % Word \in 0 .. Word - 1
         /\ x < Word => x % Word = x
<1>1. x % 65536 \in Nat /\ x % 65536 <= 65535 /\ (x < 65536 => x % 65536 = x) OBVIOUS
<1>2. Word = 65536 BY DEF Word
<1>3. x % Word \in Nat /\ x % Word <= Word - 1 /\ (x < Word => x % Word = x)
  BY <1>1, <1>2
<1>4. QED BY <1>3, WordNat

\* What is known of a call.
LEMMA CallFacts ==
  ASSUME NEW c \in Calls
  PROVE  /\ c.fc \in Codes
         /\ c.addr \in Nat /\ c.addr < Word
         /\ c.vals.len \in Nat
         /\ c.vals.ones \subseteq Nat /\ \A i \in c.vals.ones : i < c.vals.len
         /\ c.fc \in Singles => c.vals.len = 1
         /\ c.fc \in Reads => c.vals.len < Word
<1>1. c \in Call /\ (c.fc \in Singles => c.vals.len = 1) /\ (c.fc \in Reads => c.vals.len < Word)
  BY RequestsAssumption
<1>2. c.fc \in Codes BY <1>1 DEF Call
<1>3. c.addr \in 0 .. Word - 1 BY <1>1 DEF Call
<1>4. c.addr \in Nat /\ c.addr < Word BY <1>3, WordNat
<1>5. c.vals \in List BY <1>1 DEF Call
<1>6. c.vals \in [len : Nat, ones : SUBSET Nat] BY <1>5 DEF List
<1>7. c.vals.len \in Nat BY <1>6
<1>8. c.vals.ones \subseteq Nat BY <1>6
<1>9. \A i \in c.vals.ones : i < c.vals.len BY <1>5 DEF List
<1>10. QED BY <1>1, <1>2, <1>4, <1>7, <1>8, <1>9

\* The quantity of a request is a number.
LEMMA QuantityNat ==
  ASSUME NEW c \in Calls
  PROVE  Quantity(c) \in Nat
<1>1. c.vals.len \in Nat BY CallFacts
<1>2. ((2 * c.vals.len) % 65536) \div 2 \in Nat BY <1>1
<1>3. c.vals.len % 65536 \in Nat BY <1>1
<1>4. QED BY <1>2, <1>3 DEF Quantity, Word

\* The client's quantity is the length of the list when a 16-bit number can
\* count its bytes (client.go:1139).
LEMMA QuantityIs ==
  ASSUME NEW c \in Calls, c.vals.len < 32768
  PROVE  Quantity(c) = c.vals.len
<1>1. c.vals.len \in Nat BY CallFacts
<1>2. (2 * c.vals.len) % 65536 = 2 * c.vals.len BY <1>1
<1>3. (2 * c.vals.len) \div 2 = c.vals.len BY <1>1
<1>4. c.vals.len % 65536 = c.vals.len BY <1>1
<1>5. QED BY <1>2, <1>3, <1>4 DEF Quantity, Word

\* A read has a 16-bit quantity already.
LEMMA ReadQuantity ==
  ASSUME NEW c \in Calls, c.fc \in Reads
  PROVE  Quantity(c) = c.vals.len
<1>1. c.vals.len \in Nat /\ c.vals.len < 65536 BY CallFacts DEF Word
<1>2. c.vals.len % 65536 = c.vals.len BY <1>1
<1>3. QED BY <1>2 DEF Quantity, Word, Reads

\* The fields of a request.
LEMMA RequestOf ==
  ASSUME NEW c
  PROVE  /\ ToRequest(c).fc = c.fc
         /\ ToRequest(c).qty = Quantity(c)
         /\ ToRequest(c).addr = c.addr
         /\ c.fc \in Reads \cup Singles => ToRequest(c).bytes = 0 % Word /\ ToRequest(c).count = 0 % 256
         /\ c.fc \notin Reads \cup Singles =>
              /\ ToRequest(c).bytes = ByteLen(c.fc, c.vals.len) % Word 
              /\ ToRequest(c).count = ByteLen(c.fc, c.vals.len) % 256
  BY DEF ToRequest

\* The answer to a read that the server takes fits.
LEMMA ReadAnswer ==
  ASSUME NEW fc, NEW n \in Nat, n # 0, n <= Limit(fc)
  PROVE  ByteLen(fc, n) \in Nat /\ ByteLen(fc, n) % 256 = ByteLen(fc, n) /\ ByteLen(fc, n) + 9 <= 260
<1>1. n <= 2000 /\ (fc \notin Bits => n <= 125)
  BY DEF Limit, Bits
<1>2. CASE fc \in Bits
  <2>1. (n + 7) \div 8 \in Nat /\ (n + 7) \div 8 <= 250 BY <1>1
  <2>2. QED BY <2>1, <1>2 DEF ByteLen
<1>3. CASE fc \notin Bits
  <2>1. 2 * n \in Nat /\ 2 * n <= 250 BY <1>1, <1>3
  <2>2. QED BY <2>1, <1>3 DEF ByteLen
<1>4. QED BY <1>2, <1>3

\* Only reads are answered with data, of a quantity within the limit.
LEMMA TcpAnswerFits ==
  ASSUME NEW r, NEW m, r.qty \in Nat, TcpServe(r, m).ans.kind = "data"
  PROVE  /\ TcpServe(r, m).ans.count = TcpServe(r, m).ans.bytes
         /\ TcpServe(r, m).ans.bytes + 9 <= 260
<1>1. r.fc \in Reads
  <2>1. ServeWriteSingle(r, m).ans.kind # "data"
    BY DEF ServeWriteSingle, Reply, Drop, Exception, Echo
  <2>2. ServeWriteMultiple(r, m).ans.kind # "data"
    BY DEF ServeWriteMultiple, Reply, Drop, Exception, Echo
  <2>3. Reply(Exception("function"), m).ans.kind # "data"
    BY DEF Reply, Exception
  <2>4. QED BY <2>1, <2>2, <2>3 DEF TcpServe
<1>2. TcpServe(r, m) = ServeRead(r, m)
  BY <1>1 DEF TcpServe
<1> DEFINE n == ByteLen(r.fc, r.qty)
<1>3. /\ ServeRead(r, m).ans.kind = "data"
         => /\ r.qty # 0 /\ r.qty <= Limit(r.fc)
            /\ ServeRead(r, m).ans.count = n % 256 /\ ServeRead(r, m).ans.bytes = n
  <2>1. CASE r.bytes # 0 \/ r.qty = 0 \/ r.qty > Limit(r.fc)
    BY <2>1 DEF ServeRead, Reply, Drop
  <2>2. CASE ~(r.bytes # 0 \/ r.qty = 0 \/ r.qty > Limit(r.fc))
    <3>1. r.qty # 0 /\ r.qty <= Limit(r.fc)
      BY <2>2 DEF Limit
    <3>2. \/ ServeRead(r, m).ans.kind = "exception"
          \/ ServeRead(r, m).ans.count = n % 256 /\ ServeRead(r, m).ans.bytes = n
      BY <2>2 DEF ServeRead, Reply, Exception, Data
    <3>3. QED BY <3>1, <3>2
  <2>3. QED BY <2>1, <2>2
<1>4. QED BY <1>2, <1>3, ReadAnswer

\* What the TCP server does not take for a protocol error, one lemma for each
\* kind of request.
LEMMA ReadTaken ==
  ASSUME NEW r, NEW m, r.fc \in Reads, r.bytes = 0, r.qty # 0, ~(r.qty > Limit(r.fc))
  PROVE  TcpServe(r, m).ans.kind # "drop"
<1>1. TcpServe(r, m) = ServeRead(r, m) BY DEF TcpServe
<1>2. ServeRead(r, m).ans.kind # "drop"
  BY DEF ServeRead, Reply, Exception, Data
<1>3. QED BY <1>1, <1>2

\* A single write without further bytes is taken, unless it is a coil's and odd.
LEMMA SingleTaken ==
  ASSUME NEW r, NEW m, r.fc \in Singles, r.bytes = 0,
         r.odd \in BOOLEAN, r.odd => r.fc = "WriteSingleCoil"
  PROVE  TcpServe(r, m).ans.kind = "drop" <=> r.odd
<1>1. TcpServe(r, m) = ServeWriteSingle(r, m) BY DEF TcpServe, Reads, Singles
<1>2. CASE r.odd
  BY <1>1, <1>2 DEF ServeWriteSingle, Reply, Drop
<1>3. CASE ~r.odd
  <2>1. ServeWriteSingle(r, m).ans.kind # "drop"
    BY <1>3 DEF ServeWriteSingle, Reply, Exception, Echo
  <2>2. QED BY <1>1, <1>3, <2>1
<1>4. QED BY <1>2, <1>3

\* A multiple write with the right number of bytes is taken.
LEMMA MultipleTaken ==
  ASSUME NEW r, NEW m, r.fc \in {"WriteMultipleCoils", "WriteMultipleRegisters"},
         r.qty # 0, ~(r.qty > Limit(r.fc)), r.bytes # 0, ~(r.bytes > 247),
         r.bytes = ByteLen(r.fc, r.qty), r.count = ByteLen(r.fc, r.qty) % 256
  PROVE  TcpServe(r, m).ans.kind # "drop"
<1>1. TcpServe(r, m) = ServeWriteMultiple(r, m) BY DEF TcpServe, Reads, Singles
<1>2. ServeWriteMultiple(r, m).ans.kind # "drop"
  BY DEF ServeWriteMultiple, Reply, Exception, Echo
<1>3. QED BY <1>1, <1>2

\* The client's limits are within the server's (client.go against server.go): a
\* request is dropped for an odd value of a coil and for nothing else.
LEMMA ClientTaken ==
  ASSUME NEW c \in Calls, c.vals.len < 32768, ClientChecks(c), NEW m
  PROVE  TcpServe(ToRequest(c), m).ans.kind = "drop" <=> c.odd
<1> DEFINE r == ToRequest(c)
           n == c.vals.len
<1>1. n \in Nat /\ Quantity(c) = n /\ c.fc \in Codes
  BY CallFacts, QuantityIs
<1>2. r.fc = c.fc /\ r.qty = n /\ r.odd = c.odd
  BY <1>1, RequestOf DEF ToRequest
<1>0. c.odd \in BOOLEAN /\ (c.odd => c.fc = "WriteSingleCoil")
  BY RequestsAssumption DEF Call
<1>8. c.fc \notin Singles => ~c.odd
  BY <1>0 DEF Singles
<1>3. ASSUME c.fc \notin Singles PROVE n # 0 /\ n > 0 /\ n <= Limit(c.fc) /\ ~(n > Limit(c.fc))
  <2>1. n > 0 /\ n <= ClientLimit(c.fc)
    BY <1>1, <1>3 DEF ClientChecks
  <2>2. n <= Limit(c.fc) BY <2>1 DEF ClientLimit, Limit
  <2>3. Limit(c.fc) \in Nat BY DEF Limit
  <2>4. QED BY <1>1, <2>1, <2>2, <2>3
<1>4. CASE c.fc \in Reads
  <2>1. r.bytes = 0 BY <1>4, RequestOf DEF Word
  <2>2. c.fc \notin Singles BY <1>4 DEF Reads, Singles
  <2>3. QED BY <1>2, <1>3, <1>4, <1>8, <2>1, <2>2, ReadTaken
<1>5. CASE c.fc \in Singles
  <2>1. r.bytes = 0 BY <1>5, RequestOf DEF Word
  <2>2. QED BY <1>0, <1>2, <1>5, <2>1, SingleTaken
<1>6. CASE c.fc \in {"WriteMultipleCoils", "WriteMultipleRegisters"}
  <2>1. c.fc \notin Reads \cup Singles BY <1>6 DEF Reads, Singles
  <2>2. n # 0 /\ n > 0 /\ n <= Limit(c.fc) /\ ~(n > Limit(c.fc)) BY <1>3, <2>1
  <2> DEFINE b == ByteLen(c.fc, n)
  <2>3. b \in Nat /\ b # 0 /\ b <= 246
    <3>1. CASE c.fc = "WriteMultipleCoils"
      <4>1. n <= 1968 BY <2>2, <3>1 DEF Limit
      <4>2. (n + 7) \div 8 \in Nat /\ (n + 7) \div 8 # 0 /\ (n + 7) \div 8 <= 246
        BY <1>1, <2>2, <4>1
      <4>3. QED BY <3>1, <4>2 DEF ByteLen, Bits
    <3>2. CASE c.fc = "WriteMultipleRegisters"
      <4>1. n <= 123 BY <2>2, <3>2 DEF Limit
      <4>2. 2 * n \in Nat /\ 2 * n # 0 /\ 2 * n <= 246
        BY <1>1, <2>2, <4>1
      <4>3. QED BY <3>2, <4>2 DEF ByteLen, Bits
    <3>3. QED BY <1>6, <3>1, <3>2
  <2>4. b % 65536 = b /\ ~(b > 247) BY <2>3
  <2>5. r.bytes = b /\ r.count = b % 256
    BY <2>1, <2>4, RequestOf DEF Word
  <2>6. QED BY <1>2, <1>6, <1>8, <2>1, <2>2, <2>3, <2>4, <2>5, MultipleTaken
<1>7. QED BY <1>1, <1>4, <1>5, <1>6 DEF Codes, Reads, Singles

-----------------------------------------------------------------------------
(* Reads.                                                                   *)

\* Cutting a list at its length, or beyond and then at it, changes nothing.
LEMMA FirstOfSlice ==
  ASSUME NEW S, NEW a, NEW n \in Nat, NEW k \in Nat, n <= k
  PROVE  /\ First(Slice(S, a, n), n) = Slice(S, a, n)
         /\ First(First(Slice(S, a, n), k), n) = Slice(S, a, n)
<1> DEFINE ones == {i \in 0 .. n - 1 : (a + i) % Word \in S}
<1>1. {i \in ones : i < n} = ones /\ {i \in ones : i < k} = ones OBVIOUS
<1>2. QED BY <1>1 DEF First, Slice

\* A memory whose part is replaced by itself is the same.
LEMMA SameMemory ==
  ASSUME NEW m \in Memory
  PROVE  [m EXCEPT !.coils = m.coils] = m /\ [m EXCEPT !.holding = m.holding] = m
  BY DEF Memory

\* What the simulator answers to a read of coils or holding registers.
Read(r, m) == Slice(IF r.fc = "ReadCoils" THEN m.coils ELSE m.holding, r.addr, r.qty)
\* A read changes nothing and returns the contents, or no list for another unit.
LEMMA HandleRead ==
  ASSUME NEW r, NEW m \in Memory, r.fc \in {"ReadCoils", "ReadHoldingRegisters"}
  PROVE  /\ Handle(r, m).mem = m
         /\ Handle(r, m).err = Nil => Handle(r, m).res \in {Zeros(0), Read(r, m)}
<1>1. CASE r.fc = "ReadCoils"
  <2>1. Handle(r, m) = HandleCoils(r, FALSE, m) BY <1>1 DEF Handle, Bits, Reads
  <2>2. HandleCoils(r, FALSE, m).mem = m
    BY SameMemory DEF HandleCoils, Result
  <2>3. HandleCoils(r, FALSE, m).res \in {Zeros(0), Slice(m.coils, r.addr, r.qty)}
    BY DEF HandleCoils, Result
  <2>4. QED BY <1>1, <2>1, <2>2, <2>3 DEF Read
<1>2. CASE r.fc = "ReadHoldingRegisters"
  <2>1. Handle(r, m) = HandleHoldingRegisters(r, FALSE, m) BY <1>2 DEF Handle, Bits, Reads
  <2>2. HandleHoldingRegisters(r, FALSE, m).mem = m
    BY SameMemory DEF HandleHoldingRegisters, Result
  <2>3. HandleHoldingRegisters(r, FALSE, m).res = Slice(m.holding, r.addr, r.qty)
    BY DEF HandleHoldingRegisters, Result
  <2>4. QED BY <1>2, <2>1, <2>2, <2>3 DEF Read
<1>3. QED BY <1>1, <1>2

\* A read the client accepts from the TCP server holds the contents.
LEMMA TcpRead ==
  ASSUME NEW r, NEW m \in Memory, r.fc \in {"ReadCoils", "ReadHoldingRegisters"}, r.qty \in Nat,
         NEW l, Check(l, r, TcpServe(r, m).ans).kind = "ok"
  PROVE  Check(l, r, TcpServe(r, m).ans).vals = Read(r, m) /\ TcpServe(r, m).mem = m
<1> DEFINE a == TcpServe(r, m).ans
           h == Handle(r, m)
<1>1. TcpServe(r, m) = ServeRead(r, m) BY DEF TcpServe, Reads
<1>2. ServeRead(r, m).mem = m BY DEF ServeRead, Reply
<1>3. ServeRead(r, m).ans.kind \in {"drop", "exception", "data"}
  BY DEF ServeRead, Reply, Drop, Exception, Data
<1>4. ServeRead(r, m).ans.kind = "data" =>
        h.err = Nil /\ h.res.len = r.qty /\ r.qty # 0 /\ ServeRead(r, m).ans.vals = h.res
  BY DEF ServeRead, Reply, Drop, Exception, Data
<1>5. a.kind = "data" /\ Check(l, r, a) = [kind |-> "ok", vals |-> First(a.vals, r.qty)]
  BY <1>1, <1>3 DEF Check, Refused, Failed
<1>6. a.vals = h.res /\ h.res \in {Zeros(0), Read(r, m)} /\ h.res.len = r.qty /\ r.qty # 0
  BY <1>1, <1>4, <1>5, HandleRead
<1>7. a.vals = Read(r, m) BY <1>6 DEF Zeros
<1>8. First(a.vals, r.qty) = Read(r, m) BY <1>7, FirstOfSlice DEF Read
<1>9. QED BY <1>1, <1>2, <1>5, <1>8

\* The RTU server rounds to the nearest byte and the client counts the bytes
\* it expects upwards: where the two agree nothing is missing.
LEMMA RtuRead ==
  ASSUME NEW r, NEW m \in Memory, r.fc \in {"ReadCoils", "ReadHoldingRegisters"}, r.qty \in Nat,
         r.qty # 0, NEW l, Check(l, r, RtuServe(r, m).ans).kind = "ok"
  PROVE  Check(l, r, RtuServe(r, m).ans).vals = Read(r, m) /\ RtuServe(r, m).mem = m
<1> DEFINE a == RtuServe(r, m).ans
           h == Handle(r, m)
<1>1. Parsed(r) = r BY DEF Parsed
<1>2. RtuServe(r, m) = IF h.err # Nil THEN Reply(Exception("address"), m)
                       ELSE Reply(RtuData(r, h.res), h.mem)
  BY <1>1 DEF RtuServe, Reads
<1>3. h.mem = m /\ (h.err = Nil => h.res \in {Zeros(0), Read(r, m)})
  BY HandleRead
<1> HIDE DEF h
<1>4. RtuServe(r, m).mem = m BY <1>2, <1>3 DEF Reply
<1>5. h.err = Nil /\ a = RtuData(r, h.res)
  BY <1>2 DEF Reply, Exception, Check, Refused
<1>6. RtuData(r, h.res).kind = "data" BY DEF RtuData, Data
<1>7. a.bytes = ByteLen(r.fc, r.qty) /\ Check(l, r, a) = [kind |-> "ok", vals |-> First(a.vals, r.qty)]
  BY <1>5, <1>6 DEF Check, Failed, Expected
<1>8. CASE r.fc = "ReadCoils"
  <2> DEFINE bs == (h.res.len + 4) \div 8
  <2>1. a.bytes = bs /\ a.vals = First(h.res, 8 * bs)
    BY <1>5, <1>8 DEF RtuData, Data, Bits
  <2>2. ByteLen(r.fc, r.qty) = (r.qty + 7) \div 8 /\ (r.qty + 7) \div 8 # 0
    BY <1>8 DEF ByteLen, Bits
  <2>3. h.res = Read(r, m)
    <3>1. CASE h.res = Zeros(0)
      <4>1. bs = 0 BY <3>1 DEF Zeros
      <4>2. QED BY <1>7, <2>1, <2>2, <4>1
    <3>2. QED BY <1>3, <1>5, <3>1
  <2>4. h.res.len = r.qty BY <2>3 DEF Read, Slice
  <2>5. bs \in Nat /\ r.qty <= 8 * bs
    <3>1. (r.qty + 7) \div 8 = bs BY <1>7, <2>1, <2>2
    <3>2. r.qty <= 8 * ((r.qty + 7) \div 8) /\ (r.qty + 7) \div 8 \in Nat OBVIOUS
    <3>3. QED BY <3>1, <3>2
  <2>6. First(First(h.res, 8 * bs), r.qty) = h.res
    BY <2>3, <2>5, FirstOfSlice DEF Read
  <2>7. QED BY <1>4, <1>7, <2>1, <2>3, <2>6
<1>9. CASE r.fc = "ReadHoldingRegisters"
  <2>1. a.bytes = 2 * h.res.len /\ a.vals = h.res
    BY <1>5, <1>9 DEF RtuData, Data, Bits
  <2>2. ByteLen(r.fc, r.qty) = 2 * r.qty BY <1>9 DEF ByteLen, Bits
  <2>3. h.res = Read(r, m)
    <3>1. CASE h.res = Zeros(0)
      <4>1. 2 * h.res.len = 0 BY <3>1 DEF Zeros
      <4>2. 2 * r.qty # 0 OBVIOUS
      <4>3. QED BY <1>7, <2>1, <2>2, <4>1, <4>2
    <3>2. QED BY <1>3, <1>5, <3>1
  <2>4. First(h.res, r.qty) = h.res BY <2>3, FirstOfSlice DEF Read
  <2>5. QED BY <1>4, <1>7, <2>1, <2>3, <2>4
<1>10. QED BY <1>8, <1>9

-----------------------------------------------------------------------------
(* What a request is once it has come through, and the memory it leaves.    *)

WellFormed(r) ==
  /\ r.addr \in Nat /\ r.addr < Word /\ r.qty \in Nat
  /\ r.fc \in Singles => r.qty = 1
  /\ r.fc \notin Reads =>
       r.vals.len = r.qty /\ r.vals.ones \subseteq Nat /\ \A i \in r.vals.ones : i < r.qty

\* What the client sends fits the fields of a frame.
LEMMA CallRequest ==
  ASSUME NEW c \in Calls
  PROVE  ToRequest(c) \in Request
<1> DEFINE bytes == IF c.fc \in Reads \cup Singles THEN 0 ELSE ByteLen(c.fc, c.vals.len)
           vals == IF c.fc \in Reads THEN Zeros(0) ELSE First(c.vals, Quantity(c))
<1>1. c \in Call BY RequestsAssumption
<1>2. /\ c.fc \in Codes /\ c.unit \in 0 .. 255 /\ c.addr \in 0 .. Word - 1
      /\ c.odd \in BOOLEAN
  BY <1>1 DEF Call
<1>3. c.vals.len \in Nat /\ c.vals.ones \subseteq Nat BY CallFacts
<1>4. bytes \in Nat
  <2>1. (c.vals.len + 7) \div 8 \in Nat /\ 2 * c.vals.len \in Nat BY <1>3
  <2>2. QED BY <2>1 DEF ByteLen
<1>5. bytes % 256 \in 0 .. 255 BY <1>4
<1>6. bytes % Word \in Nat BY <1>4, WordMod, WordNat
<1>7. Quantity(c) \in 0 .. Word - 1
  <2>1. c.vals.len % Word \in 0 .. Word - 1 BY <1>3, WordMod
  <2>2. (2 * c.vals.len) % Word \in 0 .. Word - 1 BY <1>3, WordMod
  <2>3. \A x \in Nat : x \div 2 \in Nat /\ x \div 2 <= x OBVIOUS
  <2>4. ((2 * c.vals.len) % Word) \div 2 \in 0 .. Word - 1 BY <2>2, <2>3, WordNat
  <2>5. QED BY <2>1, <2>4 DEF Quantity
<1>8. vals \in List
  <2>1. Zeros(0) \in List BY DEF Zeros, List
  <2>2. First(c.vals, Quantity(c)) \in List
    <3>1. Quantity(c) \in Nat BY QuantityNat
    <3>2. {i \in c.vals.ones : i < Quantity(c)} \subseteq Nat BY <1>3
    <3>3. QED BY <3>1, <3>2 DEF First, List
  <2>3. QED BY <2>1, <2>2
<1>9. ToRequest(c) = [fc |-> c.fc, unit |-> c.unit, addr |-> c.addr, qty |-> Quantity(c),
                      count |-> bytes % 256, bytes |-> bytes % Word, vals |-> vals,
                      odd |-> c.odd]
  BY DEF ToRequest
<1> HIDE DEF bytes, vals
<1>10. c.fc \in Codes \cup {"other"} BY <1>2
<1>11. QED BY <1>2, <1>5, <1>6, <1>7, <1>8, <1>9, <1>10 DEF Request

\* A request of another master is well formed.
LEMMA ForeignWellFormed ==
  ASSUME NEW r \in Foreigns
  PROVE  WellFormed(r)
<1>1. r \in Request /\ r.vals.len = r.qty /\ (r.fc \in Singles => r.qty = 1)
  BY RequestsAssumption
<1>2. r.addr \in 0 .. Word - 1 /\ r.qty \in 0 .. Word - 1 BY <1>1 DEF Request
<1>3. r.addr \in Nat /\ r.addr < Word /\ r.qty \in Nat BY <1>2, WordNat
<1>4. r.vals \in List BY <1>1 DEF Request
<1>5. r.vals \in [len : Nat, ones : SUBSET Nat] BY <1>4 DEF List
<1>6. r.vals.ones \subseteq Nat BY <1>5
<1>7. \A i \in r.vals.ones : i < r.vals.len BY <1>4 DEF List
<1>8. QED BY <1>1, <1>3, <1>6, <1>7 DEF WellFormed

\* A request of the client is well formed.
LEMMA CallWellFormed ==
  ASSUME NEW c \in Calls
  PROVE  WellFormed(ToRequest(c))
<1> DEFINE r == ToRequest(c)
<1>1. r.fc = c.fc /\ r.addr = c.addr /\ r.qty = Quantity(c) BY RequestOf
<1>2. c.addr \in Nat /\ c.addr < Word BY CallFacts
<1>3. Quantity(c) \in Nat BY QuantityNat
<1>4. c.fc \in Singles => Quantity(c) = 1
  <2>1. c.fc \in Singles => c.vals.len < 32768 BY CallFacts
  <2>2. QED BY <2>1, QuantityIs, CallFacts
<1>5. c.fc \notin Reads => r.vals = First(c.vals, Quantity(c)) BY DEF ToRequest
<1>6. First(c.vals, Quantity(c)).len = Quantity(c) BY DEF First
<1>7. First(c.vals, Quantity(c)).ones = {i \in c.vals.ones : i < Quantity(c)} BY DEF First
<1>8. c.vals.ones \subseteq Nat BY CallFacts
<1>9. ASSUME c.fc \notin Reads
      PROVE  r.vals.len = r.qty /\ r.vals.ones \subseteq Nat /\ \A i \in r.vals.ones : i < r.qty
  BY <1>1, <1>5, <1>6, <1>7, <1>8, <1>9
<1>10. QED BY <1>1, <1>2, <1>3, <1>4, <1>9 DEF WellFormed

\* Storing a list that ends within the address space changes its window and
\* nothing else.
LEMMA StoreExact ==
  ASSUME NEW S, NEW a \in Nat, NEW l, NEW n \in Nat, l.len = n, l.ones \subseteq Nat,
         \A i \in l.ones : i < n, n # 0 => a + n - 1 <= Word - 1
  PROVE  /\ Store(S, a, l) \ (a .. a + n - 1) = S \ (a .. a + n - 1)
         /\ \A b \in a .. a + n - 1 : b \in Store(S, a, l) <=> b - a \in l.ones
<1> DEFINE window == a .. a + n - 1
<1>1. \A i \in 0 .. n - 1 : (a + i) % Word = a + i
  <2>1. ASSUME NEW i \in 0 .. n - 1 PROVE (a + i) % Word = a + i
    <3>1. a + i \in Nat /\ a + i < Word BY <2>1, WordNat
    <3>2. QED BY <3>1, WordMod
  <2>2. QED BY <2>1
<1>2. l.ones \subseteq 0 .. n - 1 OBVIOUS
<1>3. {(a + i) % Word : i \in 0 .. n - 1} = {a + i : i \in 0 .. n - 1}
  BY <1>1
<1>4. {a + i : i \in 0 .. n - 1} = window
  <2>1. ASSUME NEW b \in window PROVE \E i \in 0 .. n - 1 : b = a + i
    <3>1. b - a \in 0 .. n - 1 /\ b = a + (b - a) BY <2>1
    <3>2. QED BY <3>1
  <2>2. ASSUME NEW i \in 0 .. n - 1 PROVE a + i \in window
    BY <2>2
  <2>3. QED BY <2>1, <2>2
<1>5. {(a + i) % Word : i \in l.ones} = {a + i : i \in l.ones}
  BY <1>1, <1>2
<1>6. Store(S, a, l) = (S \ window) \cup {a + i : i \in l.ones}
  BY <1>3, <1>4, <1>5 DEF Store
<1>7. {a + i : i \in l.ones} \subseteq window
  BY <1>2, <1>4
<1>8. ASSUME NEW b \in window PROVE b \in {a + i : i \in l.ones} <=> b - a \in l.ones
  <2>1. b \in Int /\ l.ones \subseteq Nat BY <1>8
  <2>2. ASSUME NEW i \in l.ones, b = a + i PROVE b - a = i BY <2>1, <2>2
  <2>3. b = a + (b - a) BY <2>1
  <2>4. QED BY <2>2, <2>3
<1>9. QED BY <1>6, <1>7, <1>8

\* The simulator stores nothing outside its coils and registers.
LEMMA HandleMemory ==
  ASSUME NEW r, WellFormed(r), NEW m \in Memory
  PROVE  Handle(r, m).mem \in Memory
<1>1. m.coils \subseteq 0 .. 99 /\ m.holding \subseteq 0 .. Word - 1 BY DEF Memory
<1>2. \A s \in SUBSET (0 .. 99) : [m EXCEPT !.coils = s] \in Memory BY DEF Memory
<1>3. \A s \in SUBSET (0 .. Word - 1) : [m EXCEPT !.holding = s] \in Memory BY DEF Memory
<1>4. HandleInputRegisters(r, m).mem = m BY DEF HandleInputRegisters, Result
<1>5. HandleDiscreteInputs(r, m).mem = m BY DEF HandleDiscreteInputs, Result
<1>6. HandleCoils(r, FALSE, m).mem = m BY SameMemory DEF HandleCoils, Result
<1>7. HandleHoldingRegisters(r, FALSE, m).mem = m
  BY SameMemory DEF HandleHoldingRegisters, Result
<1>8. ASSUME r.fc \notin Reads PROVE HandleCoils(r, TRUE, m).mem \in Memory
  <2> DEFINE st == Store(m.coils, r.addr, r.vals)
             new == (st \ ReadOnly) \cup (m.coils \cap ReadOnly)
  <2>1. \/ HandleCoils(r, TRUE, m).mem = m
        \/ CoilsExist(r.addr, r.qty) /\ HandleCoils(r, TRUE, m).mem = [m EXCEPT !.coils = new]
    BY DEF HandleCoils, Result
  <2>2. ASSUME CoilsExist(r.addr, r.qty) PROVE new \subseteq 0 .. 99
    <3>1. r.addr \in Nat /\ r.qty \in Nat /\ r.addr + r.qty <= 100 /\ r.vals.len = r.qty
          /\ r.vals.ones \subseteq Nat /\ \A i \in r.vals.ones : i < r.qty
      BY <1>8, <2>2 DEF WellFormed, CoilsExist
    <3>2. {(r.addr + i) % Word : i \in r.vals.ones} \subseteq 0 .. 99
      <4>1. ASSUME NEW i \in r.vals.ones PROVE (r.addr + i) % Word \in 0 .. 99
        <5>1. r.addr + i \in Nat /\ r.addr + i < 100 BY <3>1
        <5>2. r.addr + i < Word BY <5>1 DEF Word
        <5>3. (r.addr + i) % Word = r.addr + i BY <5>1, <5>2, WordMod
        <5>4. QED BY <5>1, <5>3
      <4>2. QED BY <4>1
    <3>3. st \subseteq 0 .. 99 BY <1>1, <3>2 DEF Store
    <3>4. QED BY <1>1, <3>3
  <2> HIDE DEF new
  <2>3. QED BY <1>2, <2>1, <2>2
<1>9. ASSUME r.fc \notin Reads PROVE HandleHoldingRegisters(r, TRUE, m).mem \in Memory
  <2> DEFINE new == Store(m.holding, r.addr, r.vals)
  <2>1. HandleHoldingRegisters(r, TRUE, m).mem = [m EXCEPT !.holding = new]
    BY DEF HandleHoldingRegisters, Result
  <2>2. r.addr \in Nat /\ r.vals.ones \subseteq Nat BY <1>9 DEF WellFormed
  <2>3. {(r.addr + i) % Word : i \in r.vals.ones} \subseteq 0 .. Word - 1
    <3>1. ASSUME NEW i \in r.vals.ones PROVE (r.addr + i) % Word \in 0 .. Word - 1
      <4>1. r.addr + i \in Nat BY <2>2
      <4>2. QED BY <4>1, WordMod
    <3>2. QED BY <3>1
  <2>4. new \subseteq 0 .. Word - 1 BY <1>1, <2>3 DEF Store
  <2> HIDE DEF new
  <2>5. QED BY <1>3, <2>1, <2>4
<1>10. \/ Handle(r, m) \in {HandleDiscreteInputs(r, m), HandleInputRegisters(r, m)}
       \/ Handle(r, m) = HandleCoils(r, r.fc \notin Reads, m)
       \/ Handle(r, m) = HandleHoldingRegisters(r, r.fc \notin Reads, m)
  BY DEF Handle
<1>11. CASE r.fc \in Reads
  <2>1. (r.fc \notin Reads) = FALSE BY <1>11
  <2>2. QED BY <1>4, <1>5, <1>6, <1>7, <1>10, <2>1
<1>12. CASE r.fc \notin Reads
  <2>1. (r.fc \notin Reads) = TRUE BY <1>12
  <2>2. QED BY <1>4, <1>5, <1>8, <1>9, <1>10, <1>12, <2>1
<1>13. QED BY <1>11, <1>12

\* Neither server stores anything outside the memory.
LEMMA ServedMemory ==
  ASSUME NEW r \in Request, WellFormed(r), NEW m \in Memory
  PROVE  TcpServe(r, m).mem \in Memory /\ RtuServe(r, m).mem \in Memory
<1>1. Handle(r, m).mem \in Memory BY HandleMemory
<1>2. ServeRead(r, m).mem = m BY DEF ServeRead, Reply
<1>3. ServeWriteSingle(r, m).mem \in {m, Handle(r, m).mem} BY DEF ServeWriteSingle, Reply
<1>4. ServeWriteMultiple(r, m).mem \in {m, Handle(r, m).mem} BY DEF ServeWriteMultiple,
                                                                    Reply
<1>5. TcpServe(r, m).mem \in Memory
  BY <1>1, <1>2, <1>3, <1>4 DEF TcpServe, Reply
<1>6. Handle(Parsed(r), m).mem \in Memory
  <2>1. CASE r.fc = "WriteSingleCoil"
    <3> DEFINE on == [len |-> 1, ones |-> {0}]
    <3>1. Parsed(r) = [r EXCEPT !.vals = on] BY <2>1 DEF Parsed
    <3>2. LET p == [r EXCEPT !.vals = on]
          IN  p.fc = r.fc /\ p.addr = r.addr /\ p.qty = r.qty /\ p.vals = on
      BY DEF Request
    <3>3. r.qty = 1 BY <2>1 DEF WellFormed, Singles
    <3>4. on.len = 1 /\ on.ones \subseteq Nat /\ \A i \in on.ones : i < 1 OBVIOUS
    <3>5. WellFormed([r EXCEPT !.vals = on])
      BY <3>2, <3>3, <3>4 DEF WellFormed
    <3>6. QED BY <3>1, <3>5, HandleMemory
  <2>2. CASE r.fc # "WriteSingleCoil"
    BY <1>1, <2>2 DEF Parsed
  <2>3. QED BY <2>1, <2>2
<1>7. RtuServe(r, m).mem \in {m, Handle(Parsed(r), m).mem} BY DEF RtuServe, Reply
<1>8. QED BY <1>5, <1>6, <1>7

-----------------------------------------------------------------------------
(* The inductive invariant: where an exchange stands, and that what the     *)
(* caller and the memory show is computed from the call and what was there. *)

Passed  == call = Nil \/ ClientChecks(call)
Replied == IF link = "tcp" THEN TcpServe(req, before) ELSE RtuServe(req, before)

CallInv ==
  /\ call # Nil => call \in Calls
  /\ stage = "rest" => call = Nil
  /\ stage = "answered" => call # Nil
  /\ stage \in {"rest", "sent", "answered", "done"}
RequestInv ==
  stage # "rest" /\ Passed =>
    IF call = Nil THEN req \in Foreigns ELSE req = ToRequest(call)
SentInv    == stage \in {"sent", "answered"} => Passed
RestInv ==
  /\ stage \in {"rest", "sent"} => mem = before /\ ans = Nil
  /\ stage = "rest" \/ ~Passed => req = Nil
ServedInv  == stage \in {"answered", "done"} /\ Passed => ans = Replied.ans /\ mem = Replied.mem
RefusedInv == stage = "done" /\ ~Passed => out = Params /\ ans = Nil /\ mem = before
CheckedInv == stage = "done" /\ call # Nil /\ Passed => out = Check(link, req, ans)

ExchangeInv ==
  /\ RequestTypeOK /\ CallInv /\ RequestInv /\ SentInv /\ RestInv
  /\ ServedInv /\ RefusedInv /\ CheckedInv

\* The invariant holds at the beginning.
LEMMA InitExchange == RequestInit => ExchangeInv
  BY RequestsAssumption
  DEF RequestInit, RequestTypeOK, ExchangeInv, CallInv, RequestInv, SentInv, RestInv,
      ServedInv, RefusedInv, CheckedInv, Passed

\* The client's request preserves the invariant.
LEMMA AskInv ==
  ASSUME ExchangeInv, NEW c \in Calls, Ask(c)
  PROVE  ExchangeInv'
<1>1. call' = c /\ c # Nil /\ stage = "rest" /\ mem' = mem /\ before' = before /\ ans' = ans
  BY RequestsAssumption DEF Ask
<1>2. mem = before /\ ans = Nil /\ c \in Call /\ ToRequest(c) \in Request
  BY <1>1, RequestsAssumption, CallRequest DEF ExchangeInv, RestInv
<1> link' = link BY DEF Ask
<1> RequestTypeOK /\ req = Nil BY <1>1 DEF ExchangeInv, RestInv
<1>3. CASE ClientChecks(c) /\ req' = ToRequest(c) /\ stage' = "sent"
  BY <1>1, <1>2, <1>3
  DEF ExchangeInv, RequestTypeOK, CallInv, RequestInv, SentInv, RestInv, ServedInv,
      RefusedInv, CheckedInv, Passed
<1>4. CASE ~ClientChecks(c) /\ out' = Params /\ stage' = "done" /\ req' = req
  BY <1>1, <1>2, <1>4
  DEF ExchangeInv, RequestTypeOK, CallInv, RequestInv, SentInv, RestInv, ServedInv,
      RefusedInv, CheckedInv, Passed
<1>5. QED BY <1>3, <1>4 DEF Ask

\* A request of another master preserves the invariant.
LEMMA AskForeignInv ==
  ASSUME ExchangeInv, NEW r \in Foreigns, AskForeign(r)
  PROVE  ExchangeInv'
<1>1. /\ stage = "rest" /\ stage' = "sent" /\ req' = r /\ call' = call
      /\ mem' = mem /\ before' = before /\ ans' = ans
  BY DEF AskForeign
<1>2. call = Nil /\ mem = before /\ ans = Nil /\ r \in Request
  BY <1>1, RequestsAssumption DEF ExchangeInv, CallInv, RestInv
<1> link' = link BY DEF AskForeign
<1>3. QED
  BY <1>1, <1>2
  DEF ExchangeInv, RequestTypeOK, CallInv, RequestInv, SentInv, RestInv, ServedInv,
      RefusedInv, CheckedInv, Passed

\* Serving a request preserves the invariant.
LEMMA ServeInv ==
  ASSUME ExchangeInv, Serve
  PROVE  ExchangeInv'
<1>1. /\ stage = "sent" /\ before' = mem /\ stage' = IF call = Nil THEN "done" ELSE "answered"
      /\ link' = link /\ call' = call /\ req' = req /\ out' = out
  BY DEF Serve
<1>2. mem = before /\ Passed /\ Passed' /\ (call # Nil => call \in Calls)
      /\ IF call = Nil THEN req \in Foreigns ELSE req = ToRequest(call)
  BY <1>1 DEF ExchangeInv, CallInv, RestInv, SentInv, RequestInv, Passed
<1>3. ans' = Replied'.ans /\ mem' = Replied'.mem
  BY <1>1, <1>2 DEF Serve, Replied
<1>4. mem \in Memory /\ WellFormed(req) /\ req \in Request
  BY <1>2, ForeignWellFormed, CallWellFormed, CallRequest, RequestsAssumption DEF ExchangeInv,
                                                                                  RequestTypeOK
<1>5. mem' \in Memory
  BY <1>1, <1>4, ServedMemory DEF Serve
<1>6. QED
  BY <1>1, <1>2, <1>3, <1>4, <1>5
  DEF ExchangeInv, RequestTypeOK, CallInv, RequestInv, SentInv, RestInv, ServedInv,
      RefusedInv, CheckedInv

\* Reading the answer preserves the invariant.
LEMMA ReceiveInv ==
  ASSUME ExchangeInv, Receive
  PROVE  ExchangeInv'
<1>1. /\ stage = "answered" /\ stage' = "done" /\ out' = Check(link, req, ans)
      /\ link' = link /\ call' = call /\ req' = req /\ ans' = ans
      /\ mem' = mem /\ before' = before
  BY DEF Receive
<1>2. /\ Passed /\ ans = Replied.ans /\ mem = Replied.mem /\ call \in Calls
      /\ call # Nil /\ req = ToRequest(call)
  BY <1>1 DEF ExchangeInv, CallInv, SentInv, ServedInv, RequestInv
<1>3. Passed' /\ ans' = Replied'.ans /\ mem' = Replied'.mem
  BY <1>1, <1>2 DEF Passed, Replied
<1>4. QED
  BY <1>1, <1>2, <1>3
  DEF ExchangeInv, RequestTypeOK, CallInv, RequestInv, SentInv, RestInv, ServedInv,
      RefusedInv, CheckedInv

\* The start of the next exchange preserves the invariant.
LEMMA RestStepInv ==
  ASSUME ExchangeInv, Rest
  PROVE  ExchangeInv'
BY RequestsAssumption
DEF Rest, ExchangeInv, RequestTypeOK, CallInv, RequestInv, SentInv, RestInv, ServedInv,
    RefusedInv, CheckedInv

\* A step that changes nothing preserves the invariant.
LEMMA StutterInv ==
  ASSUME ExchangeInv, UNCHANGED requestVars
  PROVE  ExchangeInv'
BY DEF requestVars, ExchangeInv, RequestTypeOK, CallInv, RequestInv, SentInv, RestInv,
       ServedInv, RefusedInv, CheckedInv, Passed, Replied

\* The invariant holds in every reachable state.
THEOREM ExchangeInvariance == RequestSpec => []ExchangeInv
<1>1. ExchangeInv /\ [RequestNext]_requestVars => ExchangeInv'
  BY AskInv, AskForeignInv, ServeInv, ReceiveInv, RestStepInv, StutterInv DEF RequestNext
<1>2. QED BY InitExchange, <1>1, PTL DEF RequestSpec

\* Of this client's requests the TCP server drops the odd value of a coil and
\* no other: no limit of client.go exceeds the one of server.go.
THEOREM OnlyOddDroppedAlways == RequestSpec => []OnlyOddDropped
<1>1. ASSUME ExchangeInv, stage = "answered", link = "tcp", Countable
      PROVE  ans.kind = "drop" <=> call.odd
  <2>1. call \in Calls /\ ClientChecks(call) /\ call # Nil
    BY <1>1 DEF ExchangeInv, CallInv, SentInv, Passed
  <2>2. ans = TcpServe(ToRequest(call), before).ans
    BY <1>1, <2>1 DEF ExchangeInv, RequestInv, ServedInv, Passed, Replied
  <2>3. call.vals.len < 32768 BY <1>1 DEF Countable, Word
  <2>4. QED BY <2>1, <2>2, <2>3, ClientTaken
<1>2. ExchangeInv => OnlyOddDropped BY <1>1 DEF OnlyOddDropped
<1>3. QED BY ExchangeInvariance, <1>2, PTL

\* Whatever is asked, an answer of the TCP server fits in a frame.
THEOREM AnswerFitsAlways == RequestSpec => []AnswerFits
<1>1. ASSUME ExchangeInv, stage \in {"answered", "done"}, link = "tcp", ans # Nil, ans.kind = "data"
      PROVE  ans.count = ans.bytes /\ ans.bytes + 9 <= 260
  <2>1. Passed BY <1>1 DEF ExchangeInv, SentInv, RefusedInv
  <2>2. ans = TcpServe(req, before).ans
    BY <1>1, <2>1 DEF ExchangeInv, ServedInv, Replied
  <2>3. req.qty \in Nat
    <3>1. CASE call = Nil
      <4>1. req \in Foreigns BY <1>1, <2>1, <3>1 DEF ExchangeInv, RequestInv
      <4>2. req \in Request BY <4>1, RequestsAssumption
      <4>3. req.qty \in 0 .. Word - 1 BY <4>2 DEF Request
      <4>4. QED BY <4>3, WordNat
    <3>2. CASE call # Nil
      <4>1. call \in Calls /\ req = ToRequest(call)
        BY <1>1, <2>1, <3>2 DEF ExchangeInv, CallInv, RequestInv
      <4>2. QED BY <4>1, RequestOf, QuantityNat
    <3>3. QED BY <3>1, <3>2
  <2>4. QED BY <1>1, <2>2, <2>3, TcpAnswerFits
<1>2. ExchangeInv => AnswerFits BY <1>1 DEF AnswerFits
<1>3. QED BY ExchangeInvariance, <1>2, PTL

\* The variables keep their types: what a frame carries is within its fields,
\* and the simulator stores nothing outside its coils and registers.
THEOREM RequestTypeCorrect == RequestSpec => []RequestTypeOK
<1>1. ExchangeInv => RequestTypeOK BY DEF ExchangeInv
<1>2. QED BY ExchangeInvariance, <1>1, PTL

\* What the invariant says of an exchange that is over.
LEMMA Served ==
  ASSUME ExchangeInv, stage = "done", call # Nil, Passed
  PROVE  /\ call \in Calls /\ ClientChecks(call) /\ req = ToRequest(call) /\ before \in Memory
         /\ link \in {"tcp", "rtu"} /\ out = Check(link, req, ans) /\ mem = Replied.mem
         /\ ans = Replied.ans
BY DEF ExchangeInv, RequestTypeOK, CallInv, RequestInv, ServedInv, CheckedInv, Passed

\* A read that succeeds returns the simulator's contents, over TCP and RTU.
THEOREM ReadIsMemoryAlways == RequestSpec => []ReadIsMemory
<1>1. ASSUME ExchangeInv, Succeeded, call.fc \in {"ReadCoils", "ReadHoldingRegisters"}
      PROVE  out.vals = Contents(before, call) /\ mem = before
  <2>1. stage = "done" /\ call # Nil /\ out.kind = "ok" BY <1>1 DEF Succeeded
  <2>2. Passed
    <3>1. Params.kind # "ok" BY DEF Params
    <3>2. QED BY <1>1, <2>1, <3>1 DEF ExchangeInv, RefusedInv
  <2>3. /\ call \in Calls /\ ClientChecks(call) /\ req = ToRequest(call) /\ before \in Memory
        /\ link \in {"tcp", "rtu"} /\ out = Check(link, req, ans) /\ mem = Replied.mem
        /\ ans = Replied.ans
    BY <1>1, <2>1, <2>2, Served
  <2>4. call.fc \in Reads /\ call.fc \notin Singles BY <1>1 DEF Reads, Singles
  <2>5. /\ req.fc = call.fc /\ req.addr = call.addr /\ req.qty = call.vals.len
        /\ req.qty \in Nat /\ req.qty # 0
    <3>1. Quantity(call) = call.vals.len BY <2>3, <2>4, ReadQuantity
    <3>2. Quantity(call) \in Nat /\ Quantity(call) > 0
      BY <2>3, <2>4, QuantityNat DEF ClientChecks
    <3>3. QED BY <2>3, <3>1, <3>2, RequestOf
  <2>6. Read(req, before) = Contents(before, call)
    BY <1>1, <2>5 DEF Read, Contents, Bits
  <2>7. CASE link = "tcp"
    BY <1>1, <2>1, <2>3, <2>5, <2>6, <2>7, TcpRead DEF Replied
  <2>8. CASE link = "rtu"
    BY <1>1, <2>1, <2>3, <2>5, <2>6, <2>8, RtuRead DEF Replied
  <2>9. QED BY <2>3, <2>7, <2>8
<1>2. ExchangeInv => ReadIsMemory BY <1>1 DEF ReadIsMemory
<1>3. QED BY ExchangeInvariance, <1>2, PTL

-----------------------------------------------------------------------------
(* Writes.                                                                  *)

Writes == {"WriteSingleCoil", "WriteMultipleCoils", "WriteSingleRegister", "WriteMultipleRegisters"}

\* A write is echoed, after the simulator took it, or changes nothing.
LEMMA TcpWrite ==
  ASSUME NEW r, r.fc \in Writes, WellFormed(r), NEW m
  PROVE  \/ /\ TcpServe(r, m).ans.kind \in {"drop", "exception"}
            /\ TcpServe(r, m).mem = m
         \/ /\ TcpServe(r, m).ans = Echo(r) /\ TcpServe(r, m).mem = Handle(r, m).mem
            /\ Handle(r, m).err = Nil
            /\ r.qty # 0 /\ r.addr + r.qty - 1 <= Word - 1
<1>1. CASE r.fc \in Singles
  <2>1. TcpServe(r, m) = ServeWriteSingle(r, m) BY <1>1 DEF TcpServe, Reads, Singles
  <2>2. r.qty = 1 /\ r.addr \in Nat /\ r.addr < Word BY <1>1 DEF WellFormed
  <2>3. r.qty # 0 /\ r.addr + r.qty - 1 <= Word - 1 BY <2>2, WordNat
  <2>4. \/ /\ ServeWriteSingle(r, m).ans.kind \in {"drop", "exception"}
           /\ ServeWriteSingle(r, m).mem = m
        \/ /\ ServeWriteSingle(r, m).ans = Echo(r) /\ ServeWriteSingle(r, m).mem = Handle(r, m).mem
           /\ Handle(r, m).err = Nil
    BY DEF ServeWriteSingle, Reply, Drop, Exception
  <2>5. QED BY <2>1, <2>3, <2>4
<1>2. CASE r.fc \notin Singles
  <2>1. TcpServe(r, m) = ServeWriteMultiple(r, m) BY <1>2 DEF TcpServe, Reads, Singles,
                                                              Writes
  <2>2. PastEnd(r) \/ r.addr + r.qty - 1 <= Word - 1
    <3>1. r.addr + r.qty - 1 \in Int BY DEF WellFormed
    <3>2. QED BY <3>1, WordNat DEF PastEnd
  <2>3. \/ /\ ServeWriteMultiple(r, m).ans.kind \in {"drop", "exception"}
           /\ ServeWriteMultiple(r, m).mem = m
        \/ /\ ServeWriteMultiple(r, m).ans = Echo(r) /\ ServeWriteMultiple(r, m).mem = Handle(r, m).mem
           /\ Handle(r, m).err = Nil /\ r.qty # 0 /\ ~PastEnd(r)
    BY DEF ServeWriteMultiple, Reply, Drop, Exception
  <2>4. QED BY <2>1, <2>2, <2>3
<1>3. QED BY <1>1, <1>2

\* A write of coils stores its values but for the read-only coil, for unit 1 only.
LEMMA CoilsWritten ==
  ASSUME NEW r, r.fc \in Writes \cap Bits, WellFormed(r), NEW m \in Memory, Handle(r, m).err = Nil,
         r.addr + r.qty - 1 <= Word - 1
  PROVE  LET new == Handle(r, m).mem
             window == (r.addr .. r.addr + r.qty - 1) \ {80}
         IN  /\ r.unit # 1 => new = m
             /\ r.unit = 1 => /\ new.holding = m.holding
                              /\ new.coils \ window = m.coils \ window
                              /\ \A b \in window : b \in new.coils <=> b - r.addr \in r.vals.ones
<1> DEFINE st == Store(m.coils, r.addr, r.vals)
           coils == (st \ ReadOnly) \cup (m.coils \cap ReadOnly)
           all == r.addr .. r.addr + r.qty - 1
<1>1. Handle(r, m) = HandleCoils(r, TRUE, m)
  BY DEF Handle, Writes, Bits, Reads
<1>2. r.unit # 1 => HandleCoils(r, TRUE, m).mem = m
  BY DEF HandleCoils, Result
<1>3. r.unit = 1 => HandleCoils(r, TRUE, m).mem = [m EXCEPT !.coils = coils]
  BY <1>1, RequestsAssumption DEF HandleCoils, Result
<1>4. r.unit = 1 => Handle(r, m).mem.coils = coils /\ Handle(r, m).mem.holding = m.holding
  BY <1>1, <1>3 DEF Memory
<1>5. /\ r.addr \in Nat /\ r.vals.len = r.qty /\ r.qty \in Nat /\ r.vals.ones \subseteq Nat
      /\ \A i \in r.vals.ones : i < r.qty
  BY DEF WellFormed, Writes, Reads
<1>6. st \ all = m.coils \ all /\ \A b \in all : b \in st <=> b - r.addr \in r.vals.ones
  BY <1>5, StoreExact
<1> HIDE DEF st, all
<1>7. coils \ (all \ {80}) = m.coils \ (all \ {80})
  BY <1>6 DEF ReadOnly
<1>8. \A b \in all \ {80} : b \in coils <=> b - r.addr \in r.vals.ones
  BY <1>6 DEF ReadOnly
<1> HIDE DEF coils
<1>9. QED BY <1>1, <1>2, <1>4, <1>7, <1>8 DEF all

\* A write of registers stores exactly its values.
LEMMA RegistersWritten ==
  ASSUME NEW r, r.fc \in Writes \ Bits, WellFormed(r), NEW m \in Memory,
         r.addr + r.qty - 1 <= Word - 1
  PROVE  LET new == Handle(r, m).mem
             window == r.addr .. r.addr + r.qty - 1
         IN  /\ new.coils = m.coils
             /\ new.holding \ window = m.holding \ window
             /\ \A b \in window : b \in new.holding <=> b - r.addr \in r.vals.ones
<1> DEFINE st == Store(m.holding, r.addr, r.vals)
<1>1. Handle(r, m) = HandleHoldingRegisters(r, TRUE, m)
  BY DEF Handle, Writes, Bits, Reads
<1>2. HandleHoldingRegisters(r, TRUE, m).mem = [m EXCEPT !.holding = st]
  BY DEF HandleHoldingRegisters, Result
<1>3. Handle(r, m).mem.holding = st /\ Handle(r, m).mem.coils = m.coils
  BY <1>1, <1>2 DEF Memory
<1>4. /\ r.addr \in Nat /\ r.vals.len = r.qty /\ r.qty \in Nat /\ r.vals.ones \subseteq Nat
      /\ \A i \in r.vals.ones : i < r.qty
  BY DEF WellFormed, Writes, Reads
<1>5. LET window == r.addr .. r.addr + r.qty - 1
      IN  st \ window = m.holding \ window /\ \A b \in window : b \in st <=> b - r.addr \in r.vals.ones
  BY <1>4, StoreExact
<1>6. QED BY <1>3, <1>5

\* The request of a write carries the call's values.
LEMMA CallWritten ==
  ASSUME NEW c \in Calls, c.fc \notin Reads, c.vals.len < 32768
  PROVE  LET r == ToRequest(c)
         IN  /\ r.fc = c.fc /\ r.fc \in Writes /\ r.addr = c.addr /\ r.unit = c.unit
             /\ r.qty = c.vals.len /\ r.vals.ones = c.vals.ones /\ WellFormed(r)
<1>1. Quantity(c) = c.vals.len BY QuantityIs
<1>2. ToRequest(c).vals = First(c.vals, Quantity(c)) /\ ToRequest(c).unit = c.unit BY DEF ToRequest
<1>3. First(c.vals, Quantity(c)).ones = {i \in c.vals.ones : i < Quantity(c)} BY DEF First
<1>4. \A i \in c.vals.ones : i < c.vals.len BY CallFacts
<1>5. {i \in c.vals.ones : i < Quantity(c)} = c.vals.ones BY <1>1, <1>4
<1>6. c.fc \in Writes BY CallFacts DEF Codes, Reads, Writes
<1>7. QED BY <1>1, <1>2, <1>3, <1>5, <1>6, RequestOf, CallWellFormed

\* Over RTU a write but of a single coil is echoed, after the simulator took
\* it, or changes nothing: an odd number of registers is refused.
LEMMA RtuWrite ==
  ASSUME NEW r, r.fc \in Writes, r.fc # "WriteSingleCoil", NEW m,
         Handle(r, m).err # Nil => Handle(r, m).mem = m
  PROVE  \/ /\ RtuServe(r, m).ans.kind = "exception" /\ RtuServe(r, m).mem = m
         \/ /\ RtuServe(r, m).ans = Echo(r) /\ RtuServe(r, m).mem = Handle(r, m).mem
            /\ Handle(r, m).err = Nil
<1>1. Parsed(r) = r BY DEF Parsed
<1>2. r.fc \notin Reads BY DEF Writes, Reads
<1>3. \/ RtuServe(r, m) \in {Reply(Exception("function"), m), Reply(Exception("address"), m)}
      \/ RtuServe(r, m) = Reply(Echo(r), Handle(r, m).mem) /\ Handle(r, m).err = Nil
  BY <1>1, <1>2 DEF RtuServe
<1>4. QED BY <1>3 DEF Reply, Exception

\* The window of a write the client let pass lies within the address space.
LEMMA WindowFits ==
  ASSUME NEW c \in Calls, c.fc \notin Reads, ClientChecks(c), c.vals.len < 32768
  PROVE  c.addr + c.vals.len - 1 <= Word - 1
<1>1. Quantity(c) = c.vals.len BY QuantityIs
<1>2. CASE c.fc \in Singles
  <2>1. c.vals.len = 1 /\ c.addr \in 0 .. Word - 1 BY <1>2, RequestsAssumption DEF Call
  <2>2. QED BY <2>1, WordNat
<1>3. CASE c.fc \notin Singles BY <1>1, <1>3 DEF ClientChecks
<1>4. QED BY <1>2, <1>3

\* On either server, but for a single coil over RTU, a write stores exactly its values or changes nothing.
THEOREM WriteIsExactAlways == RequestSpec => []WriteIsExact
<1> DEFINE window == call.addr .. call.addr + call.vals.len - 1
<1>1. ASSUME ExchangeInv, stage = "done", call # Nil, call.fc \notin Reads, ~AlwaysOn, Countable
      PROVE  IF ~Succeeded \/ Unwritten THEN mem = before
             ELSE IF call.fc \in Bits
             THEN Stored(before.coils, mem.coils, window \ {80}) /\ mem.holding = before.holding
             ELSE Stored(before.holding, mem.holding, window) /\ mem.coils = before.coils
  <2>1. CASE ~Passed
    <3>1. out = Params /\ mem = before BY <1>1, <2>1 DEF ExchangeInv, RefusedInv
    <3>2. ~Succeeded BY <3>1 DEF Succeeded, Params
    <3>3. QED BY <3>1, <3>2
  <2>2. CASE Passed
    <3>1. /\ call \in Calls /\ req = ToRequest(call) /\ before \in Memory
          /\ ClientChecks(call) /\ link \in {"tcp", "rtu"} /\ out = Check(link, req, ans)
          /\ mem = Replied.mem /\ ans = Replied.ans
      BY <1>1, <2>2, Served
    <3>2. call.vals.len < 32768 BY <1>1 DEF Countable, Word
    <3>3. /\ req.fc = call.fc /\ req.fc \in Writes /\ req.addr = call.addr
          /\ req.unit = call.unit /\ req.qty = call.vals.len /\ req.vals.ones = call.vals.ones
          /\ WellFormed(req)
      BY <1>1, <3>1, <3>2, CallWritten
    <3>4. CASE ans.kind \in {"drop", "exception"} /\ mem = before
      <4>1. out.kind # "ok" BY <3>1, <3>4 DEF Check, Refused, Failed
      <4>2. QED BY <3>4, <4>1 DEF Succeeded
    <3>5. CASE /\ ans = Echo(req) /\ mem = Handle(req, before).mem
               /\ Handle(req, before).err = Nil
               /\ req.addr + req.qty - 1 <= Word - 1
      <4>1. Succeeded
        <5>1. Check(link, req, Echo(req)).kind = "ok" BY DEF Check, Echo
        <5>2. QED BY <1>1, <3>1, <3>5, <5>1 DEF Succeeded
      <4>2. CASE call.fc \in Bits
        <5>1. /\ call.unit # 1 => mem = before
              /\ call.unit = 1 =>
                   /\ mem.holding = before.holding
                   /\ mem.coils \ (window \ {80}) = before.coils \ (window \ {80})
                   /\ \A b \in window \ {80} : b \in mem.coils <=> b - call.addr \in call.vals.ones
          BY <3>1, <3>3, <3>5, <4>2, CoilsWritten
        <5>2. QED BY <4>1, <4>2, <5>1 DEF Unwritten, Stored
      <4>3. CASE call.fc \notin Bits
        <5>1. /\ mem.coils = before.coils
              /\ mem.holding \ window = before.holding \ window
              /\ \A b \in window : b \in mem.holding <=> b - call.addr \in call.vals.ones
          BY <3>1, <3>3, <3>5, <4>3, RegistersWritten
        <5>2. QED BY <4>1, <4>3, <5>1 DEF Unwritten, Stored
      <4>4. QED BY <4>2, <4>3
    <3>6. CASE link = "tcp"
      <4>1. mem = TcpServe(req, before).mem /\ ans = TcpServe(req, before).ans
        BY <3>1, <3>6 DEF Replied
      <4>2. QED BY <3>3, <3>4, <3>5, <4>1, TcpWrite
    <3>7. CASE link = "rtu"
      <4>1. mem = RtuServe(req, before).mem /\ ans = RtuServe(req, before).ans
        BY <3>1, <3>7 DEF Replied
      <4>2. req.fc # "WriteSingleCoil" BY <1>1, <3>3, <3>7 DEF AlwaysOn
      <4>3. Handle(req, before).err # Nil => Handle(req, before).mem = before
        BY DEF Handle, HandleDiscreteInputs, HandleInputRegisters, HandleCoils,
               HandleHoldingRegisters, Result
      <4>4. req.addr + req.qty - 1 <= Word - 1 BY <1>1, <3>1, <3>2, <3>3, WindowFits
      <4>5. QED BY <3>3, <3>4, <3>5, <4>1, <4>2, <4>3, <4>4, RtuWrite
    <3>8. QED BY <3>1, <3>6, <3>7
  <2>3. QED BY <2>1, <2>2
<1>2. ExchangeInv => WriteIsExact BY <1>1 DEF WriteIsExact
<1>3. QED BY ExchangeInvariance, <1>2, PTL

\* The RTU server stores "on" for a single coil, whatever was written to it: a
\* write that should switch the coil off is acknowledged and switches it on.
THEOREM RtuCoilOn ==
  RequestSpec => [](Succeeded /\ AlwaysOn /\ ~Unwritten /\ call.addr # 80 => call.addr \in mem.coils)
<1>1. ASSUME ExchangeInv, Succeeded, AlwaysOn, ~Unwritten, call.addr # 80
      PROVE  call.addr \in mem.coils
  <2>1. /\ stage = "done" /\ call # Nil /\ out.kind = "ok" /\ link = "rtu"
        /\ call.fc = "WriteSingleCoil" /\ call.unit = 1
    BY <1>1 DEF Succeeded, AlwaysOn, Unwritten, Bits
  <2>2. call.fc \in Singles /\ call.fc \notin Reads BY <2>1 DEF Singles, Reads
  <2>3. Passed BY <2>1, <2>2 DEF Passed, ClientChecks
  <2>4. /\ call \in Calls /\ req = ToRequest(call) /\ before \in Memory
        /\ out = Check(link, req, ans)
        /\ mem = RtuServe(req, before).mem /\ ans = RtuServe(req, before).ans
    BY <1>1, <2>1, <2>3, Served DEF Replied
  <2>5. call.vals.len < 32768 BY <2>2, <2>4, RequestsAssumption
  <2>6. /\ req.fc = "WriteSingleCoil" /\ req.addr = call.addr /\ req.unit = 1
        /\ req.addr \in Nat /\ req.addr < Word
    BY <2>1, <2>2, <2>4, <2>5, CallWritten DEF WellFormed
  <2> DEFINE p == Parsed(req) st == Store(before.coils, p.addr, p.vals)
  <2>7. p.addr = req.addr /\ p.unit = 1 /\ p.fc = req.fc /\ p.vals = [len |-> 1, ones |-> {0}]
    BY <2>4, <2>6 DEF Parsed, ToRequest
  <2> HIDE DEF p
  <2>8. Handle(p, before) = HandleCoils(p, TRUE, before)
    BY <2>6, <2>7 DEF Handle, Bits, Reads
  <2>9. Handle(p, before).err = Nil /\ mem = Handle(p, before).mem
    <3>1. ans.kind # "exception" BY <2>1, <2>4 DEF Check, Refused
    <3>2. RtuServe(req, before) = IF Handle(p, before).err # Nil
                                  THEN Reply(Exception("address"), before)
                                  ELSE Reply(Echo(req), Handle(p, before).mem)
      BY <2>6 DEF RtuServe, Reads, p
    <3>3. QED BY <2>4, <3>1, <3>2 DEF Reply, Exception
  <2>10. mem = [before EXCEPT !.coils = (st \ ReadOnly) \cup (before.coils \cap ReadOnly)]
    BY <2>7, <2>8, <2>9, RequestsAssumption DEF HandleCoils, Result
  <2>11. mem.coils = (st \ ReadOnly) \cup (before.coils \cap ReadOnly)
    BY <2>4, <2>10 DEF Memory
  <2>12. call.addr \in st
    <3>1. (req.addr + 0) % Word = req.addr BY <2>6, WordMod
    <3>2. st = Store(before.coils, req.addr, [len |-> 1, ones |-> {0}]) BY <2>7
    <3>3. QED BY <2>6, <3>1, <3>2 DEF Store
  <2>13. QED BY <1>1, <2>11, <2>12 DEF ReadOnly
<1>2. ExchangeInv => (Succeeded /\ AlwaysOn /\ ~Unwritten /\ call.addr # 80 => call.addr \in mem.coils)
  BY <1>1
<1>3. QED BY ExchangeInvariance, <1>2, PTL

\* Over TCP every read of coils or registers that exist succeeds.
THEOREM ReadServedAlways == RequestSpec => []ReadServed
<1>1. ASSUME ExchangeInv, stage = "done", call # Nil, link = "tcp", Exist(call)
      PROVE  Succeeded
  <2> DEFINE n == call.vals.len
  <2>1. call \in Calls BY <1>1 DEF ExchangeInv, CallInv
  <2>2. /\ call.fc \in {"ReadCoils", "ReadHoldingRegisters"} /\ n \in 1 .. ClientLimit(call.fc)
        /\ call.fc = "ReadCoils" => call.unit = 1 /\ call.addr + n <= 100
        /\ call.fc = "ReadHoldingRegisters" => call.addr + n <= Word
    BY <1>1 DEF Exist
  <2>3. call.addr \in Nat /\ n \in Nat /\ n # 0 /\ n > 0 /\ n <= ClientLimit(call.fc)
    <3>1. call.addr \in Nat /\ n \in Nat BY <2>1, CallFacts
    <3>2. ClientLimit(call.fc) \in Nat BY DEF ClientLimit
    <3>3. QED BY <2>2, <3>1, <3>2
  <2>4. call.fc \in Reads /\ call.fc \notin Singles BY <2>2 DEF Reads, Singles
  <2>5. Quantity(call) = n BY <2>1, <2>4, ReadQuantity
  <2>6. call.addr + n <= Word
    <3>1. 100 <= Word BY DEF Word
    <3>2. QED BY <2>2, <2>3, <3>1, WordNat
  <2>7. call.addr + n - 1 <= Word - 1 BY <2>3, <2>6, WordNat
  <2>8. ClientChecks(call) BY <2>3, <2>5, <2>7 DEF ClientChecks
  <2>9. /\ req = ToRequest(call) /\ before \in Memory /\ out = Check(link, req, ans)
        /\ ans = TcpServe(req, before).ans
    BY <1>1, <2>8, Served DEF Passed, Replied
  <2>10. /\ req.fc = call.fc /\ req.addr = call.addr /\ req.qty = n /\ req.unit = call.unit
         /\ req.bytes = 0
    <3>1. 0 % Word = 0 BY DEF Word
    <3>2. ToRequest(call).unit = call.unit BY DEF ToRequest
    <3>3. QED BY <2>4, <2>5, <2>9, <3>1, <3>2, RequestOf
  <2>11. ~(req.qty > Limit(req.fc)) /\ req.qty # 0 /\ ~PastEnd(req)
    <3>1. Limit(req.fc) = ClientLimit(call.fc) /\ Limit(req.fc) \in Nat
      BY <2>10 DEF Limit, ClientLimit
    <3>2. QED BY <2>3, <2>7, <2>10, <3>1, WordNat DEF PastEnd
  <2>12. Handle(req, before).err = Nil /\ Handle(req, before).res.len = req.qty
    <3>1. CASE call.fc = "ReadCoils"
      <4>1. Handle(req, before) = HandleCoils(req, FALSE, before)
        BY <2>10, <3>1 DEF Handle, Bits, Reads
      <4>2. CoilsExist(req.addr, req.qty) /\ req.unit = 1 BY <2>2, <2>10, <3>1 DEF CoilsExist
      <4>3. QED BY <4>1, <4>2 DEF HandleCoils, Result, Slice
    <3>2. CASE call.fc = "ReadHoldingRegisters"
      <4>1. Handle(req, before) = HandleHoldingRegisters(req, FALSE, before)
        BY <2>10, <3>2 DEF Handle, Bits, Reads
      <4>2. QED BY <4>1 DEF HandleHoldingRegisters, Result, Slice
    <3>3. QED BY <2>2, <3>1, <3>2
  <2> DEFINE b == ByteLen(req.fc, req.qty)
  <2>13. ans = Data(b % 256, b, Handle(req, before).res)
    <3>1. TcpServe(req, before) = ServeRead(req, before) BY <2>4, <2>10 DEF TcpServe
    <3>2. QED BY <2>9, <2>10, <2>11, <2>12, <3>1 DEF ServeRead, Reply
  <2>14. b % 256 = b
    <3>1. Limit(req.fc) \in Nat BY DEF Limit
    <3>2. req.qty \in Nat /\ req.qty <= Limit(req.fc) BY <2>3, <2>10, <2>11, <3>1
    <3>3. QED BY <2>11, <3>2, ReadAnswer
  <2>15. out.kind = "ok"
    BY <1>1, <2>9, <2>13, <2>14 DEF Check, Expected, Framed, Data
  <2>16. QED BY <1>1, <2>15 DEF Succeeded
<1>2. ExchangeInv => ReadServed BY <1>1 DEF ReadServed
<1>3. QED BY ExchangeInvariance, <1>2, PTL

\* Both together: client, server and frame agree on every limit, and a coil's
\* odd value is the one thing the client sends that costs the connection.
THEOREM WithinLimitsAlways == RequestSpec => []WithinLimits
  BY OnlyOddDroppedAlways, AnswerFitsAlways, PTL DEF WithinLimits
=============================================================================
