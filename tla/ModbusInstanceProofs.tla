------------------------ MODULE ModbusInstanceProofs ------------------------
(***************************************************************************)
(* Proofs about ModbusInstance, for any number of callers, poller slots    *)
(* and channels.  Its IInv is inductive on its own: MutexInv says who may  *)
(* touch the object, InitInv that an uninitialised instance has no poller, *)
(* and the other conjuncts are the properties themselves.                  *)
(***************************************************************************)
EXTENDS ModbusInstance, TLAPS

USE DEF Alive, Goto, Move, Exit, Done

\* The initial state satisfies the invariant.
LEMMA InitIInv == Init => IInv
<1> SUFFICES ASSUME Init PROVE IInv
  OBVIOUS
<1>1. TypeOK
  BY DEF Init, TypeOK, Configs, CallerPC, PollerPC
<1>2. Alive = {}
  BY DEF Init
<1>3. MutexInv
  BY ConstantsAssumption DEF Init, MutexInv, Holding
<1>4. InitInv /\ OnePoller /\ LinkOwned /\ SettledConfig
  BY <1>2 DEF Init, InitInv, OnePoller, LinkOwned, SettledConfig
<1>5. QED
  BY <1>1, <1>3, <1>4 DEF IInv

\* What Init's body leaves in the object, whichever caller runs it.
ObjectType ==
  /\ created \in BOOLEAN /\ init \in BOOLEAN
  /\ ctx \in {"nil", "live", "cancelled"}
  /\ client \in Models \cup {None} /\ cfg \in Configs
  /\ linked \in BOOLEAN /\ strays \in Nat
  /\ poller \in [Pollers -> PollerPC]
  /\ reg \in [Pollers -> Models \cup {None, Torn}]
  /\ window \in [Pollers -> Models \cup {None, Torn}]
  /\ status \in [working : BOOLEAN, linking : BOOLEAN]

\* The body of Init assigns values of the right types.
LEMMA InitBodyType == TypeOK /\ InitBody => ObjectType'
<1> SUFFICES ASSUME TypeOK, InitBody PROVE ObjectType'
  OBVIOUS
<1> USE DEF TypeOK, ObjectType, InitBody, Configs, PollerPC, object, pollers, links
<1>1. CASE init
  BY <1>1
<1>2. CASE ~init
  <2>1. strays' \in Nat
    BY <1>2
  <2>2. cfg' \in Configs
    BY <1>2
  <2>3. poller' \in [Pollers -> PollerPC]
    BY <1>2
  <2>4. init' \in BOOLEAN /\ created' \in BOOLEAN /\ linked' \in BOOLEAN
    BY <1>2
  <2>. QED
    BY <1>2, <2>1, <2>2, <2>3, <2>4
<1>. QED
  BY <1>1, <1>2

\* Every step keeps the variables in their types.
LEMMA TypeStep == TypeOK /\ [Next]_vars => TypeOK'
<1> SUFFICES ASSUME TypeOK, [Next]_vars PROVE TypeOK'
  OBVIOUS
<1> USE ConstantsAssumption DEF TypeOK, Configs, CallerPC, PollerPC,
        callers, object, pollers, links
<1>1. ASSUME NEW t \in Threads, Create(t) PROVE TypeOK'
  BY <1>1, InitBodyType DEF Create, ObjectType
<1>2. ASSUME NEW t \in Threads, CallClose(t) PROVE TypeOK'
  BY <1>2 DEF CallClose
<1>3. ASSUME NEW t \in Threads, NEW new \in Configs \cup {None}, CallUpdate(t, new)
      PROVE TypeOK'
  BY <1>3 DEF CallUpdate
<1>4. ASSUME NEW t \in Threads, CloseBegin(t) PROVE TypeOK'
  BY <1>4 DEF CloseBegin, Resume, Waiting
<1>5. ASSUME NEW t \in Threads, CloseEnd(t) PROVE TypeOK'
  BY <1>5 DEF CloseEnd, Resume
<1>6. ASSUME NEW t \in Threads, UpdateBegin(t) PROVE TypeOK'
  BY <1>6 DEF UpdateBegin
<1>7. ASSUME NEW t \in Threads, UpdateStore(t) PROVE TypeOK'
  BY <1>7 DEF UpdateStore, NewCfg
<1>8. ASSUME NEW t \in Threads, UpdateCheck(t) PROVE TypeOK'
  BY <1>8 DEF UpdateCheck
<1>9. ASSUME NEW t \in Threads, UpdateInit(t) PROVE TypeOK'
  BY <1>9, InitBodyType DEF UpdateInit, ObjectType
<1>10. ASSUME NEW g \in Pollers, PollerStep(g) PROVE TypeOK'
  <2>1. Seen \subseteq Models \cup {None, Torn}
    BY DEF Seen, Storing
  <2>2. CASE Begin(g)
    BY <2>1, <2>2 DEF Begin
  <2>3. CASE SelectTick(g)
    BY <2>1, <2>3 DEF SelectTick
  <2>4. CASE TopExit(g) \/ OpenFail(g)
    BY <2>4 DEF TopExit, OpenFail
  <2>8. CASE TopOpen(g)
    BY <2>8 DEF TopOpen
  <2>9. CASE OpenOk(g)
    <3>1. status' \in [working : BOOLEAN, linking : BOOLEAN]
      BY <2>9 DEF OpenOk
    <3>2. strays' \in Nat
      BY <2>9 DEF OpenOk
    <3>3. linked' \in BOOLEAN
      BY <2>9 DEF OpenOk
    <3>4. poller' \in [Pollers -> PollerPC]
      BY <2>9 DEF OpenOk
    <3>5. QED
      BY <2>9, <3>1, <3>2, <3>3, <3>4 DEF OpenOk
  <2>5. CASE SelectDone(g)
    BY <2>5 DEF SelectDone, Disconnect
  <2>10. CASE ReadOk(g)
    BY <2>10 DEF ReadOk
  <2>11. CASE ReadFail(g)
    BY <2>11 DEF ReadFail, Disconnect
  <2>6. CASE WaitExit(g) \/ WaitRetry(g)
    BY <2>6 DEF WaitExit, WaitRetry
  <2>7. QED
    BY <1>10, <2>2, <2>3, <2>4, <2>5, <2>6, <2>8, <2>9, <2>10, <2>11 DEF PollerStep
<1>11. CASE RootCancel
  BY <1>11 DEF RootCancel
<1>12. CASE UNCHANGED vars
  BY <1>12 DEF vars
<1>13. QED
  BY <1>1, <1>2, <1>3, <1>4, <1>5, <1>6, <1>7, <1>8, <1>9, <1>10, <1>11, <1>12
     DEF Next, CallerStep

\* Type correctness of the specification, for every choice of the constants.
THEOREM TypeCorrect == Spec => []TypeOK
<1>1. Init => TypeOK
  BY InitIInv DEF IInv
<1>2. QED
  BY <1>1, TypeStep, PTL DEF Spec

-----------------------------------------------------------------------------
\* A step of a poller leaves the callers' side alone.
LEMMA PollerFrame ==
  ASSUME NEW g \in Pollers, PollerStep(g)
  PROVE  UNCHANGED <<mu, pc, raw, created, init, ctx, client, cfg>>
BY DEF PollerStep, Begin, TopExit, TopOpen, OpenOk, OpenFail, SelectDone,
       SelectTick, ReadOk, ReadFail, WaitExit, WaitRetry, callers, object

\* The mutex and the cancelled context of a waiting Close.
LEMMA MutexStep == TypeOK /\ MutexInv /\ [Next]_vars => MutexInv'
<1> SUFFICES ASSUME TypeOK, MutexInv, [Next]_vars PROVE MutexInv'
  OBVIOUS
<1> USE ConstantsAssumption DEF TypeOK, MutexInv, Holding, callers, object
<1>1. ASSUME NEW t \in Threads, Create(t) PROVE MutexInv'
  BY <1>1 DEF Create, InitBody
<1>2. ASSUME NEW t \in Threads, CallClose(t) PROVE MutexInv'
  BY <1>2 DEF CallClose
<1>3. ASSUME NEW t \in Threads, NEW new \in Configs \cup {None}, CallUpdate(t, new)
      PROVE MutexInv'
  BY <1>3 DEF CallUpdate
<1>4. ASSUME NEW t \in Threads, CloseBegin(t) PROVE MutexInv'
  BY <1>4 DEF CloseBegin, Resume, Waiting
<1>5. ASSUME NEW t \in Threads, CloseEnd(t) PROVE MutexInv'
  BY <1>5 DEF CloseEnd, Resume
<1>6. ASSUME NEW t \in Threads, UpdateBegin(t) PROVE MutexInv'
  BY <1>6 DEF UpdateBegin
<1>7. ASSUME NEW t \in Threads, UpdateStore(t) PROVE MutexInv'
  BY <1>7 DEF UpdateStore
<1>8. ASSUME NEW t \in Threads, UpdateCheck(t) PROVE MutexInv'
  BY <1>8 DEF UpdateCheck
<1>9. ASSUME NEW t \in Threads, UpdateInit(t) PROVE MutexInv'
  BY <1>9 DEF UpdateInit, InitBody
<1>10. ASSUME NEW g \in Pollers, PollerStep(g) PROVE MutexInv'
  BY <1>10, PollerFrame
<1>11. CASE RootCancel
  BY <1>11 DEF RootCancel
<1>12. CASE UNCHANGED vars
  BY <1>12 DEF vars
<1>13. QED
  BY <1>1, <1>2, <1>3, <1>4, <1>5, <1>6, <1>7, <1>8, <1>9, <1>10, <1>11, <1>12
     DEF Next, CallerStep

-----------------------------------------------------------------------------
(***************************************************************************)
(* At most one poller: Init starts one only when m.init is false, and then *)
(* no poller is left, because Close waits for it before it clears m.init.  *)
(***************************************************************************)
\* Init's body, run by a caller that holds no critical section.
LEMMA InitBodyPollers ==
  ASSUME TypeOK, InitInv, OnePoller, LinkOwned, InitBody
  PROVE  InitInv' /\ OnePoller' /\ LinkOwned'
<1> USE DEF InitBody, InitInv, OnePoller, LinkOwned, TypeOK, object, pollers, links
<1>1. CASE init
  BY <1>1
<1>2. CASE ~init
  <2>1. Alive = {} /\ ~linked
    BY <1>2
  <2>2. PICK g \in Pollers : poller' = [poller EXCEPT ![g] = "start"]
    BY <1>2
  <2>3. Alive' = {g}
    BY <2>1, <2>2
  <2>4. client' # None
    BY <1>2, ConstantsAssumption DEF Configs
  <2>5. ctx' = "live" /\ init' = TRUE /\ linked' = FALSE /\ strays' = 0
    BY <1>2, <2>1
  <2>6. InitInv' /\ OnePoller'
    BY <2>3, <2>4, <2>5
  <2>7. LinkOwned'
    BY <2>2, <2>3, <2>5
  <2>. QED
    BY <2>6, <2>7
<1>. QED
  BY <1>1, <1>2

\* A poller step: the set of live pollers never grows, and the transport is
\* open exactly while the one live poller is in its inner loop.
LEMMA PollerPollers ==
  ASSUME TypeOK, InitInv, OnePoller, LinkOwned, NEW g \in Pollers, PollerStep(g)
  PROVE  InitInv' /\ OnePoller' /\ LinkOwned'
<1> USE DEF InitInv, OnePoller, LinkOwned, TypeOK, callers, object, links
<1>1. g \in Alive /\ (\A h \in Pollers : h # g => poller[h] = "idle")
  BY DEF PollerStep, Begin, TopExit, TopOpen, OpenOk, OpenFail, SelectDone,
         SelectTick, ReadOk, ReadFail, WaitExit, WaitRetry
<1>2. \A h \in Pollers : h # g => poller'[h] = "idle"
  BY <1>1 DEF PollerStep, Begin, TopExit, TopOpen, OpenOk, OpenFail, SelectDone,
         SelectTick, ReadOk, ReadFail, WaitExit, WaitRetry
<1>3. InitInv' /\ OnePoller'
  <2>1. init
    BY <1>1
  <2>. QED
    BY <1>2, <2>1, PollerFrame
<1>4. linked <=> poller[g] \in {"select", "read"}
  BY <1>1
<1>5. /\ strays' = 0
      /\ linked' <=> poller'[g] \in {"select", "read"}
  <2>1. CASE Begin(g) \/ TopExit(g) \/ TopOpen(g) \/ OpenFail(g)
    BY <1>4, <2>1 DEF Begin, TopExit, TopOpen, OpenFail
  <2>2. CASE OpenOk(g)
    BY <1>4, <2>2 DEF OpenOk
  <2>3. CASE SelectDone(g) \/ ReadFail(g)
    BY <1>4, <2>3 DEF SelectDone, ReadFail, Disconnect
  <2>4. CASE SelectTick(g) \/ ReadOk(g)
    BY <1>4, <2>4 DEF SelectTick, ReadOk
  <2>5. CASE WaitExit(g) \/ WaitRetry(g)
    BY <1>4, <2>5 DEF WaitExit, WaitRetry
  <2>. QED
    BY <2>1, <2>2, <2>3, <2>4, <2>5 DEF PollerStep
<1>6. LinkOwned'
  BY <1>2, <1>5
<1>. QED
  BY <1>3, <1>6

\* The three pollers' invariants over every step.
LEMMA PollersStep ==
  TypeOK /\ InitInv /\ OnePoller /\ LinkOwned /\ [Next]_vars
    => InitInv' /\ OnePoller' /\ LinkOwned'
<1> SUFFICES ASSUME TypeOK, InitInv, OnePoller, LinkOwned, [Next]_vars
             PROVE  InitInv' /\ OnePoller' /\ LinkOwned'
  OBVIOUS
<1> USE DEF InitInv, OnePoller, LinkOwned, callers, object, pollers, links
<1>1. ASSUME NEW t \in Threads, Create(t) \/ UpdateInit(t)
      PROVE InitInv' /\ OnePoller' /\ LinkOwned'
  BY <1>1, InitBodyPollers DEF Create, UpdateInit
<1>2. ASSUME NEW t \in Threads,
             CallClose(t) \/ (\E new \in Configs \cup {None} : CallUpdate(t, new))
      PROVE InitInv' /\ OnePoller' /\ LinkOwned'
  BY <1>2 DEF CallClose, CallUpdate
<1>3. ASSUME NEW t \in Threads, CloseBegin(t)
      PROVE InitInv' /\ OnePoller' /\ LinkOwned'
  BY <1>3 DEF CloseBegin
<1>4. ASSUME NEW t \in Threads, CloseEnd(t)
      PROVE InitInv' /\ OnePoller' /\ LinkOwned'
  BY <1>4 DEF CloseEnd, WaitOver
<1>5. ASSUME NEW t \in Threads, UpdateBegin(t) \/ UpdateStore(t) \/ UpdateCheck(t)
      PROVE InitInv' /\ OnePoller' /\ LinkOwned'
  BY <1>5 DEF UpdateBegin, UpdateStore, UpdateCheck
<1>6. ASSUME NEW g \in Pollers, PollerStep(g)
      PROVE InitInv' /\ OnePoller' /\ LinkOwned'
  BY <1>6, PollerPollers
<1>7. CASE RootCancel \/ UNCHANGED vars
  BY <1>7 DEF RootCancel, vars
<1>. QED
  BY <1>1, <1>2, <1>3, <1>4, <1>5, <1>6, <1>7 DEF Next, CallerStep

-----------------------------------------------------------------------------
(***************************************************************************)
(* The restart rule.  Whoever assigns m.cfg keeps Changing true until its  *)
(* own Close has emptied the instance, and a client is only ever built     *)
(* from the configuration m.cfg holds at that moment.                      *)
(***************************************************************************)
\* With m.mu free nobody is assigning m.cfg.
LEMMA FreeMutexNoStore == MutexInv /\ mu = None => Storing = {}
BY ConstantsAssumption DEF MutexInv, Holding, Storing

\* A poller that starts or ticks while nobody assigns m.cfg sees m.cfg.
LEMMA PollerSettled ==
  ASSUME TypeOK, SettledConfig, NEW g \in Pollers, PollerStep(g)
  PROVE  SettledConfig'
<1> SUFFICES ASSUME ~Changing', NEW h \in Alive' PROVE Coherent(h)'
  BY DEF SettledConfig
<1> USE DEF TypeOK
<1>1. Changing' <=> Changing
  BY PollerFrame DEF Changing, Storing
<1>2. Storing = {} /\ h \in Pollers
  BY <1>1 DEF Changing
<1>3. Seen = {cfg.model}
  BY <1>2 DEF Seen
<1>4. g \in Alive
  BY DEF PollerStep, Begin, TopExit, TopOpen, OpenOk, OpenFail, SelectDone,
         SelectTick, ReadOk, ReadFail, WaitExit, WaitRetry
<1>5. h \in Alive
  BY <1>4 DEF PollerStep, Begin, TopExit, TopOpen, OpenOk, OpenFail, SelectDone,
         SelectTick, ReadOk, ReadFail, WaitExit, WaitRetry
<1>6. Coherent(h)
  BY <1>1, <1>5 DEF SettledConfig
<1>7. CASE h # g
  BY <1>6, <1>7, PollerFrame
     DEF Coherent, PollerStep, Begin, TopExit, TopOpen, OpenOk, OpenFail, SelectDone,
         SelectTick, ReadOk, ReadFail, WaitExit, WaitRetry
<1>8. CASE h = g
  <2>1. CASE Begin(g)
    BY <1>3, <1>6, <1>8, <2>1, PollerFrame DEF Coherent, Begin
  <2>2. CASE SelectTick(g)
    BY <1>3, <1>6, <1>8, <2>2, PollerFrame DEF Coherent, SelectTick
  <2>3. CASE TopOpen(g) \/ OpenOk(g) \/ OpenFail(g) \/ ReadOk(g) \/ ReadFail(g) \/ WaitRetry(g)
    BY <1>6, <1>8, <2>3, PollerFrame
       DEF Coherent, TopOpen, OpenOk, OpenFail, ReadOk, ReadFail, WaitRetry
  <2>4. CASE TopExit(g) \/ SelectDone(g) \/ WaitExit(g)
    BY <1>8, <2>4 DEF TopExit, SelectDone, WaitExit
  <2>. QED
    BY <2>1, <2>2, <2>3, <2>4 DEF PollerStep
<1>. QED
  BY <1>7, <1>8

\* A client built by Init's body is built from m.cfg.
LEMMA InitBodySettled ==
  ASSUME TypeOK, MutexInv, InitInv, SettledConfig, InitBody, mu = None,
         UNCHANGED raw,
         \A u \in Threads : pc'[u] \in {"store", "updClose", "updClosing"} <=>
                            pc[u] \in {"store", "updClose", "updClosing"},
         \A u \in Threads : pc'[u] = "store" <=> pc[u] = "store"
  PROVE  SettledConfig'
<1> USE DEF TypeOK, InitBody
<1>1. CASE init
  BY <1>1, FreeMutexNoStore DEF SettledConfig, Changing, Storing, Coherent, object, pollers
<1>2. CASE ~init
  <2>1. PICK g \in Pollers : poller' = [poller EXCEPT ![g] = "start"]
    BY <1>2
  <2>2. Alive' = {g} /\ poller'[g] = "start"
    BY <1>2, <2>1 DEF InitInv
  <2>3. client' = cfg'.model
    BY <1>2 DEF Configs
  <2>. QED
    BY <2>2, <2>3 DEF SettledConfig, Coherent
<1>. QED
  BY <1>1, <1>2

\* Every step keeps the poller on the settled configuration.
LEMMA SettledStep ==
  TypeOK /\ MutexInv /\ InitInv /\ SettledConfig /\ [Next]_vars => SettledConfig'
<1> SUFFICES ASSUME TypeOK, MutexInv, InitInv, SettledConfig, [Next]_vars
             PROVE  SettledConfig'
  OBVIOUS
<1> USE DEF TypeOK
<1>1. ASSUME NEW t \in Threads, Create(t) PROVE SettledConfig'
  BY <1>1, InitBodySettled DEF Create, callers
<1>2. ASSUME NEW t \in Threads, UpdateInit(t) PROVE SettledConfig'
  BY <1>2, InitBodySettled DEF UpdateInit
<1>3. ASSUME NEW t \in Threads, CallClose(t) PROVE SettledConfig'
  BY <1>3 DEF CallClose, SettledConfig, Changing, Storing, Coherent, object, pollers
<1>4. ASSUME NEW t \in Threads, NEW new \in Configs \cup {None}, CallUpdate(t, new)
      PROVE SettledConfig'
  BY <1>4 DEF CallUpdate, SettledConfig, Changing, Storing, Coherent, object, pollers
<1>5. ASSUME NEW t \in Threads, CloseBegin(t) PROVE SettledConfig'
  <2>1. CASE ~init
    BY <1>5, <2>1 DEF CloseBegin, InitInv, SettledConfig, pollers
  <2>2. CASE init
    BY <1>5, <2>2
       DEF CloseBegin, Waiting, SettledConfig, Changing, Storing, Coherent, pollers
  <2>. QED
    BY <2>1, <2>2
<1>6. ASSUME NEW t \in Threads, CloseEnd(t) PROVE SettledConfig'
  BY <1>6 DEF CloseEnd, WaitOver, SettledConfig, pollers
<1>7. ASSUME NEW t \in Threads, UpdateBegin(t) PROVE SettledConfig'
  BY <1>7 DEF UpdateBegin, SettledConfig, Changing, Storing, Coherent, object, pollers
<1>8. ASSUME NEW t \in Threads, UpdateStore(t) PROVE SettledConfig'
  <2>1. CASE NeedRestart(t)
    BY <1>8, <2>1 DEF UpdateStore, SettledConfig, Changing
  <2>2. CASE ~NeedRestart(t)
    <3>1. cfg' = cfg /\ t \notin Storing
      BY <1>8, <2>2 DEF UpdateStore, NeedRestart, NewCfg, Storing
    <3>2. Storing = {}
      BY <1>8, <3>1 DEF UpdateStore, MutexInv, Holding, Storing
    <3>3. ~Changing' => ~Changing
      BY <1>8, <2>2, <3>2 DEF UpdateStore, Changing
    <3>. QED
      BY <1>8, <3>1, <3>3 DEF UpdateStore, SettledConfig, Coherent, pollers
  <2>. QED
    BY <2>1, <2>2
<1>9. ASSUME NEW t \in Threads, UpdateCheck(t) PROVE SettledConfig'
  BY <1>9 DEF UpdateCheck, SettledConfig, Changing, Storing, Coherent, object, pollers
<1>10. ASSUME NEW g \in Pollers, PollerStep(g) PROVE SettledConfig'
  BY <1>10, PollerSettled
<1>11. CASE RootCancel
  BY <1>11 DEF RootCancel, SettledConfig, Changing, Storing, Coherent, callers, object, pollers
<1>12. CASE UNCHANGED vars
  BY <1>12 DEF vars, SettledConfig, Changing, Storing, Coherent, callers, object, pollers
<1>. QED
  BY <1>1, <1>2, <1>3, <1>4, <1>5, <1>6, <1>7, <1>8, <1>9, <1>10, <1>11, <1>12
     DEF Next, CallerStep

-----------------------------------------------------------------------------
\* IInv is an invariant of the specification.
THEOREM Invariance == Spec => []IInv
<1>1. IInv /\ [Next]_vars => IInv'
  BY TypeStep, MutexStep, PollersStep, SettledStep DEF IInv
<1>2. QED
  BY InitIInv, <1>1, PTL DEF Spec

\* Close and UpdateConfig from any number of callers never leave two pollers
\* running on one instance.
THEOREM OnePollerAlways == Spec => []OnePoller
BY Invariance, PTL DEF IInv

\* No poller ever dereferences a nil context or client.
THEOREM NoNilDerefAlways == Spec => []NoNilDeref
<1>1. IInv => NoNilDeref
  BY DEF IInv, InitInv, NoNilDeref
<1>2. QED
  BY <1>1, Invariance, PTL

\* No connection is ever leaked: each open one has a poller that closes it.
THEOREM LinkOwnedAlways == Spec => []LinkOwned
BY Invariance, PTL DEF IInv

\* Outside the window between an assignment of m.cfg and the end of the
\* Close that follows it, polling follows the current configuration.
THEOREM SettledConfigAlways == Spec => []SettledConfig
BY Invariance, PTL DEF IInv

-----------------------------------------------------------------------------
(***************************************************************************)
(* The safety half of the refinement: every step of the instance is a step *)
(* of PollerLifecycle or leaves phase and link alone.                      *)
(***************************************************************************)
LifecycleStep == [Lifecycle!Next]_(Lifecycle!vars)

\* Init's body maps to Start, or to nothing on an initialised instance.
LEMMA InitBodyRefines ==
  ASSUME IInv, InitBody, UNCHANGED rootDone PROVE LifecycleStep
<1> USE DEF IInv, TypeOK, InitBody, LifecycleStep
<1>1. CASE init
  BY <1>1 DEF Lifecycle!vars, Phase, object, pollers, links
<1>2. CASE ~init
  <2>1. Alive = {} /\ ~linked /\ Alive' # {} /\ linked' = FALSE
    BY <1>2 DEF InitInv
  <2>2. Phase = "stopped" /\ Phase' \in {"running", "stopping"} /\ linked' = linked
    BY <2>1 DEF Phase
  <2>. QED
    BY <2>2 DEF Lifecycle!Next, Lifecycle!Start
<1>. QED
  BY <1>1, <1>2

\* A poller's step while it lives, and its exit.
LEMMA PollerRefines ==
  ASSUME IInv, NEW g \in Pollers, PollerStep(g), UNCHANGED rootDone
  PROVE  LifecycleStep
<1> USE DEF IInv, TypeOK, LifecycleStep
<1>1. Done' <=> Done
  BY PollerFrame
<1>2. g \in Alive
  BY DEF PollerStep, Begin, TopExit, TopOpen, OpenOk, OpenFail, SelectDone,
         SelectTick, ReadOk, ReadFail, WaitExit, WaitRetry
<1>3. Alive = {g}
  BY <1>2 DEF OnePoller
<1>4. CASE TopExit(g) \/ SelectDone(g) \/ WaitExit(g)
  <2>1. Done /\ Alive' = {} /\ linked' = FALSE
    BY <1>3, <1>4 DEF TopExit, SelectDone, WaitExit, Disconnect, LinkOwned, links
  <2>2. Phase = "stopping" /\ Phase' = "stopped"
    BY <1>3, <2>1 DEF Phase
  <2>. QED
    BY <2>1, <2>2 DEF Lifecycle!Next, Lifecycle!Stop
<1>5. CASE ~(TopExit(g) \/ SelectDone(g) \/ WaitExit(g))
  <2>1. g \in Alive'
    BY <1>5 DEF PollerStep, Begin, TopOpen, OpenOk, OpenFail, SelectTick, ReadOk,
                ReadFail, WaitRetry
  <2>2. Phase' = Phase /\ Phase # "stopped"
    BY <1>1, <1>2, <2>1 DEF Phase
  <2>3. linked' \in BOOLEAN
    BY DEF PollerStep, Begin, TopOpen, OpenOk, OpenFail, SelectTick, ReadOk,
                ReadFail, WaitRetry, TopExit, SelectDone, WaitExit, Disconnect, links
  <2>. QED
    BY <2>2, <2>3 DEF Lifecycle!Next, Lifecycle!vars, Lifecycle!LinkUp, Lifecycle!LinkDown
<1>. QED
  BY <1>4, <1>5

\* CloseBegin and RootCancel map to Cancel, the other callers' steps to nothing.
LEMMA CallerRefines ==
  ASSUME IInv, NEW t \in Threads,
         \/ CallClose(t)
         \/ \E new \in Configs \cup {None} : CallUpdate(t, new)
         \/ CloseBegin(t) \/ CloseEnd(t)
         \/ UpdateBegin(t) \/ UpdateStore(t) \/ UpdateCheck(t)
  PROVE  LifecycleStep
<1> USE DEF IInv, TypeOK, LifecycleStep
<1>1. CASE CloseBegin(t)
  <2>1. Alive' = Alive /\ linked' = linked
    BY <1>1 DEF CloseBegin, pollers, links
  <2>2. \/ Phase' = Phase
        \/ Phase = "running" /\ Phase' = "stopping"
    BY <1>1, <2>1 DEF CloseBegin, Phase
  <2>. QED
    BY <2>1, <2>2 DEF Lifecycle!Next, Lifecycle!Cancel, Lifecycle!vars
<1>2. CASE CloseEnd(t)
  <2>1. Alive = {} /\ Alive' = {} /\ ~linked /\ linked' = FALSE
    BY <1>2 DEF CloseEnd, WaitOver, LinkOwned, pollers
  <2>. QED
    BY <2>1 DEF Phase, Lifecycle!vars
<1>3. CASE \/ CallClose(t)
           \/ \E new \in Configs \cup {None} : CallUpdate(t, new)
           \/ UpdateBegin(t) \/ UpdateStore(t) \/ UpdateCheck(t)
  <2>1. UNCHANGED <<ctx, rootDone, poller, linked>>
    BY <1>3 DEF CallClose, CallUpdate, UpdateBegin, UpdateStore, UpdateCheck,
                object, pollers, links
  <2>. QED
    BY <2>1 DEF Phase, Lifecycle!vars
<1>. QED
  BY <1>1, <1>2, <1>3

\* Every behaviour of the instance is, seen through Phase and linked, a
\* behaviour the host may rely on.
THEOREM RefinesLifecycle == Spec => Lifecycle!Init /\ [][Lifecycle!Next]_(Lifecycle!vars)
<1>1. Init => Lifecycle!Init
  BY DEF Init, Lifecycle!Init, Phase
<1>2. IInv /\ [Next]_vars => LifecycleStep
  <2> SUFFICES ASSUME IInv, [Next]_vars PROVE LifecycleStep
    OBVIOUS
  <2>1. ASSUME NEW t \in Threads, Create(t) \/ UpdateInit(t) PROVE LifecycleStep
    BY <2>1, InitBodyRefines DEF Create, UpdateInit
  <2>2. ASSUME NEW g \in Pollers, PollerStep(g) PROVE LifecycleStep
    BY <2>2, PollerRefines
       DEF PollerStep, Begin, TopExit, TopOpen, OpenOk, OpenFail, SelectDone,
           SelectTick, ReadOk, ReadFail, WaitExit, WaitRetry
  <2>3. CASE RootCancel
    <3>1. Alive' = Alive /\ linked' = linked /\ Done'
      BY <2>3 DEF RootCancel, pollers, links
    <3>. QED
      BY <3>1 DEF Phase, LifecycleStep, Lifecycle!Next, Lifecycle!Cancel, Lifecycle!vars
  <2>4. CASE UNCHANGED vars
    BY <2>4 DEF vars, object, pollers, links, Phase, LifecycleStep, Lifecycle!vars
  <2>. QED
    BY <2>1, <2>2, <2>3, <2>4, CallerRefines DEF Next, CallerStep
<1>3. QED
  BY <1>1, <1>2, Invariance, PTL DEF Spec, LifecycleStep

\* The three together: one poller, on a client, owning the open transport.
THEOREM PollerSafeAlways == Spec => []PollerSafe
  BY OnePollerAlways, NoNilDerefAlways, LinkOwnedAlways, PTL DEF PollerSafe

\* The root context is cancelled, polling is over, and no UpdateConfig is past
\* its check of the parent (mbus.go:301).
Quiet == rootDone /\ created /\ Alive = {} /\ \A t \in Threads : pc[t] # "updInit"

\* What RootStopsPolling comes to stays: no call of Close or UpdateConfig,
\* however many are still on their way, starts a poller again.
THEOREM QuietForGood == Spec => [](Quiet => []Quiet)
<1>1. TypeOK /\ Quiet /\ [Next]_vars => Quiet'
  <2> SUFFICES ASSUME TypeOK, Quiet, [Next]_vars PROVE Quiet'
    OBVIOUS
  <2> USE DEF TypeOK, Quiet
  <2>1. ASSUME NEW t \in Threads, Create(t) \/ UpdateInit(t) PROVE FALSE
    BY <2>1 DEF Create, UpdateInit
  <2>2. ASSUME NEW t \in Threads,
               \/ CallClose(t) \/ UpdateBegin(t)
               \/ \E new \in Configs \cup {None} : CallUpdate(t, new)
        PROVE  Quiet'
    <3>1. UNCHANGED <<created, poller, rootDone>>
      BY <2>2 DEF CallClose, CallUpdate, UpdateBegin, object, pollers
    <3>2. \E at \in {"close", "update", "store"} : pc' = [pc EXCEPT ![t] = at]
      BY <2>2 DEF CallClose, CallUpdate, UpdateBegin
    <3>. QED
      BY <3>1, <3>2
  <2>3. ASSUME NEW t \in Threads, UpdateStore(t) \/ UpdateCheck(t) PROVE Quiet'
    BY <2>3 DEF UpdateStore, UpdateCheck, object, pollers
  <2>4. ASSUME NEW t \in Threads, CloseBegin(t) \/ CloseEnd(t) PROVE Quiet'
    BY <2>4 DEF CloseBegin, CloseEnd, Resume, Waiting, pollers
  <2>5. ASSUME NEW g \in Pollers, PollerStep(g) PROVE FALSE
    BY <2>5
    DEF PollerStep, Begin, TopExit, TopOpen, OpenOk, OpenFail, SelectDone, SelectTick,
        ReadOk, ReadFail, WaitExit, WaitRetry
  <2>6. CASE RootCancel
    BY <2>6 DEF RootCancel
  <2>7. CASE UNCHANGED vars
    BY <2>7 DEF vars, callers, object, pollers
  <2>. QED
    BY <2>1, <2>2, <2>3, <2>4, <2>5, <2>6, <2>7 DEF Next, CallerStep
<1>. QED
  BY <1>1, TypeCorrect, PTL DEF Spec

-----------------------------------------------------------------------------
(***************************************************************************)
(* Waiting: the safe part of CallsReturn.                                  *)
(***************************************************************************)
\* What a caller and a poller wait for: a mutex, the WaitGroup, the context.
\* Opening and reading end in a success or an error.
CallerCan(t) ==
  \/ pc[t] \in {"close", "updClose", "update", "updInit"} /\ mu = None
  \/ pc[t] \in {"store", "updCheck"}
  \/ pc[t] \in {"closing", "updClosing"} /\ Alive = {}
PollerCan(g) == poller[g] # "select" \/ Done

\* A call that cannot go on waits for the holder of m.mu, and that one at most
\* for a poller, which can always go on: nobody waits in a circle.
NoDeadlock ==
  \A t \in Threads : pc[t] # "rest" =>
    \/ \E u \in Threads : (u = t \/ mu = u) /\ CallerCan(u)
    \/ mu \in Threads /\ \E g \in Alive : PollerCan(g)

THEOREM NoDeadlockAlways == Spec => []NoDeadlock
<1>1. ASSUME IInv, NEW t \in Threads, pc[t] # "rest"
      PROVE  \/ \E u \in Threads : (u = t \/ mu = u) /\ CallerCan(u)
             \/ mu \in Threads /\ \E g \in Alive : PollerCan(g)
  <2> DEFINE Can == \E u \in Threads : (u = t \/ mu = u) /\ CallerCan(u)
  <2>1. ASSUME NEW u \in Threads, pc[u] \in Holding, u = t \/ mu = u
        PROVE  Can \/ (mu \in Threads /\ \E g \in Alive : PollerCan(g))
    <3>1. mu = u /\ (pc[u] # "store" => ctx = "cancelled")
      BY <1>1, <2>1 DEF IInv, MutexInv, Holding
    <3>2. pc[u] = "store" \/ Alive = {} => CallerCan(u)
      BY <2>1 DEF CallerCan, Holding
    <3>3. QED BY <2>1, <3>1, <3>2 DEF PollerCan, Done
  <2>2. CASE pc[t] \in Holding
    BY <2>1, <2>2
  <2>3. CASE pc[t] \notin Holding /\ mu = None
    <3>1. CallerCan(t)
      BY <1>1, <2>3 DEF IInv, TypeOK, CallerPC, CallerCan, Holding
    <3>2. QED BY <3>1
  <2>4. CASE pc[t] \notin Holding /\ mu # None
    <3>1. mu \in Threads /\ pc[mu] \in Holding
      BY <1>1, <2>4 DEF IInv, TypeOK, MutexInv
    <3>2. QED BY <2>1, <3>1
  <2>5. QED BY <2>2, <2>3, <2>4
<1>2. IInv => NoDeadlock
  BY <1>1 DEF NoDeadlock
<1>3. QED
  BY <1>2, Invariance, PTL

\* How far a poller that is told to end still is from it.
Left(at) ==
  IF at = "idle" THEN 0
  ELSE IF at = "top" THEN 1
  ELSE IF at \in {"start", "wait"} THEN 2
  ELSE IF at \in {"select", "read"} THEN 3 ELSE 4

\* While a Close waits no poller is born and none opens a link but by the call
\* it is in: each of its steps brings it nearer to its end, except that a
\* select may take a tick that is ready too and read once more.
ShortWait ==
  \A t \in Threads :
    pc[t] \in {"closing", "updClosing"} /\ pc'[t] \in {"closing", "updClosing"} =>
      \A g \in Pollers :
        \/ poller'[g] = poller[g] \/ Left(poller'[g]) < Left(poller[g])
        \/ {poller[g], poller'[g]} = {"select", "read"}

THEOREM ShortWaitAlways == Spec => [][ShortWait]_vars
<1>1. ASSUME IInv, Next, NEW t \in Threads, NEW g \in Pollers,
             pc[t] \in {"closing", "updClosing"}, pc'[t] \in {"closing", "updClosing"}
      PROVE  \/ poller'[g] = poller[g] \/ Left(poller'[g]) < Left(poller[g])
             \/ {poller[g], poller'[g]} = {"select", "read"}
  <2>1. mu = t /\ mu # None /\ Done
    BY <1>1, ConstantsAssumption DEF IInv, MutexInv, Done, Holding
  <2>2. CASE UNCHANGED poller
    BY <2>2
  <2>3. ASSUME NEW h \in Pollers, PollerStep(h)
        PROVE  \/ poller'[g] = poller[g] \/ Left(poller'[g]) < Left(poller[g])
               \/ {poller[g], poller'[g]} = {"select", "read"}
    <3>1. poller \in [Pollers -> PollerPC]
      BY <1>1 DEF IInv, TypeOK
    <3>2. \/ poller[h] = "start" /\ poller' = [poller EXCEPT ![h] = "top"]
          \/ poller[h] = "top" /\ poller' = [poller EXCEPT ![h] = "idle"]
          \/ /\ poller[h] = "open"
             /\ \E to \in {"select", "wait"} : poller' = [poller EXCEPT ![h] = to]
          \/ /\ poller[h] = "select"
             /\ \E to \in {"idle", "read"} : poller' = [poller EXCEPT ![h] = to]
          \/ /\ poller[h] = "read"
             /\ \E to \in {"select", "wait"} : poller' = [poller EXCEPT ![h] = to]
          \/ /\ poller[h] = "wait"
             /\ \E to \in {"idle", "top"} : poller' = [poller EXCEPT ![h] = to]
      BY <2>1, <2>3
      DEF PollerStep, Begin, TopExit, TopOpen, OpenOk, OpenFail, SelectDone, SelectTick,
          ReadOk, ReadFail, WaitExit, WaitRetry, Exit, Move
    <3>3. QED BY <3>1, <3>2 DEF Left
  <2>4. ASSUME NEW u \in Threads, Create(u) \/ UpdateInit(u) PROVE FALSE
    BY <2>1, <2>4 DEF Create, UpdateInit
  <2>5. QED
    BY <1>1, <2>2, <2>3, <2>4
    DEF Next, CallerStep, CallClose, CallUpdate, RootCancel, CloseBegin, CloseEnd,
        UpdateBegin, UpdateStore, UpdateCheck, pollers
<1>2. IInv /\ [Next]_vars => [ShortWait]_vars
  BY <1>1 DEF ShortWait
<1>3. QED
  BY <1>2, Invariance, PTL DEF Spec
=============================================================================
