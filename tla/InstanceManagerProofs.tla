----------------------- MODULE InstanceManagerProofs -----------------------
(***************************************************************************)
(* For any number of callers, instances and keys: a host that creates a    *)
(* key only when it is free, and destroys nothing while an update is going *)
(* on, never leaves a poller running outside the registry, and never       *)
(* removes an entry whose instance is not closed.  The run "orphan" shows  *)
(* what happens without the second condition.                              *)
(***************************************************************************)
EXTENDS InstanceManager, TLAPS

Disciplined == FreshKeys /\ NoOverlap

USE DEF Goto, Call, Return, Registered, InHand, Methods

\* The initial state satisfies the invariant.
LEMMA InitIInv == Init => IInv
<1> SUFFICES ASSUME Init PROVE IInv
  OBVIOUS
<1>1. TypeOK
  BY DEF Init, TypeOK, CallerPC
<1>2. MethodInv /\ EntryInv
  BY ManagerAssumption DEF Init, MethodInv, EntryInv, Destroying
<1>3. CreateInv /\ IdleInv /\ AllManaged
  BY ManagerAssumption DEF Init, CreateInv, IdleInv, AllManaged
<1>. QED
  BY <1>1, <1>2, <1>3 DEF IInv

\* Types hold for every host.
LEMMA TypeStep == TypeOK /\ [Next]_vars => TypeOK'
<1> SUFFICES ASSUME TypeOK, [Next]_vars PROVE TypeOK'
  OBVIOUS
<1> USE ManagerAssumption DEF TypeOK, CallerPC, registry, objects, callers
<1>1. ASSUME NEW t \in Threads, NEW k \in Keys, NEW o \in Objects, Create(t, k, o)
      PROVE TypeOK'
  BY <1>1 DEF Create, Start
<1>2. ASSUME NEW t \in Threads, Insert(t) PROVE TypeOK'
  BY <1>2 DEF Insert
<1>3. ASSUME NEW t \in Threads, NEW k \in Keys, Update(t, k) \/ Destroy(t, k)
      PROVE TypeOK'
  BY <1>3 DEF Update, Destroy
<1>4. ASSUME NEW t \in Threads, UpdateStore(t) \/ UpdateCheck(t) PROVE TypeOK'
  BY <1>4 DEF UpdateStore, UpdateCheck
<1>5. ASSUME NEW t \in Threads, UpdateInit(t) PROVE TypeOK'
  <2>1. phase' \in [Objects -> {"stopped", "running", "stopping"}]
    BY <1>5 DEF UpdateInit, Start
  <2>2. init' \in [Objects -> BOOLEAN]
    BY <1>5 DEF UpdateInit
  <2>. QED
    BY <1>5, <2>1, <2>2 DEF UpdateInit
<1>6. ASSUME NEW t \in Threads, CloseBegin(t) PROVE TypeOK'
  BY <1>6 DEF CloseBegin, Closed, Told
<1>7. ASSUME NEW t \in Threads, CloseEnd(t) PROVE TypeOK'
  BY <1>7 DEF CloseEnd, Closed
<1>8. ASSUME NEW t \in Threads, DestroyAll(t) \/ NextEntry(t) PROVE TypeOK'
  BY <1>8 DEF DestroyAll, NextEntry
<1>9. ASSUME NEW t \in Threads, Delete(t) PROVE TypeOK'
  BY <1>9 DEF Delete
<1>10. ASSUME NEW o \in Objects, PollerEnds(o) PROVE TypeOK'
  BY <1>10 DEF PollerEnds
<1>11. CASE RootCancel
  BY <1>11 DEF RootCancel, Told
<1>12. CASE UNCHANGED vars
  BY <1>12 DEF vars
<1>13. QED
  BY <1>1, <1>2, <1>3, <1>4, <1>5, <1>6, <1>7, <1>8, <1>9, <1>10, <1>11, <1>12
     DEF Next, CallerStep

\* Type correctness, for every host and every choice of the constants.
THEOREM TypeCorrect == Spec => []TypeOK
<1>1. Init => TypeOK
  BY InitIInv DEF IInv
<1>2. QED
  BY <1>1, TypeStep, PTL DEF Spec

-----------------------------------------------------------------------------
\* Which method a caller is in, and who holds the manager's lock.
LEMMA MethodStep ==
  ASSUME Disciplined, TypeOK, MethodInv, [Next]_vars PROVE MethodInv'
<1> USE ManagerAssumption
    DEF Disciplined, TypeOK, MethodInv, Destroying, Updating, registry, callers
<1>1. ASSUME NEW t \in Threads, NEW k \in Keys, NEW o \in Objects, Create(t, k, o)
      PROVE MethodInv'
  BY <1>1 DEF Create
<1>2. ASSUME NEW t \in Threads, Insert(t) PROVE MethodInv'
  BY <1>2 DEF Insert
<1>3. ASSUME NEW t \in Threads, NEW k \in Keys, Destroy(t, k) PROVE MethodInv'
  BY <1>3 DEF Destroy
<1>4. ASSUME NEW t \in Threads, CloseBegin(t) \/ CloseEnd(t) PROVE MethodInv'
  BY <1>4 DEF CloseBegin, CloseEnd, Closed
<1>5. ASSUME NEW t \in Threads, DestroyAll(t) PROVE MethodInv'
  BY <1>5 DEF DestroyAll
<1>6. ASSUME NEW t \in Threads, NextEntry(t) PROVE MethodInv'
  <2>1. CASE Registered = {} /\ lock' = None /\ Return(t)
    BY <1>6, <2>1 DEF NextEntry
  <2>2. CASE Goto(t, "close") /\ UNCHANGED <<op, lock>>
    BY <1>6, <2>2 DEF NextEntry
  <2>. QED
    BY <1>6, <2>1, <2>2 DEF NextEntry
<1>7. ASSUME NEW t \in Threads, Delete(t) PROVE MethodInv'
  BY <1>7 DEF Delete
<1>8. ASSUME NEW o \in Objects, PollerEnds(o) PROVE MethodInv'
  BY <1>8 DEF PollerEnds
<1>9. CASE RootCancel \/ UNCHANGED vars
  BY <1>9 DEF RootCancel, vars
<1>10. ASSUME NEW t \in Threads, NEW k \in Keys, Update(t, k) PROVE MethodInv'
  BY <1>10 DEF Update
<1>11. ASSUME NEW t \in Threads, UpdateStore(t) \/ UpdateCheck(t) \/ UpdateInit(t)
       PROVE MethodInv'
  BY <1>11 DEF UpdateStore, UpdateCheck, UpdateInit
<1>. QED
  BY <1>1, <1>2, <1>3, <1>4, <1>5, <1>6, <1>7, <1>8, <1>9, <1>10, <1>11
  DEF Next, CallerStep

\* A caller that destroys knows its entry, one that creates owns its key.
LEMMA CreateStep ==
  ASSUME Disciplined, TypeOK, MethodInv, CreateInv, [Next]_vars PROVE CreateInv'
<1> USE DEF TypeOK, MethodInv, CreateInv, registry, callers
<1>1. ASSUME NEW t \in Threads, NEW k \in Keys, NEW o \in Objects, Create(t, k, o)
      PROVE CreateInv'
  BY <1>1 DEF Create, Creating, Disciplined
<1>2. ASSUME NEW t \in Threads,
             Insert(t) \/ DestroyAll(t) \/ \E k \in Keys : Destroy(t, k)
      PROVE CreateInv'
  BY <1>2 DEF Insert, Destroy, DestroyAll
<1>3. ASSUME NEW t \in Threads, CloseBegin(t) \/ CloseEnd(t) PROVE CreateInv'
  BY <1>3 DEF CloseBegin, CloseEnd, Closed
<1>4. ASSUME NEW t \in Threads, NextEntry(t) PROVE CreateInv'
  BY <1>4 DEF NextEntry
<1>5. ASSUME NEW t \in Threads, Delete(t) PROVE CreateInv'
  BY <1>5 DEF Delete
<1>6. ASSUME NEW o \in Objects, PollerEnds(o) PROVE CreateInv'
  BY <1>6 DEF PollerEnds
<1>7. CASE RootCancel \/ UNCHANGED vars
  BY <1>7 DEF RootCancel, vars
<1>8. ASSUME NEW t \in Threads,
             \/ UpdateStore(t) \/ UpdateCheck(t) \/ UpdateInit(t)
             \/ \E k \in Keys : Update(t, k)
      PROVE CreateInv'
  BY <1>8 DEF UpdateStore, UpdateCheck, UpdateInit, Update
<1>. QED
  BY <1>1, <1>2, <1>3, <1>4, <1>5, <1>6, <1>7, <1>8 DEF Next, CallerStep

\* An instance that is not initialised has no poller.
LEMMA IdleStep ==
  ASSUME Disciplined, TypeOK, MethodInv, IdleInv, [Next]_vars PROVE IdleInv'
<1> USE DEF TypeOK, IdleInv, objects
<1>1. ASSUME NEW t \in Threads, NEW k \in Keys, NEW o \in Objects, Create(t, k, o)
      PROVE IdleInv'
  BY <1>1 DEF Create, Start
<1>2. ASSUME NEW t \in Threads,
             \/ Insert(t) \/ DestroyAll(t) \/ NextEntry(t) \/ Delete(t)
             \/ UpdateStore(t) \/ UpdateCheck(t)
             \/ \E k \in Keys : Destroy(t, k) \/ Update(t, k)
      PROVE IdleInv'
  BY <1>2 DEF Insert, Destroy, DestroyAll, NextEntry, Delete,
              Update, UpdateStore, UpdateCheck
<1>3. ASSUME NEW t \in Threads, CloseBegin(t) PROVE IdleInv'
  BY <1>3 DEF CloseBegin, Told
<1>4. ASSUME NEW t \in Threads, CloseEnd(t) PROVE IdleInv'
  BY <1>4 DEF CloseEnd, WaitOver
<1>5. ASSUME NEW o \in Objects, PollerEnds(o) PROVE IdleInv'
  BY <1>5 DEF PollerEnds
<1>6. CASE RootCancel \/ UNCHANGED vars
  BY <1>6 DEF RootCancel, Told, vars
<1>7. ASSUME NEW t \in Threads, UpdateInit(t) PROVE IdleInv'
  BY <1>7 DEF UpdateInit, Start
<1>. QED
  BY <1>1, <1>2, <1>3, <1>4, <1>5, <1>6, <1>7 DEF Next, CallerStep

\* A caller that destroys keeps its entry, one that creates keeps its key free.
LEMMA EntryStep ==
  ASSUME Disciplined, TypeOK, MethodInv, EntryInv, CreateInv, IdleInv, [Next]_vars
  PROVE  EntryInv'
<1> USE ManagerAssumption
    DEF Disciplined, TypeOK, MethodInv, Destroying, Updating, EntryInv,
        registry, objects, callers
<1>1. ASSUME NEW t \in Threads, NEW k \in Keys, NEW o \in Objects, Create(t, k, o)
      PROVE EntryInv'
  BY <1>1 DEF Create, Start, Disciplined
<1>2. ASSUME NEW t \in Threads, Insert(t) PROVE EntryInv'
  BY <1>2 DEF Insert, CreateInv
<1>3. ASSUME NEW t \in Threads, NEW k \in Keys, Destroy(t, k) PROVE EntryInv'
  BY <1>3 DEF Destroy
<1>4. ASSUME NEW t \in Threads, CloseBegin(t) PROVE EntryInv'
  BY <1>4 DEF CloseBegin, Closed, Told, IdleInv
<1>5. ASSUME NEW t \in Threads, CloseEnd(t) PROVE EntryInv'
  BY <1>5 DEF CloseEnd, Closed, WaitOver
<1>6. ASSUME NEW t \in Threads, DestroyAll(t) PROVE EntryInv'
  BY <1>6 DEF DestroyAll
<1>7. ASSUME NEW t \in Threads, NextEntry(t) PROVE EntryInv'
  BY <1>7 DEF NextEntry
<1>8. ASSUME NEW t \in Threads, Delete(t) PROVE EntryInv'
  BY <1>8 DEF Delete
<1>9. ASSUME NEW o \in Objects, PollerEnds(o) PROVE EntryInv'
  BY <1>9 DEF PollerEnds
<1>10. CASE RootCancel \/ UNCHANGED vars
  BY <1>10 DEF RootCancel, Told, vars
<1>11. ASSUME NEW t \in Threads, NEW k \in Keys, Update(t, k) PROVE EntryInv'
  BY <1>11 DEF Update
<1>12. ASSUME NEW t \in Threads, UpdateStore(t) \/ UpdateCheck(t) PROVE EntryInv'
  BY <1>12 DEF UpdateStore, UpdateCheck
<1>13. ASSUME NEW t \in Threads, UpdateInit(t) PROVE EntryInv'
  BY <1>13 DEF UpdateInit, Start
<1>. QED
  BY <1>1, <1>2, <1>3, <1>4, <1>5, <1>6, <1>7, <1>8, <1>9, <1>10, <1>11, <1>12, <1>13
     DEF Next, CallerStep

\* No poller is ever left outside the registry.
LEMMA ManagedStep ==
  ASSUME Disciplined, TypeOK, MethodInv, EntryInv, AllManaged, [Next]_vars
  PROVE  AllManaged'
<1> USE ManagerAssumption DEF TypeOK, AllManaged, registry, objects, callers
<1>1. ASSUME NEW t \in Threads, NEW k \in Keys, NEW o \in Objects, Create(t, k, o)
      PROVE AllManaged'
  BY <1>1 DEF Create, Start, MethodInv
<1>2. ASSUME NEW t \in Threads, Insert(t) PROVE AllManaged'
  BY <1>2 DEF Insert, MethodInv, EntryInv
<1>3. ASSUME NEW t \in Threads, DestroyAll(t) \/ \E k \in Keys : Destroy(t, k)
      PROVE AllManaged'
  BY <1>3 DEF DestroyAll, Destroy, MethodInv
<1>4. ASSUME NEW t \in Threads, CloseBegin(t) PROVE AllManaged'
  BY <1>4 DEF CloseBegin, Closed, Told
<1>5. ASSUME NEW t \in Threads, CloseEnd(t) PROVE AllManaged'
  BY <1>5 DEF CloseEnd, Closed
<1>6. ASSUME NEW t \in Threads, NextEntry(t) PROVE AllManaged'
  BY <1>6 DEF NextEntry, MethodInv
<1>7. ASSUME NEW t \in Threads, Delete(t) PROVE AllManaged'
  BY <1>7 DEF Delete, MethodInv, EntryInv, Destroying
<1>8. ASSUME NEW o \in Objects, PollerEnds(o) PROVE AllManaged'
  BY <1>8 DEF PollerEnds
<1>9. CASE RootCancel \/ UNCHANGED vars
  BY <1>9 DEF RootCancel, Told, vars
<1>10. ASSUME NEW t \in Threads,
              \/ UpdateStore(t) \/ UpdateCheck(t) \/ \E k \in Keys : Update(t, k)
       PROVE AllManaged'
  BY <1>10 DEF UpdateStore, UpdateCheck, Update, MethodInv
<1>11. ASSUME NEW t \in Threads, UpdateInit(t) PROVE AllManaged'
  BY <1>11 DEF UpdateInit, Start, MethodInv, EntryInv
<1>. QED
  BY <1>1, <1>2, <1>3, <1>4, <1>5, <1>6, <1>7, <1>8, <1>9, <1>10, <1>11
  DEF Next, CallerStep

-----------------------------------------------------------------------------
\* Together they are inductive under the host's discipline.
THEOREM Invariance == ASSUME Disciplined PROVE Spec => []IInv
<1>1. IInv /\ [Next]_vars => IInv'
  BY TypeStep, MethodStep, CreateStep, IdleStep, EntryStep, ManagedStep DEF IInv
<1>2. QED
  BY InitIInv, <1>1, PTL DEF Spec

\* Every poller's instance is registered or about to be.
THEOREM AllManagedAlways == ASSUME Disciplined PROVE Spec => []AllManaged
BY Invariance, PTL DEF IInv

\* An entry is removed only when its instance is closed.
THEOREM RemovedClosedAlways == ASSUME Disciplined PROVE Spec => RemovedClosed
<1> DEFINE Step == \A k \in Keys : instances[k] # None /\ instances'[k] # instances[k] =>
                     phase[instances[k]] = "stopped" /\ ~init[instances[k]]
<1>1. IInv /\ [Next]_vars => [Step]_vars
  <2> SUFFICES ASSUME IInv, Next PROVE Step
    OBVIOUS
  <2> USE DEF IInv, TypeOK, MethodInv, EntryInv, registry
  <2>1. ASSUME NEW t \in Threads, Insert(t) PROVE Step
    BY <2>1 DEF Insert
  <2>2. ASSUME NEW t \in Threads, Delete(t) PROVE Step
    BY <2>2 DEF Delete, Destroying
  <2>3. ASSUME UNCHANGED instances PROVE Step
    BY <2>3
  <2>4. ASSUME NEW t \in Threads,
               \/ CloseBegin(t) \/ CloseEnd(t) \/ NextEntry(t) \/ DestroyAll(t)
               \/ UpdateStore(t) \/ UpdateCheck(t) \/ UpdateInit(t)
               \/ \E k \in Keys : \/ Destroy(t, k) \/ Update(t, k)
                                  \/ \E o \in Objects : Create(t, k, o)
        PROVE UNCHANGED instances
    BY <2>4 DEF CloseBegin, CloseEnd, NextEntry, DestroyAll, Destroy, Create,
                Update, UpdateStore, UpdateCheck, UpdateInit
  <2>5. ASSUME NEW o \in Objects, PollerEnds(o) PROVE UNCHANGED instances
    BY <2>5 DEF PollerEnds
  <2>6. CASE RootCancel
    BY <2>3, <2>6 DEF RootCancel
  <2>. QED
    BY <2>1, <2>2, <2>3, <2>4, <2>5, <2>6 DEF Next, CallerStep
<1>2. QED
  BY <1>1, Invariance, PTL DEF Spec, RemovedClosed

-----------------------------------------------------------------------------
(***************************************************************************)
(* What holds for every host, with or without the two disciplines: nobody  *)
(* waits in a circle, and the pollers keep to PollerLifecycle.             *)
(***************************************************************************)
\* The manager's lock is held by who destroys; an instance's mutex by the one
\* caller that closes it, which has told its poller to end.
LockInv ==
  /\ \A t \in Threads :
       /\ op[t] = None <=> pc[t] = "rest"
       /\ op[t] = "Create" <=> pc[t] = "insert"
       /\ pc[t] \in {"update", "check", "init"} => op[t] = "Update"
       /\ pc[t] \in {"delete", "pick"} => Destroying(t)
       /\ Destroying(t) <=> lock = t
       /\ pc[t] = "wait" => mu[obj[t]] = t
  /\ \A o \in Objects : mu[o] # None =>
       pc[mu[o]] = "wait" /\ obj[mu[o]] = o /\ init[o] /\ phase[o] # "running"
HostInv == TypeOK /\ LockInv /\ IdleInv

\* An instance that is not initialised has no poller, whoever closed it.
LEMMA AnyHostIdle == HostInv /\ [Next]_vars => IdleInv'
<1> SUFFICES ASSUME HostInv, [Next]_vars PROVE IdleInv'
  OBVIOUS
<1> USE DEF HostInv, TypeOK, IdleInv, objects
<1>1. ASSUME NEW t \in Threads, NEW k \in Keys, NEW o \in Objects, Create(t, k, o)
      PROVE IdleInv'
  BY <1>1 DEF Create, Start
<1>2. ASSUME NEW t \in Threads, UpdateInit(t) PROVE IdleInv'
  BY <1>2 DEF UpdateInit, Start
<1>3. ASSUME NEW t \in Threads, CloseBegin(t) PROVE IdleInv'
  BY <1>3 DEF CloseBegin, Told
<1>4. ASSUME NEW t \in Threads, CloseEnd(t) PROVE IdleInv'
  BY <1>4 DEF CloseEnd, WaitOver
<1>5. ASSUME NEW o \in Objects, PollerEnds(o) PROVE IdleInv'
  BY <1>5 DEF PollerEnds
<1>6. CASE RootCancel
  BY <1>6 DEF RootCancel, Told
<1>7. CASE UNCHANGED objects
  BY <1>7
<1>. QED
  BY <1>1, <1>2, <1>3, <1>4, <1>5, <1>6, <1>7
  DEF Next, CallerStep, vars, Insert, DestroyAll, NextEntry, Delete, UpdateStore,
      UpdateCheck, Destroy, Update

\* Every step keeps locks and mutexes with those who are to release them.
LEMMA AnyHostLocks == HostInv /\ [Next]_vars => LockInv'
<1> SUFFICES ASSUME HostInv, [Next]_vars PROVE LockInv'
  OBVIOUS
<1> USE ManagerAssumption DEF HostInv, TypeOK, LockInv, Destroying, registry, objects, callers
<1>1. ASSUME NEW t \in Threads, NEW k \in Keys, NEW o \in Objects, Create(t, k, o)
      PROVE LockInv'
  BY <1>1 DEF Create, Start
<1>2. ASSUME NEW t \in Threads, Insert(t) PROVE LockInv'
  BY <1>2 DEF Insert
<1>3. ASSUME NEW t \in Threads, NEW k \in Keys, Destroy(t, k) PROVE LockInv'
  BY <1>3 DEF Destroy
<1>4. ASSUME NEW t \in Threads, CloseBegin(t) PROVE LockInv'
  BY <1>4 DEF CloseBegin, Closed, Told
<1>5. ASSUME NEW t \in Threads, CloseEnd(t) PROVE LockInv'
  BY <1>5 DEF CloseEnd, Closed
<1>6. ASSUME NEW t \in Threads, DestroyAll(t) PROVE LockInv'
  BY <1>6 DEF DestroyAll
<1>7. ASSUME NEW t \in Threads, NextEntry(t) PROVE LockInv'
  BY <1>7 DEF NextEntry
<1>8. ASSUME NEW t \in Threads, Delete(t) PROVE LockInv'
  BY <1>8 DEF Delete
<1>9. ASSUME NEW t \in Threads, NEW k \in Keys, Update(t, k) PROVE LockInv'
  BY <1>9 DEF Update
<1>10. ASSUME NEW t \in Threads, UpdateStore(t) \/ UpdateCheck(t) PROVE LockInv'
  BY <1>10 DEF UpdateStore, UpdateCheck
<1>11. ASSUME NEW t \in Threads, UpdateInit(t) PROVE LockInv'
  BY <1>11 DEF UpdateInit, Start
<1>12. ASSUME NEW o \in Objects, PollerEnds(o) PROVE LockInv'
  BY <1>12 DEF PollerEnds
<1>13. CASE RootCancel
  BY <1>13 DEF RootCancel, Told
<1>14. CASE UNCHANGED vars
  BY <1>14 DEF vars
<1>. QED
  BY <1>1, <1>2, <1>3, <1>4, <1>5, <1>6, <1>7, <1>8, <1>9, <1>10, <1>11, <1>12, <1>13,
     <1>14
  DEF Next, CallerStep

\* The invariant of every host.
THEOREM AnyHost == Spec => []HostInv
<1>1. Init => HostInv
  BY InitIInv, ManagerAssumption DEF IInv, HostInv, LockInv, Init, Destroying
<1>2. HostInv /\ [Next]_vars => HostInv'
  BY TypeStep, AnyHostIdle, AnyHostLocks DEF HostInv
<1>. QED
  BY <1>1, <1>2, PTL DEF Spec

\* The wait-for relation of the callers.
WaitsFor(t, u) ==
  \/ pc[t] = "insert" /\ lock = u
  \/ pc[t] \in {"update", "close", "init"} /\ mu[obj[t]] = u

\* Why CallsReturn holds whatever locks Destroy and DestroyAll keep: waits are
\* never in a circle, not even longer than two, and a caller that waits for a
\* poller has told it to end.
NoCircle ==
  /\ \A t, u, v, w \in Threads : ~(WaitsFor(t, u) /\ WaitsFor(u, v) /\ WaitsFor(v, w))
  /\ \A t \in Threads : pc[t] = "wait" => phase[obj[t]] \in {"stopping", "stopped"}

THEOREM NoCircleAlways == Spec => []NoCircle
<1>1. HostInv => NoCircle
  <2> SUFFICES ASSUME HostInv PROVE NoCircle
    OBVIOUS
  <2> USE DEF HostInv, TypeOK, LockInv
  <2>1. None \notin Threads
    BY ManagerAssumption
  <2>2. ASSUME NEW v \in Threads, NEW w \in Threads, pc[v] = "wait" PROVE ~WaitsFor(v, w)
    BY <2>2 DEF WaitsFor
  <2>3. ASSUME NEW u \in Threads, NEW v \in Threads, pc[u] # "insert", WaitsFor(u, v)
        PROVE  pc[v] = "wait"
    <3>1. obj[u] \in Objects /\ mu[obj[u]] = v
      BY <2>3 DEF WaitsFor
    <3>. QED
      BY <2>1, <3>1
  <2>4. ASSUME NEW t \in Threads, NEW u \in Threads, WaitsFor(t, u) PROVE pc[u] # "insert"
    <3>1. CASE pc[t] = "insert"
      BY <2>4, <3>1 DEF WaitsFor, Destroying
    <3>2. CASE pc[t] # "insert"
      BY <2>3, <2>4, <3>2
    <3>. QED
      BY <3>1, <3>2
  <2>5. ASSUME NEW t \in Threads, pc[t] = "wait" PROVE phase[obj[t]] \in {"stopping", "stopped"}
    <3>1. obj[t] \in Objects /\ mu[obj[t]] = t
      BY <2>5
    <3>. QED
      BY <2>1, <3>1
  <2>. QED
    BY <2>2, <2>3, <2>4, <2>5 DEF NoCircle
<1>. QED
  BY <1>1, AnyHost, PTL

\* The link of an instance is its own affair; the rest of its lifecycle is
\* what ModbusInstance and SimulatorInstance are shown to keep to.
Lifecycle(o) == INSTANCE PollerLifecycle WITH phase <- phase[o], link <- FALSE

\* The manager expects no more of an instance than PollerLifecycle promises.
THEOREM RefinesLifecycles ==
  ASSUME NEW o \in Objects
  PROVE  Spec => Lifecycle(o)!Init /\ [][Lifecycle(o)!Next]_(Lifecycle(o)!vars)
<1> DEFINE Step == [Lifecycle(o)!Next]_(Lifecycle(o)!vars)
<1>1. Init => Lifecycle(o)!Init
  BY DEF Init, Lifecycle!Init
<1>2. \/ phase'[o] = phase[o]
      \/ phase[o] = "stopped" /\ phase'[o] \in {"running", "stopping"}
      \/ phase[o] = "running" /\ phase'[o] = "stopping"
      \/ phase[o] = "stopping" /\ phase'[o] = "stopped"
      => Step
  BY DEF Lifecycle!Next, Lifecycle!Start, Lifecycle!Cancel, Lifecycle!Stop, Lifecycle!vars
<1> HIDE DEF Step
<1>3. HostInv /\ [Next]_vars => Step
  <2> SUFFICES ASSUME HostInv, [Next]_vars PROVE Step
    OBVIOUS
  <2> USE DEF HostInv, TypeOK, IdleInv, objects
  <2>1. ASSUME NEW t \in Threads, NEW k \in Keys, NEW i \in Objects, Create(t, k, i)
        PROVE  Step
    BY <1>2, <2>1 DEF Create, Start
  <2>2. ASSUME NEW t \in Threads, UpdateInit(t) PROVE Step
    BY <1>2, <2>2 DEF UpdateInit, Start
  <2>3. ASSUME NEW t \in Threads, CloseBegin(t) PROVE Step
    BY <1>2, <2>3 DEF CloseBegin, Told
  <2>4. ASSUME NEW i \in Objects, PollerEnds(i) PROVE Step
    BY <1>2, <2>4 DEF PollerEnds
  <2>5. CASE RootCancel
    BY <1>2, <2>5 DEF RootCancel, Told
  <2>6. CASE UNCHANGED phase
    BY <1>2, <2>6
  <2>. QED
    BY <2>1, <2>2, <2>3, <2>4, <2>5, <2>6
    DEF Next, CallerStep, vars, Insert, DestroyAll, NextEntry, Delete, UpdateStore,
        UpdateCheck, CloseEnd, Destroy, Update
<1>. QED
  BY <1>1, <1>3, AnyHost, PTL DEF Spec, Step

-----------------------------------------------------------------------------
(***************************************************************************)
(* The registry of any host, and what falls out of it.                     *)
(***************************************************************************)
\* A Create's instance is its own until it is inserted.
OwnInv ==
  /\ \A s, t \in Threads : op[s] = "Create" /\ op[t] = "Create" /\ obj[s] = obj[t] => s = t
  /\ \A t \in Threads : op[t] = "Create" => obj[t] \notin Registered

\* No instance is in the registry under two keys: whatever the host does at the
\* same time, a Destroy takes no other entry's poller with it and DestroyAll
\* closes each instance once.
OneEntryEach ==
  \A j, k \in Keys : instances[j] # None /\ instances[j] = instances[k] => j = k

THEOREM OneEntryEachAlways == Spec => []OneEntryEach
<1> DEFINE Inv == OwnInv /\ OneEntryEach
<1>1. Init => Inv
  BY ManagerAssumption DEF Init, OwnInv, OneEntryEach
<1>2. HostInv /\ Inv /\ [Next]_vars => Inv'
  <2> SUFFICES ASSUME HostInv, Inv, [Next]_vars PROVE Inv'
    OBVIOUS
  <2> USE ManagerAssumption DEF HostInv, TypeOK, OwnInv, OneEntryEach, registry
  <2>1. ASSUME NEW t \in Threads, NEW k \in Keys, NEW o \in Objects, Create(t, k, o)
        PROVE  Inv'
    BY <2>1 DEF Create
  <2>2. ASSUME NEW t \in Threads, Insert(t) PROVE Inv'
    <3>1. op[t] = "Create" /\ obj[t] \in Objects
      BY <2>2 DEF Insert, LockInv
    <3>2. /\ instances' = [instances EXCEPT ![key[t]] = obj[t]]
          /\ op' = [op EXCEPT ![t] = None] /\ obj' = [obj EXCEPT ![t] = None]
      BY <2>2 DEF Insert
    <3>3. \A j \in Keys : instances'[j] \in {instances[j], obj[t]}
                          /\ (j # key[t] => instances'[j] = instances[j])
      BY <3>2
    <3>4. \A j \in Keys : instances[j] # obj[t]
      BY <3>1
    <3>5. OneEntryEach'
      BY <3>2, <3>3, <3>4
    <3>6. \A u \in Threads : op'[u] = "Create" => u # t /\ op[u] = "Create" /\ obj'[u] = obj[u]
      BY <3>2
    <3>7. OwnInv'
      BY <3>1, <3>3, <3>6
    <3>8. QED BY <3>5, <3>7
  <2>3. ASSUME NEW t \in Threads, Delete(t) PROVE Inv'
    <3>1. \A j \in Keys : instances'[j] \in {instances[j], None}
      BY <2>3 DEF Delete
    <3>2. \A u \in Threads : op'[u] = "Create" => op[u] = "Create" /\ obj'[u] = obj[u]
      BY <2>3 DEF Delete
    <3>3. \A u \in Threads : op[u] = "Create" => obj[u] # None
      BY DEF LockInv
    <3>4. QED BY <3>1, <3>2, <3>3
  <2>4. ASSUME UNCHANGED instances,
               \A u \in Threads : op'[u] = "Create" => op[u] = "Create" /\ obj'[u] = obj[u]
        PROVE  Inv'
    BY <2>4
  <2>5. ASSUME NEW t \in Threads,
               \/ UpdateStore(t) \/ UpdateCheck(t) \/ UpdateInit(t) \/ CloseBegin(t)
               \/ CloseEnd(t) \/ NextEntry(t) \/ DestroyAll(t)
               \/ \E k \in Keys : Update(t, k) \/ Destroy(t, k)
        PROVE  Inv'
    <3>1. UNCHANGED instances
      BY <2>5
      DEF UpdateStore, UpdateCheck, UpdateInit, CloseBegin, CloseEnd, NextEntry, DestroyAll,
          Update, Destroy
    <3>2. pc[t] # "insert"
      BY <2>5
      DEF UpdateStore, UpdateCheck, UpdateInit, CloseBegin, CloseEnd, NextEntry, DestroyAll,
          Update, Destroy
    <3>3. \A u \in Threads : op'[u] = "Create" => op[u] = "Create" /\ obj'[u] = obj[u]
      BY <2>5, <3>2
      DEF UpdateStore, UpdateCheck, UpdateInit, CloseBegin, CloseEnd, NextEntry, DestroyAll,
          Update, Destroy, Closed, LockInv
    <3>4. QED BY <2>4, <3>1, <3>3
  <2>6. CASE UNCHANGED vars \/ RootCancel \/ \E o \in Objects : PollerEnds(o)
    BY <2>4, <2>6 DEF vars, callers, RootCancel, PollerEnds
  <2>7. QED
    BY <2>1, <2>2, <2>3, <2>5, <2>6 DEF Next, CallerStep
<1>3. QED
  BY <1>1, <1>2, AnyHost, PTL DEF Spec

\* An instance that polls without an entry, and that no call is working on.
Orphaned(o) == phase[o] = "running" /\ o \notin Registered \cup InHand

\* What the run "orphan" leads to is for good: no Update, Destroy or DestroyAll,
\* nor any later Create, reaches the poller; it ends with the root context.
THEOREM OrphanForGood ==
  ASSUME NEW o \in Objects
  PROVE  Spec => [](Orphaned(o) => [](Orphaned(o) \/ rootDone))
<1>1. HostInv /\ [Next]_vars => (rootDone => rootDone')
  BY DEF Next, vars, CallerStep, Insert, DestroyAll, NextEntry, Delete, UpdateStore, UpdateCheck,
         UpdateInit, CloseBegin, CloseEnd, Destroy, Update, Create, PollerEnds, RootCancel
<1>2. HostInv /\ Orphaned(o) /\ [Next]_vars => Orphaned(o)' \/ rootDone'
  <2> SUFFICES ASSUME HostInv, Orphaned(o), [Next]_vars PROVE Orphaned(o)' \/ rootDone'
    OBVIOUS
  <2> USE ManagerAssumption DEF HostInv, TypeOK, Orphaned, registry, objects, callers
  <2>1. ASSUME NEW t \in Threads, NEW k \in Keys, NEW i \in Objects, Create(t, k, i)
        PROVE  Orphaned(o)'
    BY <2>1 DEF Create, Start
  <2>2. ASSUME NEW t \in Threads, Insert(t) PROVE Orphaned(o)'
    BY <2>2 DEF Insert
  <2>3. ASSUME NEW t \in Threads, Delete(t) PROVE Orphaned(o)'
    BY <2>3 DEF Delete
  <2>4. ASSUME NEW t \in Threads, NextEntry(t) PROVE Orphaned(o)'
    BY <2>4 DEF NextEntry
  <2>5. ASSUME NEW t \in Threads, NEW k \in Keys, Update(t, k) \/ Destroy(t, k)
        PROVE  Orphaned(o)'
    BY <2>5 DEF Update, Destroy
  <2>6. ASSUME NEW t \in Threads, DestroyAll(t) PROVE Orphaned(o)'
    BY <2>6 DEF DestroyAll
  <2>7. ASSUME NEW t \in Threads, UpdateStore(t) \/ UpdateCheck(t) PROVE Orphaned(o)'
    BY <2>7 DEF UpdateStore, UpdateCheck
  <2>8. ASSUME NEW t \in Threads, UpdateInit(t) PROVE Orphaned(o)'
    <3>1. obj[t] # o
      BY DEF UpdateInit
    <3>2. QED BY <2>8, <3>1 DEF UpdateInit, Start
  <2>9. ASSUME NEW t \in Threads, CloseBegin(t) PROVE Orphaned(o)'
    <3>1. obj[t] # o
      OBVIOUS
    <3>2. QED BY <2>9, <3>1 DEF CloseBegin, Closed
  <2>10. ASSUME NEW t \in Threads, CloseEnd(t) PROVE Orphaned(o)'
    BY <2>10 DEF CloseEnd, Closed
  <2>11. ASSUME NEW i \in Objects, PollerEnds(i) PROVE Orphaned(o)'
    BY <2>11 DEF PollerEnds
  <2>12. CASE RootCancel
    BY <2>12 DEF RootCancel
  <2>13. CASE UNCHANGED vars
    BY <2>13 DEF vars
  <2>14. QED
    BY <2>1, <2>2, <2>3, <2>4, <2>5, <2>6, <2>7, <2>8, <2>9, <2>10, <2>11, <2>12, <2>13
    DEF Next, CallerStep
<1>3. QED
  BY <1>1, <1>2, AnyHost, PTL DEF Spec

-----------------------------------------------------------------------------
(* What a DestroyAll does to the registry of any host.                     *)

\* Whoever destroys holds on to an entry that is in the registry.
HeldInv ==
  \A t \in Threads : Destroying(t) /\ obj[t] # None =>
    key[t] \in Keys /\ instances[key[t]] = obj[t]

\* The lock keeps it there until the destroyer removes it.
LEMMA HeldStep == HostInv /\ HeldInv /\ [Next]_vars => HeldInv'
<1> SUFFICES ASSUME HostInv, HeldInv, [Next]_vars PROVE HeldInv'
  OBVIOUS
<1> USE ManagerAssumption DEF HostInv, TypeOK, LockInv, HeldInv, Destroying, registry,
                              objects, callers
<1>1. ASSUME NEW t \in Threads, NEW k \in Keys, NEW o \in Objects, Create(t, k, o)
      PROVE  HeldInv'
  BY <1>1 DEF Create
<1>2. ASSUME NEW t \in Threads, Insert(t) PROVE HeldInv'
  BY <1>2 DEF Insert
<1>3. ASSUME NEW t \in Threads, NEW k \in Keys, Update(t, k) \/ Destroy(t, k)
      PROVE  HeldInv'
  BY <1>3 DEF Update, Destroy
<1>4. ASSUME NEW t \in Threads, UpdateStore(t) \/ UpdateCheck(t) PROVE HeldInv'
  BY <1>4 DEF UpdateStore, UpdateCheck
<1>5. ASSUME NEW t \in Threads, UpdateInit(t) PROVE HeldInv'
  BY <1>5 DEF UpdateInit
<1>6. ASSUME NEW t \in Threads, CloseBegin(t) \/ CloseEnd(t) PROVE HeldInv'
  BY <1>6 DEF CloseBegin, CloseEnd, Closed
<1>7. ASSUME NEW t \in Threads, DestroyAll(t) \/ NextEntry(t) PROVE HeldInv'
  BY <1>7 DEF DestroyAll, NextEntry
<1>8. ASSUME NEW t \in Threads, Delete(t) PROVE HeldInv'
  BY <1>8 DEF Delete
<1>9. CASE UNCHANGED vars \/ RootCancel \/ \E o \in Objects : PollerEnds(o)
  BY <1>9 DEF vars, RootCancel, PollerEnds
<1>. QED
  BY <1>1, <1>2, <1>3, <1>4, <1>5, <1>6, <1>7, <1>8, <1>9 DEF Next, CallerStep

\* While a DestroyAll is under way the registry changes by its own removals
\* only, each of one entry, whose instance it has closed; and it returns with
\* nothing left, whatever Creates and Updates are going on.
Emptying ==
  \A t \in Threads : op[t] = "DestroyAll" =>
    /\ op'[t] # "DestroyAll" => Registered' = {}
    /\ \A k \in Keys : instances'[k] # instances[k] =>
         /\ pc[t] = "delete" /\ k = key[t] /\ instances[k] = obj[t]
         /\ instances'[k] = None

\* The safe core of DestroyAllEmpties, for any number of entries: the loop has
\* one entry fewer each time round, and there is no way out before the last.
THEOREM EmptyingAlways == Spec => [][Emptying]_vars
<1>1. Init => HeldInv
  BY ManagerAssumption DEF Init, HeldInv
<1>2. ASSUME HostInv, HeldInv, Next PROVE Emptying
  <2> USE ManagerAssumption, <1>2
      DEF HostInv, TypeOK, LockInv, Emptying, Destroying, registry, objects, callers
  <2>1. ASSUME NEW s \in Threads, Delete(s) PROVE Emptying
    <3>1. \A t \in Threads : op[t] = "DestroyAll" => t = s /\ op'[t] = "DestroyAll"
      BY <2>1 DEF Delete
    <3>2. \A k \in Keys : instances'[k] # instances[k] =>
            /\ pc[s] = "delete" /\ k = key[s] /\ instances[k] = obj[s]
            /\ instances'[k] = None
      BY <2>1 DEF Delete, HeldInv
    <3>. QED
      BY <3>1, <3>2
  <2>2. ASSUME NEW s \in Threads, NextEntry(s) PROVE Emptying
    <3>1. \A t \in Threads : op[t] = "DestroyAll" => t = s
      BY <2>2 DEF NextEntry
    <3>2. UNCHANGED instances /\ (op'[s] = op[s] \/ Registered = {})
      BY <2>2 DEF NextEntry
    <3>3. Registered' = Registered
      BY <3>2
    <3>. QED
      BY <3>1, <3>2, <3>3
  <2>3. ASSUME UNCHANGED instances,
               \A t \in Threads : op[t] = "DestroyAll" => op'[t] = op[t]
        PROVE  Emptying
    BY <2>3
  <2>4. ASSUME NEW s \in Threads,
               \/ UpdateStore(s) \/ UpdateCheck(s) \/ UpdateInit(s) \/ CloseBegin(s)
               \/ CloseEnd(s) \/ Insert(s) \/ DestroyAll(s)
               \/ \E k \in Keys : \/ Update(s, k) \/ Destroy(s, k)
                                  \/ \E o \in Objects : Create(s, k, o)
        PROVE  Emptying
    <3>1. ASSUME NEW t \in Threads, op[t] = "DestroyAll"
          PROVE  UNCHANGED instances /\ op'[t] = op[t]
      <4>1. lock = t /\ pc[t] # "rest"
        BY <3>1
      <4>. QED
        BY <2>4, <3>1, <4>1
        DEF UpdateStore, UpdateCheck, UpdateInit, CloseBegin, CloseEnd, Closed, Insert,
            DestroyAll, Update, Destroy, Create
    <3>. QED
      BY <3>1
  <2>5. ASSUME RootCancel \/ \E o \in Objects : PollerEnds(o) PROVE Emptying
    BY <2>3, <2>5 DEF RootCancel, PollerEnds
  <2>. QED
    BY <2>1, <2>2, <2>4, <2>5 DEF Next, CallerStep
<1>. QED
  BY <1>1, <1>2, HeldStep, AnyHost, PTL DEF Spec
=============================================================================
