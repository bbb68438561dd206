------------------------- MODULE ServerProcessProofs -------------------------
(***************************************************************************)
(* Proofs about ServerProcess, for any pids, serial lists and number of    *)
(* faults: the types, that the pid file names the server, and that a       *)
(* running server polls what the table and its configuration say.  Nothing *)
(* in core/pid.go keeps two starts apart; the inductive invariant says     *)
(* that the broker's port does.                                            *)
(***************************************************************************)
EXTENDS ServerProcess, WellFoundedInduction, TLAPS

\* Whoever has got past the broker, or has a signal goroutine, owns the port,
\* and a pid that is not a booting or running server has neither.
PortOwner ==
  \A p \in Pids :
    /\ pc[p] \in {"probe", "write", "channels", "run"} => broker = p
    /\ sig[p] # "none" => broker = p
    /\ sig[p] # "none" => pc[p] \in {"probe", "write", "channels", "run", "failed"}

IInv == TypeOK /\ PortOwner /\ PidNamesServer

\* A synchronised table holds ports of the table or of the list.
LEMMA SyncedPorts ==
  ASSUME rows \in SUBSET Ports, NEW list \in Lists
  PROVE  Synced(list) \in SUBSET Ports
<1>1. ASSUME NEW r \in Listed(list) PROVE r \in Ports
  <2> DEFINE Of(l) == {l[i] : i \in {k \in DOMAIN l : l[k].device # ""}}
  <2>1. PICK i \in DOMAIN list : r = list[i] /\ list[i].device # ""
    BY <1>1 DEF Listed
  <2>2. r \in Of(list)
    BY <2>1
  <2>3. Ports = UNION {Of(l) : l \in Lists}
    BY DEF Ports
  <2> HIDE DEF Of
  <2>4. Of(list) \in {Of(l) : l \in Lists}
    OBVIOUS
  <2>. QED
    BY <2>2, <2>3, <2>4
<1>. QED
  BY <1>1 DEF Synced, Kept, New

\* Before the first start nobody owns anything.
LEMMA InitIInv == Init => IInv
<1> SUFFICES ASSUME Init PROVE IInv
  OBVIOUS
<1>1. /\ config \in Lists /\ serial \in [Pids -> Lists]
      /\ rows \in SUBSET Ports /\ chans \in [Pids -> SUBSET Ports]
  <2>1. {} \in SUBSET Ports
    OBVIOUS
  <2>. QED
    BY <2>1 DEF Init
<1>2. /\ pc \in [Pids -> Boot \cup {"free", "other", "run", "failed"}]
      /\ sig \in [Pids -> {"none", "ready", "cancelled", "removed"}]
      /\ broker \in Pids \cup {None} /\ pidFile \in Pids \cup {None}
      /\ unit \in Pids \cup {"down", "failed"} /\ faults \in 0..MaxFaults
  BY ProcessAssumption DEF Init
<1>3. PortOwner /\ PidNamesServer
  BY DEF Init, PortOwner, PidNamesServer, Serving
<1>. QED
  BY <1>1, <1>2, <1>3 DEF IInv, TypeOK

\* Every step keeps the types.
LEMMA TypeStep == TypeOK /\ [Next]_vars => TypeOK'
<1> SUFFICES ASSUME TypeOK, [Next]_vars PROVE TypeOK'
  OBVIOUS
<1> USE DEF TypeOK, Boot, Goto
<1>0. MaxFaults \in Nat
  BY ProcessAssumption
<1>1. CASE Edit
  BY <1>1, <1>0 DEF Edit, Fault, locks
<1>2. ASSUME NEW p \in Pids, Launch(p) \/ Restart(p) PROVE TypeOK'
  BY <1>2 DEF Launch, Restart, Start, table, locks
<1>15. CASE StopUnit
  BY <1>15, <1>0 DEF StopUnit, Fault, table, locks
<1>3. ASSUME NEW p \in Pids, SyncSerials(p) PROVE TypeOK'
  BY <1>3, SyncedPorts DEF SyncSerials, locks
<1>4. ASSUME NEW p \in Pids, ServerMQTT(p) PROVE TypeOK'
  BY <1>4 DEF ServerMQTT, table
<1>5. ASSUME NEW p \in Pids, CreatePidFile(p) PROVE TypeOK'
  BY <1>5 DEF CreatePidFile, table, locks
<1>6. ASSUME NEW p \in Pids, WritePidFile(p) PROVE TypeOK'
  BY <1>6 DEF WritePidFile, table
<1>7. ASSUME NEW p \in Pids, CreateInstances(p) PROVE TypeOK'
  BY <1>7 DEF CreateInstances, table, locks
<1>8. ASSUME NEW p \in Pids, CheckErr(p) PROVE TypeOK'
  BY <1>8 DEF CheckErr, Died, table
<1>9. ASSUME NEW p \in Pids, RemovePidFile(p) PROVE TypeOK'
  BY <1>9 DEF RemovePidFile, table
<1>10. ASSUME NEW p \in Pids, Exit(p) PROVE TypeOK'
  BY <1>10 DEF Exit, Died, table
<1>11. ASSUME NEW p \in Pids, Terminate(p) PROVE TypeOK'
  BY <1>11, <1>0 DEF Terminate, Fault, table, locks
<1>12. ASSUME NEW p \in Pids, Kill(p) PROVE TypeOK'
  BY <1>12, <1>0 DEF Kill, Died, Fault, table
<1>13. ASSUME NEW p \in Pids, OtherProgram(p) PROVE TypeOK'
  BY <1>13, <1>0 DEF OtherProgram, Fault, table, locks
<1>14. CASE UNCHANGED vars
  BY <1>14 DEF vars
<1>. QED
  BY <1>1, <1>2, <1>3, <1>4, <1>5, <1>6, <1>7, <1>8, <1>9, <1>10, <1>11, <1>12,
     <1>13, <1>14, <1>15 DEF Next, BootStep, SignalStep

\* Every step keeps the owner of the port and the name in the file.
LEMMA OwnerStep == IInv /\ [Next]_vars => PortOwner' /\ PidNamesServer'
<1> SUFFICES ASSUME IInv, [Next]_vars PROVE PortOwner' /\ PidNamesServer'
  OBVIOUS
<1>0. None \notin Pids
  BY ProcessAssumption
<1> USE <1>0 DEF IInv, TypeOK, PortOwner, PidNamesServer, Serving, Boot, Goto
<1>1. CASE Edit
  BY <1>1 DEF Edit, locks
<1>2. ASSUME NEW p \in Pids, Launch(p) \/ Restart(p) PROVE PortOwner' /\ PidNamesServer'
  BY <1>2 DEF Launch, Restart, Start, locks
<1>14. CASE StopUnit
  BY <1>14 DEF StopUnit, locks
<1>3. ASSUME NEW p \in Pids, SyncSerials(p) PROVE PortOwner' /\ PidNamesServer'
  BY <1>3 DEF SyncSerials, locks
<1>4. ASSUME NEW p \in Pids, ServerMQTT(p) PROVE PortOwner' /\ PidNamesServer'
  BY <1>4 DEF ServerMQTT, PortFree
<1>5. ASSUME NEW p \in Pids, CreatePidFile(p) PROVE PortOwner' /\ PidNamesServer'
  BY <1>5 DEF CreatePidFile, locks
<1>6. ASSUME NEW p \in Pids, WritePidFile(p) PROVE PortOwner' /\ PidNamesServer'
  BY <1>6 DEF WritePidFile
<1>7. ASSUME NEW p \in Pids, CreateInstances(p) PROVE PortOwner' /\ PidNamesServer'
  BY <1>7 DEF CreateInstances, locks
<1>8. ASSUME NEW p \in Pids, NEW result, Died(p, result), UNCHANGED pidFile
      PROVE  PortOwner' /\ PidNamesServer'
  BY <1>8 DEF Died
<1>9. ASSUME NEW p \in Pids, CheckErr(p) \/ Exit(p) \/ Kill(p)
      PROVE  PortOwner' /\ PidNamesServer'
  BY <1>8, <1>9 DEF CheckErr, Exit, Kill
<1>10. ASSUME NEW p \in Pids, RemovePidFile(p) PROVE PortOwner' /\ PidNamesServer'
  BY <1>10 DEF RemovePidFile
<1>11. ASSUME NEW p \in Pids, Terminate(p) PROVE PortOwner' /\ PidNamesServer'
  BY <1>11 DEF Terminate, locks
<1>12. ASSUME NEW p \in Pids, OtherProgram(p) PROVE PortOwner' /\ PidNamesServer'
  BY <1>12 DEF OtherProgram, locks
<1>13. CASE UNCHANGED vars
  BY <1>13 DEF vars
<1>. QED
  BY <1>1, <1>2, <1>3, <1>4, <1>5, <1>6, <1>7, <1>9, <1>10, <1>11, <1>12, <1>13,
     <1>14
  DEF Next, BootStep, SignalStep

\* The inductive invariant holds in every reachable state.
THEOREM Invariance == Spec => []IInv
<1>1. IInv /\ [Next]_vars => IInv'
  BY TypeStep, OwnerStep DEF IInv
<1>. QED
  BY InitIInv, <1>1, PTL DEF Spec

\* The state of the machine, the table and the files keeps its types.
THEOREM TypeCorrect == Spec => []TypeOK
  BY Invariance, PTL DEF IInv

\* While a server is up and not told to end, the pid file names it.
THEOREM PidNamesServerAlways == Spec => []PidNamesServer
  BY Invariance, PTL DEF IInv

\* Beyond the broker's port there is one server, however starts, crashes and
\* reused pids interleave: no two write the pid file or poll the devices.
PastBroker(p) == pc[p] \in {"probe", "write", "channels", "run"}
THEOREM OneServer == Spec => [](\A p, q \in Pids : PastBroker(p) /\ PastBroker(q) => p = q)
<1>1. IInv => \A p, q \in Pids : PastBroker(p) /\ PastBroker(q) => p = q
  BY DEF IInv, PortOwner, PastBroker
<1>. QED
  BY <1>1, Invariance, PTL

(***************************************************************************)
(* The table: a start that gets through SyncSerials leaves one row for     *)
(* each device of its list, and, when every server that is alive has read  *)
(* the same list, the next start finds nothing to insert or to delete.     *)
(***************************************************************************)
Past(p)    == pc[p] \in {"mqtt", "probe", "write", "channels", "run"}
InTable    == {r.device : r \in rows}
OnePer(rs) == \A r, k \in rs : r.device = k.device => r = k

TableInv ==
  /\ OnePer(rows)
  /\ \A p \in Pids :
       /\ Alive(p) => serial[p] = config
       /\ Past(p) => InTable = Devices(config)
       /\ pc[p] = "run" => chans[p] = rows

\* A set of numbers that is not empty has a least one.
LEMMA Least ==
  ASSUME NEW T \in SUBSET Nat, T # {}
  PROVE  \E m \in T : \A k \in T : ~(k < m)
<1>1. PICK m \in T : \A k \in T : <<k, m>> \notin OpToRel(<, Nat)
  BY NatLessThanWellFounded, WFMin
<1>2. \A k \in T : ~(k < m)
  BY <1>1, Zenon DEF OpToRel
<1>. QED
  BY <1>2

\* Listed has one entry for each device of the list, and no other.
LEMMA ListedDevices ==
  ASSUME NEW list \in Lists
  PROVE  OnePer(Listed(list)) /\ {r.device : r \in Listed(list)} = Devices(list)
<1>1. DOMAIN list \in SUBSET Nat /\ \A i \in DOMAIN list : i \in Nat \ {0}
  <2>1. list \in Seq([device : STRING, device2 : STRING])
    BY ProcessAssumption
  <2>. QED
    BY <2>1
<1> DEFINE Of(i) == list[i].device
           First(i) == \A k \in 1..i - 1 : Of(k) # Of(i)
<1>2. \A r : r \in Listed(list) <=>
             \E i \in DOMAIN list : r = list[i] /\ Of(i) # "" /\ First(i)
  BY DEF Listed
<1>3. \A d : d \in Devices(list) <=> d # "" /\ \E i \in DOMAIN list : d = Of(i)
  BY DEF Devices
<1>4. ASSUME NEW r \in Listed(list), NEW k \in Listed(list), r.device = k.device
      PROVE  r = k
  <2>1. PICK i \in DOMAIN list : r = list[i] /\ First(i)
    BY <1>2, <1>4
  <2>2. PICK j \in DOMAIN list : k = list[j] /\ First(j)
    BY <1>2, <1>4
  <2>3. i \in Nat \ {0} /\ j \in Nat \ {0} /\ Of(i) = Of(j)
    BY <1>1, <1>4, <2>1, <2>2
  <2>4. ~(i < j)
    BY <2>2, <2>3
  <2>5. ~(j < i)
    BY <2>1, <2>3
  <2>6. i = j
    BY <2>3, <2>4, <2>5
  <2>. QED
    BY <2>1, <2>2, <2>6
<1>5. ASSUME NEW d \in Devices(list)
      PROVE  \E r \in Listed(list) : r.device = d
  <2> DEFINE T == {i \in DOMAIN list : Of(i) = d}
  <2>1. T \in SUBSET Nat /\ T # {}
    BY <1>1, <1>3, <1>5
  <2>2. PICK m \in T : \A k \in T : ~(k < m)
    <3> HIDE DEF T
    <3>. QED
      BY <2>1, Least
  <2>3. First(m)
    <3>1. SUFFICES ASSUME NEW k \in 1..m - 1, Of(k) = d PROVE FALSE
      OBVIOUS
    <3>2. k \in DOMAIN list
      <4>1. list \in Seq([device : STRING, device2 : STRING]) /\ m \in DOMAIN list
        BY ProcessAssumption
      <4>. QED
        BY <4>1
    <3>3. k < m
      BY <2>1
    <3>. QED
      BY <2>2, <3>1, <3>2, <3>3
  <2>4. list[m] \in Listed(list)
    BY <1>2, <1>3, <2>3
  <2>. QED
    BY <2>4
<1>6. ASSUME NEW r \in Listed(list) PROVE r.device \in Devices(list)
  BY <1>2, <1>3
<1>. QED
  BY <1>4, <1>5, <1>6 DEF OnePer

\* What SyncSerials leaves: one row for each device of the list.
LEMMA SyncedOnce ==
  ASSUME NEW list \in Lists, OnePer(rows)
  PROVE  OnePer(Synced(list)) /\ {r.device : r \in Synced(list)} = Devices(list)
<1>1. OnePer(Listed(list)) /\ {r.device : r \in Listed(list)} = Devices(list)
  BY ListedDevices
<1>2. OnePer(Synced(list))
  BY <1>1 DEF OnePer, Synced, Kept, New
<1>3. ASSUME NEW r \in Synced(list) PROVE r.device \in Devices(list)
  BY <1>1 DEF Synced, Kept, New
<1>4. ASSUME NEW d \in Devices(list) PROVE \E r \in Synced(list) : r.device = d
  <2>1. CASE \E r \in rows : r.device = d
    BY <2>1 DEF Synced, Kept
  <2>2. CASE \A r \in rows : r.device # d
    <3>1. PICK r \in Listed(list) : r.device = d
      BY <1>1
    <3>. QED
      BY <2>2, <3>1 DEF Synced, New
  <2>. QED
    BY <2>1, <2>2
<1>. QED
  BY <1>2, <1>3, <1>4

\* A table that already holds the list's devices stays as it is.
LEMMA SyncedAgain ==
  ASSUME NEW list \in Lists, InTable = Devices(list)
  PROVE  Synced(list) = rows
<1>1. {r.device : r \in Listed(list)} = Devices(list)
  BY ListedDevices
<1>2. New(list) = {}
  BY <1>1 DEF New, InTable
<1>3. Kept(list) = rows
  BY DEF Kept, InTable
<1>. QED
  BY <1>2, <1>3 DEF Synced

\* No step but an edit under a live server takes the table from the servers.
LEMMA TableStep ==
  ASSUME EditWhenUp = FALSE
  PROVE  TypeOK /\ TableInv /\ [Next]_vars => TableInv'
<1> SUFFICES ASSUME TypeOK, TableInv, [Next]_vars PROVE TableInv'
  OBVIOUS
<1> USE DEF Boot, Alive, Past, InTable, Goto
<1>1. CASE Edit
  <2>1. /\ \A p \in Pids : ~Alive(p)
        /\ UNCHANGED <<pc, sig, serial, chans, rows, locks>>
    BY <1>1 DEF Edit
  <2>. QED
    BY <2>1 DEF TableInv, OnePer
<1>2. ASSUME NEW p \in Pids, Launch(p) \/ Restart(p) PROVE TableInv'
  BY <1>2 DEF Launch, Restart, Start, table, locks, TableInv, OnePer, TypeOK
<1>3. ASSUME NEW p \in Pids, SyncSerials(p) PROVE TableInv'
  <2>0. /\ pc[p] = "sync" /\ serial[p] = config /\ config \in Lists /\ OnePer(rows)
        /\ UNCHANGED <<config, serial, chans>>
        /\ pc \in [Pids -> Boot \cup {"free", "other", "run", "failed"}]
    BY <1>3 DEF SyncSerials, TableInv, TypeOK
  <2>1. CASE rows' = Synced(config) /\ Goto(p, "mqtt")
    <3>1. OnePer(Synced(config)) /\ {r.device : r \in Synced(config)} = Devices(config)
      BY <2>0, SyncedOnce
    <3>2. OnePer(rows)' /\ InTable' = Devices(config)
      BY <2>1, <3>1 DEF OnePer
    <3>3. ASSUME NEW q \in Pids, pc'[q] = "run" PROVE chans'[q] = rows'
      <4>1. q # p /\ pc[q] = "run"
        BY <2>0, <2>1, <3>3
      <4>2. InTable = Devices(config) /\ chans[q] = rows
        BY <4>1 DEF TableInv
      <4>3. Synced(config) = rows
        BY <2>0, <4>2, SyncedAgain
      <4>. QED
        BY <2>0, <2>1, <4>2, <4>3
    <3>4. ASSUME NEW q \in Pids, Alive(q)' PROVE serial'[q] = config'
      BY <2>0, <2>1, <3>4 DEF TableInv
    <3>5. Devices(config)' = Devices(config)
      BY <2>0 DEF Devices
    <3>. QED
      BY <3>2, <3>3, <3>4, <3>5 DEF TableInv
  <2>2. CASE Goto(p, "failed") /\ UNCHANGED rows
    BY <2>0, <2>2 DEF TableInv, OnePer
  <2>. QED
    BY <1>3, <2>0, <2>1, <2>2 DEF SyncSerials
<1>4. ASSUME NEW p \in Pids, ServerMQTT(p) PROVE TableInv'
  BY <1>4 DEF ServerMQTT, table, TableInv, OnePer, TypeOK
<1>5. ASSUME NEW p \in Pids, CreatePidFile(p) PROVE TableInv'
  BY <1>5 DEF CreatePidFile, table, TableInv, OnePer, TypeOK
<1>6. ASSUME NEW p \in Pids, WritePidFile(p) PROVE TableInv'
  BY <1>6 DEF WritePidFile, table, TableInv, OnePer, TypeOK
<1>7. ASSUME NEW p \in Pids, CreateInstances(p) PROVE TableInv'
  BY <1>7 DEF CreateInstances, table, TableInv, OnePer, TypeOK
<1>8. ASSUME NEW p \in Pids, NEW result, Died(p, result), UNCHANGED <<serial, table>>
      PROVE  TableInv'
  BY <1>8 DEF Died, table, TableInv, OnePer, TypeOK
<1>9. ASSUME NEW p \in Pids, CheckErr(p) \/ Exit(p) \/ Kill(p) PROVE TableInv'
  BY <1>8, <1>9 DEF CheckErr, Exit, Kill
<1>10. ASSUME NEW p \in Pids, RemovePidFile(p) \/ Terminate(p) PROVE TableInv'
  BY <1>10 DEF RemovePidFile, Terminate, table, TableInv, OnePer
<1>11. ASSUME NEW p \in Pids, OtherProgram(p) PROVE TableInv'
  BY <1>11 DEF OtherProgram, table, TableInv, OnePer, TypeOK
<1>12. CASE UNCHANGED vars
  BY <1>12 DEF vars, TableInv, OnePer
<1>13. CASE StopUnit
  BY <1>13 DEF StopUnit, table, TableInv, OnePer
<1>. QED
  BY <1>1, <1>2, <1>3, <1>4, <1>5, <1>6, <1>7, <1>9, <1>10, <1>11, <1>12, <1>13
  DEF Next, BootStep, SignalStep

\* As long as the file is not edited under a live server, a running server
\* polls the devices of its configuration, each once, and the table holds the
\* same, however many other starts, refused ones too, went over it.
THEOREM InstancesMatchAlways ==
  ASSUME EditWhenUp = FALSE
  PROVE  Spec => []InstancesMatch
<1>1. Init => TableInv
  BY DEF Init, TableInv, OnePer, Alive, Past, Boot
<1>2. TypeOK /\ TableInv => InstancesMatch
  BY DEF TableInv, InstancesMatch, OnePer, Alive, Past, InTable
<1>3. TypeOK /\ TableInv /\ [Next]_vars => TableInv'
  BY TableStep
<1>. QED
  BY <1>1, <1>2, <1>3, TypeCorrect, PTL DEF Spec

\* A list whose devices the table holds already needs no insert.
LEMMA NothingNew ==
  ASSUME NEW list \in Lists, InTable = Devices(list)
  PROVE  Insertable(list)
<1>1. {r.device : r \in Listed(list)} = Devices(list)
  BY ListedDevices
<1>2. New(list) = {}
  BY <1>1 DEF New, InTable
<1>. QED
  BY <1>2 DEF Insertable

\* The configured list gives a device2 that the table knows to a new device.
Wedged == ~Insertable(config)

\* Such a list is never that of a running server: while it stands no start gets
\* past SyncSerials, and none of those that fail changes the table so that a
\* later one might.  Only an edit ends it: the exception of ServesAgain.
THEOREM WedgedUntilEdit ==
  ASSUME EditWhenUp = FALSE
  PROVE  Spec => /\ [](Wedged => \A p \in Pids : ~Past(p))
                 /\ [][Wedged /\ UNCHANGED config => Wedged']_vars
<1>1. Init => TableInv
  BY DEF Init, TableInv, OnePer, Alive, Past, Boot
<1>2. TypeOK /\ TableInv /\ [Next]_vars => TableInv'
  BY TableStep
<1>3. TypeOK /\ TableInv => (Wedged => \A p \in Pids : ~Past(p))
  BY NothingNew DEF TypeOK, TableInv, Wedged
<1>4. TypeOK /\ TableInv /\ [Next]_vars => [Wedged /\ UNCHANGED config => Wedged']_vars
  <2> SUFFICES ASSUME TypeOK, TableInv, Next, Wedged, UNCHANGED config
               PROVE  Wedged'
    OBVIOUS
  <2>1. ASSUME UNCHANGED rows PROVE Wedged'
    BY <2>1 DEF Wedged, Insertable, New, Listed
  <2>2. ASSUME NEW p \in Pids, SyncSerials(p) PROVE UNCHANGED rows
    <3>1. serial[p] = config
      BY <2>2 DEF SyncSerials, TableInv, Alive, Boot
    <3>. QED
      BY <2>2, <3>1 DEF SyncSerials, Wedged
  <2>3. ASSUME NEW p \in Pids,
               \/ Launch(p) \/ Restart(p) \/ ServerMQTT(p) \/ CreatePidFile(p) \/ WritePidFile(p)
               \/ CreateInstances(p) \/ CheckErr(p) \/ SignalStep(p) \/ Terminate(p)
               \/ Kill(p) \/ OtherProgram(p)
        PROVE  UNCHANGED rows
    BY <2>3
    DEF Launch, Restart, Start, ServerMQTT, CreatePidFile, WritePidFile, CreateInstances, CheckErr,
        SignalStep, RemovePidFile, Exit, Terminate, Kill, OtherProgram, table
  <2>4. CASE Edit
    BY <2>1, <2>4 DEF Edit
  <2>5. CASE StopUnit
    BY <2>1, <2>5 DEF StopUnit, table
  <2>. QED
    BY <2>1, <2>2, <2>3, <2>4, <2>5 DEF Next, BootStep
<1>. QED
  BY <1>1, <1>2, <1>3, <1>4, TypeCorrect, PTL DEF Spec

\* A server that is past the probe of the pid file.
Admitted(p) == pc[p] \in {"write", "channels", "run"}

\* What StaleIsReplaced is refuted by, for every machine: a server that was
\* given the pid the file names, its own, is refused, and so is every server
\* launched with that pid, as long as nobody else replaces the file.
THEOREM OwnPidRefused ==
  ASSUME NEW p \in Pids
  PROVE  Spec => [][pidFile = p /\ pidFile' = p /\ ~Admitted(p) => ~Admitted(p)']_vars
<1>1. ASSUME TypeOK, Next, pidFile = p, pidFile' = p, ~Admitted(p)
      PROVE  ~Admitted(p)'
  <2> USE DEF Admitted, Goto, TypeOK, Boot
  <2>0. p # None
    BY ProcessAssumption
  <2>1. ASSUME NEW q \in Pids, NEW result, Died(q, result) PROVE ~Admitted(p)'
    BY <1>1, <2>1 DEF Died
  <2>2. ASSUME NEW q \in Pids, CheckErr(q) \/ Exit(q) \/ Kill(q) PROVE ~Admitted(p)'
    BY <2>1, <2>2 DEF CheckErr, Exit, Kill
  <2>3. ASSUME NEW q \in Pids, CreatePidFile(q) PROVE ~Admitted(p)'
    BY <1>1, <2>0, <2>3 DEF CreatePidFile, ProcessExists
  <2>4. ASSUME NEW q \in Pids, Launch(q) \/ Restart(q) \/ SyncSerials(q) \/ ServerMQTT(q)
        PROVE  ~Admitted(p)'
    BY <1>1, <2>4 DEF Launch, Restart, Start, SyncSerials, ServerMQTT
  <2>5. ASSUME NEW q \in Pids, WritePidFile(q) \/ CreateInstances(q) PROVE ~Admitted(p)'
    BY <1>1, <2>5 DEF WritePidFile, CreateInstances
  <2>6. ASSUME NEW q \in Pids, RemovePidFile(q) \/ Terminate(q) \/ OtherProgram(q)
        PROVE  ~Admitted(p)'
    BY <1>1, <2>6 DEF RemovePidFile, Terminate, OtherProgram
  <2>7. CASE Edit
    BY <1>1, <2>7 DEF Edit
  <2>8. CASE StopUnit
    BY <1>1, <2>8 DEF StopUnit
  <2>. QED
    BY <1>1, <2>2, <2>3, <2>4, <2>5, <2>6, <2>7, <2>8 DEF Next, BootStep, SignalStep
<1>2. TypeOK /\ [Next]_vars =>
        [pidFile = p /\ pidFile' = p /\ ~Admitted(p) => ~Admitted(p)']_vars
  BY <1>1
<1>. QED
  BY <1>2, TypeCorrect, PTL DEF Spec
=============================================================================
