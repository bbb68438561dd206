----------------------------- MODULE RtuServer -----------------------------
(***************************************************************************)
(* The life of Modbus RTU servers (utils/modbus/server_rtu.go): Start,     *)
(* Stop and the goroutine that Start launches.  That goroutine takes       *)
(* ms.lock to serve and never gives it back: every branch of its loop goes *)
(* on, also on a closed port.  What it answers to a frame is left out.     *)
(***************************************************************************)
EXTENDS Naturals, FiniteSets

CONSTANTS Servers,  \* server objects, reused once garbage
          Loops,    \* goroutine slots for listenAndServe
          None

ASSUME RtuAssumption == None \notin Servers \cup Loops

VARIABLES lock,     \* each ms.lock: the loop that holds it, or None
          started,  \* ms.started
          port,     \* ms.port: "nil", "open" or "closed"
          loop,     \* each goroutine: where it is,
          of        \*   and the server it works for

rtu == <<lock, started, port, loop, of>>

RtuTypeOK ==
  /\ lock \in [Servers -> Loops \cup {None}] /\ started \in [Servers -> BOOLEAN]
  /\ port \in [Servers -> {"nil", "open", "closed"}]
  /\ loop \in [Loops -> {"idle", "begin", "locking", "serving"}]
  /\ of \in [Loops -> Servers \cup {None}]

RtuInit ==
  /\ lock = [s \in Servers |-> None] /\ started = [s \in Servers |-> FALSE]
  /\ port = [s \in Servers |-> "nil"] /\ loop = [g \in Loops |-> "idle"]
  /\ of = [g \in Loops |-> None]

\* Slots are interchangeable: any of the free ones stands for all.
AnyOf(free) == IF free = {} THEN {} ELSE {CHOOSE x \in free : TRUE}

\* NewRTUServer: a fresh object takes the place of a garbage one.
Garbage(s) == \A g \in Loops : of[g] # s
NewRTUServer(s) ==
  /\ Garbage(s)
  /\ lock' = [lock EXCEPT ![s] = None] /\ started' = [started EXCEPT ![s] = FALSE]
  /\ port' = [port EXCEPT ![s] = "nil"]
  /\ UNCHANGED <<loop, of>>

\* Start under ms.lock: nothing if started, else the port is opened.
StartOk(s) ==
  /\ lock[s] = None
  /\ \/ /\ started[s] /\ UNCHANGED rtu
     \/ /\ ~started[s]
        /\ port' = [port EXCEPT ![s] = "open"]
        /\ started' = [started EXCEPT ![s] = TRUE]
        /\ \E g \in AnyOf({h \in Loops : loop[h] = "idle"}) :
             /\ loop' = [loop EXCEPT ![g] = "begin"]
             /\ of' = [of EXCEPT ![g] = s]
        /\ UNCHANGED <<lock>>

\* serial.Open fails; ms.port is a port that is not open.
StartFail(s) ==
  /\ lock[s] = None /\ ~started[s]
  /\ port' = [port EXCEPT ![s] = "closed"]
  /\ UNCHANGED <<lock, started, loop, of>>

\* Stop under ms.lock.  A failed Close gives the port up but not started.
Stop(s) ==
  /\ lock[s] = None
  /\ \/ /\ ~started[s] /\ UNCHANGED rtu
     \/ /\ started[s]
        /\ port' = [port EXCEPT ![s] = "closed"]
        /\ \E failed \in {FALSE, port[s] = "open"} :
             started' = [started EXCEPT ![s] = failed]
        /\ UNCHANGED <<lock, loop, of>>

-----------------------------------------------------------------------------
(* listenAndServe.                                                         *)

\* started is read without the lock.
LoopCheck(g) ==
  /\ loop[g] = "begin"
  /\ \/ /\ started[of[g]]
        /\ loop' = [loop EXCEPT ![g] = "locking"] /\ UNCHANGED of
     \/ /\ ~started[of[g]]
        /\ loop' = [loop EXCEPT ![g] = "idle"] /\ of' = [of EXCEPT ![g] = None]
  /\ UNCHANGED <<lock, started, port>>

LoopLock(g) ==
  /\ loop[g] = "locking" /\ lock[of[g]] = None
  /\ lock' = [lock EXCEPT ![of[g]] = g]
  /\ loop' = [loop EXCEPT ![g] = "serving"]
  /\ UNCHANGED <<started, port, of>>

LoopStep(g) == LoopCheck(g) \/ LoopLock(g)
=============================================================================
