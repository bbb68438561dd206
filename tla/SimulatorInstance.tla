------------------------- MODULE SimulatorInstance -------------------------
(***************************************************************************)
(* One cmbus channel instance (core/plugin/cmbus/cmbus.go) on the servers  *)
(* of RtuServer: Init, the goroutine that starts and stops the server, and *)
(* the callers of Close and UpdateConfig, which take m.mu.                 *)
(***************************************************************************)
EXTENDS RtuServer

CONSTANTS Threads,   \* goroutines that call the instance's methods
          Pollers,   \* goroutine slots for runPoller
          Serial,    \* channels on a serial device
          Unnamed,   \* serial channels without a device name
          Tcp        \* channels on TCP

Channels == Serial \cup Unnamed \cup Tcp

ASSUME SimulatorAssumption ==
  /\ None \notin Threads \cup Channels
  /\ Serial \cap (Unnamed \cup Tcp) = {} /\ Unnamed \cap Tcp = {}

VARIABLES mu,        \* m.mu: the thread that holds it, or None
          init,      \* m.init
          ctx,       \* m.ctx: "nil", "live" or "cancelled" by m.cancel
          rootDone,  \* the parent context is cancelled
          server1,   \* m.server1
          cfg,       \* m.cfg: its channel; the other fields are left out
          created,   \* Init succeeded once: the host knows the instance
          pc,        \* each caller: where it is
          poller,    \* each poller goroutine: where it is,
          mine,      \*   and the channel of its copy of the configuration
          panicked   \* a goroutine dereferenced nil: the process is gone

pollers == <<poller, mine>>
object == <<init, ctx, server1, cfg, created>>
vars == <<rtu, mu, object, rootDone, pc, pollers, panicked>>

TypeOK ==
  /\ RtuTypeOK
  /\ mu \in Threads \cup {None} /\ init \in BOOLEAN /\ rootDone \in BOOLEAN
  /\ ctx \in {"nil", "live", "cancelled"} /\ server1 \in Servers \cup {None}
  /\ cfg \in Channels /\ created \in BOOLEAN /\ panicked \in BOOLEAN
  /\ pc \in [Threads -> {"rest", "close", "closing", "ending", "update", "updClose",
                         "updClosing", "updEnding", "updCheck", "updInit"}]
  /\ poller \in [Pollers -> {"idle", "top", "start", "wait", "select", "stop"}]
  /\ mine \in [Pollers -> Channels \cup {None}]

Init ==
  /\ RtuInit
  /\ mu = None /\ init = FALSE /\ ctx = "nil" /\ rootDone = FALSE
  /\ server1 = None /\ cfg \in Channels /\ created = FALSE
  /\ pc = [t \in Threads |-> "rest"]
  /\ poller = [p \in Pollers |-> "idle"] /\ mine = [p \in Pollers |-> None]
  /\ panicked = FALSE

Done == ctx = "cancelled" \/ rootDone
Alive == {p \in Pollers : poller[p] # "idle"}
Goto(t, at) == pc' = [pc EXCEPT ![t] = at]

-----------------------------------------------------------------------------
(***************************************************************************)
(* The instance is published only after a first Init that succeeded.       *)
(***************************************************************************)
CallClose(t) ==
  /\ created /\ pc[t] = "rest" /\ Goto(t, "close")
  /\ UNCHANGED <<rtu, mu, object, rootDone, pollers, panicked>>

CallUpdate(t) ==
  /\ created /\ pc[t] = "rest" /\ Goto(t, "update")
  /\ UNCHANGED <<rtu, mu, object, rootDone, pollers, panicked>>

RootCancel ==
  /\ ~rootDone /\ rootDone' = TRUE
  /\ UNCHANGED <<rtu, mu, object, pc, pollers, panicked>>

\* Init: an RTU server for a serial channel; for TCP a server2, which nothing
\* ever starts, so m.server1 stays as Close left it.
InitBody ==
  \/ init /\ UNCHANGED <<rtu, object, pollers>>
  \/ /\ ~init /\ ctx' = "live" /\ UNCHANGED cfg
     /\ \/ /\ cfg \in Unnamed  \* NewRTUServer's error is returned
           /\ server1' = None
           /\ UNCHANGED <<rtu, init, created, pollers>>
        \/ /\ cfg \notin Unnamed
           /\ \/ /\ cfg \in Serial
                 /\ \E s \in Servers \ {server1} : server1' = s /\ NewRTUServer(s)
              \/ cfg \in Tcp /\ UNCHANGED <<rtu, server1>>
           /\ \E p \in AnyOf(Pollers \ Alive) :
                /\ poller' = [poller EXCEPT ![p] = "top"]
                /\ mine' = [mine EXCEPT ![p] = cfg]
           /\ init' = TRUE /\ created' = TRUE

Create(t) ==
  /\ ~created /\ pc[t] = "rest" /\ mu = None /\ cfg \notin Unnamed
  /\ InitBody
  /\ UNCHANGED <<mu, rootDone, pc, panicked>>

\* Close called by the host, or by UpdateConfig.
Via(at, plain, updating) == IF at \in {"close", "closing", "ending"} THEN plain ELSE updating

\* bug: the early return does not unlock m.mu
MutantCloseBegin(t) ==
  /\ pc[t] \in {"close", "updClose"} /\ mu = None /\ mu' = t
  /\ \/ ~init /\ Goto(t, Via(pc[t], "rest", "updCheck")) /\ UNCHANGED ctx
     \/ init /\ ctx' = "cancelled" /\ Goto(t, Via(pc[t], "closing", "updClosing"))
  /\ UNCHANGED <<rtu, init, server1, cfg, created, rootDone, pollers, panicked>>

CloseBegin(t) ==
  /\ pc[t] \in {"close", "updClose"} /\ mu = None
  /\ \/ /\ ~init /\ Goto(t, Via(pc[t], "rest", "updCheck"))
        /\ UNCHANGED <<mu, ctx>>
     \/ /\ init /\ mu' = t /\ ctx' = "cancelled"
        /\ Goto(t, Via(pc[t], "closing", "updClosing"))
  /\ UNCHANGED <<rtu, init, server1, cfg, created, rootDone, pollers, panicked>>

\* m.wg.Wait() returns.
MutantWaitOver == TRUE  \* bug: Close does not wait for the poller
WaitOver == Alive = {}

\* Close waits for the poller, stops the server once more, and is done.
CloseWait(t) ==
  /\ pc[t] \in {"closing", "updClosing"} /\ WaitOver
  /\ Goto(t, Via(pc[t], "ending", "updEnding"))
  /\ UNCHANGED <<rtu, mu, object, rootDone, pollers, panicked>>

CloseEnd(t) ==
  /\ pc[t] \in {"ending", "updEnding"}
  /\ \/ server1 = None /\ UNCHANGED rtu
     \/ server1 # None /\ Stop(server1)
  /\ server1' = None /\ ctx' = "nil" /\ init' = FALSE /\ mu' = None
  /\ Goto(t, Via(pc[t], "rest", "updCheck"))
  /\ UNCHANGED <<cfg, created, rootDone, pollers, panicked>>

\* bug: the argument's type is not looked at
MutantUpdateStore(t) ==
  /\ pc[t] = "update" /\ mu = None
  /\ cfg' = None /\ Goto(t, "updClose")
  /\ UNCHANGED <<rtu, mu, init, ctx, server1, created, rootDone, pollers, panicked>>

\* UpdateConfig: a changed configuration closes and initialises again.  One
\* for the same channel may differ in the fields left out; one that is nil or of
\* another type changes nothing.
UpdateStore(t) ==
  /\ pc[t] = "update" /\ mu = None
  /\ \/ Goto(t, "rest") /\ UNCHANGED cfg
     \/ cfg' \in Channels /\ Goto(t, "updClose")
  /\ UNCHANGED <<rtu, mu, init, ctx, server1, created, rootDone, pollers, panicked>>

UpdateCheck(t) ==
  /\ pc[t] = "updCheck" /\ Goto(t, IF rootDone THEN "rest" ELSE "updInit")
  /\ UNCHANGED <<rtu, mu, object, rootDone, pollers, panicked>>

UpdateInit(t) ==
  /\ pc[t] = "updInit" /\ mu = None
  /\ InitBody /\ Goto(t, "rest")
  /\ UNCHANGED <<mu, rootDone, panicked>>

-----------------------------------------------------------------------------
(* runPoller.                                                              *)
Move(p, from, to) ==
  /\ poller[p] = from /\ poller' = [poller EXCEPT ![p] = to]
  /\ mine' = IF to = "idle" THEN [mine EXCEPT ![p] = None] ELSE mine
  /\ UNCHANGED <<mu, object, rootDone, pc>>

\* bug: the context is looked at only after a failed start
MutantTop(p) == Move(p, "top", "start") /\ UNCHANGED <<rtu, panicked>>

Top(p) ==
  /\ Move(p, "top", IF Done THEN "idle" ELSE "start")
  /\ UNCHANGED <<rtu, panicked>>

StartServer(p) ==
  \/ /\ server1 # None /\ Move(p, "start", "select")
     /\ StartOk(server1) /\ UNCHANGED panicked
  \/ /\ server1 # None /\ Move(p, "start", "wait")
     /\ StartFail(server1) /\ UNCHANGED panicked
  \/ /\ server1 = None /\ Move(p, "start", "start")
     /\ panicked' = TRUE /\ UNCHANGED rtu

\* sleepWithContext: two seconds, or the context ends it.
Wait(p) ==
  /\ \/ Move(p, "wait", "top")
     \/ Done /\ Move(p, "wait", "idle")
  /\ UNCHANGED <<rtu, panicked>>

\* The inner loop only waits for the context; its ticks do nothing.
SelectDone(p) == Done /\ Move(p, "select", "stop") /\ UNCHANGED <<rtu, panicked>>

StopServer(p) ==
  /\ Move(p, "stop", "idle") /\ Stop(server1) /\ UNCHANGED panicked

PollerStep(p) == Top(p) \/ StartServer(p) \/ Wait(p) \/ SelectDone(p) \/ StopServer(p)

CallerStep(t) ==
  CloseBegin(t) \/ CloseWait(t) \/ CloseEnd(t) \/ UpdateStore(t)
  \/ UpdateCheck(t) \/ UpdateInit(t)

ServerStep(g) ==
  /\ LoopStep(g)
  /\ UNCHANGED <<mu, object, rootDone, pc, pollers, panicked>>

Next ==
  /\ ~panicked
  /\ \/ \E t \in Threads : \/ Create(t) \/ CallClose(t) \/ CallUpdate(t) \/ CallerStep(t)
     \/ \E p \in Pollers : PollerStep(p)
     \/ \E g \in Loops : ServerStep(g)
     \/ RootCancel

(***************************************************************************)
(* A goroutine that can run does; a mutex serves its waiters in turn.      *)
(***************************************************************************)
Fairness ==
  /\ \A t \in Threads : SF_vars(~panicked /\ CallerStep(t))
  /\ \A p \in Pollers : WF_vars(~panicked /\ PollerStep(p))
  /\ \A g \in Loops : WF_vars(~panicked /\ ServerStep(g))

Spec == Init /\ [][Next]_vars
FairSpec == Spec /\ Fairness

-----------------------------------------------------------------------------
(* Properties *)

\* The poller of a serial channel never finds m.server1 nil, nor meets another
\* poller, although Close and UpdateConfig replace the server (cmbus.go:249).
PollerHasServer ==
  /\ \A p, q \in Alive : p = q
  /\ \A p \in Alive : mine[p] \in Serial => server1 # None /\ ~panicked

\* An open serial port belongs to the current server and to a poller that will
\* stop it: a restart never finds its device held by an earlier server.
PortOwned ==
  \A s \in Servers : port[s] = "open" =>
    s = server1 /\ \E p \in Pollers : poller[p] \in {"select", "stop"}

\* The poller, its server and the open port belong together through every
\* overlap of Close and UpdateConfig.
ServerOwned == PollerHasServer /\ PortOwned

\* A call of Close that waits for a poller whose server's lock is taken.
Stuck(t) ==
  /\ pc[t] \in {"closing", "updClosing"}
  /\ \E p \in Pollers : poller[p] \in {"select", "stop"}
  /\ server1 # None /\ lock[server1] # None

\* The mutex belongs to the caller that closes the instance, and once that one
\* has waited there is no poller.
Closing(t) == pc[t] \in {"closing", "updClosing", "ending", "updEnding"}
MutexInv ==
  \A t \in Threads :
    /\ Closing(t) <=> mu = t
    /\ Closing(t) => init /\ ctx = "cancelled"
    /\ pc[t] \in {"ending", "updEnding"} => Alive = {}

\* A closed instance has neither poller nor server; a poller that has started
\* a server has one, and ends only when it was told to.
InitInv ==
  /\ ~init => Alive = {} /\ server1 = None
  /\ \A p \in Pollers : poller[p] \in {"select", "stop"} => server1 # None
  /\ \A p \in Pollers : poller[p] = "stop" => Done
  /\ panicked => server1 = None
  /\ \A s \in Servers : port[s] = "open" => started[s]

\* A server's lock is held by its serving loop.
LockInv ==
  \A s \in Servers : lock[s] # None =>
    lock[s] \in Loops /\ loop[lock[s]] = "serving" /\ of[lock[s]] = s

\* The inductive invariant.
IInv == TypeOK /\ MutexInv /\ InitInv /\ ServerOwned /\ LockInv

\* The only thing that keeps a call from returning is a serving loop, which
\* holds its server's lock for ever: no other wait of Close, UpdateConfig or
\* the poller is endless.
OnlyServingBlocks ==
  \A t \in Threads :
    pc[t] # "rest" ~>
      (pc[t] = "rest" \/ panicked \/ \E g \in Loops : loop[g] = "serving")

\* After the root context is cancelled no poller starts a server any more.
RootStopsStarting ==
  rootDone ~> [](panicked \/ \A p \in Pollers : poller[p] \in {"idle", "stop"})

\* "Close: stop poller and close client" (cmbus.go:235).  It does not hold:
\* Stop waits for the lock that the serving loop keeps, the poller waits in
\* Stop, and Close waits for the poller with m.mu held.
CallsReturn == \A t \in Threads : pc[t] # "rest" ~> pc[t] = "rest"

\* The instance as its host sees it: the poller, and the open serial port.
Phase == IF Alive = {} THEN "stopped" ELSE IF Done THEN "stopping" ELSE "running"
Linked == \E s \in Servers : port[s] = "open"

=============================================================================
