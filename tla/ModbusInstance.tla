--------------------------- MODULE ModbusInstance ---------------------------
(***************************************************************************)
(* One mbus channel instance (core/plugin/mbus/mbus.go): the mutex m.mu,   *)
(* the poller goroutine started by Init, and the callers of Close and      *)
(* UpdateConfig.  The poller never takes m.mu: it reads m.ctx, m.client    *)
(* and *(&m.cfg) directly, and only the WaitGroup orders it with Close.    *)
(*                                                                         *)
(* A configuration is [model, url]: model stands for every field a channel *)
(* row supplies, url for the field Init derives from it (Blank until then).*)
(***************************************************************************)
EXTENDS Naturals, FiniteSets

CONSTANTS Threads,   \* goroutines that call the instance's methods
          Pollers,   \* goroutine slots for runPoller
          Models,    \* channel models
          None,      \* no thread, no client, no value
          Blank,     \* an URL that was never derived
          Torn       \* what a racing reader of m.cfg may see: neither value

ASSUME ConstantsAssumption ==
  /\ None \notin Threads \cup Models
  /\ Blank \notin Models
  /\ Torn \notin Models \cup {None}

VARIABLES mu,        \* m.mu: the thread that holds it, or None
          created,   \* Init was called once (m.parentCtx # nil)
          init,      \* m.init
          ctx,       \* m.ctx: "nil", "live" or "cancelled" by m.cancel
          rootDone,  \* the parent context is cancelled
          client,    \* m.client: the model it was built from, or None
          linked,    \* m.client's transport is open
          strays,    \* transports still open that no client refers to
          cfg,       \* m.cfg
          status,    \* m.Status, the two flags
          pc,        \* where each caller is
          raw,       \* UpdateConfig's argument, per caller
          poller,    \* where each poller goroutine is
          reg,       \* runPoller's local regType (of which model)
          window     \* StartAddr and Quantity of the request in flight

callers == <<mu, pc, raw>>
object  == <<created, init, ctx, client, cfg>>
pollers == <<poller, reg, window, status>>
links   == <<linked, strays>>
vars == <<callers, object, pollers, links, rootDone>>

Configs == {c \in [model : Models, url : Models \cup {Blank}] : c.url \in {c.model, Blank}}

CallerPC == {"rest", "close", "closing", "update", "store",
             "updClose", "updClosing", "updCheck", "updInit"}
PollerPC == {"idle", "start", "top", "open", "select", "read", "wait"}

\* Where a caller of Close waits for the poller, and where it returns to.
Waiting(at) == IF at = "close" THEN "closing" ELSE "updClosing"
Resume(at)  == IF at = "closing" \/ at = "close" THEN "rest" ELSE "updCheck"

TypeOK ==
  /\ mu \in Threads \cup {None}
  /\ created \in BOOLEAN /\ init \in BOOLEAN /\ rootDone \in BOOLEAN
  /\ ctx \in {"nil", "live", "cancelled"}
  /\ client \in Models \cup {None}
  /\ linked \in BOOLEAN /\ strays \in Nat
  /\ cfg \in Configs
  /\ status \in [working : BOOLEAN, linking : BOOLEAN]
  /\ pc \in [Threads -> CallerPC]
  /\ raw \in [Threads -> Configs \cup {None}]
  /\ poller \in [Pollers -> PollerPC]
  /\ reg \in [Pollers -> Models \cup {None, Torn}]
  /\ window \in [Pollers -> Models \cup {None, Torn}]

\* m.ctx.Done() is closed: by m.cancel or through the parent.
Done == ctx = "cancelled" \/ rootDone

\* m.wg counts the goroutines that have not returned.
Alive == {g \in Pollers : poller[g] # "idle"}

\* An UpdateConfig that is assigning m.cfg races with every reader of it.
Storing == {t \in Threads : pc[t] = "store" /\ raw[t] # None
                                               /\ raw[t].model # cfg.model}
Seen == {cfg.model} \cup UNION {{raw[t].model, Torn} : t \in Storing}

-----------------------------------------------------------------------------
(***************************************************************************)
(* The factory's New, and the calls the host may make.  InstanceManager    *)
(* publishes an instance only after its Init (core/instances.go:59-70), so *)
(* the other methods are called only from then on.                         *)
(***************************************************************************)
Init ==
  /\ mu = None /\ created = FALSE /\ init = FALSE /\ ctx = "nil"
  /\ rootDone = FALSE /\ client = None /\ linked = FALSE /\ strays = 0
  /\ cfg \in {c \in Configs : c.url = Blank}
  /\ status = [working |-> FALSE, linking |-> FALSE]
  /\ pc = [t \in Threads |-> "rest"] /\ raw = [t \in Threads |-> None]
  /\ poller = [g \in Pollers |-> "idle"]
  /\ reg = [g \in Pollers |-> None] /\ window = [g \in Pollers |-> None]

Goto(t, at) == pc' = [pc EXCEPT ![t] = at]

CallClose(t) ==
  /\ created /\ pc[t] = "rest" /\ Goto(t, "close")
  /\ UNCHANGED <<mu, raw, object, pollers, links, rootDone>>

\* None stands for a nil argument or one of another type, which is ignored.
CallUpdate(t, new) ==
  /\ created /\ pc[t] = "rest" /\ Goto(t, "update")
  /\ raw' = [raw EXCEPT ![t] = new]
  /\ UNCHANGED <<mu, object, pollers, links, rootDone>>

RootCancel ==
  /\ ~rootDone /\ rootDone' = TRUE
  /\ UNCHANGED <<callers, object, pollers, links>>

-----------------------------------------------------------------------------
(***************************************************************************)
(* Init: all of it under m.mu.  A client is built for the derived URL and  *)
(* one poller is started; nothing happens when the instance is initialised.*)
(***************************************************************************)
InitBody ==
  \/ /\ init
     /\ UNCHANGED <<object, pollers, links>>
  \/ /\ ~init
     /\ \E g \in Pollers \ Alive :
          poller' = [poller EXCEPT ![g] = "start"]
     /\ cfg' = [cfg EXCEPT !.url = cfg.model]
     /\ client' = cfg.model
     /\ linked' = FALSE
     /\ strays' = strays + (IF linked THEN 1 ELSE 0)
     /\ ctx' = "live" /\ init' = TRUE /\ created' = TRUE
     /\ UNCHANGED <<reg, window, status>>

Create(t) ==
  /\ ~created /\ pc[t] = "rest" /\ mu = None
  /\ InitBody
  /\ UNCHANGED <<callers, rootDone>>

(***************************************************************************)
(* Close: cancel, then wait for the poller while holding m.mu, then drop   *)
(* the client and the context.                                             *)
(***************************************************************************)
CloseBegin(t) ==
  /\ pc[t] \in {"close", "updClose"} /\ mu = None
  /\ \/ /\ ~init
        /\ Goto(t, Resume(pc[t]))
        /\ UNCHANGED <<mu, ctx>>
     \/ /\ init
        /\ mu' = t /\ ctx' = "cancelled"
        /\ Goto(t, Waiting(pc[t]))
  /\ UNCHANGED <<raw, created, init, client, cfg, pollers, links, rootDone>>

\* m.wg.Wait() returns.
MutantWaitOver == TRUE  \* bug: Close does not wait for the poller
WaitOver == Alive = {}

CloseEnd(t) ==
  /\ pc[t] \in {"closing", "updClosing"} /\ WaitOver
  /\ linked' = FALSE /\ client' = None
  /\ ctx' = "nil" /\ init' = FALSE
  /\ mu' = None /\ Goto(t, Resume(pc[t]))
  /\ UNCHANGED <<raw, created, cfg, strays, pollers, rootDone>>

(***************************************************************************)
(* UpdateConfig: m.cfg is assigned under m.mu (not atomically with respect *)
(* to the poller), then the instance is closed and initialised again, each *)
(* call taking m.mu afresh.                                                *)
(***************************************************************************)
UpdateBegin(t) ==
  /\ pc[t] = "update" /\ mu = None
  /\ mu' = t /\ Goto(t, "store")
  /\ UNCHANGED <<raw, object, pollers, links, rootDone>>

MutantNewCfg(t) == raw[t]  \* bug: the argument's type is not looked at
NewCfg(t) == IF raw[t] = None THEN cfg ELSE raw[t]

\* bug: the new configuration is compared after it is assigned
MutantNeedRestart(t) == FALSE
NeedRestart(t) == NewCfg(t) # cfg

UpdateStore(t) ==
  /\ pc[t] = "store"
  /\ cfg' = NewCfg(t)
  /\ raw' = [raw EXCEPT ![t] = None]
  /\ mu' = None
  /\ Goto(t, IF NeedRestart(t) THEN "updClose" ELSE "rest")
  /\ UNCHANGED <<created, init, ctx, client, pollers, links, rootDone>>

\* bug: the parent is not checked before the restart
MutantUpdateCheck(t) ==
  /\ pc[t] = "updCheck" /\ Goto(t, "updInit")
  /\ UNCHANGED <<mu, raw, object, pollers, links, rootDone>>

UpdateCheck(t) ==
  /\ pc[t] = "updCheck"
  /\ Goto(t, IF rootDone THEN "rest" ELSE "updInit")
  /\ UNCHANGED <<mu, raw, object, pollers, links, rootDone>>

UpdateInit(t) ==
  /\ pc[t] = "updInit" /\ mu = None
  /\ InitBody
  /\ Goto(t, "rest")
  /\ UNCHANGED <<mu, raw, rootDone>>

-----------------------------------------------------------------------------
(***************************************************************************)
(* runPoller.  A select whose context is done may still take the other     *)
(* ready branch: Go chooses at random among the ready ones.                *)
(***************************************************************************)
Move(g, from, to) == poller[g] = from /\ poller' = [poller EXCEPT ![g] = to]

\* The goroutine returns: its locals are gone and m.wg.Done() runs.
Exit(g, from) == Move(g, from, "idle") /\ reg' = [reg EXCEPT ![g] = None]

\* m.client.Close() from the poller.
Disconnect == linked' = FALSE /\ UNCHANGED strays

Begin(g) ==
  /\ Move(g, "start", "top")
  /\ \E m \in Seen : reg' = [reg EXCEPT ![g] = m]
  /\ UNCHANGED <<callers, object, links, rootDone, window, status>>

TopExit(g) ==
  /\ Done /\ Exit(g, "top")
  /\ UNCHANGED <<callers, object, links, rootDone, window, status>>

TopOpen(g) ==
  /\ ~Done /\ Move(g, "top", "open")
  /\ status' = [working |-> TRUE, linking |-> FALSE]
  /\ UNCHANGED <<callers, object, links, rootDone, reg, window>>

\* Opening replaces the client's transport without closing an open one.
OpenOk(g) ==
  /\ Move(g, "open", "select")
  /\ linked' = TRUE
  /\ strays' = strays + (IF linked THEN 1 ELSE 0)
  /\ status' = [status EXCEPT !.linking = TRUE]
  /\ UNCHANGED <<callers, object, rootDone, reg, window>>

OpenFail(g) ==
  /\ Move(g, "open", "wait")
  /\ UNCHANGED <<callers, object, links, rootDone, reg, window, status>>

\* bugs: the inner loop ignores the context, or ends without closing the link
MutantSelectNever(g) == FALSE
MutantSelectDone(g) ==
  /\ Done /\ Exit(g, "select")
  /\ UNCHANGED <<callers, object, links, rootDone, window, status>>

SelectDone(g) ==
  /\ Done /\ Exit(g, "select")
  /\ Disconnect
  /\ UNCHANGED <<callers, object, rootDone, window, status>>

SelectTick(g) ==
  /\ Move(g, "select", "read")
  /\ \E m \in Seen : window' = [window EXCEPT ![g] = m]
  /\ UNCHANGED <<callers, object, links, rootDone, reg, status>>

ReadOk(g) ==
  /\ Move(g, "read", "select")
  /\ window' = [window EXCEPT ![g] = None]
  /\ UNCHANGED <<callers, object, links, rootDone, reg, status>>

ReadFail(g) ==
  /\ Move(g, "read", "wait")
  /\ window' = [window EXCEPT ![g] = None]
  /\ Disconnect
  /\ UNCHANGED <<callers, object, rootDone, reg, status>>

WaitExit(g) ==
  /\ Done /\ Exit(g, "wait")
  /\ UNCHANGED <<callers, object, links, rootDone, window, status>>

WaitRetry(g) ==
  /\ Move(g, "wait", "top")
  /\ UNCHANGED <<callers, object, links, rootDone, reg, window, status>>

PollerStep(g) ==
  \/ Begin(g) \/ TopExit(g) \/ TopOpen(g) \/ OpenOk(g) \/ OpenFail(g)
  \/ SelectDone(g) \/ SelectTick(g) \/ ReadOk(g) \/ ReadFail(g)
  \/ WaitExit(g) \/ WaitRetry(g)

CallerStep(t) ==
  CloseBegin(t) \/ CloseEnd(t) \/ UpdateBegin(t) \/ UpdateStore(t)
  \/ UpdateCheck(t) \/ UpdateInit(t)

Next ==
  \/ \E t \in Threads : \/ Create(t) \/ CallClose(t) \/ CallerStep(t)
                        \/ \E new \in Configs \cup {None} : CallUpdate(t, new)
  \/ \E g \in Pollers : PollerStep(g)
  \/ RootCancel

(***************************************************************************)
(* A goroutine that can run does (weak fairness).  A Go mutex in starvation*)
(* mode serves its waiters in turn, and a select whose Done branch is ready*)
(* again and again takes it some time: strong fairness for those two.      *)
(***************************************************************************)
Fairness ==
  /\ \A t \in Threads : SF_vars(CallerStep(t))
  /\ \A g \in Pollers : WF_vars(PollerStep(g)) /\ SF_vars(SelectDone(g))

Spec == Init /\ [][Next]_vars
FairSpec == Spec /\ Fairness

-----------------------------------------------------------------------------
(* Properties *)

\* m.mu is held exactly by the caller inside a critical section, and a caller
\* that waits for the poller has cancelled it.
Holding == {"closing", "updClosing", "store"}
MutexInv ==
  \A t \in Threads :
    /\ pc[t] \in Holding <=> mu = t
    /\ pc[t] \in {"closing", "updClosing"} => ctx = "cancelled" /\ init

\* What m.init stands for.
InitInv ==
  /\ init => client # None /\ ctx # "nil"
  /\ ~init => Alive = {} /\ ~linked

\* Two pollers never run at once on an instance, whatever the callers of
\* Close and UpdateConfig do: Close waits for the old one (mbus.go:217).
OnePoller == \A g, h \in Alive : g = h

\* A poller dereferences m.ctx and m.client without m.mu; neither is ever
\* nil under it (mbus.go:222-227 runs only after the WaitGroup).
NoNilDeref == Alive # {} => client # None /\ ctx # "nil"

\* Every open transport belongs to the current client and to a poller that
\* will close it: none is overwritten, dropped with its client, or left
\* behind by a poller that ended.
LinkOwned ==
  /\ strays = 0
  /\ linked <=> \E g \in Alive : poller[g] \in {"select", "read"}

\* Whatever the callers of Close and UpdateConfig do, in any interleaving
\* with the poller: one poller, on a client, that owns the open transport.
PollerSafe == OnePoller /\ NoNilDeref /\ LinkOwned

\* The restart rule of UpdateConfig (mbus.go:264-310): unless an update is
\* between its assignment of m.cfg and the end of its Close, the poller talks
\* to the device of the current configuration and reads the registers of that
\* configuration, however many updates and closes overlapped.
Changing == Storing # {} \/ \E t \in Threads : pc[t] \in {"updClose", "updClosing"}
Coherent(g) ==
  /\ client = cfg.model
  /\ poller[g] # "start" => reg[g] = cfg.model
  /\ poller[g] = "read" => window[g] = cfg.model
SettledConfig == ~Changing => \A g \in Alive : Coherent(g)

\* The inductive invariant.
IInv == TypeOK /\ MutexInv /\ InitInv /\ OnePoller /\ LinkOwned /\ SettledConfig

\* Close and UpdateConfig return, although Close waits for the poller and
\* everybody else for m.mu.
CallsReturn == \A t \in Threads : pc[t] # "rest" ~> pc[t] = "rest"

\* After the root context is cancelled polling ends for good, also when an
\* UpdateConfig had already passed its check of the parent (mbus.go:301).
RootStopsPolling == rootDone ~> [](Alive = {})

\* The instance keeps the lifecycle its host relies on.
Phase == IF Alive = {} THEN "stopped" ELSE IF Done THEN "stopping" ELSE "running"
Lifecycle == INSTANCE PollerLifecycle WITH phase <- Phase, link <- linked
LifecycleSpec == Lifecycle!Spec

=============================================================================
