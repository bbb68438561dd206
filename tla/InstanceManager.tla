--------------------------- MODULE InstanceManager ---------------------------
(***************************************************************************)
(* core/instances.go: the registry of plugin instances and the goroutines  *)
(* that create, update and destroy them.  The manager's RWMutex is held    *)
(* for writing across the Close of an instance (Destroy, DestroyAll), but  *)
(* Create initialises an instance before it takes the lock and Update      *)
(* leaves it before it touches the instance it found.                      *)
(*                                                                         *)
(* An instance is seen as PollerLifecycle shows it, plus its own mutex and *)
(* init flag; its UpdateConfig keeps the steps it has in ModbusInstance.   *)
(***************************************************************************)
EXTENDS Naturals, FiniteSets

CONSTANTS Threads,    \* goroutines that call the manager
          Objects,    \* instance objects; an unreachable stopped one is reused
          Keys,       \* (type, id) pairs
          FreshKeys,  \* the host creates a key only when it is free
          NoOverlap,  \* the host destroys nothing while an update is going on
          None

Methods == {"Create", "Update", "Destroy", "DestroyAll"}

ASSUME ManagerAssumption ==
  /\ None \notin Threads \cup Objects \cup Keys \cup Methods
  /\ FreshKeys \in BOOLEAN /\ NoOverlap \in BOOLEAN

VARIABLES lock,      \* m.mu held for writing by this thread, or None
          instances, \* m.instances, flattened to one level of keys
          rootDone,  \* rootCtx is cancelled
          mu, init,  \* each instance's mutex holder and init flag
          phase,     \* each instance's poller
          pc, op, key, obj  \* each caller: where it is, in which method, on what

registry == <<lock, instances>>
objects  == <<mu, init, phase>>
callers  == <<pc, op, key, obj>>
vars == <<registry, objects, callers, rootDone>>

CallerPC == {"rest", "insert", "update", "close", "wait", "check", "init",
             "delete", "pick"}

TypeOK ==
  /\ lock \in Threads \cup {None}
  /\ instances \in [Keys -> Objects \cup {None}]
  /\ rootDone \in BOOLEAN
  /\ mu \in [Objects -> Threads \cup {None}]
  /\ init \in [Objects -> BOOLEAN]
  /\ phase \in [Objects -> {"stopped", "running", "stopping"}]
  /\ pc \in [Threads -> CallerPC]
  /\ op \in [Threads -> Methods \cup {None}]
  /\ key \in [Threads -> Keys \cup {None}]
  /\ obj \in [Threads -> Objects \cup {None}]
  /\ \A t \in Threads : pc[t] \in {"rest", "pick"} <=> obj[t] = None

Init ==
  /\ lock = None /\ instances = [k \in Keys |-> None] /\ rootDone = FALSE
  /\ mu = [o \in Objects |-> None] /\ init = [o \in Objects |-> FALSE]
  /\ phase = [o \in Objects |-> "stopped"]
  /\ pc = [t \in Threads |-> "rest"] /\ op = [t \in Threads |-> None]
  /\ key = [t \in Threads |-> None] /\ obj = [t \in Threads |-> None]

Registered == {instances[k] : k \in Keys} \ {None}
InHand     == {obj[t] : t \in Threads} \ {None}

Goto(t, at) == pc' = [pc EXCEPT ![t] = at]

Call(t, method, at, k, o) ==
  /\ pc[t] = "rest"
  /\ Goto(t, at) /\ op' = [op EXCEPT ![t] = method]
  /\ key' = [key EXCEPT ![t] = k] /\ obj' = [obj EXCEPT ![t] = o]

Return(t) ==
  /\ Goto(t, "rest") /\ op' = [op EXCEPT ![t] = None]
  /\ key' = [key EXCEPT ![t] = None] /\ obj' = [obj EXCEPT ![t] = None]

-----------------------------------------------------------------------------
(***************************************************************************)
(* The poller of an instance: it ends once it is told to, directly or by   *)
(* the root context all instances share.                                   *)
(***************************************************************************)
Start(o) == phase' = [phase EXCEPT ![o] = IF rootDone THEN "stopping" ELSE "running"]

Told(p) == IF p = "running" THEN "stopping" ELSE p

PollerEnds(o) ==
  /\ phase[o] = "stopping"
  /\ phase' = [phase EXCEPT ![o] = "stopped"]
  /\ UNCHANGED <<registry, mu, init, callers, rootDone>>

RootCancel ==
  /\ ~rootDone /\ rootDone' = TRUE
  /\ phase' = [o \in Objects |-> Told(phase[o])]
  /\ UNCHANGED <<registry, mu, init, callers>>

-----------------------------------------------------------------------------
(***************************************************************************)
(* Create: the factory's New and the instance's Init come first, the entry *)
(* after; an entry that is there already is replaced without a word.       *)
(***************************************************************************)
MutantCreating(k) == FALSE  \* bug: two Creates of one key at once
Creating(k) == \E t \in Threads : op[t] = "Create" /\ key[t] = k

Create(t, k, o) ==
  /\ o \notin Registered \cup InHand /\ phase[o] = "stopped" /\ ~init[o]
  /\ FreshKeys => instances[k] = None /\ ~Creating(k)
  /\ Call(t, "Create", "insert", k, o)
  /\ init' = [init EXCEPT ![o] = TRUE] /\ Start(o)
  /\ UNCHANGED <<registry, mu, rootDone>>

Insert(t) ==
  /\ pc[t] = "insert" /\ lock = None
  /\ instances' = [instances EXCEPT ![key[t]] = obj[t]]
  /\ Return(t)
  /\ UNCHANGED <<lock, objects, rootDone>>

(***************************************************************************)
(* Update: the read lock covers the look-up only.  UpdateConfig then       *)
(* assigns the configuration under the instance's mutex, and closes and    *)
(* initialises the instance again if anything changed.                     *)
(***************************************************************************)
Update(t, k) ==
  /\ lock = None /\ instances[k] # None
  /\ Call(t, "Update", "update", k, instances[k])
  /\ UNCHANGED <<registry, objects, rootDone>>

UpdateStore(t) ==
  /\ pc[t] = "update" /\ mu[obj[t]] = None
  /\ \/ Goto(t, "close") /\ UNCHANGED <<op, key, obj>>
     \/ Return(t)
  /\ UNCHANGED <<registry, objects, rootDone>>

UpdateCheck(t) ==
  /\ pc[t] = "check"
  /\ \/ rootDone /\ Return(t)
     \/ ~rootDone /\ Goto(t, "init") /\ UNCHANGED <<op, key, obj>>
  /\ UNCHANGED <<registry, objects, rootDone>>

\* Init does nothing when another call was faster, and it may fail, as cmbus's
\* does for a serial channel without a device name.
UpdateInit(t) ==
  /\ pc[t] = "init" /\ mu[obj[t]] = None
  /\ \/ UNCHANGED <<init, phase>>
     \/ ~init[obj[t]] /\ init' = [init EXCEPT ![obj[t]] = TRUE] /\ Start(obj[t])
  /\ Return(t)
  /\ UNCHANGED <<registry, mu, rootDone>>

(***************************************************************************)
(* The instance's Close, called by UpdateConfig, Destroy and DestroyAll:   *)
(* its mutex is held until the poller has ended.                           *)
(***************************************************************************)
Closed(t) == /\ Goto(t, IF op[t] = "Update" THEN "check" ELSE "delete")
             /\ UNCHANGED <<op, key, obj>>

CloseBegin(t) ==
  /\ pc[t] = "close" /\ mu[obj[t]] = None
  /\ \/ /\ ~init[obj[t]] /\ Closed(t)
        /\ UNCHANGED <<mu, phase>>
     \/ /\ init[obj[t]] /\ Goto(t, "wait") /\ UNCHANGED <<op, key, obj>>
        /\ mu' = [mu EXCEPT ![obj[t]] = t]
        /\ phase' = [phase EXCEPT ![obj[t]] = Told(@)]
  /\ UNCHANGED <<registry, init, rootDone>>

\* bug: Close returns before the poller has ended
MutantWaitOver(o) == TRUE
WaitOver(o) == phase[o] = "stopped"

CloseEnd(t) ==
  /\ pc[t] = "wait" /\ WaitOver(obj[t])
  /\ init' = [init EXCEPT ![obj[t]] = FALSE]
  /\ mu' = [mu EXCEPT ![obj[t]] = None]
  /\ Closed(t)
  /\ UNCHANGED <<registry, phase, rootDone>>

(***************************************************************************)
(* Destroy and DestroyAll: under the manager's lock from the look-up to    *)
(* the removal of the entry.                                               *)
(***************************************************************************)
Updating == \E t \in Threads : op[t] = "Update"

\* bug: the entry is not looked for
MutantDestroyMissing(t, k) ==
  /\ lock = None /\ (NoOverlap => ~Updating)
  /\ Call(t, "Destroy", "close", k, instances[k])
  /\ lock' = t
  /\ UNCHANGED <<instances, objects, rootDone>>

Destroy(t, k) ==
  /\ lock = None /\ instances[k] # None /\ (NoOverlap => ~Updating)
  /\ Call(t, "Destroy", "close", k, instances[k])
  /\ lock' = t
  /\ UNCHANGED <<instances, objects, rootDone>>

DestroyAll(t) ==
  /\ lock = None /\ (NoOverlap => ~Updating)
  /\ Call(t, "DestroyAll", "pick", None, None)
  /\ lock' = t
  /\ UNCHANGED <<instances, objects, rootDone>>

\* bug: the loop stops after some of the instances
MutantNextEntry(t) ==
  /\ pc[t] = "pick"
  /\ lock' = None /\ Return(t)
  /\ UNCHANGED <<instances, objects, rootDone>>

\* The loop takes the entries in any order (a Go map's).
NextEntry(t) ==
  /\ pc[t] = "pick"
  /\ \/ /\ Registered = {}
        /\ lock' = None /\ Return(t)
     \/ \E k \in {j \in Keys : instances[j] # None} :
          /\ Goto(t, "close") /\ UNCHANGED <<op, lock>>
          /\ key' = [key EXCEPT ![t] = k] /\ obj' = [obj EXCEPT ![t] = instances[k]]
  /\ UNCHANGED <<instances, objects, rootDone>>

\* bug: Destroy forgets the lock on its way out
MutantDelete(t) ==
  /\ pc[t] = "delete"
  /\ instances' = [instances EXCEPT ![key[t]] = None]
  /\ UNCHANGED lock /\ Return(t)
  /\ UNCHANGED <<objects, rootDone>>

Delete(t) ==
  /\ pc[t] = "delete"
  /\ instances' = [instances EXCEPT ![key[t]] = None]
  /\ \/ op[t] = "Destroy" /\ lock' = None /\ Return(t)
     \/ /\ op[t] = "DestroyAll" /\ Goto(t, "pick") /\ UNCHANGED <<lock, op>>
        /\ key' = [key EXCEPT ![t] = None] /\ obj' = [obj EXCEPT ![t] = None]
  /\ UNCHANGED <<objects, rootDone>>

-----------------------------------------------------------------------------
CallerStep(t) ==
  \/ Insert(t) \/ UpdateStore(t) \/ UpdateCheck(t) \/ UpdateInit(t)
  \/ CloseBegin(t) \/ CloseEnd(t) \/ NextEntry(t) \/ Delete(t)

Next ==
  \/ \E t \in Threads :
       \/ CallerStep(t) \/ DestroyAll(t)
       \/ \E k \in Keys : \/ Update(t, k) \/ Destroy(t, k)
                          \/ \E o \in Objects : Create(t, k, o)
  \/ \E o \in Objects : PollerEnds(o)
  \/ RootCancel

(***************************************************************************)
(* Goroutines run, a poller that was told to end does (PollerLifecycle's   *)
(* promise), and Go's mutexes serve their waiters in turn: strong fairness *)
(* for a caller, whose steps wait for one.                                 *)
(***************************************************************************)
Fairness ==
  /\ \A t \in Threads : SF_vars(CallerStep(t))
  /\ \A o \in Objects : WF_vars(PollerEnds(o))

Spec == Init /\ [][Next]_vars
FairSpec == Spec /\ Fairness

-----------------------------------------------------------------------------
(* Properties *)

\* "InstanceManager manages all plugin instances in the process"
\* (instances.go:11-12): every poller belongs to an instance that is in the
\* registry or that a Create is about to put there.  It depends on what the
\* host does: see the runs.
AllManaged ==
  \A o \in Objects : phase[o] # "stopped" =>
    \/ o \in Registered
    \/ \E t \in Threads : op[t] = "Create" /\ obj[t] = o

\* An entry leaves the registry only when its instance is closed
\* (instances.go:148-152, 113-114).
RemovedClosed ==
  [][\A k \in Keys : instances[k] # None /\ instances'[k] # instances[k] =>
       phase[instances[k]] = "stopped" /\ ~init[instances[k]]]_vars

\* Every call of the manager returns, although Destroy and DestroyAll hold
\* the manager's lock while they wait for an instance's mutex and its poller.
CallsReturn == \A t \in Threads : pc[t] # "rest" ~> pc[t] = "rest"

\* A DestroyAll gets to an empty registry, whatever else is going on.
DestroyAllEmpties ==
  \A t \in Threads : op[t] = "DestroyAll" ~> op[t] = "DestroyAll" /\ Registered = {}

(***************************************************************************)
(* The inductive invariant behind AllManaged and RemovedClosed, for a host *)
(* with both disciplines.                                                  *)
(***************************************************************************)
Destroying(t) == op[t] \in {"Destroy", "DestroyAll"}
MethodInv ==
  /\ \A t \in Threads :
       /\ op[t] = None <=> pc[t] = "rest"
       /\ op[t] = "Create" <=> pc[t] = "insert"
       /\ pc[t] \in {"update", "check", "init"} => op[t] = "Update"
       /\ pc[t] \in {"delete", "pick"} => Destroying(t)
       /\ Destroying(t) <=> lock = t
  /\ lock # None => ~Updating
EntryInv ==
  \A t \in Threads :
    /\ op[t] \notin {None, "Create"} /\ obj[t] # None =>
         key[t] \in Keys /\ instances[key[t]] = obj[t]
    /\ op[t] = "Create" => key[t] \in Keys /\ instances[key[t]] = None
    /\ pc[t] = "delete" => phase[obj[t]] = "stopped" /\ ~init[obj[t]]
CreateInv ==
  \A s, t \in Threads :
    op[s] = "Create" /\ op[t] = "Create" /\ key[s] = key[t] => s = t
IdleInv == \A o \in Objects : ~init[o] => phase[o] = "stopped"
IInv == TypeOK /\ MethodInv /\ EntryInv /\ CreateInv /\ IdleInv /\ AllManaged
=============================================================================
