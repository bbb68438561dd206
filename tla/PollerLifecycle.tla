--------------------------- MODULE PollerLifecycle ---------------------------
(***************************************************************************)
(* What a plugin instance promises its host (pluginapi/types.go:24-31):    *)
(* Init starts one poller, the poller alone opens and closes the field     *)
(* link, and once the poller's context is cancelled the poller ends and    *)
(* takes the link down with it.  Nothing is said here of mutexes, contexts *)
(* or configurations: ModbusInstance shows how mbus.go keeps the promise,  *)
(* InstanceManager relies on it.                                           *)
(***************************************************************************)
VARIABLES phase,  \* "stopped": no poller; "running"; "stopping": told to end
          link    \* the poller's connection to the device is open

vars == <<phase, link>>

Phases == {"stopped", "running", "stopping"}

TypeOK == phase \in Phases /\ link \in BOOLEAN

Init == phase = "stopped" /\ link = FALSE

\* A poller may be born cancelled: its parent context may be done already.
Start == /\ phase = "stopped"
         /\ phase' \in {"running", "stopping"}
         /\ UNCHANGED link

\* A poller that is being stopped may still complete a dial it had begun.
LinkUp == phase # "stopped" /\ ~link /\ link' = TRUE /\ UNCHANGED phase

LinkDown == phase # "stopped" /\ link /\ link' = FALSE /\ UNCHANGED phase

Cancel == phase = "running" /\ phase' = "stopping" /\ UNCHANGED link

Stop == phase = "stopping" /\ phase' = "stopped" /\ link' = FALSE

Next == Start \/ LinkUp \/ LinkDown \/ Cancel \/ Stop

Spec == Init /\ [][Next]_vars /\ WF_vars(Stop)
=============================================================================
