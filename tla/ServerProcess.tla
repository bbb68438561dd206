---------------------------- MODULE ServerProcess ----------------------------
(***************************************************************************)
(* The server as an operating-system process: the boot order of            *)
(* cmd/server.go, the channel table that SyncSerials brings in line with   *)
(* the configured serial ports, the broker's port, the pid file of         *)
(* core/pid.go and the signal goroutine.  Several processes may start on   *)
(* one machine, one data directory and one pid file.  One of them may be   *)
(* that of the systemd unit (packaging/systemd), which starts it again     *)
(* when it has failed and not when it has ended well: of its two lines     *)
(* Restart= the later one counts, on-failure.                              *)
(*                                                                         *)
(* A process is its pid.  The pid of a dead server may be given to another *)
(* server or to any other program.                                         *)
(***************************************************************************)
EXTENDS Naturals, Sequences

CONSTANTS Pids,
          Lists,      \* the serial lists a configuration file may hold
          EditWhenUp, \* the file is edited while a server is alive
          MaxFaults,  \* bounds the errors, kills and signals
          None

\* The ports of a list: blank names are skipped, the first entry of a name counts.
Devices(list) == {list[i].device : i \in DOMAIN list} \ {""}
\* bug: a blank name is a name
MutantListed(list) ==
  {list[i] : i \in {i \in DOMAIN list :
                      \A k \in 1..i - 1 : list[k].device # list[i].device}}
Listed(list)  ==
  {list[i] : i \in {i \in DOMAIN list : /\ list[i].device # ""
                                        /\ \A k \in 1..i - 1 : list[k].device # list[i].device}}
Ports == UNION {{list[i] : i \in {i \in DOMAIN list : list[i].device # ""}}
                 : list \in Lists}

ASSUME ProcessAssumption ==
  /\ None \notin Pids \cup Ports /\ Pids \cap {"down", "failed"} = {}
  /\ MaxFaults \in Nat /\ EditWhenUp \in BOOLEAN
  /\ Lists \subseteq Seq([device : STRING, device2 : STRING])

VARIABLES pc,      \* each pid: free, another program, or how far the server is
          sig,     \* its signal goroutine
          config,  \* the configuration file's serial list
          serial,  \* the list each server has read
          chans,   \* the channels each server polls
          rows,    \* the table channel: device and device2 are unique
          broker,  \* the server that listens on port 1883, or None
          pidFile, \* the pid in the file, or None
          unit,    \* systemd's unit: its server, "down", or "failed", to be restarted
          faults

table == <<rows, config>>
locks == <<broker, pidFile>>
vars  == <<pc, sig, config, serial, chans, rows, broker, pidFile, unit, faults>>

Boot == {"sync", "mqtt", "probe", "write", "channels"}

TypeOK ==
  /\ pc \in [Pids -> Boot \cup {"free", "other", "run", "failed"}]
  /\ sig \in [Pids -> {"none", "ready", "cancelled", "removed"}]
  /\ config \in Lists /\ serial \in [Pids -> Lists]
  /\ rows \in SUBSET Ports /\ chans \in [Pids -> SUBSET Ports]
  /\ broker \in Pids \cup {None} /\ pidFile \in Pids \cup {None}
  /\ unit \in Pids \cup {"down", "failed"} /\ faults \in 0..MaxFaults

Init ==
  /\ config \in Lists
  /\ pc = [p \in Pids |-> "free"] /\ sig = [p \in Pids |-> "none"]
  /\ serial = [p \in Pids |-> config] /\ chans = [p \in Pids |-> {}] /\ rows = {}
  /\ broker = None /\ pidFile = None /\ unit = "down" /\ faults = 0

Alive(p) == pc[p] \in Boot \cup {"run", "failed"}
Goto(p, at) == pc' = [pc EXCEPT ![p] = at]

\* The kernel releases the port; the pid file and the table stay.  The result is
\* what the end is to systemd, if it is its server that died.
Died(p, result) ==
  /\ Goto(p, "free") /\ sig' = [sig EXCEPT ![p] = "none"]
  /\ chans' = [chans EXCEPT ![p] = {}]
  /\ broker' = IF broker = p THEN None ELSE broker
  /\ unit' = IF unit = p THEN result ELSE unit

-----------------------------------------------------------------------------
(***************************************************************************)
(* The machine: the file is edited, other programs come and go, errors,    *)
(* panics and SIGKILL end a server anywhere.                               *)
(***************************************************************************)
Fault == faults < MaxFaults /\ faults' = faults + 1

Edit ==
  /\ EditWhenUp \/ \A p \in Pids : ~Alive(p)
  /\ config' \in Lists \ {config} /\ Fault
  /\ UNCHANGED <<pc, sig, serial, chans, rows, locks, unit>>

\* The machine does not run out of pids.
OtherProgram(p) ==
  /\ \/ /\ pc[p] = "free" /\ \E q \in Pids \ {p} : pc[q] = "free"
        /\ Goto(p, "other") /\ Fault
     \/ pc[p] = "other" /\ Goto(p, "free") /\ UNCHANGED faults
  /\ UNCHANGED <<sig, serial, chans, table, locks, unit>>

\* systemd takes a death by SIGKILL or by a panic for a failure, one by SIGHUP or
\* by SIGTERM, before anyone listens for it, for a good end.
Kill(p) ==
  /\ Alive(p) /\ Fault /\ \E result \in {"failed", "down"} : Died(p, result)
  /\ UNCHANGED <<serial, table, pidFile>>

\* systemctl stop, before systemd has started the server again.
StopUnit ==
  /\ unit = "failed" /\ unit' = "down" /\ Fault
  /\ UNCHANGED <<pc, sig, serial, chans, table, locks>>

-----------------------------------------------------------------------------
(***************************************************************************)
(* The boot.  Logs, migration, root user and settings need nothing of the  *)
(* other processes' state modelled here.                                   *)
(***************************************************************************)
Start(p) ==
  /\ pc[p] = "free" /\ Goto(p, "sync")
  /\ serial' = [serial EXCEPT ![p] = config]
  /\ UNCHANGED <<sig, chans, table, locks, faults>>

\* The server is started by hand, or by systemctl start.
Launch(p) == Start(p) /\ (UNCHANGED unit \/ (unit = "down" /\ unit' = p))

\* Restart=on-failure
Restart(p) == unit = "failed" /\ Start(p) /\ unit' = p

(***************************************************************************)
(* SyncSerials, one transaction: a row whose device is listed is touched   *)
(* and otherwise kept as it is, missing ones are inserted, and only then   *)
(* the others deleted.  An insert that meets the device2 of any row, also  *)
(* of one that is about to go, undoes it all and ends the start.           *)
(***************************************************************************)
Kept(list) == {r \in rows : r.device \in Devices(list)}
New(list)  == {r \in Listed(list) : \A k \in rows : k.device # r.device}

Insertable(list) ==
  \A r \in New(list) : \A k \in (rows \cup New(list)) \ {r} : k.device2 # r.device2

\* bug: rows that are not listed any more stay
MutantSynced(list) == rows \cup New(list)
Synced(list) == Kept(list) \cup New(list)

SyncSerials(p) ==
  /\ pc[p] = "sync"
  /\ IF Insertable(serial[p])
     THEN rows' = Synced(serial[p]) /\ Goto(p, "mqtt")
     ELSE Goto(p, "failed") /\ UNCHANGED rows
  /\ UNCHANGED <<sig, config, serial, chans, locks, unit, faults>>

\* cobra.CheckErr prints the error and exits with 1, a failure to systemd.
CheckErr(p) ==
  /\ pc[p] = "failed" /\ Died(p, "failed")
  /\ UNCHANGED <<serial, table, pidFile, faults>>

\* bug: the broker's port is not taken yet
MutantPortFree == TRUE
PortFree == broker = None

\* The broker's listener is bound; then the signal goroutine starts.
ServerMQTT(p) ==
  /\ pc[p] = "mqtt"
  /\ IF PortFree
     THEN /\ broker' = p /\ sig' = [sig EXCEPT ![p] = "ready"] /\ Goto(p, "probe")
     ELSE Goto(p, "failed") /\ UNCHANGED <<broker, sig>>
  /\ UNCHANGED <<serial, chans, table, pidFile, unit, faults>>

\* bug: every pid exists, as the fallback for Windows says
MutantProcessExists(pid) == pid # None
\* kill(pid, 0): any program of that pid will do.
ProcessExists(pid) == pid # None /\ pc[pid] # "free"

\* CreatePidFile: the file is read and the pid in it probed ...
CreatePidFile(p) ==
  /\ pc[p] = "probe"
  /\ Goto(p, IF ProcessExists(pidFile) THEN "failed" ELSE "write")
  /\ UNCHANGED <<sig, serial, chans, table, locks, unit, faults>>

\* ... and replaced later, by a rename that looks no more.
WritePidFile(p) ==
  /\ pc[p] = "write" /\ pidFile' = p /\ Goto(p, "channels")
  /\ UNCHANGED <<sig, serial, chans, table, broker, unit, faults>>

\* An instance for every row of the table.
CreateInstances(p) ==
  /\ pc[p] = "channels" /\ Goto(p, "run")
  /\ chans' = [chans EXCEPT ![p] = rows]
  /\ UNCHANGED <<sig, serial, table, locks, unit, faults>>

-----------------------------------------------------------------------------
(***************************************************************************)
(* SIGTERM or SIGINT: the root context is cancelled, wg.Wait waits for     *)
(* nobody, the pid file is removed whatever it holds, and os.Exit(0) ends  *)
(* the process, which systemd takes for a good end.  The boot goes on      *)
(* meanwhile.                                                              *)
(***************************************************************************)
Terminate(p) ==
  /\ sig[p] = "ready" /\ sig' = [sig EXCEPT ![p] = "cancelled"] /\ Fault
  /\ UNCHANGED <<pc, serial, chans, table, locks, unit>>

RemovePidFile(p) ==
  /\ sig[p] = "cancelled" /\ sig' = [sig EXCEPT ![p] = "removed"]
  /\ pidFile' = None
  /\ UNCHANGED <<pc, serial, chans, table, broker, unit, faults>>

Exit(p) ==
  /\ sig[p] = "removed" /\ Died(p, "down")
  /\ UNCHANGED <<serial, table, pidFile, faults>>

-----------------------------------------------------------------------------
BootStep(p) ==
  \/ SyncSerials(p) \/ ServerMQTT(p) \/ CreatePidFile(p) \/ WritePidFile(p)
  \/ CreateInstances(p) \/ CheckErr(p)
SignalStep(p) == RemovePidFile(p) \/ Exit(p)

Next ==
  \/ Edit \/ StopUnit
  \/ \E p \in Pids : \/ Launch(p) \/ Restart(p) \/ BootStep(p) \/ SignalStep(p)
                     \/ Terminate(p) \/ Kill(p) \/ OtherProgram(p)

Spec == Init /\ [][Next]_vars

\* A runnable process runs, and systemd restarts a unit that has failed.  Nobody
\* has to start a server by hand, or one that has ended well.
FairSpec ==
  /\ Spec /\ WF_vars(\E p \in Pids : Restart(p))
  /\ \A p \in Pids : WF_vars(BootStep(p)) /\ WF_vars(SignalStep(p))

-----------------------------------------------------------------------------
Serving(p) == pc[p] \in {"channels", "run"}

(***************************************************************************)
(* While a server is up and not told to end, the pid file names it, which  *)
(* is whom logrotate's and systemd's kill will reach.  The probe and the   *)
(* rename of CreatePidFile may interleave, RemovePidFile does not look,    *)
(* and a pid may be used again: the broker's port, bound before, is what   *)
(* keeps a second server away from the file.                               *)
(***************************************************************************)
PidNamesServer ==
  \A p \in Pids : Serving(p) /\ sig[p] = "ready" => pidFile = p

(***************************************************************************)
(* A running server polls the devices of its configuration, each once, and *)
(* the table holds the same, although every other start, refused ones too, *)
(* brings the table in line first.  The file is not edited meanwhile.      *)
(***************************************************************************)
InstancesMatch ==
  \A p \in Pids : pc[p] = "run" =>
    /\ chans[p] = rows
    /\ {r.device : r \in rows} = Devices(serial[p])
    /\ \A r, k \in rows : r.device = k.device => r = k

\* The pid in a file that was left behind belongs to another program by now,
\* or to a server that is only starting.
StalePidInUse == pidFile # None /\ pc[pidFile] # "free" /\ ~Serving(pidFile)

(***************************************************************************)
(* Whatever was left behind by servers that were killed or refused, a      *)
(* server runs again and again, as long as the unit is not stopped, unless *)
(* the stale pid is in use again or the configured list gives a known      *)
(* device2 to a new device, which no start gets past until the file is     *)
(* edited.                                                                 *)
(***************************************************************************)
ServesAgain ==
  []<>(\/ \E p \in Pids : pc[p] = "run"
       \/ unit = "down" \/ StalePidInUse \/ ~Insertable(config))

\* pid.go: "If not exists (or stale pid file) -> write current pid to the
\* file": a start is refused for another process that exists, no other.
StaleIsReplaced ==
  [][\A p \in Pids : pc[p] = "probe" /\ pc'[p] = "failed" =>
       pidFile \in Pids \ {p} /\ pc[pidFile] # "free"]_vars

=============================================================================
