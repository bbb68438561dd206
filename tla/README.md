# gridbeat in TLA+

Models of gridbeat: its field bus (instances that poll Modbus devices, the
simulator, both servers, the client and its transports) and what surrounds it
(the server process, settings, users and tokens). They are checked with TLC on
small instances and, for safety, most of them are proved with TLAPS for every
size.

## The system

gridbeat is one process. `cmd/server.go` opens the database, registers the
plugin factories, starts the MQTT broker and the HTTP server, and creates one
plugin instance per channel row. An instance of type `mbus` polls a Modbus
device; with the simulator on, an instance of type `cmbus` also plays the device.
The REST handlers read and write the database. Several server processes, and the
command `reset-password`, may be started on one machine and one database; the pid
file and the broker's port are what keeps a second server out.

| component | state | operations | interacts through |
|---|---|---|---|
| mbus instance (`core/plugin/mbus`) | mutex, context, client, configuration, status, one poller | Init, Close, UpdateConfig, Get, poller loop | the client; the root context |
| cmbus instance (`core/plugin/cmbus`) | the same with an RTU or a TCP server, and register arrays | the same, four request handlers | the servers, which call the handlers |
| instance manager (`core/instances.go`) | map of instances, RWMutex | Create, Update, Destroy, DestroyAll, Get | calls of Instance methods under its lock |
| TCP server (`utils/modbus/server.go`) | started flag, listener, slice of connections | Start, Stop, accept loop, one handler per connection, request validation | sockets, the request handler |
| RTU server (`utils/modbus/server_rtu.go`) | lock, started flag, port | Start, Stop, one serving goroutine | the serial port, the request handler |
| client and transports (`utils/modbus`) | connection, transaction id, deadline, bytes not read yet | Open, Close, reads and writes | request and answer frames |
| encoding, CRC | none | pure functions | |
| server process (`cmd/server.go`, `core/pid.go`) | pid file, broker's port, signal goroutine, root context | start-up sequence, SIGTERM, SIGUSR1 | everything |
| log files (`pluginapi/logger.go`) | four files | Reopen, Close | all loggers |
| settings (`internal/api/handler_setting.go`) | rows with a unique name | create, update, upsert, delete | SQL statements of requests and of a starting server |
| database start-up (`internal/db`, `models/migrate.go`) | serial channels, default settings, the root user | SyncSerials, SeedDefaultSettings, EnsureRootUser | configuration file, other processes |
| sessions, tokens, users (`internal/auth`, `internal/api`) | token and user rows | login, use, expiry, revocation, user administration | SQL statements of other requests |
| importer, model registry (`internal/models`) | type map; rows of an import | register, find, import | database transactions |
| HTTP server (`core/http`) | mutex, context, three goroutines | Init, Close, shutdown, terminal | root context |

What is hard here: goroutines that share an instance without its mutex; a Close
that waits for a goroutine which itself waits; methods that drop a lock between
their steps; accept loops that outlive a Stop; a retry loop with a connection to
give up; a configuration that changes under its reader; answers that arrive
after their request was given up; handlers that read a row in one SQL statement
and write it in a later one; processes that die anywhere and leave a pid file and
a half-prepared table behind. `PROJECT.json` lists each such hazard at its line,
with the property that would catch it.

What makes each part correct: an instance has at most one poller, which never
meets a nil and always gives its connection up; the manager knows every poller
and forgets an instance only when it is closed; the TCP server keeps its limit
and loses no connection; every Close returns; a request and its answer belong
together; rows stay unique and well typed whatever interleaves; a token ends when
it is ended and gives nobody rights they lack; one server runs, the pid file
names it, and after a failure one runs again.

## Modules

| module | what it models |
|---|---|
| `PollerLifecycle` | abstract: what an instance promises its host (`pluginapi/types.go`) |
| `ModbusInstance` | an mbus instance; implements `PollerLifecycle` |
| `InstanceManager` | the registry; each instance as `PollerLifecycle` shows it, with its mutex and the steps of UpdateConfig |
| `ConnectionPool` | abstract: a bounded pool of sessions that going down cuts off |
| `ModbusServer` | the TCP server's Start, Stop, accept loops and handlers; implements `ConnectionPool` |
| `RtuServer` | RTU servers: Start, Stop, the serving goroutine |
| `SimulatorInstance` | a cmbus instance composed with `RtuServer` (EXTENDS) |
| `ModbusRequests` | a request from the client's checks through a TCP or RTU server to the simulator's registers and back |
| `ClientLink` | the client, its two frame formats and the line or network behind them: which answer is taken for which request |
| `ServerProcess` | server processes on one machine: boot order, serial rows, broker's port, pid file, signals, death and restart |
| `SettingsTable` | abstract: a table of named, typed settings |
| `Settings` | the settings handlers and the seed, statement by statement; implements `SettingsTable` |
| `Accounts` | users, tokens, the authentication middleware and every handler that changes them, statement by statement; EnsureRootUser of two processes |
| `MC*` | instances for TLC; each `.cfg` is one run |
| `*Proofs` | theorems about the module of that name; `SimulatorProofs` is about both modules of the simulator, `SimulatorInstance` and `ModbusRequests` |

**ModbusInstance.** Each caller of Close or UpdateConfig is a thread with a
program counter `pc`; `mu` is `m.mu`, so a step that takes it needs `mu = None`,
and a critical section without a wait inside is one step. The two exceptions are
Close, which waits for the poller while it holds the mutex (`CloseBegin`,
`CloseEnd`), and UpdateConfig, whose assignment of `m.cfg` the poller can see half
done (`UpdateBegin`, `UpdateStore`): a poller that reads the configuration
in between gets the old model, the new one, or `Torn`. The poller has one step
per place where it looks at shared state; a `select` with two ready branches
takes either. A configuration is a model (all the fields a row supplies) and the
URL that Init derives from it. `strays` counts connections that were overwritten
while open, which `ModbusClient.Open` would lose.

**InstanceManager.** `lock` is the manager's write lock; a read lock is a step
that needs it free. Create starts the instance before it takes the lock. The
instance's Close and UpdateConfig are the steps of ModbusInstance without the
poller's inside: `PollerLifecycle`, which ModbusInstance implements, is all that
is used of it. An Init that fails starts nothing: Create then returns without a trace,
UpdateConfig leaves the instance closed. The two-level map is one level of keys.

**ModbusServer.** One step per critical section of `ms.lock`. `bound` are the
open listening sockets, `conn` follows each connection from the kernel's backlog
to the handler's final Close, `shut` are those that Stop closed. An accept loop
evaluates `ms.tcpListener` (`CallAccept`) before it blocks in Accept on it.

**RtuServer, SimulatorInstance.** `listenAndServe` checks `started`, takes the
lock, and stays: `LoopLock` is its last step. The poller of the simulator calls
Start and Stop of `m.server1`; on a TCP channel that is nil and `panicked` ends
the run. Serial channels without a device name make Init fail. UpdateConfig may
bring any channel; one equal to the current restarts or not, since the fields
left out may differ.

**ModbusRequests.** Its specification is `RequestSpec`, its type invariant
`RequestTypeOK`, so that it can be read together with `SimulatorInstance`. One exchange
after the other: `Ask` is a client operation up to the frame it sends, or its refusal of
the parameters; `Serve` the server's whole handling of one request, with the simulator's
handler in it; `Receive` the client's reading of the answer; `Rest` lets others write
before the next one. A call may be WriteCoilValue, which sends any 16-bit value for a single coil:
`odd` says that it is neither on nor off, which the TCP server takes for a protocol error.
`TcpServe` follows `handleTransport` and is also given requests of
other masters (`AskForeign`), `RtuServe` follows `listenAndServe` with what its two
conversions really do: a single coil is always switched on, an odd number of registers
is refused, bits are rounded to the nearest byte and the low four bits of the number of
bytes are declared. A list of values is its length and the positions that are not zero,
so that a read, a write and an overlap can be told apart; of a frame's bytes their
number and the declared number are kept, cut to the width of their fields. A CRC over
the wrong number of bytes does not match. The exchange is not interrupted; lost and late
answers are `ClientLink`'s.

**ClientLink.** One client sends request after request (`ExecuteRequest`, under
the client's mutex) and reads parts of frames: three to a frame, so that a frame
can be cut within its header, after it, and between frames. `rx` holds the parts
that have arrived, `under` the frame the device is still sending, `buf` what the
client has read of the current one. With an MBAP header (`tcp`, `udp`) a frame with
another transaction id is skipped until the deadline, which is set once per
request; the RTU transport takes the next whole frame, and after a framing error
sleeps and discards what has come in (`Flush`). The port or the UDP socket may also fail
by itself, within a frame or between (`LinkError`): the call returns at once and, but for a
header read in part, nothing is discarded, as after a timeout. `form` is all a caller can compare in
an answer: unit, function and length. The device and the network are external:
answers may be late, lost, on TCP reordered, over UDP duplicated, and a connection
may break. `gaveUp` and `last` only record what happened, for `OwnAnswer`.

**ServerProcess.** A process is its pid; the steps are those of `cmd/server.go` up
to the place where another process could tell the difference (`SyncSerials`,
`ServerMQTT`, the two halves of `CreatePidFile`, `CreateInstances`), each of which may
fail or be the last. The boot order is the model's: the table is changed before
the port and the pid file are looked at. The signal goroutine removes the file and
exits by itself (`RemovePidFile`, `Exit`). `unit` is the systemd unit: its server, or
"failed" when that server ended in a way the unit restarts (`Restart`), or "down". Of the
two lines `Restart=` in `packaging/systemd` the later one, `on-failure`, counts: an exit
status other than 0, a panic and SIGKILL are failures, `os.Exit(0)` of the signal
goroutine is none. A server may also be started by hand (`Launch`), outside the unit, and
a unit that waits for its restart may be stopped (`StopUnit`). What systemd does with
the file that `PIDFile=` names is not modelled. The configuration file may be edited while
no server is alive; pids are reused, also by other programs.

**Settings.** A request that spans several statements holds what it will write
(`req[w].row`) from its read to its write; the next statement of anybody may come in
between. gorm's `Save` is an UPDATE and, when it met no row, an INSERT
(`Save`, `SaveInsert`). A value is the type it decodes to, a type's spelling what
`ToLower` makes of it.

**Accounts.** One step per SQL statement. `Send` puts a request with its token
before the middleware; `Authenticate` reads the row, `Expire` and `Touch` write it
later, the handler runs with the claims of the JWT, which were frozen when it was
issued. `Issue`, `Sweep`, `InsertUser` and `DeleteUser` are the second statements of
their handlers. `Answer` is every way a request ends without a change: a failed
statement, wrong credentials, a body that does not decode. Which bodies decode is
the constant `Binders`: five handlers pass the request struct by value to
`c.Bind().JSON` (handler_auth.go:146, handler_me.go:43 and :116,
handler_user.go:80 and :145), which fails for every body today; the run checks both
what is and what is meant. `Launch` to `EnsureCreate` are the server and the command
`reset-password`.

## Runs

One passing run per component checks everything about it, safety and liveness;
each violated run asks one question.

| run | shows |
|---|---|
| `instance` | never two pollers, a nil dereference or a lost connection (`PollerSafe`), the current configuration after every overlap of closes and updates; calls return; root cancellation ends polling; `PollerLifecycle` is implemented |
| `manager` | every poller managed, entries removed only when closed; calls return, DestroyAll empties the registry |
| `manager_orphan` (violated) | Destroy between the look-up and the restart of an Update leaves a poller nobody manages |
| `server` | limit, exactness of the slice, nothing open after Stop, somebody accepts (`ServerSafe`), no connection waits for ever; `ConnectionPool` is implemented |
| `simulator` | a serial poller always has its server and an open port has an owner that closes it (`ServerOwned`); only a serving loop can keep a call from returning; no server starts after the root is cancelled |
| `simulator_stuck` (violated) | Close never returns once the serving goroutine has the lock |
| `requests` | a read returns what is stored or fails, and a write stores exactly its values or nothing, on both servers, except a single coil on the RTU one (`ReadIsMemory`, `WriteIsExact`); over TCP the client makes the server close the connection with an odd value of a single coil and with nothing else, and answers fit in a frame (`WithinLimits`), and what exists can be read |
| `link` | when an answer can be taken for that of another request: with transaction ids only after a read was cut within a frame or when the id has come round, without them only after a request was given up or on a datagram link (`OwnAnswer`); a serial line is back at a frame's first byte after every error but a timeout and one of the port itself (`Resynced`); every request ends |
| `accounts` | no request gets past the middleware whose token had ended when it was sent; nobody acts for root who is not root, or ends another's token (`Entitled`); one root user; a revocation is final |
| `settings` | unique names and matching types in every row and every pending write (`TableSound`); `SettingsTable` is implemented |
| `process` | the pid file names the server that is up; the table, its configuration and its instances agree; as long as the unit is not stopped a server runs again after every failure but two: a stale pid that another process has now, and a serial list that no start gets past |
| `process_ownpid` (violated) | a server that is given the pid in the stale file refuses to start because of itself |

The violated runs state what a comment of the code says; `PROJECT.json` quotes
it.

**What the host does.** Two constants say how the manager is used. `FreshKeys`:
no Create of a key that is in use or being created, since Create would replace
the entry of an instance that polls on. `NoOverlap`: no Destroy while an Update
is under way; `manager_orphan` lifts it. Today only `cmd/server.go` calls the
manager, with one Create per channel row, which satisfies both.

**Bounds.** Every bound is a constant of the module, set in the `.cfg`. Two callers are the least that overlap; the manager has three, so
that an Update, a Create and a DestroyAll meet. Two pollers, objects or accept
goroutines are the least that show an old one meeting a new one; three listeners
let both accept loops hold an old one. Two channel models tell an old
configuration from a new one; the simulator has one channel of each kind. The
server has a limit of two, so that a pool can be partly full, and a third
connection to turn away. Objects, sockets and goroutine slots are reused once
nothing refers to them, so no run ends for want of them.

`requests` asks every function code with lengths at and beyond its limits and
addresses at the ends of the coils and of the address space, on an empty and a
written memory, and one list of 32770 registers, whose number of bytes 16 bits
cut to 4. `WriteIsExact` and `WithinLimits` leave such lists out (`Countable`):
of them the client writes the first few and reports success.

`link` sends three requests (`MaxReqs`) with two ids (`IdSpace`), the least in which
an id comes round while its first answer is still on the way; a time-out of two
ticks lets a frame arrive in parts before and after it; six parts (`MaxRx`) are two
whole frames waiting. `settings` needs two requests that meet at one row, a third
name that is no default, and a fourth row id, since ids are never given out twice.
`accounts` has two requests, two users and two tokens, enough for one to act on the
other's, and symmetry in all three; `Idle` is one tick, so that a session can be
used in time and too late. `process` has two servers and a pid for another program;
`MaxFaults` bounds edits, errors, kills and signals together to four, which is a
crash, an edit, a reused pid and a signal in one behaviour. Requests, rows of users
and tokens are used up in long behaviours, and then what is there goes on.

The simulator run does not check deadlock: once a serving goroutine holds the
lock, poller and callers wait for ever, which is what the code does.

**Fairness.** Every goroutine that can take a step does. A caller gets strong
fairness, because its step may be to take a mutex that others take and release in
between: Go's mutexes hand over to a waiter in starvation mode. `select` gets it
for its Done branch, since Go picks among ready branches at random. Accept gets
it per connection: the kernel serves the backlog in order, and the accepting
goroutine is away in between. Pollers, handlers and loops get weak fairness.
In `ClientLink` only the clock and the return at the deadline are fair. In
`ServerProcess` each process's boot and signal goroutine are, and so is `Restart`,
systemd's `Restart=on-failure`, which is possible only after a failure: after a signal,
whose goroutine ends in `os.Exit(0)`, and after `StopUnit` nothing has to start a server
again, and `ServesAgain` asks for none while the unit is "down". Nothing is assumed of
`Launch`, of calls, clients, devices, cancellation or errors. `Settings` and `Accounts` state no
fairness: any request may fail.

## Proofs

TLAPS checks, for all values of the constants under the named assumptions
(`None` and the markers are not proper values; the limit is a positive number):

* `ModbusInstanceProofs`: types; `PollerSafe`, `SettledConfig`; that every step is
  one of `PollerLifecycle` or a stutter.
  The invariant `IInv` adds to them who holds the mutex and that a waiting Close
  has cancelled the context (`MutexInv`), and what `m.init` stands for
  (`InitInv`): without "not initialised means no poller" Init could start a
  second one, without "a poller in its inner loop is the one with the link open"
  an exit could leave a link. `SettledConfig` rests on the mutex: with it free
  nobody is assigning `m.cfg`, so a poller that Init starts copies the current one.
  `QuietForGood` is the stable half of `RootStopsPolling`: once the root context is
  cancelled, the instance created, no poller alive and no UpdateConfig about to
  initialise, there never is a poller again; that this state is reached is TLC's.
  `NoDeadlockAlways` and `ShortWaitAlways` are the safe core of `CallsReturn`: a call that cannot go
  on waits for the holder of the mutex, that one for a poller, which can; and each step
  of that poller, but a tick that `select` prefers, brings it nearer to its end.
* `SimulatorProofs`, the life of the simulator: types and `ServerOwned`, from an invariant
  (`IInv`) that adds who holds the mutex and that after its wait no poller is left
  (`MutexInv`), that a closed instance has no server and a poller past its start has one
  (`InitInv`), and that a server's lock is held by its own serving loop only (`LockInv`):
  without `InitInv` a Stop could meet a nil server, without `MutexInv` Init could replace
  the server under a poller. The defect that `simulator_stuck` shows once is a theorem
  here: no step ever gives the lock back (`LockNeverReleased`), so a Close that finds
  the server serving never returns, under any scheduling (`CloseNeverReturns`). It is
  the only one: a call that cannot go on waits, through the mutex and the poller, for
  a serving loop and nothing else (`OnlyLoopBlocksAlways`), and the poller it waits for is three
  steps from its end (`ShortWaitAlways`). The steps are those of `PollerLifecycle` all the
  same (`SimRefinesLifecycle`): what breaks is only its fairness. `SimQuietForGood` is the
  stable half of `RootStopsStarting`.
* `SimulatorProofs`, its requests: all five properties of the run, for any calls, requests
  and memories. The invariant says that what the caller and the memory show is
  computed from the call and what was there before (`ServedInv`, `CheckedInv`), so
  that each property becomes a lemma about the operators: `ClientTaken` (the
  client's limits are within the server's, and only an odd value of a coil is dropped), `ReadAnswer` (no length is cut),
  `RtuRead` (where rounding to the nearest byte and upwards agree nothing is
  missing), `StoreExact` (a list stored below the end of the address space
  changes its window and nothing else), `RtuWrite` (the RTU server checks neither
  quantity nor address, but what the client sends is within both, `WindowFits`). The
  exception is exact: a single coil that is written over RTU is switched on, whatever
  was to be written (`RtuCoilOn`). Assumed of the calls is what Go's types give: 16-bit
  quantities and one value for a single write.
* `InstanceManagerProofs`: types for every host; `AllManaged` and
  `RemovedClosed` for a host with both disciplines above (`Disciplined`), all
  four methods in use. The invariant ties each caller inside a method to the lock
  it holds (`MethodInv`) and to the entry it found (`EntryInv`), each key to one
  Create (`CreateInv`), and "not initialised" to "no poller" (`IdleInv`).
  For every host, disciplined or not: `NoCircle`, the safety core of `CallsReturn`
  (chains of callers that wait for each other have at most two links, and who waits
  for a poller has told it to end), and `RefinesLifecycles`, the other end of the
  link to the instances: the manager expects of each no more than `PollerLifecycle`,
  and both kinds of instance keep to that. No instance is under two keys
  (`OneEntryEachAlways`). During a DestroyAll the registry only loses entries, the one it has closed
  each time, and it does not return before the last (`EmptyingAlways`, the safe core of
  `DestroyAllEmpties`). What `manager_orphan` leads to is for good: no method reaches such a
  poller any more (`OrphanForGood`).
* `ModbusServerProofs`: types, and `ServerSafe` part by part: `PoolBound`,
  `PoolExact`, `StoppedIsClosed`, `SomebodyAccepts`. `PoolExact` needs that
  the connection an accept loop holds is its own and not in the pool yet
  (`GotInv`); its core is `RemoveExact`, that the swap-with-last removal takes out one
  connection and nothing else.
  The safety part of `PoolSpec` (`RefinesPool`): each step is one of `ConnectionPool` or
  a stutter. It needs that only a connection with a handler is ever closed by Stop, so
  a new session is open (`ShutInv`), and that the slice, without repetitions, is as long
  as it has members (`PoolSize`), which also makes `MaxClients` a limit on sessions
  (`SessionsBounded`). `ListenerExact` and `BacklogHasAcceptor` are what `BacklogServed`
  rests on: one listening socket while started, none else, and a goroutine that accepts
  on it or comes back to.
* `SettingsProofs`: types, `TableSound`, and that every step is one of
  `SettingsTable` or a stutter. The invariant adds `Agree`: the id of a
  pending update is in use, and its row, if still there, and every other pending
  update of it carry the same name. It holds because ids are never given out twice
  and no update renames, so a deleted row can only come back under its old name:
  an id is that of one setting for ever (`IdKeepsName`).
* `ServerProcessProofs`: types, `PidNamesServer` and `InstancesMatch`, for any
  number of pids, lists and faults. The invariant `PortOwner` says that a server past `ServerMQTT` has the
  broker's port: the window between the probe of the old pid and the rename is
  harmless because the port was bound before it. `OneServer` follows: no two processes
  are past the broker's port at once. For the table, `TableInv` says that
  whoever is alive has read the list of the file and whoever is past `SyncSerials`
  finds exactly its devices in the table: another start inserts and deletes nothing
  (`SyncedAgain`), since the first entry of each device is the one that is listed
  (`ListedDevices`). It assumes that the file is not edited while a server is alive
  (`EditWhenUp = FALSE`); without that the property is false. The two exceptions of
  `ServesAgain` besides a unit that is down are theorems: a list that cannot be inserted stops every start until it is
  edited, since no failing start changes the table so that a later one gets on
  (`WedgedUntilEdit`); and a server that has the pid of the stale file is refused, and
  every later one with that pid, until somebody else replaces the file (`OwnPidRefused`,
  the general form of `process_ownpid`).
* `AccountsProofs`: types, `NoUseAfterEnd`, `RootSafe`, `Entitled` and
  `RevocationIsFinal`. The argument is the one for handlers that read first and write
  later: `Good` says of each pending request what its next statement relies on,
  and every step of another keeps it (`GoodStable`), because users never lose
  root, deleted users and issued tokens stay so, and a revoked token stays revoked.
  `DeadInv` says that a dead request is still before the middleware's decision and
  its token still ended; a session that is old is ended unless an admitted request
  is about to touch it. What has ended stays ended (`EndedForGood`), and whoever is root
  stays the one root (`RootForGood`). It assumes that user id 0 is no user's.
* `ClientLinkProofs`: types, `OwnAnswer` and `Resynced`, for any number of requests,
  ids and ticks. Two chains carry it: what was read, what has arrived and what is
  still to come are one run of frames (`Joined`), so a reader that is at the first
  byte of a frame stays with the frames (`Aligned`, `BegunGrows`); and the ids of the
  requests since the connection was opened count backwards from the last
  (`Ids`), so one comes back only after `IdSpace` requests. On an RTU stream where
  nothing was given up only the current answer is under way (`Quiet`). A request has at
  most one answer and "ok" is always for this very request (`FreshAlways`); its deadline is not
  moved by what arrives, and past it the call takes nothing in (`DeadlineFirmAlways`, the safe
  core of `CallsReturn`).

Model-checked only is what must eventually happen, since the prover handles neither
fairness nor ENABLED. Of each such property its safe core is proved:

| only model-checked | proved of it |
|---|---|
| `CallsReturn` of an instance | `NoDeadlockAlways`, `ShortWaitAlways` |
| `RootStopsPolling` | `QuietForGood` |
| `CallsReturn` of the manager | `NoCircleAlways` |
| `DestroyAllEmpties` | `EmptyingAlways` |
| `OnlyServingBlocks` | `OnlyLoopBlocksAlways`, `ShortWaitAlways` |
| `RootStopsStarting` | `SimQuietForGood` |
| `BacklogServed` | `ListenerExact`, `BacklogHasAcceptor` |
| `CallsReturn` of a request | `DeadlineFirmAlways` |
| `ServesAgain` | its exceptions: `WedgedUntilEdit`, `OwnPidRefused` |
| `LifecycleSpec`, `PoolSpec`: fairness | their initial states and steps (`RefinesLifecycle`, `RefinesPool`) |

## Known behaviour that no run is about

Met while modelling, in the models as the code has it, and excluded from a
property or simply not promised:

* mbus: between `m.cfg = newCfg` and Close the old poller reads the new register
  window from the old device; `Status.Linking` stays true on a closed link.
* simulator: a goroutine spins on the closed port when Stop comes between its
  check and its lock; a TCP channel's poller meets a nil server and panics.
* RTU server: a single coil is always switched on; of a list of coils the low
  four bits of the number of bytes are declared and bits rounded to the nearest
  byte, so that some coils cannot be read.
* `WriteCoilValue` with a value of its own: the simulator's TCP server closes the connection
  (`OnlyOddDropped`), its RTU server switches the coil on.
* RTU: after a request was given up the next one takes its late answer, if it looks
  alike; over UDP a duplicate is enough. TCP: after a time-out within a frame the
  stream is out of step until the client is opened again.
* Settings: of two concurrent updates the later save drops the earlier one; a save
  brings a row back that was deleted meanwhile.
* Accounts: the handlers whose body never decodes (above). `ListMySessions` says "not
  revoked" and lists revoked ones; `AdminListSessions` and `AdminListTokens` join a
  table `users`, the table is `user`; foreign keys are off, so a deleted user's
  tokens live on; a token issued without authentication carries the root claim; a
  login that read the user before a password change inserts its token after the
  sweep.
* Process: a port renamed with the same `device2`, or two with an empty one, stop
  every start; a second server that is refused has already changed the table of
  the running one (the run leaves the file alone while a server is up,
  `EditWhenUp`); `wg` is waited for and never used, the deferred DestroyAll never
  runs; `HTTPSDisable` is not read, and a listener that cannot be bound ends the
  process with the pid file left behind.

## Not modelled, and the plan

In the order of the plan:

1. HTTP server life (`core/http`), log reopening against its writers, goose as one
   more `PollerLifecycle`.
2. The RTU frame parser on damaged and foreign frames; the numeric encodings as pure
   operators, with the typed reads and writes that use them.
3. Proofs: `RtuServer` by itself, for any caller of Start and Stop, and the pure
   operators of item 2.

Left out for good: TLS, the front end, formatting and routing, configuration and
flag parsing, generated code, the MQTT broker (a library), record types, the
importer and the model registry (nothing calls the one and the other is a map
filled once), gorm's migrations.
