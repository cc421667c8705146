# TLA+ models of drafter's live migration

This directory holds TLA+ models of the migration code in `src/`. The models cover
how a VM's devices (memory, state, disks, config, …) are handed from a source peer to a
destination peer over the silo protocol. TLC checks them.

## The system

A migration has two sides, joined by a duplex stream that carries per-device frames
(`DevInfo`, `WriteAt`, `ReadAt`, `DirtyList`, `NeedAt`, `DontNeedAt`, `Event`).

**Source: `MigratablePeer.MigrateTo`** (`src/unnamed/part_003`, lines 193-598). It runs one
goroutine per device (`utils.ConcurrentMap`). Each goroutine does the following, in order:

1. It sends `DevInfo` and counts it in `devicesLeftToSend`. The device that sees the
   count complete sends the custom event `AllDevicesSent`.
2. It starts the `NeedAt`/`DontNeedAt` handlers. These reorder the migrator's precopy.
3. It precopies every block through a silo migrator, then enters the dirty loop:
   - msync, for the memory device only;
   - wait for the previous `MigrateDirty` goroutine;
   - sample the dirty blocks; on an empty sample with the VM suspended, leave the loop;
   - otherwise send a `DirtyList` and migrate the blocks in a goroutine;
   - wait out the cycle throttle;
   - apply the convergence policy (`MaxDirtyBlocks`, `MinCycles`, `MaxCycles`) and mark
     the device ready once (`sync.OnceFunc`).
4. When every device is ready, it calls `suspendAndMsyncVM`. This is a `sync.OnceValue`
   shared by all devices. It runs `OnBeforeSuspend`, then the runner's
   `SuspendAndCloseAgentServer`, then `Msync`, then `OnAfterSuspend`. Finally it sets
   `suspendedVM` under its lock and closes `suspendedVMCh`.
5. After the loop it sends `TransferAuthority`, waits for its migrator, and sends
   `Completed`.

The runner's suspend (`src/unnamed/part_006`, 654-737) writes to the devices, and that
matters for migration. It calls the BeforeSuspend RPC and closes the agent. Then
`CreateSnapshot(MsyncAndState)` pauses the VM, flushes guest memory into the memory
device and writes the VM state into the state device.

**Destination: `MigrateFrom`** (`src/pkg/roles/peer.go` 273-880; `src/unnamed/part_005`
holds the same code). It runs one goroutine per (device, packet kind):

- Each `DevInfo` admits a device behind a waiting cache and counts it in
  `receivedButNotReadyRemoteDevices`.
- `AllDevicesSent` releases the main path. The main path sets up, from local files, every
  configured device that was not received.
- Each `TransferAuthority` decrements the counter. At zero, the VM may resume.
- `DirtyList` marks blocks of the waiting cache as missing again.

**Other parts:**

- The earlier `MigrateTo` (`src/pkg/roles/peer.go` 954-1284, copied in `part_005`)
  runs the same protocol with a different loop: it msyncs for every device, keeps the
  blocks sampled after the suspend in `finalDirtyBlocks`, and migrates them after
  `TransferAuthority`. The mounter's `MigrateTo` (`part_007`) runs it too.
- `pkg/peer` has a device-group variant with a `DirtyManager`.
- The agent IPC server is in `pkg/ipc`.
- The snapshotter (`roles.CreateSnapshot`) boots a VM from input files, snapshots it and
  copies the VM directory to output files in a deferred function. The packager and the
  command-line tools do file and process I/O only.

## What is modelled

### `BlockRange` (NeedAt/DontNeedAt handlers, peer.go 1065-1099, same in part_003 324-360)

The state is one hint (`offset`, `length`). `Hint` takes every hint with `offset < Size`
and `1 <= length <= MaxLength`. The `uint64` conversions are taken modulo `2^Width`.

- `NeedAtRange` and `DontNeedAtRange` are the `[startBlock, endBlock)` loops the two
  handlers run.
- `Overlapping` is the reference: the blocks a byte range overlaps.

The NeedAt handler is checked inside the `peermigrateto` run (`NeedAtPromotesOverlap`,
see `PeerMigrateTo`), through an `INSTANCE` of this module in `MCPeerMigrateTo`.

`MCBlockRange_dontneedat.cfg` checks `DontNeedAtRemovesOverlap` and finds it violated.
DontNeedAt divides by the device size instead of the block size (peer.go 1091,
part_003 352), so every hint removes block 0 and nothing else. This config is no
longer one of the project's runs. The budget went to the snapshotter, and a unit test of
the handler reaches this bug too.

A 36-byte device with 8-byte blocks has a short last block. With lengths up to 20, the
hints cover ranges that end inside a block, on a boundary and past the end.

### `DirtySync` (MigrateTo, part_003 193-598, with the runner's suspend)

**Variables and their source:**

- `pc[d]` is the position of device `d`'s goroutine. Each label is a stretch of code
  between two points where another goroutine can act.
- `devicesLeftToSend`, `devicesLeftToTransferAuthorityFor`, `suspendedVM`, `totalCycles`
  and `cyclesBelowDirtyBlockTreshold` are the Go variables of the same names.
- `readyMarked` is the OnceFunc's state, and `suspend` is the OnceValue's state and
  cached result.
- `wgBusy` is `ongoingMigrationsWg`.

**Data:** each block's contents are a version number.

- `ram` is guest memory.
- `disk[d]` is a source device, and `dst[d]` the destination's copy.
- `dirty[d]` is the dirty tracker's set.
- `pending[d]` holds the blocks queued in the migrator.

**Environment actions:**

- `GuestWrite` writes memory (made durable only by msync or writeback) or a guest disk.
  It marks the block dirty. It is bounded by `MaxWrites` and enabled only while the VM
  runs.
- `Writeback` is the kernel flushing a shared page.
- `MoveBlock` is a silo block mover. It copies a queued block to the destination.

These three, and the dirty tracker, are silo or hypervisor behaviour. They are modelled
from the spec and marked `spec_modelled` in the map.

**Device actions**, one per code step:

- `SendDevInfo` (294-307)
- `StartMigration` (308-428)
- `PrecopyDone` (430-434)
- `LoopHead` (445-458) and `MsyncFails` (450-456): the memory device's Msync, or its
  error, on which the goroutine returns before it is ready
- `Sample` (460-468)
- `LeaveLoop` / `MigrateDirty` (469-533)
- `Converge` (535-545)
- `NoSuspend` / `BeginSuspend` / `JoinSuspend` (547-551)
- the suspend body: `SnapshotVM`, `MarkSuspended`, `SuspendFails` (241-264, part_006 673-737)
- `SendAuthority` (554-563)
- `SendCompleted` (565-579)

After the OnceFunc has fired, `Converge` leaves the counters alone. The code keeps
counting, but the counters feed only that OnceFunc. This keeps the state space finite
without losing a behaviour.

**Fairness:** weak fairness for each device goroutine (except the failure step) and for
each device's migrator. The guest, the kernel and RPC failures get no fairness.

**Bounds:** run `dirtysync` has memory and state devices with 2 blocks each, and 2 guest
writes. With `MaxDirtyBlocks = 2`, a sample can fall below or reach the threshold, so
both convergence branches occur, and two devices race to the suspend trigger. It reaches
about 159k states.

| Run | Property | Shows |
|---|---|---|
| `dirtysync` (pass) | `TypeOK` | |
| | `AuthorityAfterSuspend` | No TransferAuthority before the VM is paused, `suspendedVM` is set and every device is ready. |
| | `SuspendOneShot` | Every snapshot is taken of a running VM: the suspend sequence runs once. |
| | `MigrationTerminates` | If no device fails, every device goroutine sends Completed and returns. TLC finds the unconditional form violated: a device whose Msync fails returns before it is ready, and the others loop for ever, because none can become the last ready device. |
| | `HandoffRefined` | `DirtySync` implements `Handoff`, under the same `HandoffPhase` mapping as `PeerMigrateTo` (see that section). The mutant that skips the TransferAuthority send breaks it. |
| | `ReadyWithinBound` | A device is ready within MaxCycles+MinCycles+1 iterations. Forced convergence is tested only on above-threshold iterations, so the bound of spec §7 (MaxCycles) is not the one the code keeps; this property states the bound it does keep. |
| `dirtysync_lostwrite` (violation) | `CompletedDataMatches` | An empty sample taken before the suspend's snapshot writes, followed by the `suspendedVM` check, loses those writes. |
| `dirtysync_authority_order` (violation) | `AuthorityAfterLastWrite` | TransferAuthority is sent before `WaitForCompletion`, while dirty blocks are in flight. |

The violated properties are stated from the spec and the code's comments. The
`findings` of `PROJECT.json` say what each violation shows.

### `Destination` (MigrateFrom, peer.go 273-880, against the source's send order)

The line numbers below are those of `peer.go`; `part_005` has the same code.

**The source is abstracted to what the destination sees of it, per device:**

- `SrcSendDevInfo`, then `SrcCheckSent`. The device that reads the full count appends
  `AllDevicesSent` to its own event stream.
- `SrcPrecopy` is enabled only once the destination has admitted the device. Its WriteAts
  are answered only by an admitted device (silo's WriteAt handler waits for the device).
- `SrcLeaveLoop` requires every device to be past its precopy (the suspend needs all of
  them ready).
- `SrcSendAuthority` and `SrcAuthorityAnswered`: silo's `SendEvent` returns once the
  destination has handled the event.
- `SrcSendCompleted`.
- `StreamEnds`: the stream ends after the source has finished. When the constant
  `MayEOF` holds, it can also end at any point, as when the source process dies.

These ordering facts about silo are assumptions taken from the spec (§4.3, §5). They are
marked `spec_modelled` in the map.

**Each destination action is one handler or one stretch of MigrateFrom:**

- `HandleDevInfo` is createProvider and its handler goroutines, 355-523: count the
  device, append it to stage2Inputs, Mknod its node.
- `HandleEvent`, 525-553.
- `WaitReturns` is the Wait OnceValue at the end of the stream, 569-600.
- `ChooseLocalDevices`, 655-734.
- `SetupLocalDevice` is the stage-1 ConcurrentMap callback, 736-855.
- `AwaitReady` and `MainFails`, 857-880.

A second Mknod of the same node name fails, and the failure cancels the migration.

**The goroutine that closes the migrated peer** (634-652) selects on `internalCtx` and on
the readiness context. It is modelled with Go's select semantics: a goroutine blocked in
the select takes the case of the channel closed first (the history variable `firstDone`),
and one that reaches the select with both closed takes either. `WatcherInternal` runs
`migratedPeer.Close` (`CloseDevices`, then `CloseWaits`; Close's deferred calls run in
reverse order, so the devices are closed before Wait). `WatcherReady` waits for the
hypervisor to exit (`HypervisorExits`, an environment step with no fairness).
MigrateFrom's `defer cancel()` (333-343) ends `internalCtx` on a successful return too.

**Instance:** two migrated devices and one local-only device (about 126k states). That is
enough for one device's AllDevicesSent to overtake the other device's DevInfo.

| Run | Property | Shows |
|---|---|---|
| `destination` (pass, `MayEOF`) | `TypeOK` | |
| | `ReadyCounterSound` | When the counter reaches zero, every device was received and handed over. A TransferAuthority cannot be counted before another device's DevInfo, because the source's suspend needs every precopy done. |
| | `MigrateFromReturns` | MigrateFrom returns. |
| `destination_double_setup` (violation) | `NoSpuriousFailure` | AllDevicesSent handled before a DevInfo makes the device local too; the duplicate node fails a healthy migration. |
| `destination_watcher_close` (violation) | `MigratedDevicesOpen` | The close goroutine, first scheduled after MigrateFrom returned successfully, sees `internalCtx` done and closes the devices of the migrated peer while the VM may still use them. |

`ResumeOnlyAfterAuthority` states that the peer is handed back only after every
received device's TransferAuthority. TLC finds it violated under
`MCDestination_ResumeOnlyAfterAuthority.cfg`: EOF after a device was admitted, but
before its TransferAuthority, still yields a migrated peer (peer.go 593). The check is
no longer one of the 12 runs; the hazard list records it.

### `PeerMigrateTo` (the earlier MigrateTo, peer.go 954-1284)

This is the same protocol as `DirtySync`, with the loop of `peer.go`. Each iteration
runs these actions in order:

- `Msync` (the runner's Msync, for every device) or `MsyncFails`.
- `Sample` (`GetLatestDirty`).
- `LeaveLoop`, on an empty sample with `suspendedVM`, or else `Converge`: DirtyList and
  the convergence policy, with the thresholds the `switch` on the device name picks.
- `NoSuspend`, or `BeginSuspend`/`JoinSuspend` of the `suspendVM` OnceValue. Its body is
  `SnapshotVM`, then `MarkSuspended`, or else `SuspendFails`.
- `Dispatch`, under `suspendedVMLock`: `MigrateDirty` while the VM runs, and after the
  suspend an append to `finalDirtyBlocks`.

After the loop come `SendAuthority`, `MigrateFinal` (MigrateDirty of
`finalDirtyBlocks`) and `SendCompleted`. `FinalFails` is an error of `MigrateDirty`,
`WaitForCompletion` or `SendEvent(Completed)` after TransferAuthority. A failed
`SendEvent(TransferAuthority)` panics the process and is not modelled.

Block contents are left out, because `DirtySync` already models the data path of this
loop. The memory pages the guest writes (`memDirty`) reach the memory device by msync,
by the snapshot or by writeback.

**Fairness:** weak fairness for each device goroutine and for its migrator's movers,
which the Go scheduler runs. The guest, the kernel and the three failures get none.

**Instance:** memory and state devices of two blocks each, with `MaxDirtyBlocks` 2,
`MinCycles` and `MaxCycles` 1, and two guest writes (48k states). A two-block sample
reaches the threshold and an empty or one-block one stays below it, so both branches
of the policy run.

| Run | Property | Shows |
|---|---|---|
| `peermigrateto` (pass) | `TypeOK` | |
| | `AuthorityAfterSuspend` | TransferAuthority is sent only with the VM paused, `suspendedVM` set and every device ready. |
| | `SuspendOneShot` | The snapshot runs once, on a running VM, however many devices reach the trigger. |
| | `MigrationTerminates` | If no device fails, every device sends Completed. |
| | `HandoffRefined` | `PeerMigrateTo` implements `Handoff` (below); `DirtySync` does too, under the same mapping. |
| | `NeedAtPromotesOverlap` | The NeedAt handler's loop visits exactly the blocks a hint overlaps, for every hint of a 36-byte device with 8-byte blocks. |

**Refinement: `Handoff`.** `Handoff.tla` is the abstract specification of what the source
promises the destination, per device. Each device has a phase:

- `migrating`, then `ready` once it has converged;
- the VM is paused for good once no device is still migrating;
- `authority` (TransferAuthority sent) only for a `ready` device with the VM paused;
- `completed` only after `authority`;
- `failed` from any phase but `completed` (spec.md: the migrator may fail in any
  state on an I/O error).

`PeerMigrateTo` defines `HO == INSTANCE Handoff WITH phase <- [d |-> HandoffPhase(d)],
vm <- vm`, and `HandoffRefined == HO!Spec` is a PROPERTY of the run. The mapping
`HandoffPhase` reads:

- `pc = "done"` as completed;
- `pc = "failed"` as failed;
- `authSent` as authority;
- `readyMarked` as ready.

Every step of the goroutines, of the OnceFunc and OnceValue latches and of the
`suspendedVM` flag is thus shown to be a Handoff step or a stutter. The mutant that
skips the TransferAuthority send makes a device complete from `ready`, which Handoff
forbids.

**Without a run:**

- A failure after TransferAuthority (`FinalFails`) leaves the destination with the
  authority over a device whose final dirty blocks never arrive. MigrateTo then panics
  (line 1270); the recovery snapshot spec.md asks for after the suspend is not taken
  here. `HandoffRefined` admits the failure after `authority`, as the spec does.
- The unconditional form of `MigrationTerminates` is violated. A device whose Msync
  fails returns before it is marked ready. The others then loop forever, unless the
  library's ConcurrentMap cancels them.
- `TransferAuthority` precedes `MigrateDirty(finalDirtyBlocks)` (line 1231). The same
  order in the newer loop is the `dirtysync_authority_order` violation.

### `DirtyManager` (device-group migration, `src/pkg/peer`)

The newer `pkg/peer` code drives each device's dirty loop through three callbacks of
`DirtyManager` (`dirty_manager.go`). The suspend is the `sync.OnceValue` of
`ResumedPeer.MigrateTo` (part_003 75-106). The destination is the device-group
`MigrateFrom` (`migrate_from.go`), in both of its forms. With readers and writers it
receives the group over the protocol. Without them it builds the group from local
files (`migrateFromFS`). `Init` chooses the form (`mode`), and the device loops run
only in the protocol form.

**Device actions** (per device `d`, `pc[d]`):

- `PreGetDirty` msyncs the memory device while the VM is not suspended.
- `GetDirty` is silo's dirty sample (`spec_modelled`).
- `PostGetDirty` stops the loop on an empty sample once the VM is suspended.
- `PostMigrateDirty` and `Converge` count cycles and apply `MaxDirtyBlocks`, `MinCycles`
  and `MaxCycles`. `markDeviceReady` adds the device to `ReadyDevices`.
- `ReadCount` reads the `ReadyDevices` count.
- `TestAndSet` tests and sets `AuthorityTransferCompleted` under its lock.
- `SuspendAndMsync`, `MarkSuspended` and `SuspendFails` are the suspend.
- `AuthorityTransfer` sends the TransferAuthority custom packet.

The cycle counters saturate one past `MaxCycles`/`MinCycles`. Beyond that bound no guard
tells the values apart, so this is an exact abstraction.

**Destination actions:**

- `HandleCustomData` closes `allRemoteDevicesReady` on each TransferAuthority packet.
- `ExposeName` and `NamesExposed` are the loop at 239-247. It makes a node for each
  device the group received. An error there is only printed, so the device is left
  without a node.
- `MigrateFromReturns` is the select at 262-273, left on `allRemoteDevicesReady`. The
  function then runs its deferred calls (`destPc = "joining"`).
- `HandleEOF`: the source's owner closes the stream once the source's MigrateTo has
  returned, and `pro.Handle` returns io.EOF, which its goroutine ignores (199-205).
  This is the one assumption about the caller: nothing in this repository closes the
  stream.
- `ProtocolFails`: `pro.Handle` returns another error. The goroutine panics, and the
  goroutine manager's context ends the select, if MigrateFrom is still in it.
- `JoinHandle` is the deferred `goroutineManager.Wait()` (187). It joins the foreground
  `pro.Handle` goroutine, so MigrateFrom returns only once the stream has ended.
  `StopAllGoroutines` does not stop that goroutine, because `pro` runs on a context
  derived from the caller's.
- `Wait` saves the device group in `migratedPeer.Dg`.
- `Close` is `migratedPeer.Close`. `migratedPeer` is a named result, so the owner gets the
  peer back with an error too, and may call Close after any return (`Returned`).
  `runner.Close` may fail, and then Close returns at once. Otherwise Close closes the
  group only if Wait has saved it.

**Local path** (`mode = "local"`). Every step below may fail. A failure is panicked,
and the goroutine manager returns it (`destPc = "failed"`).

- `FsDevice` is the first loop of `migrateFromFS`. It exposes a `Shared` device's
  base directly and makes a schema for any other device.
- `FsNewGroup` is `NewFromSchema`.
- `FsExpose` is the second loop. It gives a node to each device of the group. An error
  here leaves the group open, which is a hazard with no run.
- `FsReturn` saves the group in `migratedPeer.Dg`.
- `LocalWait` is the Wait that MigrateFrom starts with, which returns nil.

Not modelled: a failing `NewFromProtocol`, whose nil group is dereferenced in an
unrecovered goroutine, and a call with only readers or only writers, which does
nothing.

**Fairness:** weak fairness for each device loop, for the destination's handler, and
for MigrateFrom's own goroutine. The owner's calls to Wait are also fair, and so is the
closing of the stream once the source has finished (`HandleEOF`). The guest, the
failure of the suspend or of the stream, and the owner's `Close` get none.

**Instance:** memory and state devices, 2 blocks, `MaxDirtyBlocks = 2`,
`MinCycles = MaxCycles = 1`, 2 guest writes. The state device is `Shared` on the
local path, so both branches of the first loop occur. The run reaches about 345k
states.

| Run | Property | Shows |
|---|---|---|
| `dirtymanager` (pass) | `TypeOK` | |
| | `AllRemoteDevicesReadyClosedOnce` | One TransferAuthority packet in all: the test-and-set under `AuthorityTransferLock` keeps the destination from closing the channel twice, which would panic. |
| | `ReturnOnlyAfterSourceReady` | MigrateFrom leaves its select on readiness only after every device is ready and the VM is suspended and paused. |
| | `MigrationCompletes` | Unless a callback of the source fails, MigrateFrom returns, after its deferred join of `pro.Handle`, and then Wait returns or MigrateFrom has returned the stream's error. On the local path, MigrateFrom returns. The condition is needed. If the suspend fails, the source's loops end with the error and the stream ends with EOF, but no TransferAuthority was sent: MigrateFrom waits in its select for ever. TLC finds the unconditional form violated in this way. |
| | `GroupClosedOnlyAfterCompletion` | `Close` never closes the group while its migration runs, even when the owner calls it as soon as MigrateFrom returns. This holds because Close closes only the group that Wait saved. The cost is a leak: a Close before Wait leaves the group open. The mutant that closes any open group breaks the property. |
| | `LocalReturnExposesAll` | A local MigrateFrom that returns without an error has given every device a node, including the `Shared` ones, and has saved the group. |

### `AgentResume` (runner.Resume, `pkg/roles/runner/resume.go` 33-270, and `pkg/ipc/agent_server.go`)

`part_006` 462-652 holds a copy of Resume that differs in one test. Its rescue hook
checks `acceptingAgent.Close != nil` before it calls Close; `resume.go` checks only
`acceptingAgent != nil`. The constant `CheckAcceptingClose` selects the copy.

**Resume's goroutine (`mainPc`):**

- `ResumeSnapshot` sets `suspendOnPanicWithError`.
- `AcceptConn` / `AcceptFails` are `lis.Accept`.
- `Serve` starts the second watcher and the `LinkStream` goroutine.
- `AwaitInternal` / `AcceptReturns` are Accept's final select.
- `AfterResume` is the RPC.

**The goroutines around it:**

- Accept's two watchers: `W1*` and `W2*`.
- `LinkEnds` is the Wait OnceValue's goroutine.
- `WaiterReturns` is Resume's goroutine on `acceptingAgent.Wait`.
- `RescueStep` is the `OnAfterRecover` rescue: close the connection, join, close the
  agent server, snapshot.
- `RunnerCloseConn` / `RunnerCloseJoin` are the owner's `resumedRunner.Close`.

**Modelling choices:**

- Selects use the same Go semantics as above (`Wake`, `ReachSelect`).
- `utils.GetPanicHandler` is not in this repository. It is taken to run
  `handleGoroutinePanics`' function in a new goroutine, and to cancel the internal
  context when it recovers a panic.

**Environment:** the agent's `Dial` and `ClientConnects`, the resume `Timeout` and the
caller's `RemoteCancel`.

**Fairness:** the goroutines and the timer (the timeout is armed by
`context.WithTimeout`). Once Close is called, its join. The agent and the caller get none.

| Run | Property | Shows |
|---|---|---|
| `agentresume` (pass) | `TypeOK` | |
| | `FailedResumeRescued` | A Resume that fails after the VM resumed has taken a rescue snapshot. |
| | `ResumeReturns` | Resume returns whatever the agent does. |
| | `RescueAfterAgentClosed` | Every rescue snapshot is taken with the connection and the listener closed, whichever goroutine panicked. |
| | `RunnerCloseReturns` | `resumedRunner.Close` returns: it closes the connection before it joins `LinkStream`. |
| `agentresume_conn_kept` (violation) | `AcceptedConnKept` | Accept's deferred `cancel()` ends `internalCtx` on success, so a late second watcher takes the failure case and closes the connection Accept just returned. |
| `agentresume_rescue_nil_close` (violation, `CheckAcceptingClose = FALSE`) | `NoPanicInRescue` | The resume timeout closes the listener, so `lis.Accept` fails. Accept returns an `AcceptingAgentServer` whose `Close` was never set. The rescue hook in `resume.go` (line 165) calls it, and the nil call panics inside `OnAfterRecover` before the rescue snapshot is taken. |

The pass runs use `CheckAcceptingClose = TRUE`, the copy in `part_006`. With `FALSE`,
a rescuer in `"crashed"` has no further step. The panic escapes the recover hook, so
the process dies: Resume never returns its error and no snapshot exists.

### `Snapshotter` (roles.CreateSnapshot, `pkg/roles/snapshotter.go` 64-298)

CreateSnapshot runs as one sequence of steps:

1. It starts Firecracker in a fresh VM directory, with a goroutine on `fcServer.Wait`.
2. It opens the liveness and agent servers and copies the input devices in.
3. It boots the VM and waits for liveness.
4. It calls BeforeSuspend, takes a full snapshot and writes the package config.

Every failure is a `panic`. The defers then run last in first out:

- the second `fcServer.Close` (line 194);
- the **deferred copy** of every device of the VM directory to its output file;
- `RemoveAll`, then the first `fcServer.Close`;
- `handlePanics(false)`, which recovers the panic into `errs`;
- `cancel`, then `wait`.

The copy returns at once `if errs != nil`.

**Model.** The state is the body's `pc`, the loop index `i` and the defer stack `defers`.
It also holds `panicking` and `errs`, the Firecracker process and its waiter goroutine,
the VM, the content of each file in the VM directory, and each output file. A content is
where the file came from: `input`, `live` (a drive of the running VM), `snap` or
`partial`. Each body step is `Step(from, next, Ok, Fail)`: it succeeds, or it panics
with the effect `Fail`. The failed snapshot may leave partial state and memory files.

The defer stack is a sequence:

- each `defer` appends to it;
- `RunDefer` and `Pop` take the top;
- `Return` fires when the stack is empty.

The closes of the liveness and sentry servers and of open files change nothing the
property reads, so they are not on the stack.

**Assumptions** (`utils.GetPanicHandler` and `internal/firecracker` are not in the
repository):

- `handlePanics(false)` records a recovered panic in `errs`.
- The goroutine of `handleGoroutinePanics` records its panic and cancels `ctx`.
- `fcServer.Close` is idempotent, and `Wait` returns nil after it. If `Wait` returned an
  error, every successful snapshot would skip the copy.

**Instance:** `MCSnapshotter` has the device list of `architekt-runner`, in its order:
state, memory, kernel, disk, config. Kernel and disk have inputs, and disk is the only
drive.

| Run | Property | Shows |
|---|---|---|
| `snapshotter_outputs_on_failure` (violation) | `OutputsOnlyFromSnapshot` | Outputs are written by a failed CreateSnapshot (see below). |

TLC reaches the failure in 16 steps:

1. `firecracker.CreateSnapshot` fails and leaves partial state and memory files.
2. The panic unwinds the stack. `errs` is still nil, because the `handlePanics` that
   would set it runs last.
3. So the copy runs. It overwrites the state, memory, kernel and disk outputs with the
   partial snapshot and the live disk, and then fails on the missing config file.

CreateSnapshot returns an error, but the previous outputs are gone. A failure before the
snapshot is harmless with this device order only because `state` comes first: its
missing file stops the copy before any output is opened.

## Not modelled, and the plan

The run budget (12 runs) is used. New questions are therefore to be asked within
existing runs, or by replacing a run. Order of the remaining work, most important
first:

1. **`Destination`, data path.** The WriteAt, ReadAt and DirtyList handlers
   (part_005 500-561) and the waiting cache. Property: a read after resume returns the
   source's data at Completed.
2. **`Destination` joined to `Handoff`.** `PeerMigrateTo` and `DirtySync` both
   implement `Handoff`. `Destination` should be joined to it, so that the destination's
   view of the authority is part of the same refinement.
3. **Terminate** (part_006 40-259). It has its own handler goroutines and a read of
   `local` in HandleDirtyList that races with its assignment.
4. **Mounter** `MigrateTo` (part_007): the `PeerMigrateTo` loop, without msync, and
   with a suspend that only sets the flag.
5. Block contents in `PeerMigrateTo`, to check its authority order and its lost write
   directly.

**Not modelled at all:**

- Transport errors in the MigrateTo/MigrateFrom handlers other than those above
  (`ProtocolFails`, `MayEOF`), where every handler panics or returns.
- The Pre/PostLock events.
- The packager (tar archive and extract), the CLIs and `hack/`. These are sequential
  file, HTTP and process I/O. `ExtractPackage` reads the archive once, forward, so it
  finds the devices only when they are asked for in archive order. Nothing in this
  repository calls it.
