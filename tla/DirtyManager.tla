----------------------------- MODULE DirtyManager -----------------------------
(***************************************************************************)
(* The device-group migration of pkg/peer.  On the source, silo's device  *)
(* group runs one dirty loop per device and calls back into DirtyManager   *)
(* (src/pkg/peer/dirty_manager.go): PreGetDirty (msync of the memory       *)
(* device while the VM runs), PostGetDirty (leave the loop on an empty     *)
(* sample once the VM is suspended) and PostMigrateDirty (the convergence  *)
(* policy, then, once every device is ready, a single SuspendAndMsync      *)
(* followed by the AuthorityTransfer callback).  The VM state manager's    *)
(* suspend is the sync.OnceValue of ResumedPeer.MigrateTo                  *)
(* (src/unnamed/part_003, lines 33-190).                                   *)
(*                                                                         *)
(* On the destination, MigrateFrom (src/pkg/peer/migrate_from.go) closes   *)
(* allRemoteDevicesReady in its HandleCustomData callback for every        *)
(* TransferAuthority custom-data packet and returns once that channel is   *)
(* closed; its Wait waits for the device group to complete.                *)
(*                                                                         *)
(* The loop that calls the callbacks is silo's; it is modelled after the   *)
(* loop drafter itself runs in MigratablePeer.MigrateTo: PreGetDirty,      *)
(* sample, PostGetDirty, migrate the sample, PostMigrateDirty.  An error   *)
(* from a callback ends the whole device-group migration.                  *)
(***************************************************************************)
EXTENDS Integers, FiniteSets

CONSTANTS
    Devices,         \* the device group's devices (dm.Devices)
    MemoryName,      \* packager.MemoryName
    StateName,       \* the device the snapshot writes the VM state into
    Shared,          \* devices configured Shared at the destination (local path)
    Blocks,          \* block indices of a device
    MaxDirtyBlocks,  \* [Devices -> Nat], DeviceStatus fields
    MinCycles,       \* [Devices -> Nat]
    MaxCycles,       \* [Devices -> Nat]
    MaxWrites        \* bound on guest writes in a behaviour

ASSUME Shared \subseteq Devices
ASSUME MemoryName \in Devices /\ StateName \in Devices /\ MemoryName # StateName
ASSUME \A f \in {MaxDirtyBlocks, MinCycles, MaxCycles} : f \in [Devices -> Nat]

VARIABLES
    pc,            \* position of each device's dirty loop
    blocks,        \* the sample of the current iteration, per device
    totalCycles,   \* DeviceStatus.TotalCycles
    below,         \* DeviceStatus.CyclesBelowDirtyBlockTreshold
    readyDevices,  \* the keys of dm.ReadyDevices (DeviceStatus.Ready)
    authorityTransferCompleted, \* dm.AuthorityTransferCompleted
    suspend,       \* the suspendAndMsyncVM OnceValue: "none", "running", "ok", "failed"
    suspendedVM,   \* the flag behind CheckSuspendedVM
    vm,            \* "running" or "paused"
    unflushed,     \* guest memory pages not yet msync'ed into the device
    dirty,         \* dirty blocks of each device since the last sample
    writes,        \* guest writes so far (bound only)
    packets,       \* TransferAuthority custom-data packets not yet handled
    closes,        \* close(allRemoteDevicesReady) calls at the destination
    mode,          \* how MigrateFrom was called: "protocol" (readers and writers) or "local"
    destPc,        \* position of the destination's MigrateFrom
    todo,          \* devices the current loop of MigrateFrom has yet to visit
    exposed,       \* devices with a block device node in the VM directory
    dg,            \* the destination's device group: "none", "open", "closed"
    saved,         \* migratedPeer.Dg # nil
    closed,        \* migratedPeer.Close: "open" (not called), "runnerFailed", "returned"
    handle         \* the pro.Handle goroutine: "running", "eof", "error"; "none" when local

destVars == <<mode, destPc, todo, exposed, dg, saved, closed, handle>>
srcVars == <<pc, blocks, totalCycles, below, readyDevices,
             authorityTransferCompleted, suspend, suspendedVM, vm, unflushed,
             dirty, writes>>
vars == <<srcVars, packets, closes, destVars>>

PCs == {"pre", "get", "postGet", "postMigrate", "count", "lock", "suspend", "suspendMark",
        "authority", "done", "failed"}

Goto(d, l) == pc' = [pc EXCEPT ![d] = l]

\* Some callback returned an error, which ends the device-group migration.
Aborted == \E d \in Devices : pc[d] = "failed"

-----------------------------------------------------------------------------
(* Environment: the guest writes memory while the VM runs. *)

GuestWrite(b) ==
    /\ vm = "running" /\ writes < MaxWrites
    /\ unflushed' = unflushed \cup {b}
    /\ writes' = writes + 1
    /\ UNCHANGED <<pc, blocks, totalCycles, below, readyDevices,
                   authorityTransferCompleted, suspend, suspendedVM, vm,
                   dirty, packets, closes, destVars>>

-----------------------------------------------------------------------------
(* The source's dirty loop, one step per callback or silo step. *)

\* PreGetDirty: msync the memory device while the VM is not suspended.
PreGetDirty(d) ==
    /\ pc[d] = "pre" /\ ~Aborted
    /\ IF d = MemoryName /\ ~suspendedVM
       THEN /\ dirty' = [dirty EXCEPT ![d] = @ \cup unflushed]
            /\ unflushed' = {}
       ELSE UNCHANGED <<dirty, unflushed>>
    /\ Goto(d, "get")
    /\ UNCHANGED <<blocks, totalCycles, below, readyDevices,
                   authorityTransferCompleted, suspend, suspendedVM, vm,
                   writes, packets, closes, destVars>>

\* silo samples and clears the device's dirty blocks.
GetDirty(d) ==
    /\ pc[d] = "get" /\ ~Aborted
    /\ blocks' = [blocks EXCEPT ![d] = dirty[d]]
    /\ dirty' = [dirty EXCEPT ![d] = {}]
    /\ Goto(d, "postGet")
    /\ UNCHANGED <<totalCycles, below, readyDevices,
                   authorityTransferCompleted, suspend, suspendedVM, vm,
                   unflushed, writes, packets, closes, destVars>>

\* PostGetDirty: an empty sample with the VM suspended ends the loop;
\* otherwise silo migrates the sample and calls PostMigrateDirty.
PostGetDirty(d) ==
    /\ pc[d] = "postGet" /\ ~Aborted
    /\ Goto(d, IF blocks[d] = {} /\ suspendedVM THEN "done" ELSE "postMigrate")
    /\ UNCHANGED <<blocks, totalCycles, below, readyDevices,
                   authorityTransferCompleted, suspend, suspendedVM, vm,
                   unflushed, dirty, writes, packets, closes, destVars>>

\* markDeviceReady: the device joins ReadyDevices once.
markDeviceReady(d) == readyDevices' = readyDevices \cup {d}

\* Mutant: the reset of the below-threshold count loses its "else" and runs
\* after every cycle.
ConvergeResetAlways(d) ==
    LET tc    == totalCycles[d] + 1
        isLow == Cardinality(blocks[d]) < MaxDirtyBlocks[d]
        bc    == IF isLow THEN below[d] + 1 ELSE 0
    IN  /\ totalCycles' = [totalCycles EXCEPT ![d] = IF tc > MaxCycles[d] + 1 THEN @ ELSE tc]
        /\ below' = [below EXCEPT ![d] = 0]
        /\ IF (isLow /\ bc > MinCycles[d]) \/ (~isLow /\ tc > MaxCycles[d])
           THEN markDeviceReady(d)
           ELSE UNCHANGED readyDevices

\* The convergence policy of PostMigrateDirty.  TotalCycles is only compared
\* with MaxCycles and the below-threshold count only with MinCycles, so each
\* saturates one past its limit without changing a decision.
Converge(d) ==
    LET tc    == totalCycles[d] + 1
        isLow == Cardinality(blocks[d]) < MaxDirtyBlocks[d]
        bc    == IF isLow THEN below[d] + 1 ELSE 0
    IN  /\ totalCycles' = [totalCycles EXCEPT ![d] = IF tc > MaxCycles[d] + 1 THEN @ ELSE tc]
        /\ below' = [below EXCEPT ![d] =
                        IF isLow THEN (IF bc > MinCycles[d] + 1 THEN @ ELSE bc)
                        ELSE IF tc > MaxCycles[d] THEN @ ELSE 0]
        /\ IF (isLow /\ bc > MinCycles[d]) \/ (~isLow /\ tc > MaxCycles[d])
           THEN markDeviceReady(d)
           ELSE UNCHANGED readyDevices

\* PostMigrateDirty up to the ready count: after the throttle, a suspended
\* VM returns at once; otherwise the cycle is counted.
PostMigrateDirty(d) ==
    /\ pc[d] = "postMigrate" /\ ~Aborted
    /\ IF suspendedVM
       THEN /\ Goto(d, "pre")
            /\ UNCHANGED <<totalCycles, below, readyDevices>>
       ELSE /\ Converge(d)
            /\ Goto(d, "count")
    /\ UNCHANGED <<blocks, authorityTransferCompleted, suspend, suspendedVM,
                   vm, unflushed, dirty, writes, packets, closes, destVars>>

\* Mutant: the ready count is compared off by one.
ReadCountOffByOne(d) ==
    /\ pc[d] = "count" /\ ~Aborted
    /\ Goto(d, IF Cardinality(readyDevices) >= Cardinality(Devices) - 1 THEN "lock" ELSE "pre")
    /\ UNCHANGED <<blocks, totalCycles, below, readyDevices,
                   authorityTransferCompleted, suspend, suspendedVM, vm,
                   unflushed, dirty, writes, packets, closes, destVars>>

\* len(dm.ReadyDevices), read under ReadyDevicesLock.
ReadCount(d) ==
    /\ pc[d] = "count" /\ ~Aborted
    /\ Goto(d, IF Cardinality(readyDevices) = Cardinality(Devices) THEN "lock" ELSE "pre")
    /\ UNCHANGED <<blocks, totalCycles, below, readyDevices,
                   authorityTransferCompleted, suspend, suspendedVM, vm,
                   unflushed, dirty, writes, packets, closes, destVars>>

\* Mutant: the AuthorityTransferCompleted test is dropped.
TestAndSetNoFlag(d) ==
    /\ pc[d] = "lock" /\ ~Aborted
    /\ authorityTransferCompleted' = TRUE
    /\ Goto(d, "suspend")
    /\ UNCHANGED <<blocks, totalCycles, below, readyDevices, suspend,
                   suspendedVM, vm, unflushed, dirty, writes, packets, closes,
                   destVars>>

\* Test and set of AuthorityTransferCompleted under AuthorityTransferLock.
TestAndSet(d) ==
    /\ pc[d] = "lock" /\ ~Aborted
    /\ IF ~authorityTransferCompleted
       THEN /\ authorityTransferCompleted' = TRUE
            /\ Goto(d, "suspend")
       ELSE /\ Goto(d, "pre")
            /\ UNCHANGED authorityTransferCompleted
    /\ UNCHANGED <<blocks, totalCycles, below, readyDevices, suspend,
                   suspendedVM, vm, unflushed, dirty, writes, packets, closes,
                   destVars>>

\* dm.VMState.SuspendAndMsync(): the suspendAndMsyncVM OnceValue.  Its first
\* call pauses the VM through SuspendAndCloseAgentServer (the snapshot writes
\* the VM state into the state device) and msyncs guest memory; a later call
\* returns the cached result.
SuspendAndMsync(d) ==
    /\ pc[d] = "suspend" /\ ~Aborted /\ suspend # "running"
    /\ IF suspend = "none"
       THEN /\ suspend' = "running"
            /\ vm' = "paused"
            /\ dirty' = [dirty EXCEPT ![MemoryName] = @ \cup unflushed,
                                      ![StateName] = Blocks]
            /\ unflushed' = {}
            /\ Goto(d, "suspendMark")
       ELSE /\ Goto(d, IF suspend = "ok" THEN "authority" ELSE "failed")
            /\ UNCHANGED <<suspend, vm, dirty, unflushed>>
    /\ UNCHANGED <<blocks, totalCycles, below, readyDevices,
                   authorityTransferCompleted, suspendedVM, writes, packets,
                   closes, destVars>>

\* The suspend RPC or the msync fails: PostMigrateDirty returns the error.
SuspendFails(d) ==
    /\ pc[d] = "suspend" /\ ~Aborted /\ suspend = "none"
    /\ suspend' = "failed"
    /\ Goto(d, "failed")
    /\ UNCHANGED <<blocks, totalCycles, below, readyDevices,
                   authorityTransferCompleted, suspendedVM, vm, unflushed,
                   dirty, writes, packets, closes, destVars>>

\* End of the OnceValue: suspendedVM is set under its lock.
MarkSuspended(d) ==
    /\ pc[d] = "suspendMark" /\ ~Aborted
    /\ suspendedVM' = TRUE
    /\ suspend' = "ok"
    /\ Goto(d, "authority")
    /\ UNCHANGED <<blocks, totalCycles, below, readyDevices,
                   authorityTransferCompleted, vm, unflushed, dirty, writes,
                   packets, closes, destVars>>

\* dm.AuthorityTransfer(): the TransferAuthority custom-data packet is sent
\* and PostMigrateDirty returns true, so the device's loop goes on.
AuthorityTransfer(d) ==
    /\ pc[d] = "authority" /\ ~Aborted
    /\ packets' = packets + 1
    /\ Goto(d, "pre")
    /\ UNCHANGED <<blocks, totalCycles, below, readyDevices,
                   authorityTransferCompleted, suspend, suspendedVM, vm,
                   unflushed, dirty, writes, closes, destVars>>

-----------------------------------------------------------------------------
(* The destination's MigrateFrom. *)

\* Mutant: the packet is handled without being consumed (redelivered).
HandleCustomDataRedelivered ==
    /\ packets > 0
    /\ closes' = closes + 1
    /\ UNCHANGED <<srcVars, packets, destVars>>

\* dg.HandleCustomData callback: close(allRemoteDevicesReady) for each
\* TransferAuthority packet.
HandleCustomData ==
    /\ packets > 0
    /\ packets' = packets - 1
    /\ closes' = closes + 1
    /\ UNCHANGED <<srcVars, destVars>>

SetDest(l) == destPc' = l

\* The loop over the names the tweak callback collected while
\* devicegroup.NewFromProtocol received the DevInfos: a device the group
\* exposes gets a node; an error of exposeSiloDeviceAsFile is only printed.
ExposeName(d) ==
    /\ destPc = "expose" /\ d \in todo
    /\ todo' = todo \ {d}
    /\ \/ exposed' = exposed \cup {d}
       \/ UNCHANGED exposed
    /\ UNCHANGED <<srcVars, packets, closes, mode, destPc, dg, saved, closed, handle>>

\* The loop ends; MigrateFrom waits in its select.
NamesExposed ==
    /\ destPc = "expose" /\ todo = {}
    /\ SetDest("select")
    /\ UNCHANGED <<srcVars, packets, closes, mode, todo, exposed, dg, saved, closed, handle>>

\* The select's allRemoteDevicesReady case: MigrateFrom's body returns and
\* its deferred calls run, the last goroutineManager.Wait().
MigrateFromReturns ==
    /\ destPc = "select" /\ closes > 0
    /\ SetDest("joining")
    /\ UNCHANGED <<srcVars, packets, closes, mode, todo, exposed, dg, saved, closed, handle>>

\* migratedPeer.Wait: dg.WaitForCompletion returns once every device of the
\* group has finished migrating; the group is then saved in migratedPeer.Dg,
\* whether or not Close has run meanwhile.
Wait ==
    /\ mode = "protocol" /\ destPc = "returned"
    /\ \A d \in Devices : pc[d] = "done"
    /\ SetDest("waited")
    /\ saved' = TRUE
    /\ UNCHANGED <<srcVars, packets, closes, mode, todo, exposed, dg, closed, handle>>

\* The source's owner closes the stream once the source's MigrateTo has
\* returned: pro.Handle() returns io.EOF, which its goroutine ignores.
HandleEOF ==
    /\ handle = "running"
    /\ Aborted \/ \A d \in Devices : pc[d] = "done"
    /\ handle' = "eof"
    /\ UNCHANGED <<srcVars, packets, closes, mode, destPc, todo, exposed, dg, saved, closed>>

\* pro.Handle() returns another error: the goroutine panics and the
\* goroutine manager records it and cancels its context, so MigrateFrom,
\* if still in its select, takes the Done case and returns the error.
ProtocolFails ==
    /\ handle = "running"
    /\ handle' = "error"
    /\ destPc' = IF destPc = "select" THEN "joining" ELSE destPc
    /\ UNCHANGED <<srcVars, packets, closes, mode, todo, exposed, dg, saved, closed>>

\* goroutineManager.Wait(), deferred first and so run last: it joins the
\* foreground pro.Handle goroutine, which ends only with the stream.
\* MigrateFrom then returns, with the recovered panic if Handle failed.
JoinHandle ==
    /\ destPc = "joining" /\ handle # "running"
    /\ SetDest(IF handle = "error" THEN "cancelled" ELSE "returned")
    /\ UNCHANGED <<srcVars, packets, closes, mode, todo, exposed, dg, saved, closed, handle>>
    /\ UNCHANGED <<srcVars, packets, closes, mode, todo, exposed, dg, saved, closed, handle>>

(* The local path: MigrateFrom without readers and writers calls
   migrateFromFS.  Any error is panicked and recovered by the goroutine
   manager: MigrateFrom returns it ("failed"), leaving what was built. *)

\* Mutant: a Shared device is skipped instead of exposed from its base.
FsDeviceSharedSkipped(d) ==
    /\ destPc = "fsDevices" /\ d \in todo
    /\ \/ /\ todo' = todo \ {d}
          /\ UNCHANGED <<destPc, exposed>>
       \/ /\ SetDest("failed")
          /\ UNCHANGED <<todo, exposed>>
    /\ UNCHANGED <<srcVars, packets, closes, mode, dg, saved, closed, handle>>

\* First loop of migrateFromFS: a Shared device's base is exposed directly,
\* any other gets a device schema (createSiloDevSchema stats the base and
\* creates the overlay and state directories).
FsDevice(d) ==
    /\ destPc = "fsDevices" /\ d \in todo
    /\ \/ /\ todo' = todo \ {d}
          /\ exposed' = IF d \in Shared THEN exposed \cup {d} ELSE exposed
          /\ UNCHANGED destPc
       \/ /\ SetDest("failed")
          /\ UNCHANGED <<todo, exposed>>
    /\ UNCHANGED <<srcVars, packets, closes, mode, dg, saved, closed, handle>>

\* devicegroup.NewFromSchema over the schemas of the devices not Shared.
FsNewGroup ==
    /\ destPc = "fsDevices" /\ todo = {}
    /\ \/ /\ dg' = "open"
          /\ todo' = Devices \ Shared
          /\ SetDest("fsExpose")
       \/ /\ SetDest("failed")
          /\ UNCHANGED <<dg, todo>>
    /\ UNCHANGED <<srcVars, packets, closes, mode, exposed, saved, closed, handle>>

\* Second loop: each device of the group gets a node; an error returns
\* from migrateFromFS with the group still open.
FsExpose(d) ==
    /\ destPc = "fsExpose" /\ d \in todo
    /\ \/ /\ todo' = todo \ {d}
          /\ exposed' = exposed \cup {d}
          /\ UNCHANGED destPc
       \/ /\ SetDest("failed")
          /\ UNCHANGED <<todo, exposed>>
    /\ UNCHANGED <<srcVars, packets, closes, mode, dg, saved, closed, handle>>

\* migrateFromFS returns the group; it is saved in migratedPeer.Dg and the
\* OnLocalAllDevicesRequested hook runs.
FsReturn ==
    /\ destPc = "fsExpose" /\ todo = {}
    /\ saved' = TRUE
    /\ SetDest("returned")
    /\ UNCHANGED <<srcVars, packets, closes, mode, todo, exposed, dg, closed, handle>>

\* The Wait MigrateFrom starts with, kept on the local path: it returns nil.
LocalWait ==
    /\ mode = "local" /\ destPc = "returned"
    /\ SetDest("waited")
    /\ UNCHANGED <<srcVars, packets, closes, mode, todo, exposed, dg, saved, closed, handle>>

\* MigrateFrom has returned: migratedPeer is a named result, so the owner
\* holds the peer, and may call Close, after an error return too.
Returned == {"returned", "waited", "cancelled", "failed"}

\* Mutant: Close closes the group whether or not Wait has saved it.
CloseUnsaved ==
    /\ destPc \in Returned /\ closed = "open"
    /\ \/ /\ closed' = "runnerFailed"
          /\ UNCHANGED dg
       \/ /\ closed' = "returned"
          /\ dg' = IF dg = "open" THEN "closed" ELSE dg
    /\ UNCHANGED <<srcVars, packets, closes, mode, destPc, todo, exposed, saved, handle>>

\* migratedPeer.Close, called once by the owner of the migrated peer:
\* peer.runner.Close(), whose error returns at once; then, under DgLock,
\* Dg.CloseAll() if a group was saved (its error only changes the result).
Close ==
    /\ destPc \in Returned /\ closed = "open"
    /\ \/ /\ closed' = "runnerFailed"
          /\ UNCHANGED dg
       \/ /\ closed' = "returned"
          /\ dg' = IF saved THEN "closed" ELSE dg
    /\ UNCHANGED <<srcVars, packets, closes, mode, destPc, todo, exposed, saved, handle>>

-----------------------------------------------------------------------------

\* Protocol: every device has finished its precopy and enters its dirty
\* loop, the VM runs, and NewFromProtocol has built the destination's group
\* from the DevInfos.  Local: MigrateFrom starts migrateFromFS.
Init ==
    /\ pc = [d \in Devices |-> "pre"]
    /\ blocks = [d \in Devices |-> {}]
    /\ totalCycles = [d \in Devices |-> 0]
    /\ below = [d \in Devices |-> 0]
    /\ readyDevices = {}
    /\ authorityTransferCompleted = FALSE
    /\ suspend = "none"
    /\ suspendedVM = FALSE
    /\ vm = "running"
    /\ unflushed = {}
    /\ dirty = [d \in Devices |-> {}]
    /\ writes = 0
    /\ packets = 0
    /\ closes = 0
    /\ mode \in {"protocol", "local"}
    /\ destPc = IF mode = "protocol" THEN "expose" ELSE "fsDevices"
    /\ todo = Devices
    /\ exposed = {}
    /\ dg = IF mode = "protocol" THEN "open" ELSE "none"
    /\ saved = FALSE
    /\ closed = "open"
    /\ handle = IF mode = "protocol" THEN "running" ELSE "none"

DeviceStep(d) ==
    /\ mode = "protocol"
    /\ \/ PreGetDirty(d) \/ GetDirty(d) \/ PostGetDirty(d) \/ PostMigrateDirty(d)
       \/ ReadCount(d) \/ TestAndSet(d) \/ SuspendAndMsync(d) \/ MarkSuspended(d)
       \/ AuthorityTransfer(d)

\* The goroutine that runs MigrateFrom itself.
MigrateFromStep ==
    \/ \E d \in Devices : ExposeName(d) \/ FsDevice(d) \/ FsExpose(d)
    \/ NamesExposed \/ MigrateFromReturns \/ JoinHandle \/ FsNewGroup \/ FsReturn

DestinationStep == HandleCustomData \/ MigrateFromStep \/ Wait \/ LocalWait \/ Close

\* The migration has ended: every loop is done and Wait has returned, or the
\* destination failed and every loop is done, or a callback failed, or the
\* local path returned.
Finished ==
    /\ \/ Aborted \/ destPc \in {"waited", "failed"}
       \/ destPc = "cancelled" /\ \A d \in Devices : pc[d] = "done"
    /\ UNCHANGED vars

Next ==
    \/ mode = "protocol" /\ \E b \in Blocks : GuestWrite(b)
    \/ \E d \in Devices : DeviceStep(d) \/ (mode = "protocol" /\ SuspendFails(d))
    \/ DestinationStep
    \/ HandleEOF \/ ProtocolFails
    \/ Finished

\* Each device loop, the custom-data handler and MigrateFrom are goroutines
\* that keep running, the owner of the migrated peer calls Wait, and the
\* source's owner closes the stream once the source is finished; the
\* guest, the failures of the suspend RPC and of the stream, and the owner's
\* Close get no fairness.
Spec == Init /\ [][Next]_vars
        /\ \A d \in Devices : WF_vars(DeviceStep(d))
        /\ WF_vars(HandleCustomData \/ MigrateFromStep \/ Wait \/ LocalWait)
        /\ WF_vars(HandleEOF)

-----------------------------------------------------------------------------
(* Properties *)

TypeOK ==
    /\ pc \in [Devices -> PCs]
    /\ blocks \in [Devices -> SUBSET Blocks]
    /\ dirty \in [Devices -> SUBSET Blocks]
    /\ unflushed \subseteq Blocks
    /\ \A d \in Devices : totalCycles[d] \in 0..(MaxCycles[d] + 1)
                          /\ below[d] \in 0..(MinCycles[d] + 1)
    /\ readyDevices \subseteq Devices
    /\ suspend \in {"none", "running", "ok", "failed"}
    /\ suspendedVM \in BOOLEAN /\ vm \in {"running", "paused"}
    /\ writes \in 0..MaxWrites
    /\ packets \in 0..Cardinality(Devices) /\ closes \in 0..Cardinality(Devices)
    /\ mode \in {"protocol", "local"}
    /\ handle \in {"running", "eof", "error", "none"}
    /\ destPc \in {"expose", "select", "joining", "returned", "waited", "cancelled",
                   "fsDevices", "fsExpose", "failed"}
    /\ todo \subseteq Devices /\ exposed \subseteq Devices
    /\ dg \in {"none", "open", "closed"} /\ saved \in BOOLEAN
    /\ closed \in {"open", "runnerFailed", "returned"}

\* The destination closes allRemoteDevicesReady at most once: a second
\* close panics.  Every device that sees all devices ready reaches the
\* authority test, so this needs PostMigrateDirty's test-and-set of
\* AuthorityTransferCompleted to let exactly one of them through.
AllRemoteDevicesReadyClosedOnce == closes + packets <= 1

\* The destination's MigrateFrom returns (and the VM may be resumed there)
\* only after every source device has converged and the source VM is
\* suspended.
ReturnOnlyAfterSourceReady ==
    [][destPc = "select" /\ destPc' = "joining" /\ closes > 0
         => readyDevices = Devices /\ suspendedVM /\ vm = "paused"]_vars

\* migratedPeer.Close never closes the destination's device group while its
\* migration still runs: on the protocol path the owner may call Close as
\* soon as MigrateFrom returns, while the devices are still draining, and
\* Close only closes the group Wait saved after WaitForCompletion.  (The
\* price is the other hazard: a Close before Wait leaves the group open.)
GroupClosedOnlyAfterCompletion ==
    dg = "closed" => mode = "local" \/ \A d \in Devices : pc[d] = "done"

\* A MigrateFrom on the local path that returns without an error has given
\* every configured device a node, a Shared one in the first loop of
\* migrateFromFS and the others from the group built after it, and has
\* saved the group for Close.
LocalReturnExposesAll ==
    mode = "local" /\ destPc \in {"returned", "waited"} => exposed = Devices /\ saved

\* Unless a callback of the source fails, the destination's MigrateFrom
\* returns and, if it returned without an error, its Wait returns too: the
\* convergence policy makes every device ready, the last one to become ready
\* suspends the VM, the loops drain, the source closes the stream, and the
\* deferred join of pro.Handle ends.  On the local path MigrateFrom returns,
\* with or without an error.  (A failed callback is excluded: the stream then
\* ends with EOF while MigrateFrom still waits for allRemoteDevicesReady.)
MigrationCompletes ==
    [](~Aborted) => <>(destPc \in {"waited", "cancelled", "failed"})

=============================================================================
