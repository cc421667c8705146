------------------------------ MODULE DirtySync ------------------------------
(***************************************************************************)
(* The source side of a live migration: MigratablePeer.MigrateTo          *)
(* (src/unnamed/part_003, lines 193-598).  One goroutine per device (the   *)
(* ConcurrentMap callback) sends the device's DevInfo, precopies every     *)
(* block, then loops: msync (memory only), sample the dirty blocks, send   *)
(* and migrate them, apply the convergence policy and, once every device   *)
(* is ready, run the suspend sequence (a sync.OnceValue shared by all      *)
(* devices).  A device leaves the loop when a sample is empty and the VM   *)
(* is suspended; it then sends TransferAuthority, waits for its migrator   *)
(* and sends Completed.                                                    *)
(*                                                                         *)
(* Data is abstracted to a version number per block.  The guest writes     *)
(* memory pages (ram), which reach the memory device only through msync or *)
(* kernel writeback, and writes the other guest devices directly.  The     *)
(* snapshot taken by the suspend sequence flushes memory and writes the    *)
(* state device.  The migrator (silo, not in this repository) is modelled  *)
(* from the spec: a write to a device marks the block dirty, a sample      *)
(* returns and clears the dirty set, and each queued block is read and     *)
(* written to the destination by a mover, one move per block at a time.   *)
(***************************************************************************)
EXTENDS Integers, FiniteSets

CONSTANTS
    Devices,         \* the devices served (stage5Inputs)
    MemoryName,      \* the device msync'ed by the loop (packager.MemoryName)
    StateName,       \* the device the snapshot writes the VM state into
    Blocks,          \* block indices of a device
    MaxDirtyBlocks,  \* [Devices -> Nat], per-device MigrateToDevice values
    MinCycles,       \* [Devices -> Nat]
    MaxCycles,       \* [Devices -> Nat]
    MaxWrites        \* bound on guest writes in a behaviour

ASSUME MemoryName \in Devices /\ StateName \in Devices /\ MemoryName # StateName
ASSUME Blocks # {} /\ MaxWrites \in Nat
ASSUME \A f \in {MaxDirtyBlocks, MinCycles, MaxCycles} : f \in [Devices -> Nat]

VARIABLES
    pc,                 \* program counter of each device goroutine
    devicesLeftToSend,  \* atomic.Int32, counts DevInfos sent
    devicesLeftToTransferAuthorityFor, \* atomic.Int32, counts ready devices
    readyMarked,        \* markDeviceAsReadyForAuthorityTransfer has fired
    totalCycles,        \* per-device loop counters
    cyclesBelowDirtyBlockTreshold,
    sample,             \* the "blocks" of the current loop iteration
    suspend,            \* state of the suspendAndMsyncVM OnceValue
    suspendedVM,        \* the flag guarded by suspendedVMLock
    vm,                 \* "running" or "paused" (the hypervisor's VM)
    ram,                \* guest memory pages, by block
    disk,               \* contents of each device at the source
    dirty,              \* dirty blocks of each device since the last sample
    pending,            \* blocks queued in the device's migrator
    wgBusy,             \* a MigrateDirty goroutine is counted in ongoingMigrationsWg
    dst,                \* contents of each device at the destination
    writes,             \* guest writes so far (bound only)
    authSent            \* TransferAuthority sent, per device

vars == <<pc, devicesLeftToSend, devicesLeftToTransferAuthorityFor, readyMarked,
          totalCycles, cyclesBelowDirtyBlockTreshold, sample, suspend,
          suspendedVM, vm, ram, disk, dirty, pending, wgBusy, dst, writes, authSent>>

N == Cardinality(Devices)

Versions == -1..(MaxWrites + 1)   \* -1: never received by the destination

GuestDevices == Devices \ {StateName}

PCs == {"devinfo", "checkSent", "precopy", "loop", "sample", "check", "converge",
        "trigger", "suspendAgent", "suspendMsync", "authority", "completion",
        "done", "failed"}

-----------------------------------------------------------------------------
(* Helpers *)

Goto(d, l) == pc' = [pc EXCEPT ![d] = l]

\* msync: every memory page that differs from the memory device is written
\* to it, and the written blocks become dirty.
Flushed == { b \in Blocks : ram[b] # disk[MemoryName][b] }

FlushMemory ==
    /\ disk' = [disk EXCEPT ![MemoryName] = [b \in Blocks |-> ram[b]]]
    /\ dirty' = [dirty EXCEPT ![MemoryName] = @ \cup Flushed]

-----------------------------------------------------------------------------
(* The device goroutine *)

\* to.SendDevInfo; hook; devicesLeftToSend.Add(1)   (lines 294-307)
SendDevInfo(d) ==
    /\ pc[d] = "devinfo"
    /\ devicesLeftToSend' = devicesLeftToSend + 1
    /\ Goto(d, "checkSent")
    /\ UNCHANGED <<devicesLeftToTransferAuthorityFor, readyMarked, totalCycles,
                   cyclesBelowDirtyBlockTreshold, sample, suspend, suspendedVM,
                   vm, ram, disk, dirty, pending, wgBusy, dst, writes, authSent>>

\* Send AllDevicesSent if devicesLeftToSend.Load() >= len(stage5Inputs) (the
\* event only matters to the destination, and Destination models it); start the NeedAt/DontNeedAt handlers, build the
\* migrator and start the precopy, mig.Migrate(totalBlocks)  (lines 308-428)
StartMigration(d) ==
    /\ pc[d] = "checkSent"
    /\ pending' = [pending EXCEPT ![d] = Blocks]
    /\ Goto(d, "precopy")
    /\ UNCHANGED <<devicesLeftToSend, devicesLeftToTransferAuthorityFor,
                   readyMarked, totalCycles, cyclesBelowDirtyBlockTreshold,
                   sample, suspend, suspendedVM, vm, ram, disk, dirty, wgBusy,
                   dst, writes, authSent>>

\* mig.WaitForCompletion() after the precopy   (lines 430-434)
PrecopyDone(d) ==
    /\ pc[d] = "precopy"
    /\ pending[d] = {}
    /\ Goto(d, "loop")
    /\ UNCHANGED <<devicesLeftToSend, devicesLeftToTransferAuthorityFor,
                   readyMarked, totalCycles, cyclesBelowDirtyBlockTreshold,
                   sample, suspend, suspendedVM, vm, ram, disk, dirty, pending,
                   wgBusy, dst, writes, authSent>>

\* Loop head: under suspendedVMLock, msync if the VM is not suspended and
\* this is the memory device   (lines 448-458)
LoopHead(d) ==
    /\ pc[d] = "loop"
    /\ IF ~suspendedVM /\ d = MemoryName
          THEN FlushMemory
          ELSE UNCHANGED <<disk, dirty>>
    /\ Goto(d, "sample")
    /\ UNCHANGED <<devicesLeftToSend, devicesLeftToTransferAuthorityFor,
                   readyMarked, totalCycles, cyclesBelowDirtyBlockTreshold,
                   sample, suspend, suspendedVM, vm, ram, pending, wgBusy, dst,
                   writes, authSent>>

\* The memory device's Msync fails: suspendedVMLock.Unlock() and the device
\* goroutine returns ErrCouldNotMsyncRunner before it was marked ready
\* (lines 450-456).
MsyncFails(d) ==
    /\ pc[d] = "loop"
    /\ ~suspendedVM /\ d = MemoryName
    /\ Goto(d, "failed")
    /\ UNCHANGED <<devicesLeftToSend, devicesLeftToTransferAuthorityFor,
                   readyMarked, totalCycles, cyclesBelowDirtyBlockTreshold,
                   sample, suspend, suspendedVM, vm, ram, disk, dirty, pending,
                   wgBusy, dst, writes, authSent>>

\* ongoingMigrationsWg.Wait(); blocks := mig.GetLatestDirty(); if blocks is
\* nil, mig.Unlock()   (lines 460-468)
Sample(d) ==
    /\ pc[d] = "sample"
    /\ ~wgBusy[d]
    /\ sample' = [sample EXCEPT ![d] = dirty[d]]
    /\ dirty' = [dirty EXCEPT ![d] = {}]
    /\ Goto(d, "check")
    /\ UNCHANGED <<devicesLeftToSend, devicesLeftToTransferAuthorityFor,
                   readyMarked, totalCycles, cyclesBelowDirtyBlockTreshold,
                   suspend, suspendedVM, vm, ram, disk, pending, wgBusy, dst,
                   writes, authSent>>

\* Variant: the break does not check suspendedVM.
LeaveLoopUnchecked(d) ==
    /\ pc[d] = "check"
    /\ sample[d] = {}
    /\ Goto(d, "authority")
    /\ UNCHANGED <<devicesLeftToSend, devicesLeftToTransferAuthorityFor,
                   readyMarked, totalCycles, cyclesBelowDirtyBlockTreshold,
                   sample, suspend, suspendedVM, vm, ram, disk, dirty, pending,
                   wgBusy, dst, writes, authSent>>

\* blocks == nil and suspendedVM: break out of the loop   (lines 469-474)
LeaveLoop(d) ==
    /\ pc[d] = "check"
    /\ sample[d] = {}
    /\ suspendedVM
    /\ Goto(d, "authority")
    /\ UNCHANGED <<devicesLeftToSend, devicesLeftToTransferAuthorityFor,
                   readyMarked, totalCycles, cyclesBelowDirtyBlockTreshold,
                   sample, suspend, suspendedVM, vm, ram, disk, dirty, pending,
                   wgBusy, dst, writes, authSent>>

\* Otherwise: if blocks != nil, send the DirtyList and start a goroutine
\* running mig.MigrateDirty(blocks), counted in ongoingMigrationsWg; then
\* wait out the cycle throttle unless suspended or all devices are ready
\* (lines 476-533; the wait changes no state)
MigrateDirty(d) ==
    /\ pc[d] = "check"
    /\ ~(sample[d] = {} /\ suspendedVM)
    /\ IF sample[d] # {}
          THEN /\ pending' = [pending EXCEPT ![d] = @ \cup sample[d]]
               /\ wgBusy' = [wgBusy EXCEPT ![d] = TRUE]
          ELSE UNCHANGED <<pending, wgBusy>>
    /\ Goto(d, "converge")
    /\ UNCHANGED <<devicesLeftToSend, devicesLeftToTransferAuthorityFor,
                   readyMarked, totalCycles, cyclesBelowDirtyBlockTreshold,
                   sample, suspend, suspendedVM, vm, ram, disk, dirty, dst,
                   writes, authSent>>

\* Variant: a plain function instead of a sync.OnceFunc marks the device
\* ready at every converged iteration.
ConvergeNotOnce(d) ==
    LET t     == totalCycles[d] + 1
        below == Cardinality(sample[d]) < MaxDirtyBlocks[d]
        c     == IF below THEN cyclesBelowDirtyBlockTreshold[d] + 1
                 ELSE IF t > MaxCycles[d] THEN cyclesBelowDirtyBlockTreshold[d]
                 ELSE 0
        mark  == IF below THEN c > MinCycles[d] ELSE t > MaxCycles[d]
    IN
    /\ pc[d] = "converge"
    /\ totalCycles' = [totalCycles EXCEPT ![d] = t]
    /\ cyclesBelowDirtyBlockTreshold' = [cyclesBelowDirtyBlockTreshold EXCEPT ![d] = c]
    /\ readyMarked' = [readyMarked EXCEPT ![d] = @ \/ mark]
    /\ devicesLeftToTransferAuthorityFor' =
           devicesLeftToTransferAuthorityFor + (IF mark THEN 1 ELSE 0)
    /\ Goto(d, "trigger")
    /\ UNCHANGED <<devicesLeftToSend, sample, suspend, suspendedVM, vm, ram,
                   disk, dirty, pending, wgBusy, dst, writes,
                   authSent>>

\* Variant: the below-threshold branch does not count the iteration.
ConvergeNoBelowCount(d) ==
    LET t     == totalCycles[d] + 1
        below == Cardinality(sample[d]) < MaxDirtyBlocks[d]
        c     == IF below THEN cyclesBelowDirtyBlockTreshold[d]
                 ELSE IF t > MaxCycles[d] THEN cyclesBelowDirtyBlockTreshold[d]
                 ELSE 0
        mark  == IF below THEN c > MinCycles[d] ELSE t > MaxCycles[d]
    IN
    /\ pc[d] = "converge"
    /\ IF readyMarked[d]
          THEN UNCHANGED <<totalCycles, cyclesBelowDirtyBlockTreshold,
                           readyMarked, devicesLeftToTransferAuthorityFor>>
          ELSE /\ totalCycles' = [totalCycles EXCEPT ![d] = t]
               /\ cyclesBelowDirtyBlockTreshold' =
                      [cyclesBelowDirtyBlockTreshold EXCEPT ![d] = c]
               /\ readyMarked' = [readyMarked EXCEPT ![d] = mark]
               /\ devicesLeftToTransferAuthorityFor' =
                      devicesLeftToTransferAuthorityFor + (IF mark THEN 1 ELSE 0)
    /\ Goto(d, "trigger")
    /\ UNCHANGED <<devicesLeftToSend, sample, suspend, suspendedVM, vm, ram,
                   disk, dirty, pending, wgBusy, dst, writes,
                   authSent>>

\* The convergence policy   (lines 535-545).  markDeviceAsReadyForAuthority-
\* Transfer is a sync.OnceFunc and the two counters feed nothing else, so
\* once it has fired the counters are left alone (the code keeps counting).
Converge(d) ==
    LET t     == totalCycles[d] + 1
        below == Cardinality(sample[d]) < MaxDirtyBlocks[d]
        c     == IF below THEN cyclesBelowDirtyBlockTreshold[d] + 1
                 ELSE IF t > MaxCycles[d] THEN cyclesBelowDirtyBlockTreshold[d]
                 ELSE 0
        mark  == IF below THEN c > MinCycles[d] ELSE t > MaxCycles[d]
    IN
    /\ pc[d] = "converge"
    /\ IF readyMarked[d]
          THEN UNCHANGED <<totalCycles, cyclesBelowDirtyBlockTreshold,
                           readyMarked, devicesLeftToTransferAuthorityFor>>
          ELSE /\ totalCycles' = [totalCycles EXCEPT ![d] = t]
               /\ cyclesBelowDirtyBlockTreshold' =
                      [cyclesBelowDirtyBlockTreshold EXCEPT ![d] = c]
               /\ readyMarked' = [readyMarked EXCEPT ![d] = mark]
               /\ devicesLeftToTransferAuthorityFor' =
                      devicesLeftToTransferAuthorityFor + (IF mark THEN 1 ELSE 0)
    /\ Goto(d, "trigger")
    /\ UNCHANGED <<devicesLeftToSend, sample, suspend, suspendedVM, vm, ram,
                   disk, dirty, pending, wgBusy, dst, writes,
                   authSent>>

AllReady == devicesLeftToTransferAuthorityFor >= N

\* Not every device is ready: next iteration   (line 547)
NoSuspend(d) ==
    /\ pc[d] = "trigger"
    /\ ~AllReady
    /\ Goto(d, "loop")
    /\ UNCHANGED <<devicesLeftToSend, devicesLeftToTransferAuthorityFor,
                   readyMarked, totalCycles, cyclesBelowDirtyBlockTreshold,
                   sample, suspend, suspendedVM, vm, ram, disk, dirty, pending,
                   wgBusy, dst, writes, authSent>>

\* Variant: a flag checked and set in two steps instead of a OnceValue.
BeginSuspendUnlatched(d) ==
    /\ pc[d] = "trigger"
    /\ AllReady
    /\ suspend # "running"
    /\ suspend' = "running"
    /\ Goto(d, "suspendAgent")
    /\ UNCHANGED <<devicesLeftToSend, devicesLeftToTransferAuthorityFor,
                   readyMarked, totalCycles, cyclesBelowDirtyBlockTreshold,
                   sample, suspendedVM, vm, ram, disk, dirty, pending, wgBusy,
                   dst, writes, authSent>>

\* All ready and the OnceValue has not run: this device runs its body
\* (lines 548, 241-243)
BeginSuspend(d) ==
    /\ pc[d] = "trigger"
    /\ AllReady
    /\ suspend = "idle"
    /\ suspend' = "running"
    /\ Goto(d, "suspendAgent")
    /\ UNCHANGED <<devicesLeftToSend, devicesLeftToTransferAuthorityFor,
                   readyMarked, totalCycles, cyclesBelowDirtyBlockTreshold,
                   sample, suspendedVM, vm, ram, disk, dirty, pending, wgBusy,
                   dst, writes, authSent>>

\* All ready and the OnceValue has finished (a caller that arrives while it
\* runs blocks until then): take its cached result   (lines 547-551)
JoinSuspend(d) ==
    /\ pc[d] = "trigger"
    /\ AllReady
    /\ suspend \in {"ok", "err"}
    /\ Goto(d, IF suspend = "ok" THEN "loop" ELSE "failed")
    /\ UNCHANGED <<devicesLeftToSend, devicesLeftToTransferAuthorityFor,
                   readyMarked, totalCycles, cyclesBelowDirtyBlockTreshold,
                   sample, suspend, suspendedVM, vm, ram, disk, dirty, pending,
                   wgBusy, dst, writes, authSent>>

\* SuspendAndCloseAgentServer succeeds: BeforeSuspend RPC, close the agent,
\* CreateSnapshot(MsyncAndState) pauses the VM, flushes memory and writes
\* the state device (some non-empty set of its blocks)   (lines 246-248)
SnapshotVM(d) ==
    /\ pc[d] = "suspendAgent"
    /\ vm' = "paused"
    /\ \E W \in SUBSET Blocks \ {{}} :
          /\ disk' = [disk EXCEPT
                        ![MemoryName] = [b \in Blocks |-> ram[b]],
                        ![StateName] = [b \in Blocks |->
                                          IF b \in W THEN @[b] + 1 ELSE @[b]]]
          /\ dirty' = [dirty EXCEPT ![MemoryName] = @ \cup Flushed,
                                    ![StateName] = @ \cup W]
    /\ Goto(d, "suspendMsync")
    /\ UNCHANGED <<devicesLeftToSend, devicesLeftToTransferAuthorityFor,
                   readyMarked, totalCycles, cyclesBelowDirtyBlockTreshold,
                   sample, suspend, suspendedVM, ram, pending, wgBusy, dst,
                   writes, authSent>>

\* SuspendAndCloseAgentServer or the final Msync fails: the OnceValue caches
\* the error and this device returns it   (lines 246-252)
SuspendFails(d) ==
    /\ pc[d] \in {"suspendAgent", "suspendMsync"}
    /\ suspend' = "err"
    /\ Goto(d, "failed")
    /\ UNCHANGED <<devicesLeftToSend, devicesLeftToTransferAuthorityFor,
                   readyMarked, totalCycles, cyclesBelowDirtyBlockTreshold,
                   sample, suspendedVM, vm, ram, disk, dirty, pending, wgBusy,
                   dst, writes, authSent>>

\* Variant: the suspended flag is never set.
MarkSuspendedNoFlag(d) ==
    /\ pc[d] = "suspendMsync"
    /\ suspend' = "ok"
    /\ Goto(d, "loop")
    /\ UNCHANGED <<devicesLeftToSend, devicesLeftToTransferAuthorityFor,
                   readyMarked, totalCycles, cyclesBelowDirtyBlockTreshold,
                   sample, suspendedVM, vm, ram, disk, dirty, pending, wgBusy,
                   dst, writes, authSent>>

\* Msync (memory is already flushed: no new writes); OnAfterSuspend;
\* suspendedVM = true under the lock; close(suspendedVMCh)  (lines 250-264)
MarkSuspended(d) ==
    /\ pc[d] = "suspendMsync"
    /\ suspendedVM' = TRUE
    /\ suspend' = "ok"
    /\ Goto(d, "loop")
    /\ UNCHANGED <<devicesLeftToSend, devicesLeftToTransferAuthorityFor,
                   readyMarked, totalCycles, cyclesBelowDirtyBlockTreshold,
                   sample, vm, ram, disk, dirty, pending, wgBusy, dst, writes, authSent>>

\* Variant: the TransferAuthority event is never sent.
SendAuthoritySkipped(d) ==
    /\ pc[d] = "authority"
    /\ Goto(d, "completion")
    /\ UNCHANGED <<devicesLeftToSend, devicesLeftToTransferAuthorityFor,
                   readyMarked, totalCycles, cyclesBelowDirtyBlockTreshold,
                   sample, suspend, suspendedVM, vm, ram, disk, dirty, pending,
                   wgBusy, dst, writes, authSent>>

\* to.SendEvent(TransferAuthority); hook   (lines 554-563)
SendAuthority(d) ==
    /\ pc[d] = "authority"
    /\ authSent' = [authSent EXCEPT ![d] = TRUE]
    /\ Goto(d, "completion")
    /\ UNCHANGED <<devicesLeftToSend, devicesLeftToTransferAuthorityFor,
                   readyMarked, totalCycles, cyclesBelowDirtyBlockTreshold,
                   sample, suspend, suspendedVM, vm, ram, disk, dirty, pending,
                   wgBusy, dst, writes>>

\* mig.WaitForCompletion(); to.SendEvent(Completed); hook   (lines 565-579)
SendCompleted(d) ==
    /\ pc[d] = "completion"
    /\ pending[d] = {}
    /\ Goto(d, "done")
    /\ UNCHANGED <<devicesLeftToSend, devicesLeftToTransferAuthorityFor,
                   readyMarked, totalCycles, cyclesBelowDirtyBlockTreshold,
                   sample, suspend, suspendedVM, vm, ram, disk, dirty, pending,
                   wgBusy, dst, writes, authSent>>

-----------------------------------------------------------------------------
(* The migrator's goroutines (silo, modelled from the spec) *)

\* A block mover reads the block at the source and writes it to the
\* destination (WriteAt and its response).
MoveBlock(d, b) ==
    /\ b \in pending[d]
    /\ dst' = [dst EXCEPT ![d][b] = disk[d][b]]
    /\ pending' = [pending EXCEPT ![d] = @ \ {b}]
    /\ UNCHANGED <<pc, devicesLeftToSend, devicesLeftToTransferAuthorityFor,
                   readyMarked, totalCycles, cyclesBelowDirtyBlockTreshold,
                   sample, suspend, suspendedVM, vm, ram, disk, dirty, wgBusy,
                   writes, authSent>>

\* mig.MigrateDirty(blocks) has handed every block to a mover and returned:
\* the goroutine calls ongoingMigrationsWg.Done()   (lines 485-505)
MigrateDirtyReturns(d) ==
    /\ wgBusy[d]
    /\ wgBusy' = [wgBusy EXCEPT ![d] = FALSE]
    /\ UNCHANGED <<pc, devicesLeftToSend, devicesLeftToTransferAuthorityFor,
                   readyMarked, totalCycles, cyclesBelowDirtyBlockTreshold,
                   sample, suspend, suspendedVM, vm, ram, disk, dirty, pending,
                   dst, writes, authSent>>

-----------------------------------------------------------------------------
(* The guest and the kernel *)

\* The running guest writes a block: a memory page, or a guest device
\* directly (the write marks the block dirty).
GuestWrite(d, b) ==
    /\ vm = "running"
    /\ writes < MaxWrites
    /\ d \in GuestDevices
    /\ writes' = writes + 1
    /\ IF d = MemoryName
          THEN /\ ram' = [ram EXCEPT ![b] = @ + 1]
               /\ UNCHANGED <<disk, dirty>>
          ELSE /\ disk' = [disk EXCEPT ![d][b] = @ + 1]
               /\ dirty' = [dirty EXCEPT ![d] = @ \cup {b}]
               /\ UNCHANGED ram
    /\ UNCHANGED <<pc, devicesLeftToSend, devicesLeftToTransferAuthorityFor,
                   readyMarked, totalCycles, cyclesBelowDirtyBlockTreshold,
                   sample, suspend, suspendedVM, vm, pending, wgBusy, dst, authSent>>

\* Kernel writeback of one shared memory page to the memory device.
Writeback(b) ==
    /\ ram[b] # disk[MemoryName][b]
    /\ disk' = [disk EXCEPT ![MemoryName][b] = ram[b]]
    /\ dirty' = [dirty EXCEPT ![MemoryName] = @ \cup {b}]
    /\ UNCHANGED <<pc, devicesLeftToSend, devicesLeftToTransferAuthorityFor,
                   readyMarked, totalCycles, cyclesBelowDirtyBlockTreshold,
                   sample, suspend, suspendedVM, vm, ram, pending, wgBusy, dst,
                   writes, authSent>>

-----------------------------------------------------------------------------

Init ==
    /\ pc = [d \in Devices |-> "devinfo"]
    /\ devicesLeftToSend = 0
    /\ devicesLeftToTransferAuthorityFor = 0
    /\ readyMarked = [d \in Devices |-> FALSE]
    /\ totalCycles = [d \in Devices |-> 0]
    /\ cyclesBelowDirtyBlockTreshold = [d \in Devices |-> 0]
    /\ sample = [d \in Devices |-> {}]
    /\ suspend = "idle"
    /\ suspendedVM = FALSE
    /\ vm = "running"
    /\ ram = [b \in Blocks |-> 0]
    /\ disk = [d \in Devices |-> [b \in Blocks |-> 0]]
    /\ dirty = [d \in Devices |-> {}]
    /\ pending = [d \in Devices |-> {}]
    /\ wgBusy = [d \in Devices |-> FALSE]
    /\ dst = [d \in Devices |-> [b \in Blocks |-> -1]]
    /\ writes = 0
    /\ authSent = [d \in Devices |-> FALSE]

DeviceStep(d) ==
    \/ SendDevInfo(d)
    \/ StartMigration(d)
    \/ PrecopyDone(d)
    \/ LoopHead(d)
    \/ MsyncFails(d)
    \/ Sample(d)
    \/ LeaveLoop(d)
    \/ MigrateDirty(d)
    \/ Converge(d)
    \/ NoSuspend(d)
    \/ BeginSuspend(d)
    \/ JoinSuspend(d)
    \/ SnapshotVM(d)
    \/ SuspendFails(d)
    \/ MarkSuspended(d)
    \/ SendAuthority(d)
    \/ SendCompleted(d)

MigratorStep(d) ==
    \/ \E b \in Blocks : MoveBlock(d, b)
    \/ MigrateDirtyReturns(d)

\* MigrateTo has returned: every device goroutine has finished.
Finished ==
    /\ \A d \in Devices : pc[d] \in {"done", "failed"}
    /\ UNCHANGED vars

Next ==
    \/ \E d \in Devices : DeviceStep(d) \/ MigratorStep(d)
    \/ \E d \in Devices, b \in Blocks : GuestWrite(d, b)
    \/ \E b \in Blocks : Writeback(b)
    \/ Finished

\* Goroutines are scheduled fairly; the guest, the kernel and the failure
\* of the msync and suspend RPCs are not.
Fairness ==
    \A d \in Devices :
        /\ WF_vars(DeviceStep(d) /\ ~MsyncFails(d) /\ ~SuspendFails(d))
        /\ WF_vars(MigratorStep(d))

Spec == Init /\ [][Next]_vars /\ Fairness

-----------------------------------------------------------------------------
(* Properties *)

TypeOK ==
    /\ pc \in [Devices -> PCs]
    /\ devicesLeftToSend \in 0..N
    /\ devicesLeftToTransferAuthorityFor \in 0..N
    /\ readyMarked \in [Devices -> BOOLEAN]
    /\ totalCycles \in [Devices -> Nat]
    /\ cyclesBelowDirtyBlockTreshold \in [Devices -> Nat]
    /\ sample \in [Devices -> SUBSET Blocks]
    /\ suspend \in {"idle", "running", "ok", "err"}
    /\ suspendedVM \in BOOLEAN
    /\ vm \in {"running", "paused"}
    /\ ram \in [Blocks -> Versions]
    /\ disk \in [Devices -> [Blocks -> Versions]]
    /\ dirty \in [Devices -> SUBSET Blocks]
    /\ pending \in [Devices -> SUBSET Blocks]
    /\ wgBusy \in [Devices -> BOOLEAN]
    /\ dst \in [Devices -> [Blocks -> Versions]]
    /\ writes \in 0..MaxWrites
    /\ authSent \in [Devices -> BOOLEAN]

\* TransferAuthority for any device is sent only after the suspend sequence
\* has completed (suspendedVM set by suspendAndMsyncVM) and after every
\* device was marked ready; the loop's break condition and the all-ready
\* trigger together must guarantee this.
AuthorityAfterSuspend ==
    \A d \in Devices :
        authSent[d] => suspendedVM /\ vm = "paused" /\ \A e \in Devices : readyMarked[e]

\* The convergence policy marks a device ready within MaxCycles + MinCycles
\* + 1 iterations, however its dirty counts alternate.
ReadyWithinBound ==
    \A d \in Devices :
        totalCycles[d] > MaxCycles[d] + MinCycles[d] + 1 => readyMarked[d]

\* If no device fails, every device goroutine sends Completed and returns:
\* the devices converge, the suspend runs, every loop breaks on an empty
\* sample and every migrator drains.  (A device whose Msync fails returns
\* before it is ready, and the others then loop for ever: the condition is
\* needed.)
MigrationTerminates ==
    (\A d \in Devices : [](pc[d] # "failed")) => <>(\A d \in Devices : pc[d] = "done")

\* The suspend sequence runs exactly once however many devices reach the
\* all-ready trigger (spec section 8.5, the sync.OnceValue of MigrateTo):
\* every snapshot is taken of a VM that is still running.
SuspendOneShot ==
    [][\A d \in Devices :
          pc[d] = "suspendAgent" /\ pc'[d] = "suspendMsync" => vm = "running"]_vars

\* A device that sent Completed has at the destination exactly what the
\* source device finally holds (the VM is paused; nothing changes it).
CompletedDataMatches ==
    \A d \in Devices : pc[d] = "done" => dst[d] = disk[d]

\* Spec section 5: TransferAuthority for a device follows the last WriteAt
\* for that device (no block is still queued in its migrator).
AuthorityAfterLastWrite ==
    [][\A d \in Devices : ~authSent[d] /\ authSent'[d] => pending[d] = {}]_vars


\* The abstract view of a device: what the destination has been told.
HandoffPhase(d) ==
    CASE pc[d] = "done"   -> "completed"
      [] pc[d] = "failed" -> "failed"
      [] authSent[d]      -> "authority"
      [] readyMarked[d]   -> "ready"
      [] OTHER            -> "migrating"

HO == INSTANCE Handoff WITH phase <- [d \in Devices |-> HandoffPhase(d)], vm <- vm

\* This MigrateTo implements the Handoff promise as the earlier one does: a
\* device is ready before the VM is paused for good, TransferAuthority
\* follows the pause, Completed follows TransferAuthority, and a failed
\* suspend fails devices that have not handed over authority.
HandoffRefined == HO!Spec
=============================================================================
