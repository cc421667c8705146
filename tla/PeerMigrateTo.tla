---------------------------- MODULE PeerMigrateTo ----------------------------
(***************************************************************************)
(* The source side of a live migration in its earlier form: the           *)
(* MigrateTo function that ResumedPeer.MakeMigratable returns              *)
(* (src/pkg/roles/peer.go, lines 954-1284).  One goroutine per device (the *)
(* ConcurrentMap callback) sends DevInfo, precopies every block, then      *)
(* loops: msync the VM's memory (for every device, every iteration),       *)
(* sample the dirty blocks, break if the sample is empty and the VM is     *)
(* suspended, send the DirtyList, apply the convergence policy, run the    *)
(* suspend OnceValue once every device is ready, and under suspendedVMLock *)
(* either migrate the sample at once or, once suspended, keep it in        *)
(* finalDirtyBlocks.  After the loop it sends TransferAuthority, migrates  *)
(* finalDirtyBlocks, waits for its migrator and sends Completed.           *)
(*                                                                         *)
(* Block contents are left out: the properties are about control, and     *)
(* the data path of the same loop is DirtySync's.  The guest writes memory *)
(* pages (memDirty), which reach the memory device by msync, by the        *)
(* snapshot or by kernel writeback and then mark its blocks dirty.  The    *)
(* migrator (silo, not in this repository) is modelled from the spec:      *)
(* MigrateDirty queues blocks and a mover writes each one to the           *)
(* destination.  Msync, the suspend RPCs and the steps after             *)
(* TransferAuthority (MigrateDirty, WaitForCompletion, Completed) can fail.*)
(***************************************************************************)
EXTENDS Integers, FiniteSets

CONSTANTS
    Devices,         \* stage3Inputs
    MemoryName,      \* the memory device (the one msync writes)
    StateName,       \* the device the snapshot writes the VM state into
    Blocks,          \* block indices of a device
    MaxDirtyBlocks,  \* [Devices -> Nat], the <name>MaxDirtyBlocks argument
    MinCycles,       \* [Devices -> Nat], the <name>MinCycles argument
    MaxCycles,       \* [Devices -> Nat], the <name>MaxCycles argument
    MaxWrites        \* bound on guest writes in a behaviour

ASSUME MemoryName \in Devices /\ StateName \in Devices /\ MemoryName # StateName
ASSUME Blocks # {} /\ MaxWrites \in Nat
ASSUME \A f \in {MaxDirtyBlocks, MinCycles, MaxCycles} : f \in [Devices -> Nat]

VARIABLES
    pc,                 \* program counter of each device goroutine
    devicesLeftToSend,  \* atomic.Int32
    devicesLeftToTransferAuthorityFor, \* atomic.Int32
    readyMarked,        \* markDeviceAsReadyForAuthorityTransfer has fired
    totalCycles,
    cyclesBelowDirtyBlockTreshold,
    sample,             \* "blocks" of the current iteration
    finalDirtyBlocks,
    suspend,            \* state of the suspendVM OnceValue
    suspendedVM,        \* the flag guarded by suspendedVMLock
    vm,                 \* "running" or "paused"
    memDirty,           \* memory pages not yet on the memory device
    dirty,              \* dirty blocks of each device since the last sample
    pending,            \* blocks queued in the device's migrator
    writes,             \* guest writes so far (bound only)
    authSent            \* TransferAuthority sent, per device

counters == <<devicesLeftToSend, devicesLeftToTransferAuthorityFor, readyMarked,
              totalCycles, cyclesBelowDirtyBlockTreshold>>
guest == <<vm, memDirty, writes>>
vars == <<pc, counters, sample, finalDirtyBlocks, suspend, suspendedVM, guest,
          dirty, pending, authSent>>

N == Cardinality(Devices)

PCs == {"devinfo", "checkSent", "precopy", "msync", "sample", "check",
        "trigger", "suspendAgent", "suspended", "dispatch", "authority",
        "final", "completion", "done", "failed"}

Goto(d, l) == pc' = [pc EXCEPT ![d] = l]

AllReady == devicesLeftToTransferAuthorityFor >= N

\* The memory pages the guest wrote reach the memory device; its blocks
\* become dirty.
FlushMemory ==
    /\ dirty' = [dirty EXCEPT ![MemoryName] = @ \cup memDirty]
    /\ memDirty' = {}

-----------------------------------------------------------------------------
(* The device goroutine *)

\* to.SendDevInfo; hook; devicesLeftToSend.Add(1)   (lines 1039-1049)
SendDevInfo(d) ==
    /\ pc[d] = "devinfo"
    /\ devicesLeftToSend' = devicesLeftToSend + 1
    /\ Goto(d, "checkSent")
    /\ UNCHANGED <<devicesLeftToTransferAuthorityFor, readyMarked, totalCycles,
                   cyclesBelowDirtyBlockTreshold, sample, finalDirtyBlocks,
                   suspend, suspendedVM, guest, dirty, pending, authSent>>

\* AllDevicesSent if devicesLeftToSend.Load() >= len(stage3Inputs) (an
\* event for the destination, see Destination), the NeedAt/DontNeedAt
\* handlers (see BlockRange), NewMigrator and mig.Migrate(totalBlocks)
\* (lines 1049-1120)
StartMigration(d) ==
    /\ pc[d] = "checkSent"
    /\ pending' = [pending EXCEPT ![d] = Blocks]
    /\ Goto(d, "precopy")
    /\ UNCHANGED <<counters, sample, finalDirtyBlocks, suspend, suspendedVM,
                   guest, dirty, authSent>>

\* mig.WaitForCompletion() after the precopy   (lines 1121-1129)
PrecopyDone(d) ==
    /\ pc[d] = "precopy"
    /\ pending[d] = {}
    /\ Goto(d, "msync")
    /\ UNCHANGED <<counters, sample, finalDirtyBlocks, suspend, suspendedVM,
                   guest, dirty, pending, authSent>>

\* resumedRunner.Msync(ctx), whatever the device   (lines 1175-1178)
Msync(d) ==
    /\ pc[d] = "msync"
    /\ FlushMemory
    /\ Goto(d, "sample")
    /\ UNCHANGED <<counters, sample, finalDirtyBlocks, suspend, suspendedVM, vm,
                   writes, pending, authSent>>

\* Msync returns an error: the device returns it   (lines 1176-1178)
MsyncFails(d) ==
    /\ pc[d] = "msync"
    /\ Goto(d, "failed")
    /\ UNCHANGED <<counters, sample, finalDirtyBlocks, suspend, suspendedVM,
                   guest, dirty, pending, authSent>>

\* blocks := mig.GetLatestDirty()   (line 1180)
Sample(d) ==
    /\ pc[d] = "sample"
    /\ sample' = [sample EXCEPT ![d] = dirty[d]]
    /\ dirty' = [dirty EXCEPT ![d] = {}]
    /\ Goto(d, "check")
    /\ UNCHANGED <<counters, finalDirtyBlocks, suspend, suspendedVM, guest,
                   pending, authSent>>

\* Variant: the break does not check suspendedVM.
LeaveLoopUnchecked(d) ==
    /\ pc[d] = "check"
    /\ sample[d] = {}
    /\ Goto(d, "authority")
    /\ UNCHANGED <<counters, sample, finalDirtyBlocks, suspend, suspendedVM,
                   guest, dirty, pending, authSent>>

\* blocks == nil: mig.Unlock(); suspendedVM under its lock: break
\* (lines 1181-1190)
LeaveLoop(d) ==
    /\ pc[d] = "check"
    /\ sample[d] = {}
    /\ suspendedVM
    /\ Goto(d, "authority")
    /\ UNCHANGED <<counters, sample, finalDirtyBlocks, suspend, suspendedVM,
                   guest, dirty, pending, authSent>>

\* Variant: a plain function instead of a sync.OnceFunc marks the device
\* ready at every converged iteration.
ConvergeNotOnce(d) ==
    LET t     == totalCycles[d] + 1
        below == Cardinality(sample[d]) < MaxDirtyBlocks[d]
        c     == IF below THEN cyclesBelowDirtyBlockTreshold[d] + 1
                 ELSE IF t > MaxCycles[d] THEN cyclesBelowDirtyBlockTreshold[d]
                 ELSE 0
        mark  == IF below THEN c > MinCycles[d] ELSE t > MaxCycles[d]
    IN
    /\ pc[d] = "check"
    /\ ~(sample[d] = {} /\ suspendedVM)
    /\ totalCycles' = [totalCycles EXCEPT ![d] = t]
    /\ cyclesBelowDirtyBlockTreshold' = [cyclesBelowDirtyBlockTreshold EXCEPT ![d] = c]
    /\ readyMarked' = [readyMarked EXCEPT ![d] = @ \/ mark]
    /\ devicesLeftToTransferAuthorityFor' =
           devicesLeftToTransferAuthorityFor + (IF mark THEN 1 ELSE 0)
    /\ Goto(d, "trigger")
    /\ UNCHANGED <<devicesLeftToSend, sample, finalDirtyBlocks, suspend,
                   suspendedVM, guest, dirty, pending, authSent>>

\* Otherwise to.DirtyList(blocks), hook, and the convergence policy
\* (lines 1192-1211).  markDeviceAsReadyForAuthorityTransfer is a
\* sync.OnceFunc and the counters feed nothing else, so once it has fired
\* they are left alone (the code keeps counting).
Converge(d) ==
    LET t     == totalCycles[d] + 1
        below == Cardinality(sample[d]) < MaxDirtyBlocks[d]
        c     == IF below THEN cyclesBelowDirtyBlockTreshold[d] + 1
                 ELSE IF t > MaxCycles[d] THEN cyclesBelowDirtyBlockTreshold[d]
                 ELSE 0
        mark  == IF below THEN c > MinCycles[d] ELSE t > MaxCycles[d]
    IN
    /\ pc[d] = "check"
    /\ ~(sample[d] = {} /\ suspendedVM)
    /\ IF readyMarked[d]
          THEN UNCHANGED <<totalCycles, cyclesBelowDirtyBlockTreshold,
                           readyMarked, devicesLeftToTransferAuthorityFor>>
          ELSE /\ totalCycles' = [totalCycles EXCEPT ![d] = t]
               /\ cyclesBelowDirtyBlockTreshold' =
                      [cyclesBelowDirtyBlockTreshold EXCEPT ![d] = c]
               /\ readyMarked' = [readyMarked EXCEPT ![d] = mark]
               /\ devicesLeftToTransferAuthorityFor' =
                      devicesLeftToTransferAuthorityFor + (IF mark THEN 1 ELSE 0)
    /\ Goto(d, "trigger")
    /\ UNCHANGED <<devicesLeftToSend, sample, finalDirtyBlocks, suspend,
                   suspendedVM, guest, dirty, pending, authSent>>

\* Not every device is ready: no suspend this iteration   (line 1213)
NoSuspend(d) ==
    /\ pc[d] = "trigger"
    /\ ~AllReady
    /\ Goto(d, "dispatch")
    /\ UNCHANGED <<counters, sample, finalDirtyBlocks, suspend, suspendedVM,
                   guest, dirty, pending, authSent>>

\* Variant: a flag checked and set in two steps instead of a OnceValue.
BeginSuspendUnlatched(d) ==
    /\ pc[d] = "trigger"
    /\ AllReady
    /\ suspend # "running"
    /\ suspend' = "running"
    /\ Goto(d, "suspendAgent")
    /\ UNCHANGED <<counters, sample, finalDirtyBlocks, suspendedVM, guest,
                   dirty, pending, authSent>>

\* All ready and suspendVM has not run: this device runs its body
\* (lines 1213-1214, 1014)
BeginSuspend(d) ==
    /\ pc[d] = "trigger"
    /\ AllReady
    /\ suspend = "idle"
    /\ suspend' = "running"
    /\ Goto(d, "suspendAgent")
    /\ UNCHANGED <<counters, sample, finalDirtyBlocks, suspendedVM, guest,
                   dirty, pending, authSent>>

\* All ready and suspendVM has finished (a caller arriving while it runs
\* blocks until then): its cached result   (lines 1213-1217)
JoinSuspend(d) ==
    /\ pc[d] = "trigger"
    /\ AllReady
    /\ suspend \in {"ok", "err"}
    /\ Goto(d, IF suspend = "ok" THEN "dispatch" ELSE "failed")
    /\ UNCHANGED <<counters, sample, finalDirtyBlocks, suspend, suspendedVM,
                   guest, dirty, pending, authSent>>

\* OnBeforeSuspend; SuspendAndCloseAgentServer succeeds: the snapshot
\* (MsyncAndState) pauses the VM, flushes memory and writes some blocks of
\* the state device; OnAfterSuspend   (lines 1015-1027)
SnapshotVM(d) ==
    /\ pc[d] = "suspendAgent"
    /\ vm' = "paused"
    /\ memDirty' = {}
    /\ \E W \in SUBSET Blocks \ {{}} :
          dirty' = [dirty EXCEPT ![MemoryName] = @ \cup memDirty,
                                 ![StateName] = @ \cup W]
    /\ Goto(d, "suspended")
    /\ UNCHANGED <<counters, sample, finalDirtyBlocks, suspend, suspendedVM,
                   writes, pending, authSent>>

\* SuspendAndCloseAgentServer fails: the OnceValue caches the error and
\* this device returns it   (lines 1021-1023)
SuspendFails(d) ==
    /\ pc[d] = "suspendAgent"
    /\ suspend' = "err"
    /\ Goto(d, "failed")
    /\ UNCHANGED <<counters, sample, finalDirtyBlocks, suspendedVM, guest,
                   dirty, pending, authSent>>

\* Variant: the suspended flag is never set.
MarkSuspendedNoFlag(d) ==
    /\ pc[d] = "suspended"
    /\ suspend' = "ok"
    /\ Goto(d, "dispatch")
    /\ UNCHANGED <<counters, sample, finalDirtyBlocks, suspendedVM, guest,
                   dirty, pending, authSent>>

\* suspendedVM = true under suspendedVMLock; the OnceValue returns nil
\* (lines 1029-1031)
MarkSuspended(d) ==
    /\ pc[d] = "suspended"
    /\ suspendedVM' = TRUE
    /\ suspend' = "ok"
    /\ Goto(d, "dispatch")
    /\ UNCHANGED <<counters, sample, finalDirtyBlocks, guest, dirty, pending,
                   authSent>>

\* Under suspendedVMLock: once suspended, append the sample to
\* finalDirtyBlocks, else mig.MigrateDirty(blocks)   (lines 1219-1228)
Dispatch(d) ==
    /\ pc[d] = "dispatch"
    /\ IF suspendedVM
          THEN /\ finalDirtyBlocks' = [finalDirtyBlocks EXCEPT ![d] = @ \cup sample[d]]
               /\ UNCHANGED pending
          ELSE /\ pending' = [pending EXCEPT ![d] = @ \cup sample[d]]
               /\ UNCHANGED finalDirtyBlocks
    /\ Goto(d, "msync")
    /\ UNCHANGED <<counters, sample, suspend, suspendedVM, guest, dirty, authSent>>

\* Variant: the TransferAuthority event is never sent.
SendAuthoritySkipped(d) ==
    /\ pc[d] = "authority"
    /\ Goto(d, "final")
    /\ UNCHANGED <<counters, sample, finalDirtyBlocks, suspend, suspendedVM,
                   guest, dirty, pending, authSent>>

\* to.SendEvent(TransferAuthority); hook   (lines 1231-1241)
SendAuthority(d) ==
    /\ pc[d] = "authority"
    /\ authSent' = [authSent EXCEPT ![d] = TRUE]
    /\ Goto(d, "final")
    /\ UNCHANGED <<counters, sample, finalDirtyBlocks, suspend, suspendedVM,
                   guest, dirty, pending>>

\* mig.MigrateDirty(finalDirtyBlocks); hook   (lines 1243-1249)
MigrateFinal(d) ==
    /\ pc[d] = "final"
    /\ pending' = [pending EXCEPT ![d] = @ \cup finalDirtyBlocks[d]]
    /\ Goto(d, "completion")
    /\ UNCHANGED <<counters, sample, finalDirtyBlocks, suspend, suspendedVM,
                   guest, dirty, authSent>>

\* mig.WaitForCompletion(); to.SendEvent(Completed); hook   (lines 1251-1264)
SendCompleted(d) ==
    /\ pc[d] = "completion"
    /\ pending[d] = {}
    /\ Goto(d, "done")
    /\ UNCHANGED <<counters, sample, finalDirtyBlocks, suspend, suspendedVM,
                   guest, dirty, pending, authSent>>

\* mig.MigrateDirty, mig.WaitForCompletion or to.SendEvent(Completed)
\* returns an error after TransferAuthority: the device returns it
\* (lines 1243-1259)
FinalFails(d) ==
    /\ pc[d] \in {"final", "completion"}
    /\ Goto(d, "failed")
    /\ UNCHANGED <<counters, sample, finalDirtyBlocks, suspend, suspendedVM,
                   guest, dirty, pending, authSent>>

-----------------------------------------------------------------------------
(* The migrator's movers, the guest and the kernel *)

\* A mover writes one queued block to the destination.
MoveBlock(d, b) ==
    /\ b \in pending[d]
    /\ pending' = [pending EXCEPT ![d] = @ \ {b}]
    /\ UNCHANGED <<pc, counters, sample, finalDirtyBlocks, suspend, suspendedVM,
                   guest, dirty, authSent>>

\* The running guest writes a memory page.
GuestWrite(b) ==
    /\ vm = "running"
    /\ writes < MaxWrites
    /\ writes' = writes + 1
    /\ memDirty' = memDirty \cup {b}
    /\ UNCHANGED <<pc, counters, sample, finalDirtyBlocks, suspend, suspendedVM,
                   vm, dirty, pending, authSent>>

\* Kernel writeback of one shared memory page to the memory device.
Writeback(b) ==
    /\ b \in memDirty
    /\ memDirty' = memDirty \ {b}
    /\ dirty' = [dirty EXCEPT ![MemoryName] = @ \cup {b}]
    /\ UNCHANGED <<pc, counters, sample, finalDirtyBlocks, suspend, suspendedVM,
                   vm, writes, pending, authSent>>

-----------------------------------------------------------------------------

Init ==
    /\ pc = [d \in Devices |-> "devinfo"]
    /\ devicesLeftToSend = 0
    /\ devicesLeftToTransferAuthorityFor = 0
    /\ readyMarked = [d \in Devices |-> FALSE]
    /\ totalCycles = [d \in Devices |-> 0]
    /\ cyclesBelowDirtyBlockTreshold = [d \in Devices |-> 0]
    /\ sample = [d \in Devices |-> {}]
    /\ finalDirtyBlocks = [d \in Devices |-> {}]
    /\ suspend = "idle"
    /\ suspendedVM = FALSE
    /\ vm = "running"
    /\ memDirty = {}
    /\ dirty = [d \in Devices |-> {}]
    /\ pending = [d \in Devices |-> {}]
    /\ writes = 0
    /\ authSent = [d \in Devices |-> FALSE]

DeviceStep(d) ==
    \/ SendDevInfo(d)
    \/ StartMigration(d)
    \/ PrecopyDone(d)
    \/ Msync(d)
    \/ MsyncFails(d)
    \/ Sample(d)
    \/ LeaveLoop(d)
    \/ Converge(d)
    \/ NoSuspend(d)
    \/ BeginSuspend(d)
    \/ JoinSuspend(d)
    \/ SnapshotVM(d)
    \/ SuspendFails(d)
    \/ MarkSuspended(d)
    \/ Dispatch(d)
    \/ SendAuthority(d)
    \/ MigrateFinal(d)
    \/ SendCompleted(d)
    \/ FinalFails(d)

\* MigrateTo has returned: every device goroutine has finished.
Finished ==
    /\ \A d \in Devices : pc[d] \in {"done", "failed"}
    /\ UNCHANGED vars

Next ==
    \/ \E d \in Devices : DeviceStep(d)
    \/ \E d \in Devices, b \in Blocks : MoveBlock(d, b)
    \/ \E b \in Blocks : GuestWrite(b) \/ Writeback(b)
    \/ Finished

\* Goroutines and the migrator's movers are scheduled fairly; the guest,
\* the kernel and the failures of Msync, of the suspend and of the final
\* transfer are not.
Fairness ==
    \A d \in Devices :
        /\ WF_vars(DeviceStep(d) /\ ~MsyncFails(d) /\ ~SuspendFails(d) /\ ~FinalFails(d))
        /\ WF_vars(\E b \in Blocks : MoveBlock(d, b))

Spec == Init /\ [][Next]_vars /\ Fairness

-----------------------------------------------------------------------------
(* Properties *)

TypeOK ==
    /\ pc \in [Devices -> PCs]
    /\ devicesLeftToSend \in 0..N
    /\ devicesLeftToTransferAuthorityFor \in 0..N
    /\ readyMarked \in [Devices -> BOOLEAN]
    /\ totalCycles \in [Devices -> Nat]
    /\ cyclesBelowDirtyBlockTreshold \in [Devices -> Nat]
    /\ sample \in [Devices -> SUBSET Blocks]
    /\ finalDirtyBlocks \in [Devices -> SUBSET Blocks]
    /\ suspend \in {"idle", "running", "ok", "err"}
    /\ suspendedVM \in BOOLEAN
    /\ vm \in {"running", "paused"}
    /\ memDirty \in SUBSET Blocks
    /\ dirty \in [Devices -> SUBSET Blocks]
    /\ pending \in [Devices -> SUBSET Blocks]
    /\ writes \in 0..MaxWrites
    /\ authSent \in [Devices -> BOOLEAN]

\* TransferAuthority for any device is sent only once the VM is paused,
\* suspendedVM is set and every device was marked ready: the loop's break
\* (empty sample and suspendedVM) and the all-ready trigger of suspendVM
\* must together guarantee it, whichever device ran the suspend.
AuthorityAfterSuspend ==
    \A d \in Devices :
        authSent[d] => suspendedVM /\ vm = "paused" /\ \A e \in Devices : readyMarked[e]

\* The suspend sequence runs once however many devices reach the all-ready
\* trigger together (the suspendVM sync.OnceValue): every snapshot is taken
\* of a VM that is still running.
SuspendOneShot ==
    [][\A d \in Devices :
          pc[d] = "suspendAgent" /\ pc'[d] = "suspended" => vm = "running"]_vars

\* If no device fails, every device goroutine sends Completed: the devices
\* converge, the suspend runs, every loop breaks on an empty sample and
\* every migrator drains, though a device keeps looping (msync, sample,
\* DirtyList) while it waits for the others.
MigrationTerminates ==
    (\A d \in Devices : [](pc[d] # "failed")) => <>(\A d \in Devices : pc[d] = "done")

\* The abstract view of a device: what the destination has been told.
HandoffPhase(d) ==
    CASE pc[d] = "done"   -> "completed"
      [] pc[d] = "failed" -> "failed"
      [] authSent[d]      -> "authority"
      [] readyMarked[d]   -> "ready"
      [] OTHER            -> "migrating"

HO == INSTANCE Handoff WITH phase <- [d \in Devices |-> HandoffPhase(d)], vm <- vm

\* MigrateTo implements the Handoff promise: a device is marked ready before
\* the VM is paused, the VM is paused once and for good before any
\* TransferAuthority, and Completed follows that device's TransferAuthority,
\* whichever step fails.  A step of the goroutines,
\* the OnceFunc/OnceValue latches and the suspendedVM flag together must
\* never take the abstract phases out of that order.
HandoffRefined == HO!Spec
====
