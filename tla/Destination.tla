----------------------------- MODULE Destination -----------------------------
(***************************************************************************)
(* The destination side of a live migration: peer.MigrateFrom             *)
(* (src/pkg/roles/peer.go, lines 273-880).  The protocol reader hands each *)
(* frame to a handler goroutine per (device, frame kind); this module      *)
(* models the DevInfo and Event handlers, the Wait function that runs when *)
(* the stream ends, and the main path that waits for AllDevicesSent, sets  *)
(* up every configured device that was not received from local files      *)
(* (stage 1) and waits until every received device is ready.              *)
(*                                                                         *)
(* The source is abstracted to the order in which MigrateTo               *)
(* (peer.go, lines 1036-1264) sends a device's DevInfo, AllDevicesSent,   *)
(* TransferAuthority and Completed.  The silo protocol is modelled from   *)
(* the spec: a DevInfo is sent without waiting; an event is answered once  *)
(* the destination's handler has run it; a device's precopy cannot finish  *)
(* before its DevInfo was admitted (WriteAt waits for the device).         *)
(***************************************************************************)
EXTENDS Integers, Sequences, FiniteSets

CONSTANTS
    Sent,        \* devices the source migrates (its stage5Inputs)
    LocalOnly,   \* devices configured at the destination and not migrated
    MayEOF       \* whether the stream may end before the source is done

ASSUME Sent # {} /\ Sent \cap LocalOnly = {} /\ MayEOF \in BOOLEAN

Configured == Sent \cup LocalOnly   \* the devices argument of MigrateFrom

Events == {"AllDevicesSent", "TransferAuthority", "Completed"}

VARIABLES
    srcPc,        \* position of the source's goroutine for each device
    devicesLeftToSend, \* the source's counter of DevInfos sent
    devInfoQ,     \* a DevInfo frame of the device not yet handled
    eventQ,       \* event frames of the device not yet handled, in order
    eof,          \* the stream has ended
    remote,       \* createProvider has admitted the device (stage2, remote)
    local,        \* the device was set up from local files (stage2, local)
    node,         \* a device node has been created for the device
    receivedButNotReadyRemoteDevices,
    allRemoteDevicesReceived, \* allRemoteDevicesReceivedCtx is cancelled
    allRemoteDevicesReady,    \* allRemoteDevicesReadyCtx is cancelled
    waitDone,     \* the Wait OnceValue has run
    mainPc,       \* position of MigrateFrom's own goroutine
    stage1,       \* the devices chosen for local setup
    failed,       \* a handler or the setup failed: internalCtx is cancelled
    authHandled,  \* TransferAuthority handled, per device (history)
    watcherPc,    \* the goroutine that closes the migrated peer (lines 634-652)
    firstDone,    \* which of internalCtx / allRemoteDevicesReadyCtx ended first
    devicesClosed, \* migratedPeer.Close has run the deviceCloseFuncs
    hypervisorDone \* the runner's hypervisorCtx is done (firecracker exited)

vars == <<srcPc, devicesLeftToSend, devInfoQ, eventQ, eof, remote, local, node,
          receivedButNotReadyRemoteDevices, allRemoteDevicesReceived,
          allRemoteDevicesReady, waitDone, mainPc, stage1, failed, authHandled,
          watcherPc, firstDone, devicesClosed, hypervisorDone>>

srcVars == <<srcPc, devicesLeftToSend>>
dstVars == <<remote, local, node, receivedButNotReadyRemoteDevices,
             allRemoteDevicesReceived, allRemoteDevicesReady, waitDone, mainPc,
             stage1, failed, authHandled>>
migrationVars == <<srcVars, devInfoQ, eventQ, eof, dstVars, firstDone>>

N == Cardinality(Sent)

SrcPCs == {"devinfo", "checkSent", "precopy", "loop", "authority",
           "authorityWait", "completed", "done"}

-----------------------------------------------------------------------------
(* The source, per device (MigrateTo, peer.go 1036-1264) *)

\* internalCtx is done: a handler or the setup panicked, or MigrateFrom has
\* returned and its deferred cancel() ran.
InternalDone == failed \/ mainPc \in {"migrated", "failed"}

\* Which of the select's two channels was closed first; a goroutine blocked
\* in the select takes that case.  (No step closes both.)
TrackFirstDone ==
    firstDone' = IF firstDone # "none" THEN firstDone
                 ELSE IF InternalDone' THEN "internal"
                 ELSE IF allRemoteDevicesReady' THEN "ready"
                 ELSE "none"

\* Every step of the migration updates that history and leaves the
\* watcher goroutine's variables alone.
Observe == TrackFirstDone /\ UNCHANGED <<watcherPc, devicesClosed, hypervisorDone>>

SetSrc(d, l) == srcPc' = [srcPc EXCEPT ![d] = l]

\* SendDevInfo; devicesLeftToSend.Add(1)   (lines 1039-1049)
SrcSendDevInfo(d) ==
    /\ ~eof
    /\ srcPc[d] = "devinfo"
    /\ devInfoQ' = [devInfoQ EXCEPT ![d] = TRUE]
    /\ devicesLeftToSend' = devicesLeftToSend + 1
    /\ SetSrc(d, "checkSent")
    /\ UNCHANGED <<eventQ, eof, dstVars>>
    /\ Observe

\* The device that reads the full count sends AllDevicesSent on its own
\* stream index   (lines 1049-1063)
SrcCheckSent(d) ==
    /\ ~eof
    /\ srcPc[d] = "checkSent"
    /\ eventQ' = IF devicesLeftToSend >= N
                    THEN [eventQ EXCEPT ![d] = Append(@, "AllDevicesSent")]
                    ELSE eventQ
    /\ SetSrc(d, "precopy")
    /\ UNCHANGED <<devicesLeftToSend, devInfoQ, eof, dstVars>>
    /\ Observe

\* mig.Migrate; mig.WaitForCompletion: every WriteAt is answered, which
\* the destination does only for an admitted device   (lines 1104-1125)
SrcPrecopy(d) ==
    /\ ~eof
    /\ srcPc[d] = "precopy"
    /\ remote[d]
    /\ SetSrc(d, "loop")
    /\ UNCHANGED <<devicesLeftToSend, devInfoQ, eventQ, eof, dstVars>>
    /\ Observe

\* The dirty loop ends only after the suspend, which waits until every
\* device has left its precopy and is ready   (lines 1127-1229)
SrcLeaveLoop(d) ==
    /\ ~eof
    /\ srcPc[d] = "loop"
    /\ \A e \in Sent : srcPc[e] \notin {"devinfo", "checkSent", "precopy"}
    /\ SetSrc(d, "authority")
    /\ UNCHANGED <<devicesLeftToSend, devInfoQ, eventQ, eof, dstVars>>
    /\ Observe

\* SendEvent(TransferAuthority), answered once handled   (lines 1231-1241)
SrcSendAuthority(d) ==
    /\ ~eof
    /\ srcPc[d] = "authority"
    /\ eventQ' = [eventQ EXCEPT ![d] = Append(@, "TransferAuthority")]
    /\ SetSrc(d, "authorityWait")
    /\ UNCHANGED <<devicesLeftToSend, devInfoQ, eof, dstVars>>
    /\ Observe

SrcAuthorityAnswered(d) ==
    /\ ~eof
    /\ srcPc[d] = "authorityWait"
    /\ eventQ[d] = <<>>
    /\ SetSrc(d, "completed")
    /\ UNCHANGED <<devicesLeftToSend, devInfoQ, eventQ, eof, dstVars>>
    /\ Observe

\* WaitForCompletion; SendEvent(Completed)   (lines 1243-1264)
SrcSendCompleted(d) ==
    /\ ~eof
    /\ srcPc[d] = "completed"
    /\ eventQ' = [eventQ EXCEPT ![d] = Append(@, "Completed")]
    /\ SetSrc(d, "done")
    /\ UNCHANGED <<devicesLeftToSend, devInfoQ, eof, dstVars>>
    /\ Observe

\* The stream ends: after the source has finished and its last event was
\* answered, or (MayEOF) at any point, e.g. when the source process dies.
StreamEnds ==
    /\ ~eof
    /\ \/ \A d \in Sent : srcPc[d] = "done" /\ eventQ[d] = <<>>
       \/ MayEOF
    /\ eof' = TRUE
    /\ UNCHANGED <<srcVars, devInfoQ, eventQ, dstVars>>
    /\ Observe

-----------------------------------------------------------------------------
(* The destination's handlers (MigrateFrom, peer.go 273-880) *)

\* Variant: the device is admitted without being counted.
HandleDevInfoUncounted(d) ==
    /\ devInfoQ[d]
    /\ devInfoQ' = [devInfoQ EXCEPT ![d] = FALSE]
    /\ remote' = [remote EXCEPT ![d] = TRUE]
    /\ IF node[d]
          THEN /\ failed' = TRUE
               /\ UNCHANGED node
          ELSE /\ node' = [node EXCEPT ![d] = TRUE]
               /\ UNCHANGED failed
    /\ UNCHANGED <<srcVars, eventQ, eof, local, receivedButNotReadyRemoteDevices,
                   allRemoteDevicesReceived, allRemoteDevicesReady, waitDone,
                   mainPc, stage1, authHandled>>
    /\ Observe

\* HandleDevInfo -> createProvider: a source device not in the configured
\* list panics; otherwise count it, build the waiting-cache stack, append
\* it to stage2Inputs and create its device node (Mknod fails if a node of
\* that name exists)   (lines 366-502, 518-522)
HandleDevInfo(d) ==
    /\ devInfoQ[d]
    /\ devInfoQ' = [devInfoQ EXCEPT ![d] = FALSE]
    /\ receivedButNotReadyRemoteDevices' = receivedButNotReadyRemoteDevices + 1
    /\ remote' = [remote EXCEPT ![d] = TRUE]
    /\ IF node[d]
          THEN /\ failed' = TRUE
               /\ UNCHANGED node
          ELSE /\ node' = [node EXCEPT ![d] = TRUE]
               /\ UNCHANGED failed
    /\ UNCHANGED <<srcVars, eventQ, eof, local, allRemoteDevicesReceived,
                   allRemoteDevicesReady, waitDone, mainPc, stage1, authHandled>>
    /\ Observe

\* Variant: Completed also decrements the counter.
HandleEventCompletedCounts(d) ==
    /\ eventQ[d] # <<>>
    /\ eventQ' = [eventQ EXCEPT ![d] = Tail(@)]
    /\ IF Head(eventQ[d]) = "AllDevicesSent"
          THEN /\ allRemoteDevicesReceived' = TRUE
               /\ UNCHANGED <<receivedButNotReadyRemoteDevices,
                              allRemoteDevicesReady, authHandled>>
          ELSE /\ receivedButNotReadyRemoteDevices' =
                     receivedButNotReadyRemoteDevices - 1
               /\ allRemoteDevicesReady' =
                     (allRemoteDevicesReady \/ receivedButNotReadyRemoteDevices - 1 <= 0)
               /\ authHandled' = [authHandled EXCEPT ![d] =
                                     @ \/ Head(eventQ[d]) = "TransferAuthority"]
               /\ UNCHANGED allRemoteDevicesReceived
    /\ UNCHANGED <<srcVars, devInfoQ, eof, remote, local, node, waitDone,
                   mainPc, stage1, failed>>
    /\ Observe

\* HandleEvent, first frame of the device's event queue   (lines 525-553)
HandleEvent(d) ==
    /\ eventQ[d] # <<>>
    /\ eventQ' = [eventQ EXCEPT ![d] = Tail(@)]
    /\ CASE Head(eventQ[d]) = "AllDevicesSent" ->
              /\ allRemoteDevicesReceived' = TRUE
              /\ UNCHANGED <<receivedButNotReadyRemoteDevices,
                             allRemoteDevicesReady, authHandled>>
         [] Head(eventQ[d]) = "TransferAuthority" ->
              /\ receivedButNotReadyRemoteDevices' =
                     receivedButNotReadyRemoteDevices - 1
              /\ allRemoteDevicesReady' =
                     (allRemoteDevicesReady \/ receivedButNotReadyRemoteDevices - 1 <= 0)
              /\ authHandled' = [authHandled EXCEPT ![d] = TRUE]
              /\ UNCHANGED allRemoteDevicesReceived
         [] Head(eventQ[d]) = "Completed" ->
              UNCHANGED <<receivedButNotReadyRemoteDevices,
                          allRemoteDevicesReceived, allRemoteDevicesReady,
                          authHandled>>
    /\ UNCHANGED <<srcVars, devInfoQ, eof, remote, local, node, waitDone,
                   mainPc, stage1, failed>>
    /\ Observe

\* Variant: Wait does not mark the devices ready.
WaitReturnsNoReady ==
    /\ eof
    /\ ~waitDone
    /\ waitDone' = TRUE
    /\ allRemoteDevicesReceived' = TRUE
    /\ UNCHANGED <<srcVars, devInfoQ, eventQ, eof, remote, local, node,
                   receivedButNotReadyRemoteDevices, allRemoteDevicesReady,
                   mainPc, stage1, failed, authHandled>>
    /\ Observe

\* migratedPeer.Wait: pro.Handle() has returned at the end of the stream;
\* mark every device received and ready   (lines 569-600)
WaitReturns ==
    /\ eof
    /\ ~waitDone
    /\ waitDone' = TRUE
    /\ allRemoteDevicesReceived' = TRUE
    /\ allRemoteDevicesReady' = TRUE
    /\ UNCHANGED <<srcVars, devInfoQ, eventQ, eof, remote, local, node,
                   receivedButNotReadyRemoteDevices, mainPc, stage1, failed,
                   authHandled>>
    /\ Observe

\* The main path, once AllDevicesSent was handled: every configured device
\* not yet in stage2Inputs is set up locally   (lines 655-734)
ChooseLocalDevices ==
    /\ mainPc = "waitReceived"
    /\ ~failed
    /\ allRemoteDevicesReceived
    /\ stage1' = { d \in Configured : ~remote[d] }
    /\ mainPc' = "setup"
    /\ UNCHANGED <<srcVars, devInfoQ, eventQ, eof, remote, local, node,
                   receivedButNotReadyRemoteDevices, allRemoteDevicesReceived,
                   allRemoteDevicesReady, waitDone, failed, authHandled>>
    /\ Observe

\* The ConcurrentMap callback for one stage-1 device: build the stack from
\* its base, append it to stage2Inputs, Mknod its node   (lines 736-855)
SetupLocalDevice(d) ==
    /\ mainPc = "setup"
    /\ d \in stage1
    /\ ~local[d]
    /\ local' = [local EXCEPT ![d] = TRUE]
    /\ IF node[d]
          THEN /\ failed' = TRUE
               /\ UNCHANGED node
          ELSE /\ node' = [node EXCEPT ![d] = TRUE]
               /\ UNCHANGED failed
    /\ UNCHANGED <<srcVars, devInfoQ, eventQ, eof, remote,
                   receivedButNotReadyRemoteDevices, allRemoteDevicesReceived,
                   allRemoteDevicesReady, waitDone, mainPc, stage1, authHandled>>
    /\ Observe

\* All callbacks returned without error; wait until every remote device is
\* ready, then the peer can be resumed   (lines 873-880)
AwaitReady ==
    /\ mainPc = "setup"
    /\ ~failed
    /\ \A d \in stage1 : local[d]
    /\ allRemoteDevicesReady
    /\ mainPc' = "migrated"
    /\ UNCHANGED <<srcVars, devInfoQ, eventQ, eof, remote, local, node,
                   receivedButNotReadyRemoteDevices, allRemoteDevicesReceived,
                   allRemoteDevicesReady, waitDone, stage1, failed, authHandled>>
    /\ Observe

\* A failure cancels internalCtx: the main path panics out of MigrateFrom
\* (lines 655-664, 857-879)
MainFails ==
    /\ mainPc \in {"waitReceived", "setup"}
    /\ failed
    /\ mainPc' = "failed"
    /\ UNCHANGED <<srcVars, devInfoQ, eventQ, eof, remote, local, node,
                   receivedButNotReadyRemoteDevices, allRemoteDevicesReceived,
                   allRemoteDevicesReady, waitDone, stage1, failed, authHandled>>
    /\ Observe

-----------------------------------------------------------------------------
(* The goroutine that closes the migrated peer (lines 634-652), and        *)
(* migratedPeer.Close (lines 601-625).                                     *)

\* The goroutine reaches the select with neither channel closed and blocks.
WatcherBlocks ==
    /\ watcherPc = "start" /\ ~InternalDone /\ ~allRemoteDevicesReady
    /\ watcherPc' = "blocked"
    /\ UNCHANGED <<devicesClosed, hypervisorDone>>
    /\ UNCHANGED migrationVars

\* The failure case: close the migrated peer.  A goroutine reaching the
\* select with both channels closed may take either case.
WatcherInternal ==
    /\ \/ watcherPc = "start" /\ InternalDone
       \/ watcherPc = "blocked" /\ firstDone = "internal"
    /\ watcherPc' = "close"
    /\ UNCHANGED <<devicesClosed, hypervisorDone>>
    /\ UNCHANGED migrationVars

\* The happy case: wait for the hypervisor to stop before closing.
WatcherReady ==
    /\ \/ watcherPc = "start" /\ allRemoteDevicesReady
       \/ watcherPc = "blocked" /\ firstDone = "ready"
    /\ watcherPc' = "waitHypervisor"
    /\ UNCHANGED <<devicesClosed, hypervisorDone>>
    /\ UNCHANGED migrationVars

WatcherHypervisorDone ==
    /\ watcherPc = "waitHypervisor" /\ hypervisorDone
    /\ watcherPc' = "close"
    /\ UNCHANGED <<devicesClosed, hypervisorDone>>
    /\ UNCHANGED migrationVars

\* migratedPeer.Close: runner.Close(), then the deferred calls in reverse
\* order: every deviceCloseFunc, the unlock, and last the deferred Wait.
CloseDevices ==
    /\ watcherPc = "close"
    /\ devicesClosed' = TRUE
    /\ watcherPc' = "closeWait"
    /\ UNCHANGED hypervisorDone
    /\ UNCHANGED migrationVars

\* The deferred migratedPeer.Wait() returns once the Wait OnceValue has run.
CloseWaits ==
    /\ watcherPc = "closeWait" /\ waitDone
    /\ watcherPc' = "done"
    /\ UNCHANGED <<devicesClosed, hypervisorDone>>
    /\ UNCHANGED migrationVars

\* The firecracker process of the runner exits (environment).
HypervisorExits ==
    /\ ~hypervisorDone
    /\ hypervisorDone' = TRUE
    /\ UNCHANGED <<watcherPc, devicesClosed>>
    /\ UNCHANGED migrationVars

-----------------------------------------------------------------------------

Init ==
    /\ srcPc = [d \in Sent |-> "devinfo"]
    /\ devicesLeftToSend = 0
    /\ devInfoQ = [d \in Sent |-> FALSE]
    /\ eventQ = [d \in Sent |-> <<>>]
    /\ eof = FALSE
    /\ remote = [d \in Configured |-> FALSE]
    /\ local = [d \in Configured |-> FALSE]
    /\ node = [d \in Configured |-> FALSE]
    /\ receivedButNotReadyRemoteDevices = 0
    /\ allRemoteDevicesReceived = FALSE
    /\ allRemoteDevicesReady = FALSE
    /\ waitDone = FALSE
    /\ mainPc = "waitReceived"
    /\ stage1 = {}
    /\ failed = FALSE
    /\ authHandled = [d \in Sent |-> FALSE]
    /\ watcherPc = "start"
    /\ firstDone = "none"
    /\ devicesClosed = FALSE
    /\ hypervisorDone = FALSE

SourceStep(d) ==
    \/ SrcSendDevInfo(d)
    \/ SrcCheckSent(d)
    \/ SrcPrecopy(d)
    \/ SrcLeaveLoop(d)
    \/ SrcSendAuthority(d)
    \/ SrcAuthorityAnswered(d)
    \/ SrcSendCompleted(d)

HandlerStep(d) == HandleDevInfo(d) \/ HandleEvent(d)

MainStep ==
    \/ ChooseLocalDevices
    \/ \E d \in Configured : SetupLocalDevice(d)
    \/ AwaitReady
    \/ MainFails

\* MigrateFrom has returned and the stream has ended.
Finished ==
    /\ mainPc \in {"migrated", "failed"}
    /\ eof /\ waitDone
    /\ UNCHANGED vars

MigrationStep ==
    \/ \E d \in Sent : SourceStep(d) \/ HandlerStep(d)
    \/ StreamEnds
    \/ WaitReturns
    \/ MainStep

WatcherStep ==
    \/ WatcherBlocks \/ WatcherInternal \/ WatcherReady
    \/ WatcherHypervisorDone \/ CloseDevices \/ CloseWaits

Next ==
    \/ MigrationStep
    \/ WatcherStep
    \/ HypervisorExits
    \/ Finished

\* Every goroutine is scheduled fairly; an early end of the stream and the
\* hypervisor's exit are not something that must happen.
Fairness ==
    /\ \A d \in Sent : WF_vars(SourceStep(d)) /\ WF_vars(HandlerStep(d))
    /\ WF_vars(MainStep)
    /\ WF_vars(WaitReturns)
    /\ WF_vars(WatcherStep)
    /\ WF_vars(StreamEnds /\ \A d \in Sent : srcPc[d] = "done")

Spec == Init /\ [][Next]_vars /\ Fairness

-----------------------------------------------------------------------------
(* Properties *)

TypeOK ==
    /\ srcPc \in [Sent -> SrcPCs]
    /\ devicesLeftToSend \in 0..N
    /\ devInfoQ \in [Sent -> BOOLEAN]
    /\ eventQ \in [Sent -> Seq(Events)]
    /\ eof \in BOOLEAN
    /\ remote \in [Configured -> BOOLEAN]
    /\ local \in [Configured -> BOOLEAN]
    /\ node \in [Configured -> BOOLEAN]
    /\ receivedButNotReadyRemoteDevices \in 0..N
    /\ {allRemoteDevicesReceived, allRemoteDevicesReady, waitDone, failed} \subseteq BOOLEAN
    /\ mainPc \in {"waitReceived", "setup", "migrated", "failed"}
    /\ stage1 \subseteq Configured
    /\ authHandled \in [Sent -> BOOLEAN]
    /\ watcherPc \in {"start", "blocked", "waitHypervisor", "close", "closeWait", "done"}
    /\ firstDone \in {"none", "internal", "ready"}
    /\ {devicesClosed, hypervisorDone} \subseteq BOOLEAN

\* When receivedButNotReadyRemoteDevices drops to zero (not the end of the
\* stream), every migrated device has been received and has handed over
\* authority: a TransferAuthority can never be counted before the DevInfo
\* of another device.
ReadyCounterSound ==
    allRemoteDevicesReady /\ ~waitDone =>
        \A d \in Sent : remote[d] /\ authHandled[d]

\* MigrateFrom returns, with the peer migrated or with an error.
MigrateFromReturns == <>(mainPc \in {"migrated", "failed"})

\* With a stream that does not break, MigrateFrom does not fail.
NoSpuriousFailure == ~failed

\* The devices of a peer handed back as migrated stay open until its
\* hypervisor has stopped (the comment of the happy case, line 643): the
\* goroutine of lines 634-652 must not take its failure case because
\* MigrateFrom's deferred cancel() ended internalCtx on a successful return.
MigratedDevicesOpen ==
    mainPc = "migrated" /\ devicesClosed => hypervisorDone

\* The peer is handed back as migrated (ready to Resume) only after the
\* TransferAuthority of every device it received from the source was
\* handled (spec section 3: the source holds authority until it sends
\* TransferAuthority).  A stream that ends before any DevInfo falls back to
\* local files, which the comment of Wait intends.
ResumeOnlyAfterAuthority ==
    mainPc = "migrated" => \A d \in Sent : remote[d] => authHandled[d]

=============================================================================
