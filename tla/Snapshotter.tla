----------------------------- MODULE Snapshotter -----------------------------
(***************************************************************************)
(* roles.CreateSnapshot (src/pkg/roles/snapshotter.go): boot a VM from    *)
(* input devices under Firecracker, wait for the liveness signal, call the *)
(* agent's BeforeSuspend, take a full snapshot, write the package config,  *)
(* and copy every device of the VM directory to its output file.  The copy *)
(* is a deferred function; it is skipped when errs is set.                 *)
(*                                                                         *)
(* Every step that can fail panics, and the panic unwinds the defer stack. *)
(* The stack holds the deferred calls whose effect the model keeps (wait,  *)
(* cancel, the recovering handlePanics, fcServer.Close, RemoveAll of the   *)
(* VM directory, the copy); the closes of the liveness server, the sentry  *)
(* server and the open files touch nothing the properties see.  A file's   *)
(* content is where it came from: "input", "live" (a disk the running VM   *)
(* may have changed), "snap" (written by or consistent with the snapshot)  *)
(* or "partial".  utils.GetPanicHandler and firecracker are not in this    *)
(* repository: handlePanics(false) is taken to record a recovered panic in *)
(* errs, the goroutine of handleGoroutinePanics to record its panic in     *)
(* errs and cancel ctx, and fcServer.Wait to return nil after Close.       *)
(***************************************************************************)
EXTENDS Integers, Sequences, SequencesExt

CONSTANTS
    DeviceList,   \* the devices argument: a sequence of distinct names
    WithInput,    \* names whose Input is not blank
    Disks,        \* names StartVM attaches as drives
    StateName, MemoryName, ConfigName  \* files CreateSnapshot itself writes

Names == ToSet(DeviceList) \cup {StateName, MemoryName, ConfigName}

ASSUME WithInput \subseteq ToSet(DeviceList) /\ Disks \subseteq ToSet(DeviceList)

VARIABLES
    pc,          \* position in the body, "unwind" or "returned"
    i,           \* index into DeviceList of the copy-in or copy-out loop
    defers,      \* the defer stack (top at the end)
    panicking,   \* a panic is unwinding the stack
    errs,        \* the named result errs is non-nil
    cancelled,   \* ctx has been cancelled
    completed,   \* the body ran to its return statement
    fc,          \* the Firecracker server: "none", "running", "exited", "closed"
    waiter,      \* the goroutine on fcServer.Wait: "none", "running", "done"
    vm,          \* "off", "running" or "paused"
    files,       \* content of each file in the VM directory
    out          \* content of each output file ("old": as before the call)

vars == <<pc, i, defers, panicking, errs, cancelled, completed, fc, waiter,
          vm, files, out>>

Content == {"absent", "input", "live", "snap", "partial"}

\* A failing step panics; the panic unwinds the defer stack.
Panic == panicking' = TRUE /\ pc' = "unwind"

Push(calls) == defers' = defers \o calls

\* A body step: at pc from, either it succeeds with Ok and goes to next, or
\* it panics with the effect Fail.
Step(from, next, Ok, Fail) ==
    /\ pc = from
    /\ \/ Ok /\ pc' = next /\ UNCHANGED panicking
       \/ Fail /\ Panic

-----------------------------------------------------------------------------
(* The body *)

\* os.MkdirAll(ChrootBaseDir)   (lines 85-87)
MkdirChroot ==
    /\ Step("mkdir", "startFC", TRUE, TRUE)
    /\ UNCHANGED <<i, defers, errs, cancelled, completed, fc, waiter, vm, files, out>>

\* StartFirecrackerServer in a new VM directory; defer fcServer.Close and
\* RemoveAll; the goroutine on fcServer.Wait   (lines 89-117)
StartFirecracker ==
    /\ Step("startFC", "liveness",
            /\ fc' = "running" /\ waiter' = "running"
            /\ Push(<<"fcClose", "removeAll">>),
            UNCHANGED <<fc, waiter, defers>>)
    /\ UNCHANGED <<i, errs, cancelled, completed, vm, files, out>>

\* NewLivenessServer, Open, Chown; server.New, Chown; the copy is deferred,
\* then fcServer.Close again   (lines 119-194)
OpenServers ==
    /\ Step("liveness", "copyIn",
            Push(<<"copyOut", "fcClose">>) /\ i' = 1,
            UNCHANGED <<defers, i>>)
    /\ UNCHANGED <<errs, cancelled, completed, fc, waiter, vm, files, out>>

\* CopyFile of each device with an Input into the VM directory
\* (lines 196-207)
CopyIn ==
    /\ pc = "copyIn"
    /\ IF i > Len(DeviceList)
       THEN pc' = "startVM" /\ UNCHANGED <<i, files, panicking>>
       ELSE LET d == DeviceList[i] IN
            IF d \notin WithInput
            THEN i' = i + 1 /\ UNCHANGED <<pc, files, panicking>>
            ELSE \/ /\ files' = [files EXCEPT ![d] = "input"]
                    /\ i' = i + 1 /\ UNCHANGED <<pc, panicking>>
                 \/ Panic /\ UNCHANGED <<i, files>>
    /\ UNCHANGED <<defers, errs, cancelled, completed, fc, waiter, vm, out>>

\* firecracker.StartVM with the disks; fails on a cancelled ctx or a
\* missing drive   (lines 209-231)
StartVM ==
    /\ Step("startVM", "receive",
            /\ ~cancelled /\ \A d \in Disks : files[d] # "absent"
            /\ vm' = "running"
            /\ files' = [n \in Names |-> IF n \in Disks THEN "live" ELSE files[n]],
            UNCHANGED <<vm, files>>)
    /\ UNCHANGED <<i, defers, errs, cancelled, completed, fc, waiter, out>>

\* liveness.ReceiveAndClose under the resume timeout   (lines 233-240)
ReceiveLiveness ==
    /\ Step("receive", "beforeSuspend", ~cancelled, TRUE)
    /\ UNCHANGED <<i, defers, errs, cancelled, completed, fc, waiter, vm, files, out>>

\* sentry.Do(BeforeSuspend) under the resume timeout; then the liveness and
\* sentry servers are closed   (lines 242-261)
BeforeSuspend ==
    /\ Step("beforeSuspend", "snapshot", ~cancelled, TRUE)
    /\ UNCHANGED <<i, defers, errs, cancelled, completed, fc, waiter, vm, files, out>>

\* firecracker.CreateSnapshot(Full): the VM is paused, state and memory are
\* written and the disks are as of the snapshot; a failure may leave the
\* state and memory files partly written   (lines 263-274)
CreateSnapshot ==
    /\ Step("snapshot", "config",
            /\ ~cancelled
            /\ vm' = "paused"
            /\ files' = [n \in Names |->
                            IF n \in Disks \cup {StateName, MemoryName}
                            THEN "snap" ELSE files[n]],
            /\ UNCHANGED vm
            /\ \E c \in {"absent", "partial"} :
                  files' = [files EXCEPT ![StateName] = c, ![MemoryName] = c])
    /\ UNCHANGED <<i, defers, errs, cancelled, completed, fc, waiter, out>>

\* Marshal, OpenFile, Write and Chown of the package config; a failed
\* Write leaves a partial file, a failed Chown a complete one
\* (lines 276-297)
WriteConfig ==
    /\ Step("config", "unwind",
            files' = [files EXCEPT ![ConfigName] = "snap"] /\ completed' = TRUE,
            \E c \in {files[ConfigName], "partial", "snap"} :
                files' = [files EXCEPT ![ConfigName] = c] /\ UNCHANGED completed)
    /\ UNCHANGED <<i, defers, errs, cancelled, fc, waiter, vm, out>>

-----------------------------------------------------------------------------
(* The deferred calls, run last in first out once the body returns or     *)
(* panics *)

Pop == defers' = Front(defers)

RunDefer(call) == pc = "unwind" /\ defers # <<>> /\ Last(defers) = call

\* The deferred copy returns at once when errs is set; otherwise the copy
\* loop starts   (lines 157-162)
StartCopyOut ==
    /\ RunDefer("copyOut")
    /\ IF errs
       THEN Pop /\ UNCHANGED <<pc, i>>
       ELSE pc' = "copyOut" /\ i' = 1 /\ UNCHANGED defers
    /\ UNCHANGED <<panicking, errs, cancelled, completed, fc, waiter, vm, files, out>>

\* One device: Open in the VM directory (fails on a missing file), MkdirAll
\* and OpenFile(O_TRUNC) of the output, io.Copy and the padding (a failure
\* after OpenFile leaves the output truncated).  A failure panics inside the
\* deferred function, which ends it   (lines 164-192)
CopyOut ==
    /\ pc = "copyOut"
    /\ IF i > Len(DeviceList)
       THEN pc' = "unwind" /\ Pop /\ UNCHANGED <<i, out, panicking>>
       ELSE LET d == DeviceList[i] IN
            \/ /\ files[d] # "absent"
               /\ out' = [out EXCEPT ![d] = files[d]]
               /\ i' = i + 1 /\ UNCHANGED <<pc, defers, panicking>>
            \/ /\ \E o \in {out[d]} \cup (IF files[d] # "absent" THEN {"truncated"} ELSE {}) :
                    out' = [out EXCEPT ![d] = o]
               /\ panicking' = TRUE /\ pc' = "unwind" /\ Pop /\ UNCHANGED i
    /\ UNCHANGED <<errs, cancelled, completed, fc, waiter, vm, files>>

\* fcServer.Close   (lines 110, 194)
FcClose ==
    /\ RunDefer("fcClose")
    /\ fc' = IF fc = "running" THEN "closed" ELSE fc
    /\ vm' = IF fc = "running" THEN "off" ELSE vm
    /\ Pop
    /\ UNCHANGED <<pc, i, panicking, errs, cancelled, completed, waiter, files, out>>

\* os.RemoveAll of the VM directory   (line 111)
RemoveAll ==
    /\ RunDefer("removeAll")
    /\ files' = [n \in Names |-> "absent"]
    /\ Pop
    /\ UNCHANGED <<pc, i, panicking, errs, cancelled, completed, fc, waiter, vm, out>>

\* handlePanics(false): recovers the panic into errs   (line 83)
HandlePanics ==
    /\ RunDefer("handlePanics")
    /\ errs' = (errs \/ panicking)
    /\ panicking' = FALSE
    /\ Pop
    /\ UNCHANGED <<pc, i, cancelled, completed, fc, waiter, vm, files, out>>

\* cancel()   (line 82)
Cancel ==
    /\ RunDefer("cancel")
    /\ cancelled' = TRUE
    /\ Pop
    /\ UNCHANGED <<pc, i, panicking, errs, completed, fc, waiter, vm, files, out>>

\* wait(): blocks until the goroutines have returned   (line 81)
Wait ==
    /\ RunDefer("wait")
    /\ waiter # "running"
    /\ Pop
    /\ UNCHANGED <<pc, i, panicking, errs, cancelled, completed, fc, waiter, vm, files, out>>

\* The stack is empty: CreateSnapshot returns errs.
Return ==
    /\ pc = "unwind" /\ defers = <<>>
    /\ pc' = "returned"
    /\ UNCHANGED <<i, defers, panicking, errs, cancelled, completed, fc, waiter,
                   vm, files, out>>

-----------------------------------------------------------------------------
(* The goroutine on fcServer.Wait and the Firecracker process *)

\* Wait returns nil once the server is closed.
WaiterReturns ==
    /\ waiter = "running" /\ fc = "closed"
    /\ waiter' = "done"
    /\ UNCHANGED <<pc, i, defers, panicking, errs, cancelled, completed, fc, vm, files, out>>

\* Firecracker exits on its own: Wait fails, the goroutine panics, the
\* handler records the error and cancels ctx   (lines 113-117)
FirecrackerExits ==
    /\ waiter = "running" /\ fc = "running"
    /\ fc' = "exited" /\ vm' = "off" /\ waiter' = "done"
    /\ errs' = TRUE /\ cancelled' = TRUE
    /\ UNCHANGED <<pc, i, defers, panicking, completed, files, out>>

-----------------------------------------------------------------------------

\* GetPanicHandler; defer wait, cancel and handlePanics   (lines 76-83)
Init ==
    /\ pc = "mkdir" /\ i = 1
    /\ defers = <<"wait", "cancel", "handlePanics">>
    /\ panicking = FALSE /\ errs = FALSE /\ cancelled = FALSE
    /\ completed = FALSE
    /\ fc = "none" /\ waiter = "none" /\ vm = "off"
    /\ files = [n \in Names |-> "absent"]
    /\ out = [n \in Names |-> "old"]

Next ==
    \/ MkdirChroot \/ StartFirecracker \/ OpenServers \/ CopyIn \/ StartVM
    \/ ReceiveLiveness \/ BeforeSuspend \/ CreateSnapshot \/ WriteConfig
    \/ StartCopyOut \/ CopyOut \/ FcClose \/ RemoveAll \/ HandlePanics
    \/ Cancel \/ Wait \/ Return
    \/ WaiterReturns \/ FirecrackerExits
    \/ (pc = "returned" /\ UNCHANGED vars)

Spec == Init /\ [][Next]_vars

-----------------------------------------------------------------------------
(* Properties *)

TypeOK ==
    /\ i \in 1..Len(DeviceList) + 1
    /\ panicking \in BOOLEAN /\ errs \in BOOLEAN /\ cancelled \in BOOLEAN
    /\ files \in [Names -> Content]
    /\ out \in [Names -> Content \cup {"old", "truncated"}]

\* An output file is written only by a CreateSnapshot whose body ran to the
\* end (snapshot and config written): the deferred copy returns early "if
\* errs != nil", so a VM that failed to boot, to signal liveness or to
\* snapshot must leave the outputs as they were.
OutputsOnlyFromSnapshot ==
    \A n \in Names : out[n] # "old" => completed
====
