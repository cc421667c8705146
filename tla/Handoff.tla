------------------------------- MODULE Handoff -------------------------------
(***************************************************************************)
(* What the source side of a live migration promises the destination, per  *)
(* device, stated without goroutines, counters or migrators (spec.md,      *)
(* "Migration"): each device is migrated until it is ready for the         *)
(* authority transfer; once every device is ready (or has failed) the VM   *)
(* is paused for good; only then may a ready device hand over authority,   *)
(* and only a device that handed over authority completes.  A device may   *)
(* fail in any state but the last (an I/O error, spec.md "Migrator").      *)
(*                                                                         *)
(* PeerMigrateTo and DirtySync implement it (HandoffRefined).             *)
(***************************************************************************)
CONSTANT Devices

VARIABLES
    phase,  \* per device: "migrating", "ready", "authority", "completed", "failed"
    vm      \* "running" or "paused"

vars == <<phase, vm>>

Phases == {"migrating", "ready", "authority", "completed", "failed"}

TypeOK == phase \in [Devices -> Phases] /\ vm \in {"running", "paused"}

Init == phase = [d \in Devices |-> "migrating"] /\ vm = "running"

SetPhase(d, p) == phase' = [phase EXCEPT ![d] = p]

\* The device's dirty rate has converged.
Ready(d) == phase[d] = "migrating" /\ SetPhase(d, "ready") /\ UNCHANGED vm

\* No device is still converging: the VM is suspended.
Pause ==
    /\ vm = "running"
    /\ \A d \in Devices : phase[d] # "migrating"
    /\ vm' = "paused"
    /\ UNCHANGED phase

Authority(d) ==
    /\ vm = "paused"
    /\ phase[d] = "ready"
    /\ SetPhase(d, "authority")
    /\ UNCHANGED vm

Complete(d) == phase[d] = "authority" /\ SetPhase(d, "completed") /\ UNCHANGED vm

Fail(d) == phase[d] \in {"migrating", "ready", "authority"} /\ SetPhase(d, "failed") /\ UNCHANGED vm

Next ==
    \/ Pause
    \/ \E d \in Devices : Ready(d) \/ Authority(d) \/ Complete(d) \/ Fail(d)

Spec == Init /\ [][Next]_vars
====
