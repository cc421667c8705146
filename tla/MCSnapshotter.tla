---------------------------- MODULE MCSnapshotter ----------------------------
(* Snapshotter for TLC with the devices architekt-runner passes, in its
   order (src/cmd/architekt-runner/main.go): state and memory (written by
   the snapshot), kernel and disk (copied from inputs) and config (written
   by CreateSnapshot).  Of these only the disk is a drive of the VM. *)
EXTENDS Snapshotter

CONSTANTS state, memory, kernel, disk, config

MCDeviceList == <<state, memory, kernel, disk, config>>
MCWithInput == {kernel, disk}
MCDisks == {disk}
==============================================================================
