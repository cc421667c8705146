---------------------------- MODULE MCDirtySync ----------------------------
(* DirtySync for TLC: two devices (memory and state) with two blocks each,
   where dirt levels can straddle MaxDirtyBlocks. *)
EXTENDS DirtySync

CONSTANTS mem, state

MCDevices == {mem, state}
MCBlocks == {1, 2}
MCMaxDirtyBlocks == [d \in MCDevices |-> 2]
MCMinCycles == [d \in MCDevices |-> 1]
MCMaxCycles == [d \in MCDevices |-> 1]

=============================================================================
