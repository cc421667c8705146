--------------------------- MODULE MCDirtyManager ---------------------------
(* DirtyManager for TLC: memory and state devices with two blocks each;
   a sample of two blocks reaches MaxDirtyBlocks, so both branches of the
   convergence policy occur. *)
EXTENDS DirtyManager

CONSTANTS mem, state

MCDevices == {mem, state}
MCBlocks == {1, 2}
MCShared == {state}
MCMaxDirtyBlocks == [d \in MCDevices |-> 2]
MCMinCycles == [d \in MCDevices |-> 1]
MCMaxCycles == [d \in MCDevices |-> 1]

=============================================================================
