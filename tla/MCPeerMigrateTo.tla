--------------------------- MODULE MCPeerMigrateTo ---------------------------
(* PeerMigrateTo for TLC: the memory and state devices with two blocks each,
   so that a sample of both blocks reaches MaxDirtyBlocks and one does not. *)
EXTENDS PeerMigrateTo

CONSTANTS mem, state

MCDevices == {mem, state}
MCBlocks == {1, 2}
MCMaxDirtyBlocks == [d \in MCDevices |-> 2]
MCMinCycles == [d \in MCDevices |-> 1]
MCMaxCycles == [d \in MCDevices |-> 1]

(* The NeedAt handler of the same MigrateTo (lines 1065-1081) over every
   hint of one byte or more inside a 36-byte device of 8-byte blocks, the
   last block short.  NeedAtRangesExact is a constant, which TLC evaluates
   once. *)
BR == INSTANCE BlockRange WITH Size <- 36, BlockSize <- 8, MaxLength <- 20,
                               Width <- 16, offset <- 0, length <- 1

NeedAtRangesExact ==
    \A r \in BR!Requests :
        BR!LoopVisitsExactly(BR!NeedAtRange(r[1], r[2]), r[1], r[2])

\* While a device's precopy runs, the order its NeedAt handler changes, a
\* NeedAt for [offset, offset+length) promotes exactly the blocks the
\* request overlaps and no index past the last block, the short last block
\* and a range running past the end of the device included.
NeedAtPromotesOverlap ==
    (\E d \in Devices : pc[d] = "precopy") => NeedAtRangesExact

==============================================================================
