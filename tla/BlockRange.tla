------------------------------ MODULE BlockRange ------------------------------
(***************************************************************************)
(* The block ranges the source computes when the destination sends a       *)
(* NeedAt or a DontNeedAt hint (MigrateTo, src/pkg/roles/peer.go, the     *)
(* HandleNeedAt and HandleDontNeedAt callbacks at lines 1065-1099; the     *)
(* same code is in src/unnamed/part_003).  Each callback caps the          *)
(* end offset at the storage size, turns [offset, endOffset) into a block  *)
(* range [startBlock, endBlock) and promotes (NeedAt) or removes           *)
(* (DontNeedAt) every block of it in the orderer.  The arithmetic is done  *)
(* in uint64, so it is modelled modulo 2^Width.                            *)
(*                                                                         *)
(* A request is one (offset, length) pair the waiting cache can send: a    *)
(* read inside the device (offset < Size) of at least one byte.  The       *)
(* model walks through every such request and compares the range the code  *)
(* computes with the blocks the request really overlaps.                   *)
(***************************************************************************)
EXTENDS Integers

CONSTANTS
    Size,       \* storage.Size() of the device, in bytes
    BlockSize,  \* the device's block size, in bytes
    MaxLength,  \* largest request length enumerated
    Width       \* bit width standing for uint64

ASSUME Size \in Nat \ {0} /\ BlockSize \in Nat \ {0} /\ BlockSize <= Size
ASSUME MaxLength \in Nat \ {0} /\ Width \in Nat /\ 2^Width > 2 * (Size + MaxLength)

VARIABLES offset, length

vars == <<offset, length>>

U64(x) == x % (2^Width)

\* endOffset := uint64(offset + int64(length)), capped at storage.Size().
EndOffset(o, l) ==
    LET e == U64(o + l) IN IF e > Size THEN Size ELSE e

\* Variant: the end block without the "-1", one block too many whenever the
\* range ends on a block boundary.
NeedAtRangeNoMinusOne(o, l) ==
    << o \div BlockSize, EndOffset(o, l) \div BlockSize + 1 >>

\* NeedAt: startBlock := offset / blockSize,
\*         endBlock := (endOffset-1) / blockSize + 1.
NeedAtRange(o, l) ==
    << o \div BlockSize, U64(EndOffset(o, l) - 1) \div BlockSize + 1 >>

\* DontNeedAt: the same computation, but divided by storage.Size().
DontNeedAtRange(o, l) ==
    << o \div Size, U64(EndOffset(o, l) - 1) \div Size + 1 >>

TotalBlocks == (Size + BlockSize - 1) \div BlockSize

Blocks == 0..TotalBlocks - 1

\* Reference: the blocks of the device that [o, o + l) overlaps.
Overlapping(o, l) ==
    { b \in Blocks : b * BlockSize < o + l /\ o < (b + 1) * BlockSize }

\* The loop "for b := startBlock; b < endBlock; b++" visits exactly the
\* blocks of Overlapping and no index past the end of the device.
LoopVisitsExactly(r, o, l) ==
    /\ \A b \in Blocks : (r[1] <= b /\ b < r[2]) <=> b \in Overlapping(o, l)
    /\ r[1] < r[2] => r[2] <= TotalBlocks

Requests == (0..Size - 1) \X (1..MaxLength)

Init == offset \in 0..Size - 1 /\ length \in 1..MaxLength

\* The destination sends the next hint.
Hint == offset' \in 0..Size - 1 /\ length' \in 1..MaxLength

Next == Hint

Spec == Init /\ [][Next]_vars

TypeOK == <<offset, length>> \in Requests

(* A DontNeedAt for [offset, offset+length) removes exactly the blocks the *)
(* request overlaps from the orderer (HandleDontNeedAt callback).          *)
DontNeedAtRemovesOverlap ==
    LoopVisitsExactly(DontNeedAtRange(offset, length), offset, length)
===============================================================================
