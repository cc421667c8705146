\* The same device as MCBlockRange_needat.cfg, checking the DontNeedAt range.
CONSTANTS
    Size = 36
    BlockSize = 8
    MaxLength = 20
    Width = 16
SPECIFICATION Spec
INVARIANTS
    DontNeedAtRemovesOverlap
