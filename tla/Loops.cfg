\* Iterators: every container of one or two dimensions with extents up to 4,
\* and 3-D containers whose padding skip cascades and whose edge parts are
\* truncated along one, two or three dimensions. The element writer's loop
\* checks write_next's result and may meet one failed append; the partition
\* writer has one failed append per run; the block reader uses every block
\* shape that fits. Products: block gemm/gemv over every shape with extents
\* up to 4 and partitions up to 3, and the prefilter gemv over vectors of up
\* to 6 items, with every failing step of gemv.c.
CONSTANTS
    DTShapes <- DTShapesUpTo3D
    MaxFail = 1
    BlockCases <- MCBlockCases
    WLoops = {"checked"}
    MaxWFail = 1
    Cases <- MCCases
    GCases <- MCGCases
    MZero = MZero
    MGarbage = MGarbage
SPECIFICATION LSpec
INVARIANTS
    RTTypeOK
    StoredPartsLayout
    NoPaddingNoRevisit
    CompleteWhenFinished
    ReadReturnsWritten
    ReadCoversOnce
    PBTypeOK
    PartsStoredLogically
    PartViewExact
    PBBlocksTileShape
    PBBlockViewExact
    MatmulTypeOK
    ProductExact
    IterMatchesLoop
    GemvTypeOK
    ChunkRowsExact
PROPERTY
    CallsReturn
\* Each program ends where the program does: the iterators are freed, or the
\* product call returns.
CHECK_DEADLOCK FALSE
