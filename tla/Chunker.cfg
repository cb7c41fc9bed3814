SPECIFICATION FileSpec
CONSTANTS
    ParentMax = 9
    ChildSize = 3
    Overlap = 2
    Elements <- MCElements
    Documents <- MCDocuments
    ParentTexts <- MCTexts
    ChunkTexts = {a, b}
    Images = {img1, img2}
    Pages = {1, 2}
    MaxChunks = 3
    MaxTables = 2
INVARIANTS
    SectionsHoldElements
    ParentsHoldDocument
    ChildrenCoverText
    RecallKeepsSequence
PROPERTY IngestEnds
CHECK_DEADLOCK FALSE
