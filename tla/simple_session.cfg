CONSTANTS
    empty = empty
    three = three
    gone = gone
    locked = locked
    Files <- MCFiles
    Kind <- MCKind
    FileSize <- MCSize
    MinSize = 0
    MaxSize = 4
    SizeChange <- Growth
    Chunk = 2
    ServerMayDie = FALSE
    Block = 2
    NoHeader = 5
SPECIFICATION Spec
INVARIANTS TypeOK CopyWhole
PROPERTIES TransferEnds ServerEnds
