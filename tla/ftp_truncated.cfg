CONSTANTS
    two = two
    three = three
    gone = gone
    locked = locked
    Files <- OneFile
    Kind <- MCKind
    FileSize <- MCSize
    MinSize = 1
    MaxSize = 3
    SizeChange <- NoChange
    Chunk = 2
    ServerMayDie = TRUE
    MaxGets = 1
    MaxGot = 4
    Garbage = 5
SPECIFICATION Spec
INVARIANT Intact
