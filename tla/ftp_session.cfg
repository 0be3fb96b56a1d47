CONSTANTS
    two = two
    three = three
    gone = gone
    locked = locked
    Files <- SessionFiles
    Kind <- MCKind
    FileSize <- MCSize
    MinSize = 1
    MaxSize = 4
    SizeChange <- Growth
    Chunk = 2
    ServerMayDie = FALSE
    MaxGets = 2
    MaxGot = 4
    Garbage = 5
SPECIFICATION Spec
INVARIANTS TypeOK StreamAligned
PROPERTIES InOrderDelivery GetAnswered
