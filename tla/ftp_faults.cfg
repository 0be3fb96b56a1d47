CONSTANTS
    two = two
    three = three
    gone = gone
    locked = locked
    Files <- FaultFiles
    Kind <- MCKind
    FileSize <- MCSize
    MinSize = 1
    MaxSize = 2
    SizeChange <- AnyChange
    Chunk = 2
    ServerMayDie = TRUE
    MaxGets = 2
    MaxGot = 4
    Garbage = 5
SPECIFICATION Spec
PROPERTIES QuitEnds ServerEnds ServerGoneNoticed
