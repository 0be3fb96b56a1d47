CONSTANTS
    log = log
    cut = cut
    locked = locked
    gone = gone
    Files <- MCFiles
    Kind <- MCKind
    FileSize <- MCSize
    MaxSize = 3
    Shrinking <- MCShrinking
    MaxGets = 2
SPECIFICATION Spec
INVARIANTS TypeOK NothingReadAhead
PROPERTIES InOrderDelivery GetAnswered ServerEnds
