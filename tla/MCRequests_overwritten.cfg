SPECIFICATION Spec
CONSTANTS
    h1 = h1
    h2 = h2
    f = f
    r = r
    Handler = {h1}
    Reader = {}
    Foreign = {f}
    Cmd <- OneInsert
    Key = "k"
    None = None
    Closed = Closed
    maxRedirects = 1
    MaxIndex = 1
    Settings <- OneWriteOnly
INVARIANTS OwnResult
CHECK_DEADLOCK FALSE
