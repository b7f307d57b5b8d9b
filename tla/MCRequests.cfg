SPECIFICATION Spec
CONSTANTS
    h1 = h1
    h2 = h2
    f = f
    r = r
    Handler = {h1, h2}
    Reader = {r}
    Foreign = {f}
    Cmd <- TwoInserts
    Key = "k"
    None = None
    Closed = Closed
    maxRedirects = 2
    MaxIndex = 3
    Settings <- AllSettings
INVARIANTS OwnResultInTerm AnswerIsApplied CommitWakes ResultWakes WaitersWait InsertExclusive 
PROPERTIES ReadsSeeAnswered RequestsReturn
CHECK_DEADLOCK FALSE
