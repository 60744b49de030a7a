\* Two engine calls of one build with three events and one, a queue of one and a batch of two.
SPECIFICATION MCSpec
CONSTANTS
    w1 = w1
    w2 = w2
    Writers = {w1, w2}
    Readers = {r1}
    QueueSize = 1
    BatchSize = 2
    PageSize = 1
    MaxEvents <- MCMaxEvents
    None = None
    Characters = {"a","b"}
    Chunks <- MCChunks
    SecretSets <- MCSecretSets
    TailSize = 4
    MaxLength = 5
INVARIANTS
    LogTypeOK
    EventsAreAccountedFor
    ReadersMissNothing
    ChunksAreRedactedAsOne
    EventsAreRedacted
PROPERTIES
    CloseReturns
CHECK_DEADLOCK FALSE
