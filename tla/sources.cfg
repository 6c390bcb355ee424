SPECIFICATION FairSpec

CONSTANTS
    Topics         = {a, b}
    Programs       = {{a}, {a, b}}
    SourceSettle   = 3
    SourceAttempts = 2
    ProbeTimeout   = 1
    Discovery      = 2
    MaxJobs        = 2
    MaxEdits       = 1
    MaxFaults      = 1

INVARIANTS
    SourcesInv
    AnswerIsWhole

PROPERTIES
    TopicsAreLearned
