\* One Schema; the registry server may stay down.
CONSTANTS
    s1 = s1
    s2 = s2
    j1 = j1
    j2 = j2
    L1 = L1
    Schemas = {s1}
    Subjects = {j1}
    Contents = {c1, c2}
    Levels = {L1}
    NoLevel = NoLevel
    NoID = NoID
    NoSubject = NoSubject
    SubjectOf <- MCSubjectOf
    CompatOf <- NoCompatOf
    Listed <- MCListed
    MaxGen = 1
    MaxWorkers = 1
    MaxCrashes = 0
SPECIFICATION Spec
PROPERTY DeletionNeverBlocks
