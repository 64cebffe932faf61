\* One Schema, two generations: a spec update can land during a registration.
CONSTANTS
    s1 = s1
    s2 = s2
    j1 = j1
    j2 = j2
    L1 = L1
    Schemas = {s1}
    Subjects = {j1}
    Contents = {c1, c2}
    Levels = {L1}
    NoLevel = NoLevel
    NoID = NoID
    NoSubject = NoSubject
    SubjectOf <- MCSubjectOf
    CompatOf <- MCCompatOf
    Listed <- MCListed
    MaxGen = 2
    MaxWorkers = 1
    MaxCrashes = 0
SPECIFICATION Spec
INVARIANT StatusMatchesGeneration
