\* Two Schemas naming the same subject, one generation each, one worker as
\* in the code (no MaxConcurrentReconciles in SetupWithManager).
CONSTANTS
    s1 = s1
    s2 = s2
    j1 = j1
    j2 = j2
    L1 = L1
    Schemas = {s1, s2}
    Subjects = {j1}
    Contents = {c1, c2}
    Levels = {L1}
    NoLevel = NoLevel
    NoID = NoID
    NoSubject = NoSubject
    SubjectOf <- SharedSubjectOf
    CompatOf <- NoCompatOf
    Listed <- MCListed
    MaxGen = 1
    MaxWorkers = 1
    MaxCrashes = 0
SPECIFICATION Spec
CONSTRAINT SecretKept
INVARIANT TypeOK
INVARIANT NoOrphanedSubject
