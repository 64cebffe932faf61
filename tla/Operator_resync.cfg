\* One Schema declaring a level and one SchemaRegistry with one URL, one
\* generation each: both controllers with one worker, as in the code.
CONSTANTS
    s1 = s1
    j1 = j1
    L1 = L1
    r1 = r1
    u1 = u1
    Schemas = {s1}
    Subjects = {j1}
    Contents = {c1}
    Levels = {L1}
    NoLevel = NoLevel
    NoID = NoID
    NoSubject = NoSubject
    SubjectOf <- MCSubjectOf
    CompatOf <- MCCompatOf
    Listed <- SameNamespace
    MaxGen = 1
    Registry = r1
    URLs = {u1}
    NoURL = NoURL
    RegMaxGen = 1
SPECIFICATION Spec
PROPERTY CompatibilityApplied VersionRecorded
