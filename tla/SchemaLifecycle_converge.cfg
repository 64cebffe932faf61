\* One Schema declaring a level, two generations, and a second subject a user
\* may try to move it to, and one restart of the operator; convergence and
\* deletion under the fairness of Spec.
CONSTANTS
    s1 = s1
    s2 = s2
    j1 = j1
    j2 = j2
    L1 = L1
    Schemas = {s1}
    Subjects = {j1, j2}
    Contents = {c1, c2}
    Levels = {L1}
    NoLevel = NoLevel
    NoID = NoID
    NoSubject = NoSubject
    SubjectOf <- MCSubjectOf
    CompatOf <- MCCompatOf
    Listed <- MCListed
    MaxGen = 2
    MaxWorkers = 1
    MaxCrashes = 1
SPECIFICATION Spec
INVARIANT NoOrphanedSubject
INVARIANT ReadyImpliesRegistered
PROPERTY Converges
PROPERTY DeletionCompletes
PROPERTY ImplementsSchemaSubject
