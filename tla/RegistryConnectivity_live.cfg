\* One SchemaRegistry, two URLs, two generations, one restart of the
\* operator; one worker as in the code.
CONSTANTS
    Registries = {r1}
    URLs = {u1, u2}
    NoURL = NoURL
    MaxGen = 2
    MaxWorkers = 1
    MaxCrashes = 1
SPECIFICATION Spec
INVARIANT TypeOK
PROPERTY ConnectionStatusConverges
