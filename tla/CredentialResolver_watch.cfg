\* Every spec.auth and every store of two Secrets.
CONSTANTS
    SecretNames = {sa, sb}
    NoRef = NoRef
    Absent = Absent
SPECIFICATION Spec
INVARIANT WatchCoversDependencies StrategyDeterminesCredentials
