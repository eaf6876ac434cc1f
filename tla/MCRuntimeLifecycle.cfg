\* Lifecycle: two starts, three shutdown callers, liveness of shutdown and of the signal.
CONSTANTS
    s1 = s1
    s2 = s2
    s3 = s3
    NoStopper = NoStopper
    Stoppers <- MCStoppers
    AsyncStoppers <- MCAsyncStoppers
    MaxStarts = 2
SPECIFICATION FairSpec
INVARIANT LifecycleTypeOK
PROPERTY ShutdownReturns
PROPERTY SignalStopsRuntime
