\* Lifecycle: can shutdown() panic?
CONSTANTS
    s1 = s1
    s2 = s2
    s3 = s3
    NoStopper = NoStopper
    Stoppers <- MCStoppers
    AsyncStoppers <- MCAsyncStoppers
    MaxStarts = 2
SPECIFICATION Spec
INVARIANT NoShutdownPanic
