\* Lifecycle: a second start() after a stop, shutdown from plain threads.
CONSTANTS
    s1 = s1
    s2 = s2
    s3 = s3
    NoStopper = NoStopper
    Stoppers <- MCStoppers
    AsyncStoppers = {}
    MaxStarts = 2
SPECIFICATION Spec
INVARIANT ControllerTargetsCurrent
