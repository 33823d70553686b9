SPECIFICATION Spec
CONSTANTS
    GoodMs = 2
    DegradedMs = 4
    HysteresisMs = 1
    TransitionSamples = 2
    AlphaNum = 1
    AlphaDen = 2
    Request = {r1, r2}
    Sample = {0, 4}
    Retries = 2
    Absent = Absent
    Garbled = {g}
    Infinite = {inf}
    MaxFaults = 2
SYMMETRY Requests
INVARIANTS SkippedForCause Responsive
PROPERTIES ImplementsShared NoFlapping
