SPECIFICATION Spec
CONSTANTS
    Interface = {i1, i2}
    None = none
    Instant <- MCInstant
    Sample <- MCSample
    MaxBytes = 2
    Word = 16
INVARIANTS TypeOK NoPhantomTraffic AllTrafficCounts PercentsInRange
