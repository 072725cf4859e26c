SPECIFICATION FairSpec
CONSTANTS
    Container = {c1, c2}
    Value = {running, exited}
    Unborn = unborn
    Gone = gone
    None = none
    Failures = {"list", "inspect", "stream"}
    MaxBacklog = 2
INVARIANT LagExplained
PROPERTY Tracks
