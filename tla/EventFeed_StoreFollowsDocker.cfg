SPECIFICATION FairSpec
CONSTANTS
    Container = {c1}
    Value = {running, exited}
    Unborn = unborn
    Gone = gone
    None = none
    Failures = {}
    MaxBacklog = 2
PROPERTY StoreFollowsDocker
CHECK_DEADLOCK FALSE
