SPECIFICATION FairSpec
CONSTANTS
    Container = {c1, c2}
    Excluded = {c2}
    Goroutine = {g1, g2, g3}
    None = none
    MaxConcurrency = 2
    MaxBacklog = 1
INVARIANTS SlotsBalance MapFollowsDocker OneLatePoint
PROPERTIES KeepsSlots DownIsLetGo
