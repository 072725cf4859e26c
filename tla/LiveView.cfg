SPECIFICATION FairSpec
CONSTANTS
    Container = {c1}
    Value = {running}
    Absent = absent
    Conn = {k1, k2}
    Noise = noise
    QueueSize = 2
    MaxConnections = 2
INVARIANT InSync
PROPERTIES Mirrors Converges WatcherGoesOn
