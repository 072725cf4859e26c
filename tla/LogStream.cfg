SPECIFICATION FairSpec
CONSTANTS
    Capacity = 2
    Text = {1}
    Blank = blank
    Stream = {s1, s2}
    Conn = {k1}
    None = none
    OldLines = 1
    QueueSize = 1
    MaxLines = 1
    MaxPushes = 3
    MaxCount = 2
INVARIANTS RingInv SubscribedIsStreamed NoGap
PROPERTIES Delivered StreamReleased
