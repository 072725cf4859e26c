SPECIFICATION FairSpec
CONSTANTS
    Socket = {s1, s2, s3}
    None = none
    MaxSends = 2
INVARIANTS NoOrphan RetryArmed OneTimer ShownUp QueueIsTheRest
PROPERTIES KeepsTrying
