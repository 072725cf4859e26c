SPECIFICATION Spec
CONSTANTS
    Empty = empty
    Junk = junk
    AnyAddress = Public
    Public = Public
    Local = Local
    Secret = Secret
    Wrong = Wrong
    Loopback <- MCLoopback
    LogLevels = {"debug", "info", "warn", "error"}
    c1 = c1
    c2 = c2
    p1 = p1
    a1 = a1
    Container = {c1, c2}
    Matches <- MCMatches
    Environments <- MCEnvironments
    Commands <- MCCommands
    Request = {r1, r2}
    Remote = {a1}
    Queries <- MCQueries
    None = none
    Rate = 2
    Window = 2
CHECK_DEADLOCK FALSE
PROPERTY StreamUpgrades
