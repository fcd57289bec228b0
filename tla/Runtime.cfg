\* The threads of the process: loops, connections, workers, pools, timers,
\* scheduler, outgoing connection and log.  A process that has stopped, and
\* one that waits for clients that never come, may stand still.
CONSTANTS
    base = base
    l1 = l1
    l2 = l2
    k1 = k1
    k2 = k2
    w1 = w1
    w2 = w2
    Loops = {base, l1, l2}
    Others = {w1, w2}
    Workers = {w1, w2}
    Capacity = 1
    Conns = {k1, k2}
    Base = base
    MaxConn = 1
    NetSeeds <- NetInstances
    Users = {u1, u2, u3}
    Slots = 2
    Timers = {t1, t2}
    Period = 1
    Horizon = 3
    Repeating = {j1, j2}
    OneShot = {j3}
    InitDelay = 1
    MaxDelay = 3
    MaxAttempts = 4
    ClientSeeds <- ClientInstances
    Appenders = {a1, a2}
    Messages = 2
    BufferSize = 1
    MaxBuffers = 1
    RollSize = 2
    MaxFiles = 2
    LogSeeds <- LogInstances
SPECIFICATION RuntimeSpec
CHECK_DEADLOCK FALSE
INVARIANTS
    RuntimeTypeOK
    OutputInOrder
    ConnectionsCounted
    NoLostWakeup
    AssertionsHold
    SlotsConserved
    TimersKept
    LogInOrder
PROPERTY
    RequestsAnswered
