SPECIFICATION Spec
CONSTANTS
    socket_num = 2
    Clients = {c1, c2}
    connectPolls = {c1}
    SndBuf = 2
    Writes <- SomeWrites
    Settings <- Failing
PROPERTY CloseReturns
CHECK_DEADLOCK FALSE
