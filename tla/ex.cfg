SPECIFICATION EchoSpec
CONSTANTS
    Services = {"fifo", "udp"}
    NumClients = 2
    MaxLines = 2
    MaxStarts = 2
    SocketBuffer = 1
    MayFail = TRUE
INVARIANT AnswersMatch
PROPERTY Answered
PROPERTY EchoEnds
CHECK_DEADLOCK FALSE
