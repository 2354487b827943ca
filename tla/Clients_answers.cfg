\* A client that fills its channel, and another that connects, trades or leaves meanwhile.
CONSTANTS
    Conns = {c1, c2}
    Capacity = 1
    SocketFrames = 1
    MaxCommands = 2
    MaxEvents = 2
    Nil = Nil
SPECIFICATION FairSpec
CHECK_DEADLOCK FALSE
INVARIANT TypeOK
PROPERTIES
    AnswersFlow
    AnswersDelivered
    LeaversForgotten
