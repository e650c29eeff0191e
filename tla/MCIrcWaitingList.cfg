\* Two clients with ids of their own, two lines each, who may wait,
\* connect to each other, stop waiting and quit in any order.
CONSTANTS
    Sessions = {1, 2}
    IdOf <- OwnIds
    PortOf <- Ports
    Cap = 3
    MaxCommands = 2
    GarbageIndex <- Garbage
    Coalesce = FALSE
    NoId = NoId
    NoOne = NoOne

SPECIFICATION Spec

INVARIANT WaitingListSound

\* The server never stops (its threads block in accept and recv); the
\* model stops once every session has used its lines and left.
CHECK_DEADLOCK FALSE
