\* As MCIrcLive, but TCP may deliver "/wait" and the port to one recv.
CONSTANTS
    Sessions = {1, 2}
    IdOf <- OwnIds
    PortOf <- Ports
    Cap = 3
    MaxCommands = 2
    GarbageIndex <- Garbage
    Coalesce = TRUE
    NoId = NoId
    NoOne = NoOne

SPECIFICATION Spec

PROPERTY EveryCommandServed

\* The server never stops (its threads block in accept and recv); the
\* model stops once every session has used its lines and left.
CHECK_DEADLOCK FALSE
