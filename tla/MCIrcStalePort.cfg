\* Three clients with ids of their own, one line each: one waits, one
\* connects to it, and the third comes and goes.
CONSTANTS
    Sessions = {1, 2, 3}
    IdOf <- OwnIds
    PortOf <- Ports
    Cap = 3
    MaxCommands = 1
    GarbageIndex <- Garbage
    Coalesce = FALSE
    NoId = NoId
    NoOne = NoOne

SPECIFICATION Spec

INVARIANT ConnectGivesTargetPort

\* The server never stops (its threads block in accept and recv); the
\* model stops once every session has used its lines and left.
CHECK_DEADLOCK FALSE
