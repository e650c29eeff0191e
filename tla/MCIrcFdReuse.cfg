\* Three clients with ids of their own that only connect, register and
\* quit, in any order.  Descriptors come from accept's lowest-free rule,
\* so a client that connects after another has closed its socket, but
\* before that handler has taken client_mutex, gets the same number.
CONSTANTS
    Sessions = {1, 2, 3}
    IdOf <- OwnIds
    PortOf <- Ports
    Cap = 3
    MaxCommands = 0
    GarbageIndex <- Garbage
    Coalesce = FALSE
    NoId = NoId
    NoOne = NoOne

SPECIFICATION Spec

INVARIANT ConnectedClientsListed

\* The server never stops (its threads block in accept and recv); the
\* model stops once every session has left.
CHECK_DEADLOCK FALSE
