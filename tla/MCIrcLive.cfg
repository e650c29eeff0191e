\* Two runs of the client with the same id "a", two typed lines each (and
\* Ctrl+C after a /wait), which may register in either order or be
\* refused, wait, list, connect (to the other or to themselves), stop
\* waiting and quit in any order.  Every "/wait" reaches the server in a
\* recv of its own and the port in the next, as when the client's two
\* sends are apart.  The tables have three slots (MAX_CLIENTS =
\* MAX_WAITING = 100 in the code).
CONSTANTS
    Sessions = {1, 2}
    IdOf <- OneId
    PortOf <- Ports
    Cap = 3
    MaxCommands = 2
    GarbageIndex <- Garbage
    Coalesce = FALSE
    NoId = NoId
    NoOne = NoOne

SPECIFICATION Spec

INVARIANT IdsUnique
PROPERTY EveryCommandServed

\* The server never stops (its threads block in accept and recv); the
\* model stops once every session has used its lines and left.
CHECK_DEADLOCK FALSE
