------------------------------ MODULE IrcServer ------------------------------
(***************************************************************************)
(* The rendezvous server of src/irc/server.c with the clients of           *)
(* src/irc/client.c that talk to it.  The server keeps two global tables   *)
(* under client_mutex: clients[] (id, socket, listening port) with         *)
(* client_count, and waiting_clients[] with waiting_count.  main() accepts *)
(* connections and starts one detached client_handler thread for each.    *)
(* A handler registers the client's id, then serves /list, /wait (followed *)
(* by the client's listening port), /connect <id>, /stop_wait and          *)
(* disconnection.  A session is one run of the client program: it sends    *)
(* its id, then lines the user types; Ctrl+C in WAIT mode sends            *)
(* /stop_wait; a CONNECT reply makes it connect to the port it names,      *)
(* which a waiting client's listener accepts.  The chat itself goes peer   *)
(* to peer and is left out: it never reaches the server.                   *)
(*                                                                         *)
(* Both tables are arrays indexed by ints that the code never bounds; the  *)
(* model gives them the slots -Drift..Cap-1 so that a write at a negative  *)
(* or stale index happens as in the code (a negative index lands in the    *)
(* memory in front of the array, here cells of their own).                 *)
(***************************************************************************)
EXTENDS Integers, Sequences, FiniteSets

CONSTANTS Sessions,      \* runs of the client program, one connection each
          IdOf,          \* the client id each session gives on its command line
          PortOf,        \* the port its listener gets from bind(port 0), > 0
          Cap,           \* MAX_CLIENTS = MAX_WAITING (100 in the code)
          MaxCommands,   \* lines typed per session, at most
          GarbageIndex,  \* values the uninitialised target_index may hold
          Coalesce,      \* TCP hands "/wait" and the port to one recv
          NoId, NoOne

ASSUME /\ PortOf \in [Sessions -> Nat \ {0}]
       /\ Cap \in Nat /\ MaxCommands \in Nat /\ Coalesce \in BOOLEAN

Ids == {IdOf[s] : s \in Sessions}

\* How far waiting_count can fall below zero: one /stop_wait per typed line
\* and per Ctrl+C.
Drift == Cardinality(Sessions) * MaxCommands * 2

Slots == -Drift .. (Cap - 1)

VARIABLES clients, clientCount, waiting, waitingCount, lock,
          hpc,        \* each session's client_handler: Start, Id, Loop, WaitPort, Closed, Done
          sock,       \* the descriptor accept() gave each session (its client_socket)
          openFds,    \* descriptors of the server process that are open
          cmode,      \* each client's mode: Off, Info, Wait, Gone
          listening,  \* the client's listener_socket is open
          inbox,      \* bytes on the TCP stream from client to server, as messages
          closed,     \* the client closed its end of that stream
          typed,      \* lines typed so far (bounded by MaxCommands)
          replies,    \* CONNECT replies not yet read by the client
          told        \* every CONNECT reply the server has sent

serverVars == <<clients, clientCount, waiting, waitingCount, lock, hpc, sock, openFds, told>>
clientVars == <<cmode, listening, inbox, closed, typed, replies>>
vars == <<serverVars, clientVars>>

Msg(c, a) == [cmd |-> c, arg |-> a]

\* The indices 0..n-1 a loop "for (i = 0; i < n; i++)" visits.
Live(n) == 0 .. (n - 1)

WriteSlot(f, i, v) == IF i \in DOMAIN f THEN [f EXCEPT ![i] = v] ELSE f

SetPort(f, i, p) == IF i \in DOMAIN f THEN [f EXCEPT ![i].port = p] ELSE f

\* "for (i = from; i < n - 1; i++) strcpy(w[i], w[i + 1]);"
ShiftDown(w, from, n) ==
    [i \in DOMAIN w |-> IF from <= i /\ i < n - 1 THEN w[i + 1] ELSE w[i]]

\* The index the search loop of /connect and /stop_wait stops at, or -1.
WaitingIndex(id) ==
    LET found == {i \in Live(waitingCount) : waiting[i] = id}
    IN  IF found = {} THEN -1 ELSE CHOOSE i \in found : \A j \in found : i <= j

\* Sessions whose entry the handler added to clients[] and has not removed.
Registered == {s \in Sessions : hpc[s] \in {"Loop", "WaitPort", "Closed"}}

\* accept() returns the lowest descriptor not open in the process; 0-2 are
\* the standard streams and 3 is server_socket.
FirstFd == 4
LowestFreeFd ==
    CHOOSE n \in FirstFd .. (FirstFd + Cardinality(Sessions)) :
        n \notin openFds /\ \A m \in FirstFd .. (n - 1) : m \in openFds

Init ==
    /\ clients = [i \in Slots |-> [id |-> NoId, sock |-> NoOne, port |-> 0]]
    /\ clientCount = 0
    /\ waiting = [i \in Slots |-> NoId]
    /\ waitingCount = 0
    /\ lock = NoOne
    /\ hpc = [s \in Sessions |-> "Start"]
    /\ sock = [s \in Sessions |-> 0]
    /\ openFds = {}
    /\ cmode = [s \in Sessions |-> "Off"]
    /\ listening = [s \in Sessions |-> FALSE]
    /\ inbox = [s \in Sessions |-> <<>>]
    /\ closed = [s \in Sessions |-> FALSE]
    /\ typed = [s \in Sessions |-> 0]
    /\ replies = [s \in Sessions |-> <<>>]
    /\ told = {}

-----------------------------------------------------------------------------
(* The client program (src/irc/client.c), as far as the server sees it.   *)

Type(s, msgs) ==
    /\ typed[s] < MaxCommands
    /\ typed' = [typed EXCEPT ![s] = @ + 1]
    /\ inbox' = [inbox EXCEPT ![s] = @ \o msgs]

\* client main(): connect to the server and send the id; server main()
\* (lines 254-270): accept, which opens the lowest free descriptor, and
\* start a detached client_handler thread with it.
ClientStart(s) ==
    /\ cmode[s] = "Off"
    /\ cmode' = [cmode EXCEPT ![s] = "Info"]
    /\ hpc' = [hpc EXCEPT ![s] = "Id"]
    /\ sock' = [sock EXCEPT ![s] = LowestFreeFd]
    /\ openFds' = openFds \cup {LowestFreeFd}
    /\ UNCHANGED <<clients, clientCount, waiting, waitingCount, lock, told,
                   listening, inbox, closed, typed, replies>>

\* "/wait" in INFO mode: send it, enter WAIT, open a listener on a port
\* bind() picks and send that port as a second message.
TypeWait(s) ==
    /\ cmode[s] = "Info"
    /\ Type(s, <<Msg("wait", NoId), Msg("port", PortOf[s])>>)
    /\ cmode' = [cmode EXCEPT ![s] = "Wait"]
    /\ listening' = [listening EXCEPT ![s] = TRUE]
    /\ UNCHANGED <<serverVars, closed, replies>>

\* "/connect <id>" in INFO mode is sent as typed (refused locally in WAIT).
TypeConnect(s) ==
    /\ cmode[s] = "Info"
    /\ \E t \in Ids : Type(s, <<Msg("connect", t)>>)
    /\ UNCHANGED <<serverVars, cmode, listening, closed, replies>>

\* Any other line in INFO or WAIT mode is sent as typed, "/stop_wait" too.
TypeLine(s) ==
    /\ cmode[s] \in {"Info", "Wait"}
    /\ \E c \in {"list", "stop_wait", "other"} : Type(s, <<Msg(c, NoId)>>)
    /\ UNCHANGED <<serverVars, cmode, listening, closed, replies>>

\* handle_sigint in WAIT mode (WAIT is entered by a typed "/wait", so
\* these are bounded by MaxCommands too): send "/stop_wait", close the listener,
\* back to INFO.
Interrupt(s) ==
    /\ cmode[s] = "Wait"
    /\ inbox' = [inbox EXCEPT ![s] = Append(@, Msg("stop_wait", NoId))]
    /\ cmode' = [cmode EXCEPT ![s] = "Info"]
    /\ listening' = [listening EXCEPT ![s] = FALSE]
    /\ UNCHANGED <<serverVars, closed, typed, replies>>

\* "/quit" is handled locally: close the sockets and exit(0).  The server
\* sees the end of the stream after what was already sent.
Quit(s) ==
    /\ cmode[s] \in {"Info", "Wait"}
    /\ cmode' = [cmode EXCEPT ![s] = "Gone"]
    /\ closed' = [closed EXCEPT ![s] = TRUE]
    /\ listening' = [listening EXCEPT ![s] = FALSE]
    /\ UNCHANGED <<serverVars, inbox, typed, replies>>

\* receive_server_messages reads "CONNECT id ip port" and handle_connect
\* connects to that port.  If a client listens there, its
\* wait_for_connection accepts and both chat until one leaves, after
\* which both are in INFO mode; the accepting client's listener is done.
\* Otherwise "Failed to connect" and nothing changes.
PeerConnect(s) ==
    /\ cmode[s] \in {"Info", "Wait"}
    /\ replies[s] # <<>>
    /\ LET port == Head(replies[s]).port
           peer == {w \in Sessions : listening[w] /\ PortOf[w] = port}
       IN  /\ replies' = [replies EXCEPT ![s] = Tail(@)]
           /\ IF peer = {}
              THEN UNCHANGED <<cmode, listening>>
              ELSE /\ cmode' = [w \in Sessions |->
                                  IF w \in peer \/ w = s THEN "Info" ELSE cmode[w]]
                   /\ listening' = [w \in Sessions |->
                                      IF w \in peer THEN FALSE ELSE listening[w]]
    /\ UNCHANGED <<serverVars, inbox, closed, typed>>
-----------------------------------------------------------------------------
(* client_handler (src/irc/server.c), one thread per session.  A critical *)
(* section that does no I/O while it holds client_mutex is one step,      *)
(* taken when the mutex is free; /wait holds it across a recv.            *)

Pop(s, n) == inbox' = [inbox EXCEPT ![s] = SubSeq(@, n + 1, Len(@))]

Next1(s, c) == inbox[s] # <<>> /\ Head(inbox[s]).cmd = c

\* Variant with a plausible bug: the search stops one entry short
\* ("i < client_count - 1").
IdTakenSkipsLast(s) == \E i \in Live(clientCount - 1) : clients[i].id = IdOf[s]

\* Lines 47-54: the search of clients[0..client_count-1] for the id.
IdTaken(s) == \E i \in Live(clientCount) : clients[i].id = IdOf[s]

\* Lines 46-53: the id is taken: "Client ID is already taken.", close and
\* pthread_exit.  The client prints the reply and exits.
RegisterTaken(s) ==
    /\ hpc[s] = "Id" /\ lock = NoOne
    /\ IdTaken(s)
    /\ hpc' = [hpc EXCEPT ![s] = "Done"]
    /\ openFds' = openFds \ {sock[s]}
    /\ cmode' = [cmode EXCEPT ![s] = "Gone"]
    /\ listening' = [listening EXCEPT ![s] = FALSE]
    /\ UNCHANGED <<clients, clientCount, waiting, waitingCount, lock, told, sock,
                   inbox, closed, typed, replies>>

\* Lines 56-62: append {id, socket, port -1} at clients[client_count].
Register(s) ==
    /\ hpc[s] = "Id" /\ lock = NoOne
    /\ ~IdTaken(s)
    /\ clients' = WriteSlot(clients, clientCount,
                            [id |-> IdOf[s], sock |-> sock[s], port |-> -1])
    /\ clientCount' = clientCount + 1
    /\ hpc' = [hpc EXCEPT ![s] = "Loop"]
    /\ UNCHANGED <<waiting, waitingCount, lock, told, sock, openFds, clientVars>>

\* Lines 70-76: recv returns 0 once the client has closed and everything
\* it sent was read: close(client_socket), before client_mutex is taken.
\* From here on accept may hand the same descriptor to a new client.
CloseSocket(s) ==
    /\ hpc[s] = "Loop" /\ inbox[s] = <<>> /\ closed[s]
    /\ openFds' = openFds \ {sock[s]}
    /\ hpc' = [hpc EXCEPT ![s] = "Closed"]
    /\ UNCHANGED <<clients, clientCount, waiting, waitingCount, lock, told,
                   sock, clientVars>>

\* Lines 78-89: under client_mutex, remove the first entry whose socket
\* is the number this handler holds, by moving the last entry into its
\* place.  waiting_clients is left as it is.
Disconnect(s) ==
    LET found == {i \in Live(clientCount) : clients[i].sock = sock[s]}
        i     == CHOOSE j \in found : \A k \in found : j <= k
    IN  /\ hpc[s] = "Closed" /\ lock = NoOne
        /\ IF found = {}
           THEN UNCHANGED <<clients, clientCount>>
           ELSE /\ clients' = [clients EXCEPT ![i] = clients[clientCount - 1]]
                /\ clientCount' = clientCount - 1
        /\ hpc' = [hpc EXCEPT ![s] = "Done"]
        /\ UNCHANGED <<waiting, waitingCount, lock, told, sock, openFds, clientVars>>

\* Lines 93-110: waiting_count is read without the mutex; only a non-zero
\* count takes it to copy the list into the reply.
List(s) ==
    /\ hpc[s] = "Loop" /\ Next1(s, "list")
    /\ waitingCount = 0 \/ lock = NoOne
    /\ Pop(s, 1)
    /\ UNCHANGED <<serverVars, cmode, listening, closed, typed, replies>>

\* Line 211: any other line, including a port read as a command, gets
\* "Bad prompt.".
BadPrompt(s) ==
    /\ hpc[s] = "Loop" /\ inbox[s] # <<>>
    /\ Head(inbox[s]).cmd \notin {"list", "wait", "connect", "stop_wait"}
    /\ Pop(s, 1)
    /\ UNCHANGED <<serverVars, cmode, listening, closed, typed, replies>>

Listed(id) == \E i \in Live(waitingCount) : waiting[i] = id

\* Lines 113-121, 139-142: already in the list: "already in WAIT mode".
WaitAlready(s) ==
    /\ hpc[s] = "Loop" /\ Next1(s, "wait") /\ lock = NoOne
    /\ Listed(IdOf[s])
    /\ Pop(s, 1)
    /\ UNCHANGED <<serverVars, cmode, listening, closed, typed, replies>>

\* Lines 113-126: not in the list: keep client_mutex and block in recv for
\* the port.  With Coalesce, "/wait" and the port, once both have arrived,
\* come out of the first recv together.
WaitBegin(s) ==
    /\ hpc[s] = "Loop" /\ Next1(s, "wait") /\ lock = NoOne
    /\ ~Listed(IdOf[s])
    /\ lock' = s
    /\ hpc' = [hpc EXCEPT ![s] = "WaitPort"]
    /\ Pop(s, IF Coalesce /\ Len(inbox[s]) >= 2 /\ inbox[s][2].cmd = "port"
              THEN 2 ELSE 1)
    /\ UNCHANGED <<sock, openFds, clients, clientCount, waiting, waitingCount, told,
                   cmode, listening, closed, typed, replies>>

\* Lines 126-142: atoi of what recv returned (0 for anything but a port,
\* and for the end of the stream); a positive port appends the id at
\* waiting_clients[waiting_count] and stores the port in
\* clients[waiting_count]; then unlock.
WaitPort(s) ==
    /\ hpc[s] = "WaitPort"
    /\ inbox[s] # <<>> \/ closed[s]
    /\ LET port == IF inbox[s] # <<>> /\ Head(inbox[s]).cmd = "port"
                   THEN Head(inbox[s]).arg ELSE 0
       IN  IF port > 0
           THEN /\ waiting' = WriteSlot(waiting, waitingCount, IdOf[s])
                /\ clients' = SetPort(clients, waitingCount, port)
                /\ waitingCount' = waitingCount + 1
           ELSE UNCHANGED <<waiting, clients, waitingCount>>
    /\ IF inbox[s] # <<>> THEN Pop(s, 1) ELSE UNCHANGED inbox
    /\ lock' = NoOne
    /\ hpc' = [hpc EXCEPT ![s] = "Loop"]
    /\ UNCHANGED <<sock, openFds, clientCount, told, cmode, listening, closed, typed, replies>>

\* Variant with a plausible bug: the early branch returns with
\* client_mutex still held.
ConnectNotWaitingKeepsLock(s) ==
    /\ hpc[s] = "Loop" /\ Next1(s, "connect") /\ lock = NoOne
    /\ WaitingIndex(Head(inbox[s]).arg) = -1
    /\ Pop(s, 1)
    /\ lock' = s
    /\ UNCHANGED <<sock, openFds, clients, clientCount, waiting, waitingCount, hpc, told,
                   cmode, listening, closed, typed, replies>>

\* Lines 143-159: the target is not in the list: "Client is not waiting.".
ConnectNotWaiting(s) ==
    /\ hpc[s] = "Loop" /\ Next1(s, "connect") /\ lock = NoOne
    /\ WaitingIndex(Head(inbox[s]).arg) = -1
    /\ Pop(s, 1)
    /\ UNCHANGED <<serverVars, cmode, listening, closed, typed, replies>>

\* Lines 160-175: take the port from clients[target_index] (the index in
\* the waiting list), shift the waiting list down over the target, unlock
\* and send "CONNECT id 127.0.0.1 port".
ConnectFound(s) ==
    LET t   == Head(inbox[s]).arg
        idx == WaitingIndex(t)
        r   == [target |-> t, port |-> clients[idx].port]
    IN  /\ hpc[s] = "Loop" /\ Next1(s, "connect") /\ lock = NoOne
        /\ idx # -1
        /\ waiting' = ShiftDown(waiting, idx, waitingCount)
        /\ waitingCount' = waitingCount - 1
        /\ replies' = [replies EXCEPT ![s] = Append(@, r)]
        /\ told' = told \cup {[from |-> s, target |-> t, port |-> r.port]}
        /\ Pop(s, 1)
        /\ UNCHANGED <<sock, openFds, clients, clientCount, lock, hpc, cmode, listening,
                       closed, typed>>

\* Lines 183-204: search the list for the caller's id; target_index is
\* never initialised, so when the id is not there it holds whatever the
\* stack slot held.  Shift down from it and decrement waiting_count in
\* either case.
StopWait(s) ==
    LET idx == WaitingIndex(IdOf[s]) IN
    /\ hpc[s] = "Loop" /\ Next1(s, "stop_wait") /\ lock = NoOne
    /\ \E from \in IF idx = -1 THEN GarbageIndex ELSE {idx} :
          waiting' = ShiftDown(waiting, from, waitingCount)
    /\ waitingCount' = waitingCount - 1
    /\ Pop(s, 1)
    /\ UNCHANGED <<sock, openFds, clients, clientCount, lock, hpc, told, cmode, listening,
                   closed, typed, replies>>

-----------------------------------------------------------------------------
Client(s) ==
    \/ ClientStart(s) \/ TypeWait(s) \/ TypeConnect(s) \/ TypeLine(s)
    \/ Interrupt(s) \/ Quit(s)

Reader(s) == PeerConnect(s)

Handler(s) ==
    \/ RegisterTaken(s) \/ Register(s) \/ CloseSocket(s) \/ Disconnect(s) \/ List(s)
    \/ BadPrompt(s) \/ WaitAlready(s) \/ WaitBegin(s) \/ WaitPort(s)
    \/ ConnectNotWaiting(s) \/ ConnectFound(s) \/ StopWait(s)

Next == \E s \in Sessions : Client(s) \/ Reader(s) \/ Handler(s)

\* Each handler thread and each client's server-reader thread is
\* scheduled.  A handler that needs client_mutex may find it held each
\* time it runs, so its steps are strongly fair: a mutex that is free
\* infinitely often is eventually taken.  What users type is not fair.
Fairness == \A s \in Sessions : SF_vars(Handler(s)) /\ WF_vars(Reader(s))

Spec == Init /\ [][Next]_vars /\ Fairness

-----------------------------------------------------------------------------
\* A client whose handler is still serving it has its entry, under its
\* own id and socket, in clients[0..client_count-1], so /list, /connect
\* and the id check see it.  A handler closes its socket before it takes
\* client_mutex and looks its entry up by socket number (lines 76-86); if
\* accept has meanwhile handed that number to a newcomer whose entry a
\* third disconnect moved in front, the lookup removes the newcomer's
\* entry and leaves its own.
ConnectedClientsListed ==
    \A s \in Sessions :
        hpc[s] \in {"Loop", "WaitPort"} =>
            \E i \in Live(clientCount) : clients[i].id = IdOf[s] /\ clients[i].sock = sock[s]

\* No two entries of clients[] carry the same id, however the handlers of
\* sessions with one id and the disconnects of others interleave: the
\* search of lines 47-54 and the append of lines 57-61 happen under one
\* hold of client_mutex.
IdsUnique ==
    \A i, j \in Live(clientCount) : i # j => clients[i].id # clients[j].id

\* Session s has something for its handler to do: its id to register, a
\* line to read, or the end of its stream.
Pending(s) ==
    \/ hpc[s] = "Id"
    \/ hpc[s] = "Loop" /\ (inbox[s] # <<>> \/ closed[s])

\* Every line a client sends is eventually served: no handler is blocked
\* forever on client_mutex, which /wait holds across a recv.
EveryCommandServed == \A s \in Sessions : []<>~Pending(s)

\* A CONNECT reply for a target that is still connected carries the port
\* that target's listener sent with its /wait: handle_connect then reaches
\* the client it asked for.  (A target that has left is the subject of
\* WaitingListSound.)
ConnectGivesTargetPort ==
    \A r \in told :
        (\E w \in Registered : IdOf[w] = r.target)
            => \E w \in Sessions : IdOf[w] = r.target /\ PortOf[w] = r.port

\* waiting_clients[0..waiting_count-1] is a list of connected clients: the
\* count never goes below zero (a later /wait would write
\* waiting_clients[-1] and clients[-1]), and /list never offers, nor
\* /connect hand out, a client that has left.
WaitingListSound ==
    /\ waitingCount >= 0
    /\ \A i \in Live(waitingCount) : \E s \in Registered : IdOf[s] = waiting[i]
=============================================================================
