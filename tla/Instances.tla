------------------------------ MODULE Instances ------------------------------
(* Several instances of the program and the socket by which the later ones  *)
(* hand their command to the one that runs.                                 *)
(* src/desktop/src/app/command_line.cpp (Unix)                              *)
(*                                                                          *)
(* Nothing in the program calls these functions yet: the order in which     *)
(* they are called is left to the environment. An instance has at most one  *)
(* listening socket, named after it. accept() empties the queue of a socket *)
(* that was shut down before it fails, connect() does not find one.         *)
EXTENDS Integers, Sequences, FiniteSets

CONSTANTS Programs, MaxMessages, None

VARIABLES
    running,   \* instance -> g_server_running
    pc,        \* instance -> where its run_ipc_server() is
    stopping,  \* instance -> where its stop_ipc_server() is
    path,      \* the socket that IPC_SOCKET_PATH leads to
    listens,   \* sockets in listen()
    shut,      \* sockets shut down
    pending,   \* instance -> ids of the messages sent to it and not accepted
    taken,     \* ids given to on_message, in their order
    crossed    \* one instance has run a server while another did
vars == <<running, pc, stopping, path, listens, shut, pending, taken, crossed>>

Init ==
    /\ running = [p \in Programs |-> FALSE] /\ pc = [p \in Programs |-> "none"]
    /\ stopping = [p \in Programs |-> "none"] /\ path = None
    /\ listens = {} /\ shut = {} /\ pending = [p \in Programs |-> <<>>] /\ taken = <<>> /\ crossed = FALSE

At(p, from, to) == pc[p] = from /\ pc' = [pc EXCEPT ![p] = to]
\* g_unix_socket >= 0: from socket() until it is set back, after the close().
HasSocket(p) == pc[p] \in {"bind", "listen", "loop", "accept", "close", "forget"}
Closed(p) == listens' = listens \ {p} /\ shut' = shut \ {p} /\ pending' = [pending EXCEPT ![p] = <<>>]

Wire == UNCHANGED <<listens, shut, pending, taken>>

-----------------------------------------------------------------------------
(* run_ipc_server()                                                         *)

Run(p) ==
    /\ At(p, "none", "unlink") /\ running' = [running EXCEPT ![p] = TRUE]
    /\ crossed' = (crossed \/ \E q \in Programs : pc[q] # "none")
    /\ UNCHANGED <<stopping, path>> /\ Wire
UnlinkNothing(p) ==   \* mutant: what a crash has left stays
    /\ At(p, "unlink", "socket")
    /\ UNCHANGED <<running, stopping, path, crossed>> /\ Wire
UnlinkStale(p) ==
    /\ At(p, "unlink", "socket") /\ path' = None
    /\ UNCHANGED <<running, stopping, crossed>> /\ Wire
Open(p) ==
    /\ At(p, "socket", "bind") /\ UNCHANGED <<running, stopping, path, crossed>> /\ Wire
\* bind() fails where the path already leads somewhere.
Bind(p) ==
    /\ pc[p] = "bind" /\ UNCHANGED <<running, stopping, listens, pending, taken, crossed>>
    /\ IF path = None
       THEN path' = p /\ pc' = [pc EXCEPT ![p] = "listen"] /\ UNCHANGED shut
       ELSE pc' = [pc EXCEPT ![p] = "none"] /\ shut' = shut \ {p} /\ UNCHANGED path
Listen(p) ==
    /\ At(p, "listen", "loop") /\ listens' = listens \cup {p}
    /\ UNCHANGED <<running, stopping, path, shut, pending, taken, crossed>>

Looks(p) ==
    /\ pc[p] = "loop" /\ pc' = [pc EXCEPT ![p] = IF running[p] THEN "accept" ELSE "close"]
    /\ UNCHANGED <<running, stopping, path, crossed>> /\ Wire
\* A message that does not come whole is dropped; on_message gets the others.
Accept(p, whole) ==
    /\ At(p, "accept", "loop") /\ pending[p] # <<>>
    /\ taken' = IF whole THEN Append(taken, Head(pending[p])) ELSE taken
    /\ pending' = [pending EXCEPT ![p] = Tail(@)]
    /\ UNCHANGED <<running, stopping, path, listens, shut, crossed>>
AcceptFails(p) ==
    /\ At(p, "accept", "loop") /\ p \in shut /\ pending[p] = <<>>
    /\ UNCHANGED <<running, stopping, path, crossed>> /\ Wire

Close(p) ==
    /\ At(p, "close", "forget") /\ Closed(p)
    /\ UNCHANGED <<running, stopping, path, taken, crossed>>
Forget(p) ==
    /\ At(p, "forget", "last") /\ UNCHANGED <<running, stopping, path, crossed>> /\ Wire
UnlinkOwn(p) ==
    /\ At(p, "last", "none") /\ path' = None
    /\ UNCHANGED <<running, stopping, crossed>> /\ Wire

\* The program ends in the middle of its server: the path outlives it.
Crash(p) ==
    /\ pc[p] # "none" /\ pc' = [pc EXCEPT ![p] = "none"]
    /\ running' = [running EXCEPT ![p] = FALSE] /\ stopping' = [stopping EXCEPT ![p] = "none"]
    /\ Closed(p)
    /\ UNCHANGED <<path, taken, crossed>>

-----------------------------------------------------------------------------
(* stop_ipc_server(), from another thread of the same instance              *)

Stops(p, from, to) == stopping[p] = from /\ stopping' = [stopping EXCEPT ![p] = to]
StopStores(p) ==
    /\ Stops(p, "none", "load") /\ running' = [running EXCEPT ![p] = FALSE]
    /\ UNCHANGED <<pc, path, crossed>> /\ Wire
StopLoads(p) ==
    /\ Stops(p, "load", IF HasSocket(p) THEN "shutdown" ELSE "none")
    /\ UNCHANGED <<running, pc, path, crossed>> /\ Wire
StopsOnly(p) ==   \* mutant: without shutdown()
    /\ Stops(p, "shutdown", "none")
    /\ UNCHANGED <<running, pc, path, crossed>> /\ Wire
\* By now the descriptor may be closed: then shutdown() fails.
StopShuts(p) ==
    /\ Stops(p, "shutdown", "none")
    /\ shut' = IF HasSocket(p) /\ pc[p] # "forget" THEN shut \cup {p} ELSE shut
    /\ UNCHANGED <<running, pc, path, listens, pending, taken, crossed>>

(* try_send_to_running_instance() that finds a server; it returns false     *)
(* where it finds none, and then changes nothing.                           *)
TrySend(id) ==
    /\ path \in listens \ shut
    /\ \A p \in Programs : \A i \in DOMAIN pending[p] : pending[p][i] # id
    /\ \A i \in DOMAIN taken : taken[i] # id
    /\ pending' = [pending EXCEPT ![path] = Append(@, id)]
    /\ UNCHANGED <<running, pc, stopping, path, listens, shut, taken, crossed>>

Next ==
    \/ \E p \in Programs :
        \/ Run(p) \/ UnlinkStale(p) \/ Open(p) \/ Bind(p) \/ Listen(p) \/ Looks(p)
        \/ \E whole \in BOOLEAN : Accept(p, whole)
        \/ AcceptFails(p) \/ Close(p) \/ Forget(p) \/ UnlinkOwn(p) \/ Crash(p)
        \/ StopStores(p) \/ StopLoads(p) \/ StopShuts(p)
    \/ \E id \in 1 .. MaxMessages : TrySend(id)

-----------------------------------------------------------------------------

\* A server that was told to stop never sleeps on: once the stop is through, its
\* accept() has nothing to wait for. A server that has always been alone comes
\* to listen and can be reached from then on, also after others have crashed. No
\* message is given to on_message twice. It does not say that a server is reached
\* once two have run together, for each unlinks the path of the other, nor that a
\* message is kept which waits while its server closes or crashes: both are lost.
ServersAnswer ==
    /\ \A p \in Programs :
        ~running[p] /\ pc[p] = "accept" /\ stopping[p] = "none" => p \in shut
    /\ ~crossed => \A p \in Programs :
        (running[p] => pc[p] # "none") /\ (p \in listens => path = p)
    /\ \A i, j \in DOMAIN taken : taken[i] = taken[j] => i = j

-----------------------------------------------------------------------------
(* The inductive invariant                                                  *)

Places == {"none", "unlink", "socket", "bind", "listen", "loop", "accept", "close", "forget", "last"}
TypeOK ==
    /\ running \in [Programs -> BOOLEAN] /\ pc \in [Programs -> Places]
    /\ stopping \in [Programs -> {"none", "load", "shutdown"}]
    /\ path \in Programs \cup {None} /\ listens \in SUBSET Programs /\ shut \in SUBSET Programs
    /\ pending \in [Programs -> Seq(1 .. MaxMessages)] /\ taken \in Seq(1 .. MaxMessages)
    /\ crossed \in BOOLEAN

\* A stop is on its way to a server that waits, or has shut its socket down.
StopReaches ==
    \A p \in Programs : pc[p] = "accept" /\ ~running[p] => stopping[p] # "none" \/ p \in shut
Listening == \A p \in listens : pc[p] \in {"loop", "accept", "close"}
\* Where the path leads while one server is alone.
Alone ==
    ~crossed =>
        /\ \A p, q \in Programs : pc[p] # "none" /\ pc[q] # "none" => p = q
        /\ \A p \in Programs :
            /\ pc[p] \in {"socket", "bind"} => path = None
            /\ pc[p] \in {"listen", "loop", "accept", "close", "forget", "last"} => path = p
            /\ pc[p] \in {"close", "forget", "last", "none"} => ~running[p]
\* No message is in two places.
IdsApart ==
    /\ \A i, j \in DOMAIN taken : taken[i] = taken[j] => i = j
    /\ \A p \in Programs : \A i \in DOMAIN pending[p] :
        /\ \A j \in DOMAIN pending[p] : pending[p][i] = pending[p][j] => i = j
        /\ \A j \in DOMAIN taken : pending[p][i] # taken[j]
        /\ \A q \in Programs \ {p} : \A j \in DOMAIN pending[q] : pending[p][i] # pending[q][j]
ServersInv == TypeOK /\ StopReaches /\ Listening /\ Alone /\ IdsApart
==============================================================================
