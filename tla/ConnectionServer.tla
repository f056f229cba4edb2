--------------------------- MODULE ConnectionServer ---------------------------
(* The TCP servers that speak in lines with their clients:                     *)
(*   "echo"      labs/E08/sol/01: one connection at a time, lines sent back;   *)
(*   "attempt"   labs/E08/es1: the same, but a close by the client is handled; *)
(*   "resource"  labs/E10/src: a detached thread for each connection, a counter*)
(*               with a semaphore for each resource;                           *)
(*   "slots"     old_exams/2021_settembre_attempt_1/src: a process for each    *)
(*               connection, at most MAX_CONNECTIONS of them served at once;   *)
(*   "reverse"   old_exams/2021_luglio_attempt_1/src: a process for each       *)
(*               connection, lines sent back reversed, a stop by signal;       *)
(*   "time"      labs/E07/sol/02 and es2: one connection at a time, of one     *)
(*               command and its answer.                                       *)
(* A connection is two queues and the state of the client's end as the server  *)
(* sees it.  A line is its contents and its terminator; a handler receives     *)
(* them apart, as its loop of recv receives one byte at a time.                *)
EXTENDS Integers, Sequences, FiniteSets

CONSTANTS
    Programs,       \* which of the six
    NumClients,     \* bound: clients of each program, each of which connects once
    MaxRequests,    \* bound: lines of a client of each program, QUIT apart
    N,              \* N of E10: the resources
    MaxConnections, \* MAX_CONNECTIONS of settembre
    MaxConnQueue,   \* MAX_CONN_QUEUE, the backlog of listen
    MayFail         \* clients may close at any time, fork and pthread_create fail

ASSUME ServerAssumption ==
    /\ Programs \subseteq {"echo", "attempt", "resource", "slots", "reverse", "time"}
    /\ NumClients \in [Programs -> Nat \ {0}] /\ MaxRequests \in [Programs -> Nat \ {0}]
    /\ \A p \in Programs \cap {"slots", "time"} : MaxRequests[p] = 1
    /\ {N, MaxConnections, MaxConnQueue} \subseteq Nat \ {0}
    /\ MayFail \in BOOLEAN

Clients == UNION {1 .. NumClients[p] : p \in Programs}
Resources == 0 .. N - 1

VARIABLES
    program,
    alive,              \* the server's main process has not exited
    backlog,            \* connections waiting to be accepted
    shutting_down,      \* "reverse": a signal has told it to stop
    handler,            \* the next step of the handler of each connection
    line,               \* what it has received of the current line
    shared_res_sem, shared_counters,
    counter_updated,
    sem_connections,
    clientPc,           \* the next step of each client
    toServer, toClient, \* what is on its way on each connection
    peer,               \* the client's end: open, fin, resetting or reset
    requests, replies,  \* history: the lines of each client, and its replies
    disorderly,         \* history: clients out of step: see the actions that add to it
    failed              \* history: a fork or pthread_create failed, or a signal came

server == <<alive, backlog, shutting_down>>
resources == <<shared_res_sem, shared_counters, counter_updated>>
queues == <<toServer, toClient>>
clientVars == <<clientPc, requests, replies, disorderly>>
vars == <<program, server, handler, line, resources, sem_connections, queues, peer,
          clientVars, failed>>

\* Contents of lines are numbers; these stand for none, QUIT and the terminator.
None == -1
Quit == -2
End == -3
Welcome == <<None, 0>>

Init ==
    /\ program \in Programs
    /\ alive = TRUE /\ backlog = << >> /\ shutting_down = FALSE
    /\ handler = [c \in Clients |-> "none"]
    /\ line = [c \in Clients |-> None]
    /\ shared_res_sem = [r \in Resources |-> 1]
    /\ shared_counters = [r \in Resources |-> 0]
    /\ counter_updated = [c \in Clients |-> 0]
    /\ sem_connections = MaxConnections
    /\ clientPc = [c \in Clients |-> "idle"]
    /\ toServer = [c \in Clients |-> << >>]
    /\ toClient = [c \in Clients |-> << >>]
    /\ peer = [c \in Clients |-> "open"]
    /\ requests = [c \in Clients |-> << >>]
    /\ replies = [c \in Clients |-> << >>]
    /\ disorderly = {} /\ failed = FALSE

Present(c) == c <= NumClients[program]

\* The servers that fork a process for each connection, those that handle one
\* connection after the other, and those whose connections are one request.
Forking == {"slots", "reverse"}
Echo == {"echo", "attempt"}
Serial == Echo \cup {"time"}
OneRequest == {"slots", "time"}

\* A plausible mistake: the handlers end with the main process.
LivesWithMain(c) == alive /\ c \in Clients

\* Threads end with their process; children go on without it.
Lives(c) == alive \/ program \in Forking

HandlerStep(c, from, to) ==
    Lives(c) /\ handler[c] = from /\ handler' = [handler EXCEPT ![c] = to]

ClientStep(c, from, to) ==
    clientPc[c] = from /\ clientPc' = [clientPc EXCEPT ![c] = to]

\* handle_error ends the process of the handler, which is that of the whole server
\* unless that forks.
Die(c, from) ==
    /\ HandlerStep(c, from, "died")
    /\ alive' = (alive /\ program \in Forking)
    /\ UNCHANGED <<program, backlog, shutting_down, line, resources, sem_connections,
                   queues, peer, clientVars, failed>>

\* The buffer still has the last line when the next one is received.
SendToNoReset(c, from, to, message) ==
    /\ HandlerStep(c, from, to)
    /\ toClient' = IF peer[c] = "open"
                   THEN [toClient EXCEPT ![c] = Append(@, message)] ELSE toClient
    /\ peer' = IF peer[c] = "fin" THEN [peer EXCEPT ![c] = "resetting"] ELSE peer
    /\ UNCHANGED <<program, server, line, resources, sem_connections, toServer,
                   clientVars, failed>>

\* send: to an end that is closed it succeeds, and a reset comes back.  A second
\* one, which would raise SIGPIPE, never follows: a client has one line unanswered.
SendTo(c, from, to, message) ==
    /\ HandlerStep(c, from, to)
    /\ toClient' = IF peer[c] = "open"
                   THEN [toClient EXCEPT ![c] = Append(@, message)] ELSE toClient
    /\ peer' = IF peer[c] = "fin" THEN [peer EXCEPT ![c] = "resetting"] ELSE peer
    /\ line' = [line EXCEPT ![c] = None]
    /\ UNCHANGED <<program, server, resources, sem_connections, toServer, clientVars,
                   failed>>

\* resource_id = (tmp > 0 && tmp < N) ? tmp : 0
ResourceOf(tmp) == IF tmp > 0 /\ tmp < N THEN tmp ELSE 0

-----------------------------------------------------------------------------
(* Plausible mistakes, which the properties below are shown to catch *)

\* A thread goes to the counter without its semaphore.
WaitResourceMissing(c) ==
    /\ HandlerStep(c, "wait", "load")
    /\ UNCHANGED <<program, server, line, resources, sem_connections, queues, peer,
                   clientVars, failed>>

\* The child ends without giving its slot back.
PostSlotMissing(c) ==
    /\ HandlerStep(c, "post", "closed")
    /\ UNCHANGED <<program, server, line, resources, sem_connections, queues, peer,
                   clientVars, failed>>

-----------------------------------------------------------------------------
(* The main loop of the servers *)

FirstStep ==
    CASE program \in Echo \cup {"reverse"} -> "greet"
      [] program \in {"resource", "time"} -> "recv"
      [] program = "slots" -> "waitSlot"

\* A serial server calls the handler itself and is back at accept when it returns.
AtAccept ==
    /\ alive
    /\ program \in Serial => \A c \in Clients : handler[c] \in {"none", "closed"}

\* accept, and the call, the thread or the process that handles the connection.
Accept(c) ==
    /\ AtAccept /\ ~shutting_down
    /\ backlog # << >> /\ Head(backlog) = c
    /\ backlog' = Tail(backlog)
    /\ handler' = [handler EXCEPT ![c] = FirstStep]
    /\ UNCHANGED <<program, alive, shutting_down, line, resources, sem_connections,
                   queues, peer, clientVars, failed>>

\* A failed fork ends the main process, not the children.  A failed pthread_create
\* goes unnoticed, as its result is compared with -1: pthread_detach then gets a
\* handle that nobody has set, which the server outlives or not.
CreateFails(c) ==
    /\ MayFail /\ program \notin Serial
    /\ AtAccept /\ ~shutting_down
    /\ backlog # << >> /\ Head(backlog) = c
    /\ backlog' = Tail(backlog)
    /\ alive' \in (IF program = "resource" THEN BOOLEAN ELSE {FALSE})
    /\ handler' = [handler EXCEPT ![c] = "missing"]
    /\ failed' = TRUE
    /\ UNCHANGED <<program, shutting_down, line, resources, sem_connections, queues,
                   peer, clientVars>>

\* SIGINT or SIGTERM, once.  A main that waits in accept ends; one that is between
\* its test of shutting_down and accept goes on to wait for a connection.  A child
\* whose recv is interrupted before the first byte of a line looks at the byte in
\* front of its buffer, and may take the line for complete.
Signal ==
    /\ MayFail /\ program = "reverse" /\ alive /\ ~shutting_down
    /\ shutting_down' = TRUE /\ failed' = TRUE
    /\ alive' \in (IF backlog = << >> THEN BOOLEAN ELSE {TRUE})
    /\ \E hit \in SUBSET {c \in Clients : /\ handler[c] = "recv" /\ line[c] = None
                                         /\ toServer[c] = << >> /\ peer[c] = "open"} :
          /\ handler' = [c \in Clients |-> IF c \in hit THEN "reply" ELSE handler[c]]
          /\ disorderly' = disorderly \cup hit
    /\ UNCHANGED <<program, backlog, line, resources, sem_connections, queues, peer,
                   clientPc, requests, replies>>

\* The connection accepted after the signal is dropped by the end of the process.
AcceptLast(c) ==
    /\ alive /\ shutting_down /\ alive' = FALSE
    /\ backlog # << >> /\ Head(backlog) = c
    /\ backlog' = Tail(backlog)
    /\ handler' = [handler EXCEPT ![c] = "missing"]
    /\ UNCHANGED <<program, shutting_down, line, resources, sem_connections, queues,
                   peer, clientVars, failed>>

-----------------------------------------------------------------------------
(* connection_handler *)

\* "echo" and "reverse" send their welcome message first.
Greet(c) == SendTo(c, "greet", "recv", Welcome)

\* "slots" waits until less than MAX_CONNECTIONS connections are served.
WaitSlot(c) ==
    /\ sem_connections > 0
    /\ sem_connections' = sem_connections - 1
    /\ HandlerStep(c, "waitSlot", "recv")
    /\ UNCHANGED <<program, server, line, resources, queues, peer, clientVars, failed>>

\* The contents go where the bytes received so far of this line end.  "time" takes
\* what one recv gives it for the command.
RecvContents(c) ==
    /\ peer[c] # "reset" /\ toServer[c] # << >> /\ Head(toServer[c]) # End
    /\ HandlerStep(c, "recv", IF program = "time" THEN "reply" ELSE "recv")
    /\ line' = [line EXCEPT ![c] = IF @ = None THEN Head(toServer[c]) ELSE @]
    /\ toServer' = [toServer EXCEPT ![c] = Tail(@)]
    /\ UNCHANGED <<program, server, resources, sem_connections, toClient, peer,
                   clientVars, failed>>

\* QUIT ends the connection.  "reverse" takes an empty line for the end of it, as its
\* recv_from_socket returns 0 for both.
AfterLine(c) ==
    IF line[c] = Quit THEN "close"
    ELSE IF program = "resource" THEN "wait"
    ELSE IF program = "reverse" /\ line[c] = None THEN "died" ELSE "reply"

\* The line is complete.
EndOfLine(c) ==
    /\ peer[c] # "reset" /\ toServer[c] # << >> /\ Head(toServer[c]) = End
    /\ HandlerStep(c, "recv", AfterLine(c))
    /\ toServer' = [toServer EXCEPT ![c] = Tail(@)]
    /\ UNCHANGED <<program, server, line, resources, sem_connections, toClient, peer,
                   clientVars, failed>>

\* recv returns 0: "echo" sends back what it has of a line, and with nothing to
\* send back it goes round its loop for ever; "attempt" closes the connection; "time"
\* answers that the request is invalid; the others call handle_error.
AfterClose(c) ==
    CASE program = "time" -> {"reply"}
      [] program = "echo" -> IF line[c] = None THEN {} ELSE {"reply"}
      [] program = "attempt" -> {"close"}
      [] OTHER -> {}

RecvNothing(c) ==
    /\ peer[c] \in {"fin", "resetting"} /\ toServer[c] = << >>
    /\ \/ /\ \E to \in AfterClose(c) : HandlerStep(c, "recv", to)
          /\ UNCHANGED <<program, server, line, resources, sem_connections, queues,
                         peer, clientVars, failed>>
       \/ program \notin Serial /\ Die(c, "recv")

\* recv fails with ECONNRESET.
RecvFails(c) == peer[c] = "reset" /\ Die(c, "recv")

\* process_resource: ++shared_counters[resource_id] between the two operations
\* on the semaphore of the resource.
WaitResource(c) ==
    /\ HandlerStep(c, "wait", "load")
    /\ LET r == ResourceOf(line[c])
       IN  /\ shared_res_sem[r] > 0
           /\ shared_res_sem' = [shared_res_sem EXCEPT ![r] = @ - 1]
    /\ UNCHANGED <<program, server, line, shared_counters, counter_updated,
                   sem_connections, queues, peer, clientVars, failed>>

LoadCounter(c) ==
    /\ HandlerStep(c, "load", "store")
    /\ counter_updated' =
          [counter_updated EXCEPT ![c] = shared_counters[ResourceOf(line[c])] + 1]
    /\ UNCHANGED <<program, server, line, shared_res_sem, shared_counters,
                   sem_connections, queues, peer, clientVars, failed>>

StoreCounter(c) ==
    /\ HandlerStep(c, "store", "postResource")
    /\ shared_counters' =
          [shared_counters EXCEPT ![ResourceOf(line[c])] = counter_updated[c]]
    /\ UNCHANGED <<program, server, line, shared_res_sem, counter_updated,
                   sem_connections, queues, peer, clientVars, failed>>

PostResource(c) ==
    /\ HandlerStep(c, "postResource", "reply")
    /\ shared_res_sem' = [shared_res_sem EXCEPT ![ResourceOf(line[c])] = @ + 1]
    /\ UNCHANGED <<program, server, line, shared_counters, counter_updated,
                   sem_connections, queues, peer, clientVars, failed>>

\* The line itself, the resource with its new count, or the answer to the request.
Reply(c) ==
    LET message == IF program = "resource"
                   THEN <<ResourceOf(line[c]), counter_updated[c]>> ELSE <<line[c], 0>>
    IN  SendTo(c, "reply", IF program \in OneRequest THEN "close" ELSE "recv", message)

CloseConnection(c) ==
    /\ HandlerStep(c, "close", IF program = "slots" THEN "post" ELSE "closed")
    /\ UNCHANGED <<program, server, line, resources, sem_connections, queues, peer,
                   clientVars, failed>>

PostSlot(c) ==
    /\ HandlerStep(c, "post", "closed")
    /\ sem_connections' = sem_connections + 1
    /\ UNCHANGED <<program, server, line, resources, queues, peer, clientVars, failed>>

-----------------------------------------------------------------------------
(* The clients: client.c of E08/sol/01, of luglio and of E07, and what the     *)
(* other servers expect of theirs.                                             *)

\* Clients are alike, and numbered in the order in which they connect.
Connect(c) ==
    /\ Present(c) /\ \A d \in 1 .. c - 1 : clientPc[d] # "idle"
    /\ alive /\ Len(backlog) < MaxConnQueue
    /\ ClientStep(c, "idle", IF FirstStep = "greet" THEN "welcome" ELSE "ready")
    /\ backlog' = Append(backlog, c)
    /\ UNCHANGED <<program, alive, shutting_down, handler, line, resources,
                   sem_connections, queues, peer, requests, replies, disorderly,
                   failed>>

ReceiveWelcome(c) ==
    /\ toClient[c] # << >>
    /\ ClientStep(c, "welcome", "ready")
    /\ toClient' = [toClient EXCEPT ![c] = Tail(@)]
    /\ UNCHANGED <<program, server, handler, line, resources, sem_connections,
                   toServer, peer, requests, replies, disorderly, failed>>

\* What a client may write on a line: for "resource" also a number out of range.
Contents(c) ==
    CASE program \in Echo \cup {"reverse"} -> {Len(requests[c]) + 1}
      [] program = "resource" -> 1 .. N
      [] program \in OneRequest -> {0}

\* The terminator comes apart from the line where a client may leave it out or the
\* server has threads; a command for "time" has none.
Terminator == IF program \in Forking THEN <<End>> ELSE << >>

SendContents(c) ==
    /\ Len(requests[c]) < MaxRequests[program]
    /\ ClientStep(c, "ready", IF program \in Forking \cup {"time"} THEN "await"
                              ELSE "terminate")
    /\ \E contents \in Contents(c) :
          /\ toServer' = [toServer EXCEPT ![c] = @ \o <<contents>> \o Terminator]
          /\ requests' = [requests EXCEPT ![c] = Append(@, contents)]
    /\ UNCHANGED <<program, server, handler, line, resources, sem_connections,
                   toClient, peer, replies, disorderly, failed>>

SendTerminator(c) ==
    /\ ClientStep(c, "terminate", "await")
    /\ toServer' = [toServer EXCEPT ![c] = Append(@, End)]
    /\ UNCHANGED <<program, server, handler, line, resources, sem_connections,
                   toClient, peer, requests, replies, disorderly, failed>>

\* fgets gives a line without its terminator at the end of the input: the client of
\* "echo" then waits for a reply, that of "attempt" for the terminator in its buffer.
LeaveLineOpen(c) ==
    /\ MayFail /\ program \in Echo
    /\ ClientStep(c, "terminate", "stuck")
    /\ disorderly' = disorderly \cup {c}
    /\ UNCHANGED <<program, server, handler, line, resources, sem_connections, queues,
                   peer, requests, replies, failed>>

\* The user of "reverse" types nothing but ENTER.
SendEmpty(c) ==
    /\ MayFail /\ program = "reverse" /\ Len(requests[c]) < MaxRequests[program]
    /\ ClientStep(c, "ready", "await")
    /\ toServer' = [toServer EXCEPT ![c] = Append(@, End)]
    /\ disorderly' = disorderly \cup {c}
    /\ UNCHANGED <<program, server, handler, line, resources, sem_connections,
                   toClient, peer, requests, replies, failed>>

ReceiveReply(c) ==
    /\ toClient[c] # << >>
    /\ ClientStep(c, "await", "ready")
    /\ toClient' = [toClient EXCEPT ![c] = Tail(@)]
    /\ replies' = [replies EXCEPT ![c] = Append(@, Head(toClient[c]))]
    /\ UNCHANGED <<program, server, handler, line, resources, sem_connections,
                   toServer, peer, requests, disorderly, failed>>

\* The client sends QUIT and closes; after the answer to its one request it closes.
Leave(c) ==
    /\ program \in OneRequest => replies[c] # << >>
    /\ ClientStep(c, "ready", "done")
    /\ toServer' = IF program \in OneRequest THEN toServer
                   ELSE [toServer EXCEPT ![c] = @ \o <<Quit, End>>]
    /\ peer' = [peer EXCEPT ![c] = "fin"]
    /\ UNCHANGED <<program, server, handler, line, resources, sem_connections,
                   toClient, requests, replies, disorderly, failed>>

\* The client is killed, or reaches the end of its input.  A close with replies
\* still unread resets the connection.
CloseEarly(c) ==
    /\ MayFail
    /\ clientPc[c] \in {"welcome", "ready", "terminate", "await", "stuck"}
    /\ program \in OneRequest /\ clientPc[c] = "ready" => replies[c] = << >>
    /\ clientPc' = [clientPc EXCEPT ![c] = "closed"]
    /\ peer' = [peer EXCEPT ![c] = IF toClient[c] = << >> THEN "fin" ELSE "reset"]
    /\ toClient' = [toClient EXCEPT ![c] = << >>]
    /\ disorderly' = disorderly \cup {c}
    /\ UNCHANGED <<program, server, handler, line, resources, sem_connections,
                   toServer, requests, replies, failed>>

\* The process that had the connection is no more, and nothing is left to read.
Abandoned(c) ==
    /\ toClient[c] = << >>
    /\ \/ handler[c] = "died"
       \/ program \in Forking /\ handler[c] = "missing"
       \/ ~alive /\ (program \notin Forking \/ handler[c] = "none")

LoseServer(c) ==
    /\ Present(c) /\ Abandoned(c)
    /\ clientPc[c] \in {"idle", "welcome", "ready", "terminate", "await", "stuck"}
    /\ clientPc' = [clientPc EXCEPT ![c] = "failed"]
    /\ UNCHANGED <<program, server, handler, line, resources, sem_connections, queues,
                   peer, requests, replies, disorderly, failed>>

\* The network brings a reset back.
ResetArrives(c) ==
    /\ peer[c] = "resetting" /\ peer' = [peer EXCEPT ![c] = "reset"]
    /\ UNCHANGED <<program, server, handler, line, resources, sem_connections, queues,
                   clientVars, failed>>

-----------------------------------------------------------------------------

MainNext == \E c \in Clients : Accept(c) \/ CreateFails(c) \/ AcceptLast(c)

\* A handler receives, answers and closes, that of lines greets first; those of
\* "slots" and "resource" use semaphores besides.
Receive(c) == RecvContents(c) \/ EndOfLine(c) \/ RecvNothing(c) \/ RecvFails(c)
Answer(c) == Reply(c) \/ CloseConnection(c)
CommandHandler(c) == Receive(c) \/ Answer(c)
LineHandler(c) == Greet(c) \/ CommandHandler(c)

HandlerNext(c) ==
    \/ LineHandler(c)
    \/ WaitSlot(c) \/ PostSlot(c)
    \/ WaitResource(c) \/ LoadCounter(c) \/ StoreCounter(c) \/ PostResource(c)

\* A client connects, sends, receives and leaves; of lines it ends each.
Exchange(c) == SendContents(c) \/ ReceiveReply(c)
CommandClient(c) == Connect(c) \/ Exchange(c) \/ Leave(c)
LineClient(c) == CommandClient(c) \/ ReceiveWelcome(c) \/ SendTerminator(c)

ClientNext(c) == LineClient(c) \/ LoseServer(c)

ConnectionNext(c) == HandlerNext(c) \/ ResetArrives(c)

Next ==
    \/ MainNext \/ Signal
    \/ \E c \in Clients :
          \/ ConnectionNext(c) \/ ClientNext(c)
          \/ LeaveLineOpen(c) \/ SendEmpty(c) \/ CloseEarly(c)

\* The scheduler runs every process and thread that can run, the network delivers,
\* and the user of a client goes on to its QUIT; nobody is bound to close early.
Fairness ==
    /\ WF_vars(MainNext)
    /\ \A c \in Clients : WF_vars(ConnectionNext(c)) /\ WF_vars(ClientNext(c))

Spec == Init /\ [][Next]_vars

FairSpec == Spec /\ Fairness

-----------------------------------------------------------------------------
(* What the servers promise *)

At(steps) == {c \in Clients : handler[c] \in steps}

\* The variables keep their types, and no semaphore exceeds its first value.
TypeOK ==
    /\ program \in Programs
    /\ alive \in BOOLEAN /\ failed \in BOOLEAN
    /\ shutting_down \in BOOLEAN
    /\ backlog \in Seq(Clients) /\ Len(backlog) <= MaxConnQueue
    /\ handler \in [Clients -> {"none", "missing", "greet", "waitSlot", "recv", "wait",
                                "load", "store", "postResource", "reply", "close",
                                "post", "closed", "died"}]
    /\ line \in [Clients -> Int] /\ counter_updated \in [Clients -> Nat]
    /\ shared_res_sem \in [Resources -> {0, 1}]
    /\ shared_counters \in [Resources -> Nat]
    /\ sem_connections \in 0 .. MaxConnections
    /\ peer \in [Clients -> {"open", "fin", "resetting", "reset"}]
    /\ clientPc \in [Clients -> {"idle", "welcome", "ready", "terminate", "await",
                                 "stuck", "done", "closed", "failed"}]
    /\ disorderly \subseteq Clients

\* The i-th reply of a client answers its i-th line: the framing of the lines and
\* the one handler of a connection neither skip, merge nor repeat any; but a child
\* of "reverse" that a signal interrupts may answer a line nobody sent.
RepliesInOrder ==
    \A c \in IF program = "reverse" THEN Clients \ disorderly ELSE Clients :
        /\ Len(replies[c]) <= Len(requests[c])
        /\ \A i \in 1 .. Len(replies[c]) :
              replies[c][i][1] = IF program = "resource" THEN ResourceOf(requests[c][i])
                                 ELSE requests[c][i]

\* The counts that clients received, as <<client, number of the reply>>.
Answers ==
    {a \in Clients \X (1 .. MaxRequests[program]) : a[2] <= Len(replies[a[1]])}

\* ++shared_counters[] is not lost when threads meet at a resource: no count of a
\* resource is told to two clients or twice to one, a client sees the counts of a
\* resource increase, and none is above the counter.
CountsHandedOutOnce ==
    program = "resource" =>
        \A a, b \in Answers :
            LET x == replies[a[1]][a[2]]
                y == replies[b[1]][b[2]]
            IN  /\ x[2] \in 1 .. shared_counters[x[1]]
                /\ a # b => x # y
                /\ a[1] = b[1] /\ a[2] < b[2] /\ x[1] = y[1] => x[2] < y[2]

\* A slot of "slots" is free, in the hands of a child, or lost with a child that
\* died before its sem_post: no more than MAX_CONNECTIONS are ever served at
\* once, and only such a death lowers the number for good.
SlotsConserved ==
    program = "slots" =>
        sem_connections + Cardinality(At({"recv", "reply", "close", "post", "died"}))
            = MaxConnections

\* When every client ends its lines and its session, every client is served to its
\* end, also by a server that handles one at a time.  When in addition a fork fails,
\* which ends the main process, or a signal stops it, those are whose connection has
\* a process of its own by then; and when a pthread_create fails, those that have a
\* thread, if the server outlives the call that follows.
AllServed ==
    [](disorderly = {})
        => []<>(\A c \in Clients :
                   \/ ~failed /\ Present(c)
                   \/ /\ handler[c] \notin {"none", "missing"}
                      /\ program = "resource" => alive
                   => clientPc[c] = "done")

\* Clients that close early, or send what they should not, only matter to "slots" when
\* they have taken all the slots with them, and to "attempt" when they stay connected
\* with a line open, or reset a connection and so end the server: until then every
\* other client is served.
OthersServed ==
    [](/\ program \notin {"echo", "resource"} /\ ~failed
       /\ program = "slots" => Cardinality(At({"died"})) < MaxConnections
       /\ program = "attempt" => alive /\ \A c \in Clients : clientPc[c] # "stuck")
        => <>(\A c \in Clients : Present(c) => clientPc[c] = "done" \/ c \in disorderly)

\* "Handle unexpected closings of the connection by the client by leaving the
\* loop used for reading" (the assignment in the source of "resource"): a client
\* that closes does not end the server, where no pthread_create has failed.
CloseIsHandled == program = "resource" /\ ~failed => alive
=============================================================================
