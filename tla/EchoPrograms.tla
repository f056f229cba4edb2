----------------------------- MODULE EchoPrograms ------------------------------
(* A process that sends back the lines of its clients:                         *)
(*   "fifo"  labs/E06 - PIPE & FIFO/sol/03 EchoFIFO: echo.c and client.c, over *)
(*           two FIFOs that echo.c makes anew at each start;                   *)
(*   "udp"   labs/E08 - Client_Server (multiprocess)/sol/02: server.c and      *)
(*           client.c, over datagrams.                                         *)
(* Clients of "udp" run together.  Those of "fifo" are meant to come one after *)
(* the other, but the next may come while the echo still has the FIFOs open.   *)
(* A line is a number, Quit or Welcome, and ends with its newline.             *)
EXTENDS Integers, Sequences

CONSTANTS
    Services,       \* which of the two
    NumClients,     \* bound: clients
    MaxLines,       \* bound: lines of a client, QUIT apart
    MaxStarts,      \* bound: starts of the server
    SocketBuffer,   \* the datagrams that a socket holds
    MayFail         \* processes may be killed, and datagrams lost

ASSUME EchoAssumption ==
    /\ Services \subseteq {"fifo", "udp"}
    /\ {NumClients, MaxLines, MaxStarts, SocketBuffer} \subseteq Nat \ {0}
    /\ MayFail \in BOOLEAN

Clients == 1 .. NumClients
Quit == -1
Welcome == -2
Lines == {Quit, Welcome} \cup 1 .. MaxLines

VARIABLES
    service,
    serverPc, starts,   \* the echo or the server: next step, how often it started
    buf,                \* what it has read: <<client, line>>
    names,              \* the start whose FIFO has each of the two names, 0 for none
    clientPc,           \* the next step of each client
    opened,             \* the start whose FIFOs, or whose socket, it uses
    sent,               \* how many lines it has sent
    answers,            \* history: what it took for the answers to them
    toServer,           \* client_fifo or the server's socket, of each start
    toClient,           \* echo_fifo of each start, or the socket of each client
    lost                \* history: a datagram was lost or a process killed

server == <<serverPc, starts, buf, names>>
clients == <<clientPc, opened, sent, answers>>
echoVars == <<service, server, clients, toServer, toClient, lost>>

\* A plausible mistake: a client opens first the FIFO it writes to.
ClientOrderSwapped == <<"client", "echo">>

\* The two FIFOs in the order in which a client opens them, and the echo.
ClientOrder == <<"echo", "client">>

EchoOrder == <<"echo", "client">>

EchoInit ==
    /\ service \in Services
    /\ serverPc = "down" /\ starts = 0 /\ buf = <<0, 0>>
    /\ names = [f \in {"echo", "client"} |-> 0]
    /\ clientPc = [c \in Clients |-> "idle"]
    /\ opened = [c \in Clients |-> 0]
    /\ sent = [c \in Clients |-> 0]
    /\ answers = [c \in Clients |-> << >>]
    /\ toServer = [s \in 1 .. MaxStarts |-> << >>]
    /\ toClient = [i \in Clients \cup 1 .. MaxStarts |-> << >>]
    /\ lost = FALSE

ServerStep(from, to) == serverPc = from /\ serverPc' = to
ClientStep(c, from, to) == clientPc[c] = from /\ clientPc' = [clientPc EXCEPT ![c] = to]

\* Where client c reads.
Inbox(c) == IF service = "fifo" THEN opened[c] ELSE c

\* The clients that have an end of the FIFOs of this start of the echo open.
Has(fifo, pc) ==
    \/ pc \in {"welcome", "ready", "await", "closing"}
    \/ pc \in {"second", "open2"} /\ ClientOrder[1] = fifo
Holding(fifo) == {c \in Clients : opened[c] = starts /\ Has(fifo, clientPc[c])}

InSession == serverPc \in {"greet", "read", "reply"}

-----------------------------------------------------------------------------
(* Plausible mistakes, which the properties below are shown to catch *)

\* A client does not wait for an answer: it takes one only if there is one.
ReceiveIfAny(c) ==
    LET waiting == toClient[Inbox(c)]
        n == IF waiting = << >> THEN 0 ELSE 1
    IN  /\ ClientStep(c, "await", "ready")
        /\ answers' = [answers EXCEPT ![c] = @ \o SubSeq(waiting, 1, n)]
        /\ toClient' = [toClient EXCEPT ![Inbox(c)] = SubSeq(@, n + 1, Len(@))]
        /\ UNCHANGED <<service, server, opened, sent, toServer, lost>>

\* A read of 0 bytes is tried again.
EndOfSessionUnseen == FALSE /\ UNCHANGED echoVars

-----------------------------------------------------------------------------
(* The echo, and the server *)

\* unlink of both names.
StartEcho ==
    /\ service = "fifo" /\ starts < MaxStarts
    /\ ServerStep("down", "make1")
    /\ starts' = starts + 1
    /\ names' = [f \in {"echo", "client"} |-> 0]
    /\ UNCHANGED <<service, buf, clients, toServer, toClient, lost>>

MakeFifos ==
    /\ \/ ServerStep("make1", "make2") /\ names' = [names EXCEPT !["echo"] = starts]
       \/ ServerStep("make2", "open1") /\ names' = [names EXCEPT !["client"] = starts]
    /\ UNCHANGED <<service, starts, buf, clients, toServer, toClient, lost>>

\* socket and bind.
StartServer ==
    /\ service = "udp" /\ starts < MaxStarts
    /\ ServerStep("down", "read")
    /\ starts' = starts + 1
    /\ UNCHANGED <<service, buf, names, clients, toServer, toClient, lost>>

\* writeMsg to echo_fifo raises SIGPIPE when no client has it open.
Write(from, message) ==
    /\ ServerStep(from, IF Holding("echo") = {} THEN "down" ELSE "read")
    /\ toClient' = IF Holding("echo") = {} THEN toClient
                   ELSE [toClient EXCEPT ![starts] = Append(@, message)]
    /\ UNCHANGED <<service, starts, buf, names, clients, toServer, lost>>

Greet == Write("greet", Welcome)

\* QUIT never ends the echo, as bytes_read counts the newline; the server ignores it.
AfterRead(line) == IF service = "udp" /\ line = Quit THEN "read" ELSE "reply"

Read ==
    /\ starts > 0 /\ toServer[starts] # << >>
    /\ buf' = Head(toServer[starts])
    /\ toServer' = [toServer EXCEPT ![starts] = Tail(@)]
    /\ ServerStep("read", AfterRead(buf'[2]))
    /\ UNCHANGED <<service, starts, names, clients, toClient, lost>>

\* A read of 0 bytes: handle_error, and the FIFOs stay.
EndOfSession ==
    /\ service = "fifo" /\ starts > 0
    /\ toServer[starts] = << >> /\ Holding("client") = {}
    /\ ServerStep("read", "down")
    /\ UNCHANGED <<service, starts, buf, names, clients, toServer, toClient, lost>>

Reply == service = "fifo" /\ Write("reply", buf[2])

\* A datagram goes to the socket of its client, which may be full or closed.
SendBack ==
    LET c == buf[1]
        arrives == Len(toClient[c]) < SocketBuffer
                      /\ clientPc[c] \notin {"done", "killed"}
    IN  /\ service = "udp" /\ ServerStep("reply", "read")
        /\ toClient' = IF arrives THEN [toClient EXCEPT ![c] = Append(@, buf[2])]
                       ELSE toClient
        /\ UNCHANGED <<service, starts, buf, names, clients, toServer, lost>>

ServerKilled ==
    /\ MayFail /\ serverPc # "down" /\ serverPc' = "down"
    /\ lost' = TRUE
    /\ UNCHANGED <<service, starts, buf, names, clients, toServer, toClient>>

-----------------------------------------------------------------------------
(* The clients *)

\* A client of "fifo" opens what has the name, or fails.  It comes when the one
\* before has ended, or has sent QUIT and not yet closed the two FIFOs; and not while
\* one that has opened a FIFO of an echo that is gone looks for the other, as the two
\* could then have one FIFO each of the same echo.
StartClient(c) ==
    LET f == names[ClientOrder[1]]
    IN  /\ service = "fifo"
        /\ \A d \in Clients :
              /\ clientPc[d] \notin {"second", "astray"}
              /\ opened[d] = f /\ f # 0
                      => clientPc[d] \in {"idle", "closing", "done", "failed", "killed"}
        /\ ClientStep(c, "idle", IF f = 0 THEN "failed" ELSE "open1")
        /\ opened' = [opened EXCEPT ![c] = f]
        /\ UNCHANGED <<service, server, sent, answers, toServer, toClient, lost>>

StartSender(c) ==
    /\ service = "udp"
    /\ ClientStep(c, "idle", "ready")
    /\ UNCHANGED <<service, server, opened, sent, answers, toServer, toClient, lost>>

Opening(pc, order) == IF pc = "open1" THEN order[1] ELSE order[2]
EchoOpened(pc) == IF pc = "open1" THEN "open2" ELSE "greet"
ClientOpened(pc) == IF pc = "open1" THEN "second" ELSE "welcome"

\* An open of a FIFO waits for one of its other end.
FifosMeet(c) ==
    /\ opened[c] = starts
    /\ serverPc \in {"open1", "open2"} /\ clientPc[c] \in {"open1", "open2"}
    /\ Opening(serverPc, EchoOrder) = Opening(clientPc[c], ClientOrder)
    /\ serverPc' = EchoOpened(serverPc)
    /\ clientPc' = [clientPc EXCEPT ![c] = ClientOpened(@)]
    /\ UNCHANGED <<service, starts, buf, names, opened, sent, answers, toServer,
                   toClient, lost>>

\* It succeeds at once when the echo has the other end open: it has both when it is
\* past its two opens, and the first also when the client it met there was killed.
OpenJoins(c) ==
    /\ opened[c] = starts /\ clientPc[c] \in {"open1", "open2"}
    /\ \/ InSession
       \/ serverPc = "open2" /\ Opening(clientPc[c], ClientOrder) = EchoOrder[1]
    /\ clientPc' = [clientPc EXCEPT ![c] = ClientOpened(@)]
    /\ UNCHANGED <<service, server, opened, sent, answers, toServer, toClient, lost>>

\* The second FIFO too is the one that has the name by then: when the echo was started
\* again in between, there is none, and the client ends, or it is that of a later
\* start, whose echo does not open it before it has met a client at the first one.
OpenSecond(c) ==
    LET f == names[ClientOrder[2]]
    IN  /\ ClientStep(c, "second", CASE f = 0 -> "failed"
                                     [] f = opened[c] -> "open2"
                                     [] OTHER -> "astray")
        /\ opened' = IF f = 0 THEN [opened EXCEPT ![c] = 0] ELSE opened
        /\ UNCHANGED <<service, server, sent, answers, toServer, toClient, lost>>

\* The first line that a client of "fifo" reads is the welcome, for all it knows.
ReadWelcome(c) ==
    /\ clientPc[c] = "welcome" /\ toClient[Inbox(c)] # << >>
    /\ ClientStep(c, "welcome", "ready")
    /\ toClient' = [toClient EXCEPT ![Inbox(c)] = Tail(@)]
    /\ UNCHANGED <<service, server, opened, sent, answers, toServer, lost>>

\* The next line of the user, or QUIT, after which a client does not wait.
NextLine(c) ==
    (IF sent[c] < MaxLines THEN {sent[c] + 1} ELSE {}) \cup {Quit}
AfterSending(line) == IF line = Quit THEN "closing" ELSE "await"

\* writeMsg to client_fifo, which the echo has open.
WriteLine(c) ==
    /\ service = "fifo" /\ InSession /\ opened[c] = starts
    /\ \E line \in NextLine(c) :
          /\ ClientStep(c, "ready", AfterSending(line))
          /\ sent' = [sent EXCEPT ![c] = IF line = Quit THEN @ ELSE @ + 1]
          /\ toServer' = [toServer EXCEPT ![starts] = Append(@, <<c, line>>)]
    /\ UNCHANGED <<service, server, opened, answers, toClient, lost>>

\* sendto succeeds whether or not the datagram comes to a server.
SendLine(c) ==
    LET arrives == serverPc # "down" /\ Len(toServer[starts]) < SocketBuffer
    IN  /\ service = "udp"
        /\ \E line \in NextLine(c) :
              /\ ClientStep(c, "ready", AfterSending(line))
              /\ sent' = [sent EXCEPT ![c] = IF line = Quit THEN @ ELSE @ + 1]
              /\ toServer' = IF arrives
                             THEN [toServer EXCEPT ![starts] = Append(@, <<c, line>>)]
                             ELSE toServer
              /\ lost' = (lost \/ ~arrives)
        /\ UNCHANGED <<service, server, opened, answers, toClient>>

ReceiveAnswer(c) ==
    /\ clientPc[c] = "await" /\ toClient[Inbox(c)] # << >>
    /\ ClientStep(c, "await", "ready")
    /\ answers' = [answers EXCEPT ![c] = Append(@, Head(toClient[Inbox(c)]))]
    /\ toClient' = [toClient EXCEPT ![Inbox(c)] = Tail(@)]
    /\ UNCHANGED <<service, server, opened, sent, toServer, lost>>

CloseClient(c) ==
    /\ ClientStep(c, "closing", "done")
    /\ UNCHANGED <<service, server, opened, sent, answers, toServer, toClient, lost>>

\* The echo is no more: a read finds the end of the FIFO, a write raises SIGPIPE.
LoseEcho(c) ==
    /\ service = "fifo" /\ (opened[c] # starts \/ ~InSession)
    /\ \/ clientPc[c] \in {"welcome", "await"} /\ toClient[Inbox(c)] = << >>
       \/ clientPc[c] = "ready"
    /\ clientPc' = [clientPc EXCEPT ![c] = "failed"]
    /\ UNCHANGED <<service, server, opened, sent, answers, toServer, toClient, lost>>

ClientKilled(c) ==
    /\ MayFail /\ clientPc[c] \notin {"idle", "done", "failed", "killed"}
    /\ clientPc' = [clientPc EXCEPT ![c] = "killed"]
    /\ lost' = TRUE
    /\ UNCHANGED <<service, server, opened, sent, answers, toServer, toClient>>

\* The network drops the oldest datagram that waits in a socket.
Lose ==
    /\ MayFail /\ service = "udp" /\ lost' = TRUE
    /\ \/ /\ starts > 0 /\ toServer[starts] # << >>
          /\ toServer' = [toServer EXCEPT ![starts] = Tail(@)]
          /\ UNCHANGED toClient
       \/ /\ \E c \in Clients : /\ toClient[c] # << >>
                                /\ toClient' = [toClient EXCEPT ![c] = Tail(@)]
          /\ UNCHANGED toServer
    /\ UNCHANGED <<service, server, clients>>

-----------------------------------------------------------------------------
FifoEcho == StartEcho \/ MakeFifos \/ Greet \/ Read \/ EndOfSession \/ Reply
DatagramHandler == Read \/ SendBack
DatagramServer == StartServer \/ DatagramHandler

FifoClient(c) ==
    \/ StartClient(c) \/ OpenJoins(c) \/ OpenSecond(c)
    \/ ReadWelcome(c) \/ WriteLine(c) \/ ReceiveAnswer(c)
    \/ LoseEcho(c) \/ CloseClient(c)
DatagramClient(c) == StartSender(c) \/ SendLine(c) \/ ReceiveAnswer(c) \/ CloseClient(c)

Server == FifoEcho \/ DatagramServer
Client(c) == FifoClient(c) \/ DatagramClient(c) \/ FifosMeet(c)

EchoNext ==
    \/ Server
    \/ \E c \in Clients : Client(c) \/ ClientKilled(c)
    \/ ServerKilled
    \/ Lose

\* Processes run, and the users of the clients type; nobody has to start the
\* server again, or to start a client.
Fairness ==
    /\ WF_echoVars(MakeFifos \/ Greet \/ Read \/ EndOfSession \/ Reply \/ SendBack)
    /\ \A c \in Clients :
          WF_echoVars(Client(c) /\ clientPc[c] # "idle")

EchoSpec == EchoInit /\ [][EchoNext]_echoVars /\ Fairness

-----------------------------------------------------------------------------
(* Properties *)

EchoTypeOK ==
    /\ service \in Services
    /\ serverPc \in {"down", "make1", "make2", "open1", "open2",
                    "greet", "read", "reply"}
    /\ starts \in 0 .. MaxStarts
    /\ buf \in {<<0, 0>>} \cup Clients \X Lines
    /\ names \in [{"echo", "client"} -> 0 .. MaxStarts]
    /\ clientPc \in [Clients -> {"idle", "open1", "second", "open2", "astray", "welcome",
                                 "ready", "await", "closing", "done", "failed", "killed"}]
    /\ opened \in [Clients -> 0 .. MaxStarts]
    /\ sent \in [Clients -> 0 .. MaxLines]
    /\ lost \in BOOLEAN

\* What a client takes for the answer to its n-th line is that line, though nothing
\* in a message says which line it answers: also when datagrams are lost, when
\* processes are killed, and for a client that comes to an echo that still has the
\* FIFOs of the client before, whose last answer is then still in echo_fifo.
AnswersMatch ==
    \A c \in Clients : \A n \in DOMAIN answers[c] : answers[c][n] = n

\* A client that the echo has let in, or is about to, and that has not ended.
InService(c) ==
    \/ clientPc[c] \in {"welcome", "ready", "await"}
    \/ clientPc[c] = "failed" /\ opened[c] # 0
    \/ clientPc[c] \in {"open1", "second", "open2"} /\ opened[c] = starts
          /\ serverPc \in {"open1", "open2"}

\* While no datagram is lost and no process killed, every client that has opened both
\* FIFOs, or has a socket, is answered and ends: the two programs open the FIFOs in
\* the same order, and the echo does not end under a client it has let in.
Answered == [](~lost) => []<>(\A c \in Clients : ~InService(c))

\* While no process is killed, the echo ends after the QUIT of its last client: not by
\* the comparison with QUIT, which never holds as bytes_read counts the newline, but
\* as its read finds no client or its write raises SIGPIPE.
EchoEnds == [](~lost) => []<>(service = "fifo" => ~InSession)
=============================================================================
