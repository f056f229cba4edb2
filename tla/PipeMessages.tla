---------------------------- MODULE PipeMessages -----------------------------
(* Processes that write messages to, and read them from, one pipe:             *)
(*   "pipe"    labs/E06 - PIPE & FIFO/sol/02 Pipe/main.c: a parent forks the   *)
(*             readers and the writers.  A message is larger than the pipe and *)
(*             goes through it in parts, under a mutex for each side.          *)
(*   "attempt" labs/E06 - PIPE & FIFO/es2 - Pipe/main.c: the same, but a read  *)
(*             that finds the pipe closed is not an error, and the parent      *)
(*             keeps both ends of the pipe open.                               *)
(*   "fifo"    labs/E07 - Scrittura su Socket/sol/01 prod_cons: producer.c and *)
(*             consumer.c, started by hand, share a FIFO; a message is one int *)
(*             and needs no mutex.                                             *)
EXTENDS Integers, Sequences, FiniteSets

CONSTANTS
    Programs,           \* which of the three
    WRITERS_COUNT, READERS_COUNT,
    MSG_COUNT,          \* the messages of all the writers, and of all the readers
    MSG_ELEMS,          \* the parts of a message, but in "fifo"
    Capacity,           \* how many parts the pipe holds
    MaxFailures         \* bound: calls that fail

ASSUME PipeAssumption ==
    /\ Programs \subseteq {"pipe", "attempt", "fifo"}
    /\ {WRITERS_COUNT, READERS_COUNT, MSG_COUNT, MSG_ELEMS, Capacity}
           \subseteq Nat \ {0}
    /\ MSG_COUNT % WRITERS_COUNT = 0 /\ MSG_COUNT % READERS_COUNT = 0
    /\ MaxFailures \in Nat

Writers == {"writer"} \X (1 .. WRITERS_COUNT)
Readers == {"reader"} \X (1 .. READERS_COUNT)
Children == Writers \cup Readers
Count(side) == IF side = "writer" THEN WRITERS_COUNT ELSE READERS_COUNT
Share(c) == MSG_COUNT \div Count(c[1])      \* the messages of a child

VARIABLES
    program,
    mainPc,             \* the next step of each main process
    forked,             \* the children it has forked
    reaped,             \* the children it has waited for
    childPc,            \* the next step of each child
    i,                  \* the messages it is done with
    moved,              \* the parts of the next one it has written or read
    data,               \* its buffer: an element is <<writer, message>>
    mutex,              \* write_mutex and read_mutex
    pipe,               \* what is in the pipe
    fifoExists,         \* the FIFO is in the file system
    delivered,          \* history: the messages each reader has read
    failures            \* calls that failed

mains == <<mainPc, forked, reaped>>
children == <<childPc, i, moved, data>>
vars == <<program, mains, children, mutex, pipe, fifoExists, delivered, failures>>

\* The producer's and the consumer's main; the parent of the pipe is both in turn.
Mains == IF program = "fifo" THEN {"writer", "reader"} ELSE {"parent"}

Locked == program # "fifo"
Parts == 1 .. (IF Locked THEN MSG_ELEMS ELSE 1)

\* A buffer nobody has written to yet.
Garbage == [part \in Parts |-> <<>>]

Init ==
    /\ program \in Programs
    /\ mainPc = [m \in Mains |-> IF Locked THEN "fork" ELSE "start"]
    /\ forked = {} /\ reaped = {}
    /\ childPc = [c \in Children |-> "none"]
    /\ i = [c \in Children |-> 0]
    /\ moved = [c \in Children |-> 0]
    /\ data = [c \in Children |-> Garbage]
    /\ mutex = [side \in {"writer", "reader"} |-> 1]
    /\ pipe = <<>>
    /\ fifoExists \in (IF Locked THEN {FALSE} ELSE BOOLEAN)  \* left by an earlier run
    /\ delivered = [r \in Readers |-> <<>>]
    /\ failures = 0

MainStep(m, from, to) ==
    m \in Mains /\ mainPc[m] = from /\ mainPc' = [mainPc EXCEPT ![m] = to]

ChildStep(c, from, to) == childPc[c] = from /\ childPc' = [childPc EXCEPT ![c] = to]

\* "ended": _exit(0); "failed": exit(1); "killed": by SIGPIPE.
Over(c) == childPc[c] \in {"none", "ended", "failed", "killed"}

\* The children of a main, in the order in which it forks them.
Family(m) ==
    CASE m = "parent" -> Children
      [] m = "writer" -> Writers
      [] m = "reader" -> Readers
Before(c, d) ==
    IF c[1] = d[1] THEN c[2] < d[2] ELSE Locked /\ c[1] = "reader"

-----------------------------------------------------------------------------
(* The ends of the pipe *)

\* A main has its ends until it closes them, the readers' first: the attempt's parent
\* never does.
MainHolds(side) ==
    \E m \in Mains :
        /\ \/ mainPc[m] \in {"fork", "close"}
           \/ mainPc[m] = "closeWriter" /\ side = "writer"
           \/ mainPc[m] \in {"wait", "end"} /\ program # "pipe"
        /\ Locked \/ m = side

\* A child of the parent has both ends until it closes the one it does not need.
ChildHolds(side) ==
    \E c \in Children : ~Over(c) /\ (c[1] = side \/ childPc[c] = "start")

Holds(side) == MainHolds(side) \/ ChildHolds(side)

-----------------------------------------------------------------------------
(* Plausible mistakes, which the properties below are shown to catch *)

\* A child moves its messages without its mutex.
WaitUnlocked(c) ==
    /\ ChildStep(c, "wait", "move")
    /\ UNCHANGED <<program, mains, i, moved, data, mutex, pipe, fifoExists, delivered,
                   failures>>

\* main does not look at the status of its children.
ReapAny(m, c) ==
    /\ c \in (Family(m) \cap forked) \ reaped /\ Over(c)
    /\ reaped' = reaped \cup {c}
    /\ MainStep(m, "wait", IF Family(m) \subseteq reaped' THEN "end" ELSE "wait")
    /\ UNCHANGED <<program, forked, children, mutex, pipe, fifoExists, delivered,
                   failures>>

\* A reader does not see the end of the writers.
ReadNothingAgain(c) == c \notin Children /\ UNCHANGED vars

-----------------------------------------------------------------------------
(* The main processes *)

\* The producer makes the FIFO, or fails if there is one, and opens it.
MakeFifo ==
    /\ ~fifoExists /\ fifoExists' = TRUE
    /\ MainStep("writer", "start", "opening")
    /\ UNCHANGED <<program, forked, reaped, children, mutex, pipe, delivered, failures>>

CannotMakeFifo ==
    /\ fifoExists
    /\ MainStep("writer", "start", "failed")
    /\ UNCHANGED <<program, forked, reaped, children, mutex, pipe, fifoExists,
                   delivered, failures>>

\* The consumer opens the FIFO, or fails if there is none.
OpenFifo ==
    /\ MainStep("reader", "start", IF fifoExists THEN "opening" ELSE "failed")
    /\ UNCHANGED <<program, forked, reaped, children, mutex, pipe, fifoExists,
                   delivered, failures>>

\* An open of the FIFO waits for one of the other end.
OpensMeet ==
    /\ \A m \in Mains : mainPc[m] = "opening"
    /\ mainPc' = [m \in Mains |-> "fork"]
    /\ UNCHANGED <<program, forked, reaped, children, mutex, pipe, fifoExists,
                   delivered, failures>>

Fork(m, c) ==
    LET more == Family(m) \ (forked \cup {c})
    IN  /\ c \in Family(m) \ forked
        /\ \A d \in Family(m) \ forked : ~Before(d, c)
        /\ MainStep(m, "fork", IF more # {} THEN "fork"
                               ELSE IF program = "pipe" THEN "close" ELSE "wait")
        /\ forked' = forked \cup {c}
        /\ childPc' = [childPc EXCEPT ![c] = IF Locked THEN "start" ELSE "move"]
        /\ data' = [data EXCEPT ![c] =
                       IF c \in Writers THEN [part \in Parts |-> <<c, 1>>] ELSE @]
        /\ UNCHANGED <<program, reaped, i, moved, mutex, pipe, fifoExists, delivered,
                       failures>>

ForkFails(m) ==
    /\ failures < MaxFailures /\ failures' = failures + 1
    /\ MainStep(m, "fork", "failed")
    /\ UNCHANGED <<program, forked, reaped, children, mutex, pipe, fifoExists,
                   delivered>>

\* The parent closes the end of the readers, and then that of the writers.
CloseEnds ==
    /\ \/ MainStep("parent", "close", "closeWriter")
       \/ MainStep("parent", "closeWriter", "wait")
    /\ UNCHANGED <<program, forked, reaped, children, mutex, pipe, fifoExists,
                   delivered, failures>>

\* A turn of the shutdown phase: wait, and WEXITSTATUS, which is 0 after a signal.
Reap(m, c) ==
    /\ c \in (Family(m) \cap forked) \ reaped /\ Over(c)
    /\ reaped' = reaped \cup {c}
    /\ MainStep(m, "wait", IF childPc[c] = "failed" THEN "failed"
                           ELSE IF Family(m) \subseteq reaped' THEN "end" ELSE "wait")
    /\ UNCHANGED <<program, forked, children, mutex, pipe, fifoExists, delivered,
                   failures>>

\* The parent unlinks its mutexes; the FIFO is closed, and unlinked by the consumer.
End(m) ==
    /\ MainStep(m, "end", "ended")
    /\ fifoExists' = (fifoExists /\ m # "reader")
    /\ UNCHANGED <<program, forked, reaped, children, mutex, pipe, delivered, failures>>

-----------------------------------------------------------------------------
(* The children *)

CloseOther(c) ==
    /\ ChildStep(c, "start", "wait")
    /\ UNCHANGED <<program, mains, i, moved, data, mutex, pipe, fifoExists, delivered,
                   failures>>

Wait(c) ==
    /\ mutex[c[1]] > 0
    /\ ChildStep(c, "wait", "move")
    /\ mutex' = [mutex EXCEPT ![c[1]] = @ - 1]
    /\ UNCHANGED <<program, mains, i, moved, data, pipe, fifoExists, delivered,
                   failures>>

\* A write, a part at a time; without readers it raises SIGPIPE.
WriteToPipe(c) ==
    /\ c \in Writers /\ childPc[c] = "move" /\ moved[c] < Cardinality(Parts)
    /\ Holds("reader") /\ Len(pipe) < Capacity
    /\ pipe' = Append(pipe, data[c][moved[c] + 1])
    /\ moved' = [moved EXCEPT ![c] = @ + 1]
    /\ UNCHANGED <<program, mains, childPc, i, data, mutex, fifoExists, delivered,
                   failures>>

BrokenPipe(c) ==
    /\ c \in Writers /\ moved[c] < Cardinality(Parts)
    /\ ~Holds("reader")
    /\ ChildStep(c, "move", "killed")
    /\ UNCHANGED <<program, mains, i, moved, data, mutex, pipe, fifoExists, delivered,
                   failures>>

\* A read, a part at a time.
ReadFromPipe(c) ==
    /\ c \in Readers /\ childPc[c] = "move" /\ moved[c] < Cardinality(Parts)
    /\ pipe # <<>> /\ pipe' = Tail(pipe)
    /\ data' = [data EXCEPT ![c][moved[c] + 1] = Head(pipe)]
    /\ moved' = [moved EXCEPT ![c] = @ + 1]
    /\ UNCHANGED <<program, mains, childPc, i, mutex, fifoExists, delivered, failures>>

\* A read of 0 bytes: an error, but for the attempt a message is then complete.
ReadNothing(c) ==
    /\ c \in Readers /\ childPc[c] = "move" /\ moved[c] < Cardinality(Parts)
    /\ pipe = <<>> /\ ~Holds("writer")
    /\ IF program = "attempt"
       THEN moved' = [moved EXCEPT ![c] = Cardinality(Parts)] /\ UNCHANGED childPc
       ELSE ChildStep(c, "move", "failed") /\ UNCHANGED moved
    /\ UNCHANGED <<program, mains, i, data, mutex, pipe, fifoExists, delivered,
                   failures>>

\* The message is complete: the mutex is posted, and the loop goes on.
Post(c) ==
    /\ moved[c] = Cardinality(Parts)
    /\ ChildStep(c, "move", IF i[c] + 1 = Share(c) THEN "close"
                            ELSE IF Locked THEN "wait" ELSE "move")
    /\ i' = [i EXCEPT ![c] = @ + 1]
    /\ moved' = [moved EXCEPT ![c] = 0]
    /\ mutex' = IF Locked THEN [mutex EXCEPT ![c[1]] = @ + 1] ELSE mutex
    /\ data' = [data EXCEPT ![c] =
                   IF c \in Writers THEN [part \in Parts |-> <<c, i[c] + 2>>] ELSE @]
    /\ delivered' = IF c \in Readers THEN [delivered EXCEPT ![c] = Append(@, data[c])]
                    ELSE delivered
    /\ UNCHANGED <<program, mains, pipe, fifoExists, failures>>

\* The end that the child uses is closed, and _exit(0).
CloseOwn(c) ==
    /\ ChildStep(c, "close", "ended")
    /\ UNCHANGED <<program, mains, i, moved, data, mutex, pipe, fifoExists, delivered,
                   failures>>

\* Some call of a child fails, and it exits with what it holds.
ChildFails(c) ==
    /\ failures < MaxFailures /\ failures' = failures + 1
    /\ ~Over(c) /\ childPc' = [childPc EXCEPT ![c] = "failed"]
    /\ UNCHANGED <<program, mains, i, moved, data, mutex, pipe, fifoExists, delivered>>

-----------------------------------------------------------------------------
(* The programs *)

\* What main processes have in common, and the main of each program.
MainNext(m) ==
    (\E c \in Children : Fork(m, c) \/ Reap(m, c)) \/ End(m)

Parent == CloseEnds \/ MainNext("parent")
Producer == MakeFifo \/ CannotMakeFifo \/ MainNext("writer")
Consumer == OpenFifo \/ MainNext("reader")

\* A child of "fifo" only moves its messages; the others have ends and a mutex too.
WriteValue(c) == WriteToPipe(c) \/ BrokenPipe(c)
ReadValue(c) == ReadFromPipe(c) \/ ReadNothing(c)
Produce(c) == WriteValue(c) \/ Post(c)
Consume(c) == ReadValue(c) \/ Post(c)
TakePart(c) == CloseOther(c) \/ Wait(c) \/ CloseOwn(c)
Writer(c) == c \in Writers /\ (Produce(c) \/ TakePart(c))
Reader(c) == c \in Readers /\ (Consume(c) \/ TakePart(c))
ChildNext(c) == Writer(c) \/ Reader(c)

Fails == (\E m \in Mains : ForkFails(m)) \/ (\E c \in Children : ChildFails(c))

MainsNext ==
    Parent \/ Producer \/ Consumer \/ OpensMeet

Next == MainsNext \/ (\E c \in Children : ChildNext(c)) \/ Fails

\* Every process goes on as long as it can.
Spec == Init /\ [][Next]_vars
FairSpec == Spec /\ WF_vars(MainsNext) /\ \A c \in Children : WF_vars(ChildNext(c))

-----------------------------------------------------------------------------
(* What the programs promise *)

TypeOK ==
    /\ program \in Programs
    /\ mainPc \in [Mains -> {"start", "opening", "fork", "close", "closeWriter", "wait",
                             "end", "ended", "failed"}]
    /\ reaped \subseteq forked /\ forked \subseteq Children
    /\ childPc \in [Children -> {"none", "start", "wait", "move", "close", "ended",
                                 "failed", "killed"}]
    /\ \A c \in Children : i[c] \in 0 .. Share(c)
    /\ moved \in [Children -> 0 .. Cardinality(Parts)]
    /\ mutex \in [{"writer", "reader"} -> 0 .. 1]
    /\ Len(pipe) <= Capacity /\ fifoExists \in BOOLEAN
    /\ failures \in 0 .. MaxFailures

\* The readings of the readers: <<reader, turn of its loop>>.
Readings == UNION {{r} \X DOMAIN delivered[r] : r \in Readers}
Message(reading) == delivered[reading[1]][reading[2]]

\* "Assicurarsi che tutti i byte siano stati letti", and no "corrupted message": what
\* a reader takes for a message is all of one message, which no other reading gave,
\* and comes after the earlier messages of its writer; also when some process fails
\* half way through a message.  Only the attempt needs that none fails.
WholeMessages ==
    (program # "attempt" \/ failures = 0) =>
        /\ \A reading \in Readings :
               \E w \in Writers : \E n \in 1 .. Share(w) :
                   Message(reading) = [part \in Parts |-> <<w, n>>]
        /\ \A a, b \in Readings : a # b => Message(a) # Message(b)
        /\ \A a, b \in Readings : a[1] = b[1] /\ a[2] < b[2]
               /\ Message(a)[1][1] = Message(b)[1][1]
                   => Message(a)[1][2] < Message(b)[1][2]

\* When the parent, or the consumer, ends without an error every message has been
\* read, the pipe is empty and no FIFO is left for the next run.
AllDelivered ==
    \A m \in Mains \ {"writer"} : mainPc[m] = "ended" =>
        /\ Cardinality(Readings) = MSG_COUNT
        /\ pipe = <<>> /\ ~fifoExists

\* No main has still to open its end of the pipe.
Open == \A m \in Mains : mainPc[m] \notin {"start", "opening"}

\* Once the pipe is open at both ends every process comes to its end; that of the FIFO
\* also when some fail, since its processes share no mutex that could be lost.
AllEnd ==
    [](Locked => failures = 0) =>
        (Open ~> /\ \A m \in Mains : mainPc[m] \in {"ended", "failed"}
                 /\ \A c \in Children : Over(c))
=============================================================================
