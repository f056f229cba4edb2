----------------------------- MODULE NamedSession -----------------------------
(* Producers and consumers as two programs started by hand, which find each    *)
(* other through named semaphores: labs/E03 - Concorrenza 2/sol/es3, where the *)
(* buffer is a file, and labs/E04 - Shared Memory/sol/sol/02, where it is a    *)
(* shared memory object (shm).  A session is one execution of the producers    *)
(* and one or more of the consumers, in any order; a crash kills all of its    *)
(* processes and leaves the names behind for the next session.                 *)
EXTENDS Integers, Sequences, FiniteSets

CONSTANTS
    Variants,           \* which programs: TRUE for E04/02, FALSE for E03/es3
    BufferSize,         \* BUFFER_SIZE
    NumProducers, NumConsumers,     \* children of the two programs
    OpsPerProducer, OpsPerConsumer,
    MaxSessions,        \* bound: sessions
    MaxAttempts         \* bound: executions of the consumers in a session

ASSUME SessionAssumption ==
    /\ Variants \subseteq BOOLEAN
    /\ {BufferSize, NumProducers, NumConsumers, OpsPerProducer, OpsPerConsumer,
        MaxSessions, MaxAttempts} \subseteq Nat \ {0}
    /\ NumProducers * OpsPerProducer = NumConsumers * OpsPerConsumer

Producers == {"producer"} \X (1 .. NumProducers)
Consumers == {"consumer"} \X (1 .. NumConsumers)
Children == Producers \cup Consumers
Programs == {"producer", "consumer"}
Sessions == 1 .. MaxSessions

VARIABLES
    shm,                \* which of the two pairs of programs this is
    session,            \* the session under way
    names,              \* the object that each name stands for
    value,              \* the values of the semaphores, by name and owner
    buf, read_index, write_index,   \* the buffers, by owner
    mainPc, next,       \* the two main processes: phase, place in its calls
    handle,             \* the objects that each program has opened
    attempts,           \* executions of the consumers in this session
    childPc, numOps, item,          \* the children
    sent, received,     \* history: items of the buffer of this session
    stale               \* history: consumers of this session ran on objects of another

era == <<shm, session>>
buffers == <<buf, read_index, write_index>>
mains == <<mainPc, next, handle, attempts>>
children == <<childPc, numOps, item>>
history == <<sent, received, stale>>
vars == <<era, names, value, buffers, mains, children, history>>

\* es3 has one lock on the file, E04/02 one for each end of the buffer.
ProducerLock == IF shm THEN "csProd" ELSE "cs"
ConsumerLock == IF shm THEN "csCons" ELSE "cs"
Sems == {"filled", "empty", ProducerLock, ConsumerLock}
Lock(program) == IF program = "producer" THEN ProducerLock ELSE ConsumerLock

\* The system calls that each program makes in a row before it forks, and after
\* it has waited for its children, as <<operation, name>>.
SetUp(program) ==
    IF program = "producer"
    THEN IF shm
         THEN << <<"drop", "filled">>, <<"drop", "empty">>, <<"drop", "csProd">>,
                 <<"drop", "csCons">>, <<"create", "filled">>, <<"create", "empty">>,
                 <<"create", "csProd">>, <<"create", "buffer">> >>
         ELSE << <<"init", "buffer">>,
                 <<"drop", "filled">>, <<"drop", "empty">>, <<"drop", "cs">>,
                 <<"create", "filled">>, <<"create", "empty">>, <<"create", "cs">> >>
    ELSE IF shm
         THEN << <<"open", "filled">>, <<"open", "empty">>, <<"create", "csCons">>,
                 <<"open", "buffer">> >>
         ELSE << <<"open", "buffer">>,
                 <<"open", "filled">>, <<"open", "empty">>, <<"open", "cs">> >>

TearDown(program) ==
    IF program = "producer"
    THEN IF shm THEN << <<"unlink", "buffer">> >> ELSE << >>
    ELSE IF shm
         THEN << <<"unlink", "filled">>, <<"unlink", "empty">>, <<"unlink", "csProd">>,
                 <<"unlink", "csCons">> >>
         ELSE << <<"unlink", "filled">>, <<"unlink", "empty">>, <<"unlink", "cs">> >>

InitialValue(sem) ==
    CASE sem = "filled" -> 0 [] sem = "empty" -> BufferSize [] OTHER -> 1

\* Objects are told apart by the session that made them; 0 is no object.  The
\* file is one and the same in all sessions.
Owners == {0} \cup Sessions
BufferOf(s) == IF shm THEN s ELSE 1

NoHandles == [n \in Sems \cup {"buffer"} |-> 0]

Init ==
    /\ shm \in Variants
    /\ session = 1
    /\ names = NoHandles
    /\ value = [n \in Sems |-> [o \in Sessions |-> 0]]
    /\ buf = [o \in Sessions |-> [i \in 0 .. BufferSize - 1 |-> 0]]
    /\ read_index = [o \in Sessions |-> 0]
    /\ write_index = [o \in Sessions |-> 0]
    /\ mainPc = [p \in Programs |-> "idle"]
    /\ next = [p \in Programs |-> 1]
    /\ handle = [p \in Programs |-> NoHandles]
    /\ attempts = 0
    /\ childPc = [c \in Children |-> "none"]
    /\ numOps = [c \in Children |-> 0]
    /\ item = [c \in Children |-> 0]
    /\ sent = << >> /\ received = << >> /\ stale = FALSE

\* The operation that a main process makes next, and the step past it.
Calls(p, phase, op, name) ==
    /\ mainPc[p] = phase
    /\ LET calls == IF phase = "setUp" THEN SetUp(p) ELSE TearDown(p)
       IN  next[p] <= Len(calls) /\ calls[next[p]] = <<op, name>>

Proceed(p) ==
    next' = [next EXCEPT ![p] = @ + 1] /\ UNCHANGED mainPc

\* handle_error: exit(EXIT_FAILURE)
Fail(p) ==
    mainPc' = [mainPc EXCEPT ![p] = "failed"] /\ UNCHANGED next

\* All the objects that the program uses are those of the session under way.
HoldsAll(p) ==
    /\ \A n \in {"filled", "empty", Lock(p)} : handle[p][n] = session
    /\ handle[p]["buffer"] = BufferOf(session)

Holds(p, name, owner) == handle' = [handle EXCEPT ![p][name] = owner]

-----------------------------------------------------------------------------
(* Plausible mistakes, which the properties below are shown to catch *)

\* The names of an earlier session are not dropped.
DropMissing(p, name) ==
    /\ Calls(p, "setUp", "drop", name)
    /\ Proceed(p)
    /\ UNCHANGED <<era, names, value, buffers, handle, attempts, children, history>>

\* The consumers leave one name.
UnlinkAllButFilled(p, name) ==
    /\ Calls(p, "tearDown", "unlink", name)
    /\ names' = IF name = "filled" THEN names ELSE [names EXCEPT ![name] = 0]
    /\ Proceed(p)
    /\ UNCHANGED <<era, value, buffers, handle, attempts, children, history>>

\* The lock is not waited for.
WaitLockMissing(c) ==
    /\ childPc[c] = "waitLock" /\ childPc' = [childPc EXCEPT ![c] = "access"]
    /\ UNCHANGED <<era, names, value, buffers, mains, numOps, item, history>>

\* The consumers give nothing back to empty.
PostCountOnlyFilled(c) ==
    /\ childPc[c] = "postCount"
    /\ numOps' = [numOps EXCEPT ![c] = @ - 1]
    /\ childPc' = [childPc EXCEPT ![c] = IF numOps[c] > 1 THEN "waitCount" ELSE "done"]
    /\ value' = IF c[1] = "producer"
                THEN [value EXCEPT !["filled"][handle["producer"]["filled"]] = @ + 1]
                ELSE value
    /\ UNCHANGED <<era, names, buffers, mains, item, history>>

\* One counter does for both: the producer waits for filled.
WaitCountAtOnce(c) ==
    /\ childPc[c] = "waitCount" /\ childPc' = [childPc EXCEPT ![c] = "waitLock"]
    /\ UNCHANGED <<era, names, value, buffers, mains, numOps, item, history>>

-----------------------------------------------------------------------------
(* The main processes *)

\* A program is started; the consumers again if they have given up.
Start(p) ==
    /\ \/ mainPc[p] = "idle"
       \/ p = "consumer" /\ mainPc[p] = "failed"
    /\ p = "consumer" => attempts < MaxAttempts
    /\ attempts' = IF p = "consumer" THEN attempts + 1 ELSE attempts
    /\ mainPc' = [mainPc EXCEPT ![p] = "setUp"]
    /\ next' = [next EXCEPT ![p] = 1]
    /\ handle' = [handle EXCEPT ![p] = NoHandles]
    /\ UNCHANGED <<era, names, value, buffers, children, history>>

\* sem_unlink of a stale semaphore, whose result is not looked at.
Drop(p, name) ==
    /\ Calls(p, "setUp", "drop", name)
    /\ names' = [names EXCEPT ![name] = 0]
    /\ Proceed(p)
    /\ UNCHANGED <<era, value, buffers, handle, attempts, children, history>>

\* sem_open with O_CREAT | O_EXCL
CreateSem(p, name) ==
    /\ name \in Sems
    /\ Calls(p, "setUp", "create", name)
    /\ IF names[name] # 0
       THEN Fail(p) /\ UNCHANGED <<names, value, handle>>
       ELSE /\ names' = [names EXCEPT ![name] = session]
            /\ value' = [value EXCEPT ![name][session] = InitialValue(name)]
            /\ Holds(p, name, session)
            /\ Proceed(p)
    /\ UNCHANGED <<era, buffers, attempts, children, history>>

\* initMemory: shm_open with O_CREAT | O_EXCL, and in the same step ftruncate, mmap and
\* memset.  In between the object is all zeros or has no size, which only consumers that
\* are stale could see: the others come to the buffer after a post of this session.
CreateMemory ==
    /\ Calls("producer", "setUp", "create", "buffer")
    /\ IF names["buffer"] # 0
       THEN Fail("producer") /\ UNCHANGED <<names, handle>>
       ELSE /\ names' = [names EXCEPT !["buffer"] = session]
            /\ Holds("producer", "buffer", session)
            /\ Proceed("producer")
    /\ UNCHANGED <<era, value, buffers, attempts, children, history>>

\* initFile makes the file all zeros, whoever has it open.  Only stale consumers could
\* come between its truncation by fopen and the writes.
InitFile ==
    /\ Calls("producer", "setUp", "init", "buffer")
    /\ names' = [names EXCEPT !["buffer"] = 1]
    /\ Holds("producer", "buffer", 1)
    /\ buf' = [buf EXCEPT ![1] = [i \in 0 .. BufferSize - 1 |-> 0]]
    /\ read_index' = [read_index EXCEPT ![1] = 0]
    /\ write_index' = [write_index EXCEPT ![1] = 0]
    /\ received' = << >>
    /\ Proceed("producer")
    /\ UNCHANGED <<era, value, attempts, children, sent, stale>>

\* sem_open and shm_open without O_CREAT, and access on the file.
Open(p, name) ==
    /\ Calls(p, "setUp", "open", name)
    /\ IF names[name] = 0
       THEN Fail(p) /\ UNCHANGED handle
       ELSE Holds(p, name, names[name]) /\ Proceed(p)
    /\ UNCHANGED <<era, names, value, buffers, attempts, children, history>>

ForkChildren(p) ==
    /\ mainPc[p] = "setUp" /\ next[p] > Len(SetUp(p))
    /\ mainPc' = [mainPc EXCEPT ![p] = "wait"]
    /\ childPc' = [c \in Children |-> IF c[1] = p THEN "waitCount" ELSE childPc[c]]
    /\ numOps' = [c \in Children |->
                    IF c[1] # p THEN numOps[c]
                    ELSE IF p = "producer" THEN OpsPerProducer ELSE OpsPerConsumer]
    /\ stale' = (stale \/ (p = "consumer" /\ ~HoldsAll(p)))
    /\ UNCHANGED <<era, names, value, buffers, next, handle, attempts, item, sent,
                   received>>

WaitChildren(p) ==
    /\ mainPc[p] = "wait"
    /\ \A c \in Children : c[1] = p => childPc[c] = "done"
    /\ mainPc' = [mainPc EXCEPT ![p] = "tearDown"]
    /\ next' = [next EXCEPT ![p] = 1]
    /\ UNCHANGED <<era, names, value, buffers, handle, attempts, children, history>>

\* shm_unlink and sem_unlink, which fail if there is no such name.
Unlink(p, name) ==
    /\ Calls(p, "tearDown", "unlink", name)
    /\ names' = [names EXCEPT ![name] = 0]
    /\ IF names[name] = 0 THEN Fail(p) ELSE Proceed(p)
    /\ UNCHANGED <<era, value, buffers, handle, attempts, children, history>>

Exit(p) ==
    /\ mainPc[p] = "tearDown" /\ next[p] > Len(TearDown(p))
    /\ mainPc' = [mainPc EXCEPT ![p] = "exited"]
    /\ UNCHANGED <<era, names, value, buffers, next, handle, attempts, children,
                   history>>

-----------------------------------------------------------------------------
(* The children: produce and consume *)

Adjust(name, c, change) ==
    LET owner == handle[c[1]][name]
    IN  /\ value[name][owner] + change >= 0
        /\ value' = [value EXCEPT ![name][owner] = @ + change]

ChildStep(c, from, to) ==
    childPc[c] = from /\ childPc' = [childPc EXCEPT ![c] = to]

Buffer(c) == handle[c[1]]["buffer"]

WaitCount(c) ==
    /\ ChildStep(c, "waitCount", "waitLock")
    /\ Adjust(IF c \in Producers THEN "empty" ELSE "filled", c, -1)
    /\ UNCHANGED <<era, names, buffers, mains, numOps, item, history>>

WaitLock(c) ==
    /\ ChildStep(c, "waitLock", "access")
    /\ Adjust(Lock(c[1]), c, -1)
    /\ UNCHANGED <<era, names, buffers, mains, numOps, item, history>>

\* The producer's number goes to the cell at the write index.
StoreItem(c) ==
    /\ c \in Producers
    /\ ChildStep(c, "access", "advance")
    /\ item' = [item EXCEPT ![c] = Len(sent) + 1]
    /\ buf' = [buf EXCEPT ![Buffer(c)][write_index[Buffer(c)]] = item'[c]]
    /\ UNCHANGED <<era, names, value, read_index, write_index, mains, numOps, history>>

LoadItem(c) ==
    /\ c \in Consumers
    /\ ChildStep(c, "access", "advance")
    /\ item' = [item EXCEPT ![c] = buf[Buffer(c)][read_index[Buffer(c)]]]
    /\ UNCHANGED <<era, names, value, buffers, mains, numOps, history>>

AdvanceWrite(c) ==
    /\ c \in Producers
    /\ ChildStep(c, "advance", "postLock")
    /\ write_index' = [write_index EXCEPT ![Buffer(c)] = (@ + 1) % BufferSize]
    /\ sent' = Append(sent, item[c])
    /\ UNCHANGED <<era, names, value, buf, read_index, mains, numOps, item, received,
                   stale>>

\* Only what is taken from the buffer of this session is recorded.
AdvanceRead(c) ==
    /\ c \in Consumers
    /\ ChildStep(c, "advance", "postLock")
    /\ read_index' = [read_index EXCEPT ![Buffer(c)] = (@ + 1) % BufferSize]
    /\ received' = IF Buffer(c) = BufferOf(session) THEN Append(received, item[c])
                   ELSE received
    /\ UNCHANGED <<era, names, value, buf, write_index, mains, numOps, item, sent,
                   stale>>

PostLock(c) ==
    /\ ChildStep(c, "postLock", "postCount")
    /\ Adjust(Lock(c[1]), c, 1)
    /\ UNCHANGED <<era, names, buffers, mains, numOps, item, history>>

PostCount(c) ==
    /\ ChildStep(c, "postCount", IF numOps[c] > 1 THEN "waitCount" ELSE "done")
    /\ Adjust(IF c \in Producers THEN "filled" ELSE "empty", c, 1)
    /\ numOps' = [numOps EXCEPT ![c] = @ - 1]
    /\ UNCHANGED <<era, names, buffers, mains, item, history>>

-----------------------------------------------------------------------------

\* A session ends, by itself or in a crash, and the next one begins.
NextSession ==
    /\ session < MaxSessions
    /\ session' = session + 1
    /\ mainPc' = [p \in Programs |-> "idle"]
    /\ next' = [p \in Programs |-> 1]
    /\ handle' = [p \in Programs |-> NoHandles]
    /\ attempts' = 0
    /\ childPc' = [c \in Children |-> "none"]
    /\ numOps' = [c \in Children |-> 0]
    /\ item' = [c \in Children |-> 0]
    /\ sent' = << >> /\ received' = << >> /\ stale' = FALSE
    /\ UNCHANGED <<shm, names, value, buffers>>

MainNext(p) ==
    \/ Start(p) \/ ForkChildren(p) \/ WaitChildren(p) \/ Exit(p)
    \/ p = "producer" /\ (CreateMemory \/ InitFile)
    \/ \E name \in Sems \cup {"buffer"} :
          Drop(p, name) \/ CreateSem(p, name) \/ Open(p, name) \/ Unlink(p, name)

ChildNext(c) ==
    \/ WaitCount(c) \/ WaitLock(c) \/ StoreItem(c) \/ LoadItem(c)
    \/ AdvanceWrite(c) \/ AdvanceRead(c) \/ PostLock(c) \/ PostCount(c)

Next ==
    \/ NextSession
    \/ \E p \in Programs : MainNext(p)
    \/ \E c \in Children : ChildNext(c)

\* The scheduler runs every process that can run, and both programs are started.
Fairness ==
    /\ \A p \in Programs : WF_vars(MainNext(p))
    /\ \A c \in Children : WF_vars(ChildNext(c))

Spec == Init /\ [][Next]_vars

FairSpec == Spec /\ Fairness

-----------------------------------------------------------------------------
(* What the programs rely on *)

\* The variables keep their types and no lock is ever above 1.  The counts have
\* no such bound: consumers that started while the producers were setting up
\* may hold an old filled and a new empty, and post empty too often.
TypeOK ==
    /\ shm \in Variants
    /\ session \in Sessions
    /\ names \in [Sems \cup {"buffer"} -> Owners]
    /\ value \in [Sems -> [Sessions -> Nat]]
    /\ \A n \in Sems \ {"filled", "empty"}, o \in Sessions : value[n][o] \in {0, 1}
    /\ buf \in [Sessions -> [0 .. BufferSize - 1 -> Nat]]
    /\ read_index \in [Sessions -> 0 .. BufferSize - 1]
    /\ write_index \in [Sessions -> 0 .. BufferSize - 1]
    /\ mainPc \in [Programs -> {"idle", "setUp", "wait", "tearDown", "exited", "failed"}]
    /\ handle \in [Programs -> [Sems \cup {"buffer"} -> Owners]]
    /\ attempts \in 0 .. MaxAttempts
    /\ childPc \in [Children -> {"none", "waitCount", "waitLock", "access", "advance",
                                 "postLock", "postCount", "done"}]

\* A program whose objects are all those of the session under way.
Current(p) == mainPc[p] \in {"wait", "tearDown", "exited"} /\ HoldsAll(p)

\* "delete stale semaphores from a previous crash (if any)": whatever an earlier
\* session left, the producers get through their set-up.
RestartSucceeds == mainPc["producer"] # "failed"

\* Where the buffer is a file the restart does succeed: the producers drop every
\* name that they create, and consumers create none.
FileRestartSucceeds == ~shm => RestartSucceeds

\* Unless consumers ran on objects that an earlier session left, those of this
\* session receive what its producers sent, in order: neither the crash of an
\* earlier one nor the attempts that the consumers gave up disturb it.
InOrder ==
    ~stale =>
        /\ Len(received) <= Len(sent)
        /\ \A i \in 1 .. Len(received) : received[i] = sent[i]

\* The processes of a session never work at the same end of the buffer at once,
\* nor, where it is a file, at the file.
ExclusiveAccess ==
    \A c, d \in Children :
        /\ {childPc[c], childPc[d]} \subseteq {"access", "advance"}
        /\ Current(c[1]) /\ Current(d[1])
        /\ shm => c[1] = d[1]
        => c = d

\* After a session in which both programs ended well no name is left, unless
\* consumers ran on objects that an earlier session left.
NothingLeft ==
    mainPc["producer"] = "exited" /\ mainPc["consumer"] = "exited" /\ ~stale
        => \A n \in Sems \cup (IF shm THEN {"buffer"} ELSE {}) : names[n] = 0

\* Consumers that are started when the producers are past their set-up open the
\* objects of this session, and then both programs end well, unless a crash ends
\* the session first.
SessionEnds ==
    \A s \in Sessions :
        session = s /\ mainPc["producer"] = "wait" /\ mainPc["consumer"] = "idle"
            ~> session # s \/ \A p \in Programs : mainPc[p] = "exited"
=============================================================================
