# Sistemi di Calcolo 2: models, checks and proofs

The repository holds the exercises of a course on concurrent and network
programming in C: one directory for each laboratory (`src/labs/E01` to `E10`),
with the text to be completed, solutions (`sol/`) and the author's own attempts,
and four exam papers (`src/old_exams`). There is no one program. There is a
family of small ones around a few protocols: a bounded buffer, a start and stop
barrier, a log under a lock, named objects that outlive the processes, servers
that speak in lines. This directory models those protocols in TLA+ as the
programs implement them, checks them with TLC, and proves with TLAPS most of their
safety for every size: the bounded buffers of threads and of processes, through crashes
and restarts, the lock and the barrier of the log, the units of the schedulers, the
slots, replies and counts of the servers.

Contents: [the system](#1-the-system), [the modules](#2-modules-and-code),
[the runs](#3-runs), [findings](#4-findings), [fairness](#5-fairness),
[proofs](#6-proofs), [what is only checked or left out](#7-limits),
[the plan](#8-plan).

## 1. The system

What each component keeps, does, and must get right. The last column says where
it is.

| component | state | operations | hard behaviour | what makes it correct | where |
|---|---|---|---|---|---|
| E03/es1 `producer_consumer_{11,N1,1M,NM,global}.c` | circular buffer, two indexes, `deposit`; semaphores `empty_sem`, `fill_sem`, `read_sem`, `write_sem` | threads put and take; main creates, joins, prints, destroys | all interleavings of N + M threads; two counters and two locks that know nothing of one another; equal numbers of operations or nobody ends | a FIFO of `BUFFER_SIZE` items; no cell raced for; the same final balance in every run; every thread ends before the semaphores are destroyed | `ProducerConsumer` |
| E04/03 `producer.c`, `consumer.c` | ring and indexes in shared memory, no lock | unlink, create, size, clear, put; open, take | polling; a consumer started at any time; an object left by a killed run; an uninitialised sum | a FIFO of `BUFFER_SIZE - 1`; no race; the memset harms nobody; nobody waits for ever but on a stale object | `ShmRing` |
| E03/es3 and E04/02 `producer.c`, `consumer.c` | buffer in a file or in shared memory, three or four named semaphores | set-up and tear-down of names, children that put and take | two programs started by hand in any order; crashes that leave names; set-up in steps that the other program sees half done | a restart succeeds; items in order; exclusion; no name left | `NamedSession` |
| E05 `sol/riepilogo.c`, `[only semaphores]riepilogo.c`; E06/04, solution and attempt | three or four semaphores or a FIFO, the notice, a log file | fork, barrier, rounds of threads, notice, reap, parse, clean up | processes and threads; creation that fails in the middle; a lock whose owner is killed; a FIFO left behind | nobody starts early; exclusive file; final count; at most one more round; everyone ends | `AccessLog`, `Riepilogo` |
| E05 `riepilogo.c` (attempt) | one word of shared memory, a semaphore, the log | as above, by polling the word | a start that lasts a while and nobody acknowledges | main gets to parse | `AccessLog`, `RiepilogoAttempt` |
| E02 schedulers and counters; E03/es2 `server.c`, `client.c` | a semaphore of `NUM_RESOURCES` units, detached threads, a variable; processes and a named semaphore | create in bursts, work, release, end; start, stop and kill of the server | main that frees a semaphore in use; a process that ends with units in its hands; server restarts | units conserved; freed after the last use; no addition lost; every thread served | `Scheduler` |
| E06/02, solution and attempt; E07/01 `producer.c`, `consumer.c` | two locks and a pipe smaller than a message; a FIFO by name | fork, close ends, write and read in parts, reap | parts of different messages; ends left open; SIGPIPE; calls that fail half way; a FIFO left behind | messages whole, once each and in order; an end without error means all were read; everyone ends | `PipeMessages` |
| E06/03 `echo.c`, `client.c`; E08/02 `server.c`, `client.c` | two FIFOs by name; sockets of datagrams | make, open, greet, read, reply | rendezvous of the opens; a client that comes too soon; lost datagrams; kills and restarts | answers match lines; who is let in is answered; the echo ends | `EchoPrograms` |
| TCP servers: E08/01 echo (solution and attempt), E10 resources, 2021 settembre slots, 2021 luglio reverse, E07/02 time | connections, lines half received, counters and their semaphores, `sem_connections`, `shutting_down` | accept, fork or create, receive byte by byte, reply, quit, signal | clients that close at any time; a thread that ends its process; slots of dead children; a signal between a test and a call | the i-th reply answers the i-th line; a count is handed out once; slots conserved; clients served | `ConnectionServer` |
| 2022 gennaio, 2021 giugno `elaborator.c`, `producer.c` | buffer and unnamed semaphores in shared memory | make, set up; put until the balance is spent; take; CTRL+C | producers that come before the semaphores; a producer that destroys them for all; a signal at any call | items in order; producers served; the name removed | `Elaborator` |
| E01, E04/01, E06/01, E09, `old_exams/empty`, unfinished attempts | | | | | not modelled, see [Limits](#7-limits) |

Interactions. The threads of E02 and E03/es1 share memory and semaphores. E03/es2,
E03/es3, E04, E05 and the exam papers with an elaborator are processes that share
named objects: a file, shared memory, semaphores, found by name, so that a name left
by an earlier execution is part of the state. E06 and E07/01 join processes by pipes
and FIFOs, whose ends are open as long as any process has them. E07/02, E08 and E10
join a server and its clients by sockets. `fork`, `pthread_create`, `wait`,
`pthread_join` and the exit of a process, which ends all its threads, are the calls
by which they act upon each other's life.

## 2. Modules and code

`PROJECT.json` maps every definition to its lines. Variables keep the names the
code gives them (`write_index`, `empty_sem`, `main_waits_for_children`,
`shared_counters`); a `pc` says which call a thread is about to make. The grain
is a system call or an access to shared memory: between two of these a thread
touches only what is its own, so nothing is lost by making it one step. A module
that stands for several programs has a variable `program` (or `start`, `shm`), chosen
in `Init`, so that one run covers them all.

**`BoundedFifo`** is the abstract channel: `Put` while fewer than `Capacity` items
are inside, `Get` of the oldest. It has two histories for its state and says
nothing of cells, indexes or locks.

**`ProducerConsumer`** is one module for five programs. `UsesWriteSem`,
`UsesReadSem` and `DrawsInLock` say which; `ProgramAssumption` admits the
combinations that exist in the repository. One action per call of
`performTransactions` (`Draw`, `WaitEmpty`, `WaitWrite`, `StoreItem`,
`AdvanceWrite`, `PostWrite`, `PostFill`) and of `processTransactions`
(`WaitFill` ... `PostEmpty`, with `deposit += ...` as a load and a store), and
`CreateThread`, `JoinThread`, `PrintDeposit`, `DestroySems` for `main`. An item
is the position of its number in the seeded sequence, `Amount` its value: two
interleavings then differ in the order of items and not in a sum by chance.
`FifoRefinement` maps `sent` and `received`, which the two `Advance` actions
extend, to the channel. The progress line every 100 transactions is left out.

**`ShmRing`** has the two mains of E04/03 from the first system call to the last.
There are two objects, `old` (left by an earlier run, with any indexes) and
`new`; the name may stand for either or none. `BusError` is the access to an
object that `ftruncate` has not sized yet, `Garbage` the values the
uninitialised `localSum` may start from. A store and the advance of the index are
two steps in program order: the programs are built without optimisation for a
processor that keeps the order of stores, and the model assumes that.

**`NamedSession`** has `names` (what each name stands for), the objects by the
session that made them, and `handle` (what each program has opened). The
set-up and tear-down of the four programs are sequences of calls (`SetUp`,
`TearDown`) that the actions `Drop`, `CreateSem`, `CreateMemory`, `InitFile`,
`Open`, `Unlink` go through one by one, each with its failure. `NextSession` ends
a session at any point, as a crash would, and starts the next with the names as
they are. The children are as in `ProducerConsumer`, on the objects their program
holds, be they stale. `stale` is a history: consumers of this session have run on
objects of an earlier one, in which case no order is promised to anybody.

**`AccessLog`** is `thread_function` of E05: the lock, the open, the write, the close,
the post. **`Riepilogo`** adds `main_process` and `child_process` of the solutions of
E05 and of E06/04 (the notice is a word in one and the value of a semaphore in the
other: a flag), with `fork` and `pthread_create` that may fail. A failed
`pthread_create` ends its process, threads included, wherever they are. `start` is
how main lets the children go: a semaphore posted N times, or the opens of a FIFO, of
which main's waits for the first child and each child's for main. `SetUp` unlinks
every name but that of the FIFO, so `mkfifo` fails after a run that left it.
**`RiepilogoAttempt`** adds the author's own processes instead, which poll a word.

**`Scheduler`** is one module for seven programs of E02 and the two of E03/es2. The
main thread of each process (`Enter`, `Spawn`, `EndOfInput`, `AwaitThread`,
`Destroy`, `ExitSafely`) and its threads (`Acquire`, `Work`, `Release`, or a load and
a store of the shared variable) are apart, since the first solution lets main end,
and free the semaphore, under its detached threads: `UseFreed` is any outcome of a
call on a semaphore that is no more. The programs differ in the work items before
which a thread waits and after which it posts (`WaitsBefore`, `PostsAfter`), and in
what main does at the end. In `named` the server makes a new semaphore at each start
and each thread keeps the one it opened (`my_semaphore`). `ExitProcess` is `exit(1)`
of a thread that finds no name, or of main when `pthread_create` fails; `lost` counts
the units that go with it.

**`PipeMessages`** has the parent of E06/02 and its children, and the two programs of
E07/01, which are its producer half and its consumer half around a FIFO with no lock.
A part is what one `write` or `read` moves; a message has `MSG_ELEMS` of them,
more than the pipe holds. The parent closes its two ends one after the other. `Holds` says whether any process has an end open, from
which come `BrokenPipe` (SIGPIPE) and `ReadNothing` (end of file). `Reap` has the
code's `WEXITSTATUS`, which is 0 for a child that a signal killed. `ChildFails` is a
call that fails anywhere: the child exits with the mutex if it has it.

**`EchoPrograms`** has the echo of E06/03 with its FIFOs, which each start unlinks and
makes anew, and the UDP server of E08/02. `OpensMeet` is the rendezvous of two opens,
`OpenJoins` an open of a FIFO that the echo still has. A client looks each name up when
it comes to it (`OpenSecond`): if the echo was started again after the first open, the
second name is gone, and the client ends, or it is that of the later start, and the client
is `astray`, with a FIFO of each of two starts, and waits for ever in its second open. A message carries no number, as
in the code: `answers` is what each client took for its answers. In `fifo` the next
client may come when the one before has sent `QUIT`, before the echo has seen its
end: the leftover reply to `QUIT` is then what it takes for its welcome.

**`ConnectionServer`** is one module for six servers, told apart by `program`. A
connection is a queue each way and the state of the client's end as TCP shows it
to the server (`open`, `fin`, and the reset that answers data sent to a closed
end). A line is its contents and its terminator, received apart, which is what the
loops of one-byte `recv` tell apart; in `reverse` the terminator is the null byte of
the string, in `time` there is none. `Die` is `handle_error`: it ends the whole
server, but only one child of the servers that fork. `Signal` is SIGINT or SIGTERM of
2021 luglio: it ends main in `accept`, or is seen only after one more connection
(`AcceptLast`), and its handler may interrupt a `recv` before the first byte, after
which the code looks at `buf[-1]`. The clients are those of E07/02, E08/01 and 2021
luglio, and what the other servers expect of theirs. Clients are alike, so they
connect in the order of their numbers: a symmetry taken by hand.

**`Elaborator`** has the elaborator of the two exam papers from `initMemory` to
`consume`, its handler of CTRL+C (`Interrupt`, then `UnlinkMemory`) and the producers.
Each start makes a memory of its own (`starts` is its number), to which a producer
stays mapped whatever becomes of the name. Before `sem_init` a semaphore is `Unset`,
which lets nobody through; an access before `ftruncate` is `UseTooEarly` (SIGBUS).
After the first `sem_destroy`, of a producer that ends or of CTRL+C, the others go on
with the semaphores, which in the C library of Linux stay as they are. A memory left by an
earlier run (`AllInit`, `NotInit`) has its semaphores set up or not yet. The elaborator
of giugno has other calls in `initMemory` (`UnlinkOld`, `Truncate`), which it never gets
through, so that nothing after it is reached in that program.

**`MC*`** modules give TLC the functions a cfg cannot write. **`*Proofs`** are
described under [Proofs](#6-proofs).

## 3. Runs

Each property has a mutant in `PROJECT.json`: a plausible mistake in one action,
kept in the module under "Plausible mistakes", with which TLC finds the property
violated under the same cfg.

| run | instance | shows |
|---|---|---|
| `pc_nm` | 2 producers, 2 consumers, 2 operations each, 2 cells, both locks | `IndInv` (locks, counters, indexes and cells agree), `NoCellRace`, `FinalDeposit` (the balance main prints is the sum of the sequence), the channel (`FifoRefinement`), `Termination` |
| `sr_leftover` | 3 cells, 5 operations, with and without a stale object with any indexes | `IndInv`, `NoCellRace`, `SumsAgree` (the sums differ by the garbage), `ClearChangesNothing`, `RunEnds`, the channel of 2 items |
| `rp` | 3 children of 1 thread, either start, names left or not, up to 2 rounds before the notice, creation may fail | `ExclusiveFile`, `NobodyStartsEarly`, `CountIsFinal`, `AtMostOneMoreRound`, `AllTerminate` (when nothing fails), `MainTerminates` (in any case) |
| `ns` | both pairs of programs, 1 producer of 4, 2 consumers of 2, 2 cells, 2 sessions, the consumers started up to twice in each | `FileRestartSucceeds`, `InOrder`, `ExclusiveAccess`, `NothingLeft`, `SessionEnds` |
| `cs` | 2 clients of up to 2 lines (1 in `reverse`), 3 clients for 2 slots and for the time server, early closes, failing creation, a signal | `RepliesInOrder`, `CountsHandedOutOnce`, `SlotsConserved`, `AllServed`, `OthersServed` |
| `sched` | 2 resources, threads of 3 work items, two bursts of 2 threads (one in `named` and `counter`), 2 client processes, 2 starts of the server | `UnitsConserved`, `FreedAfterUse`, `NoLostAdds`, `AllServed` |
| `pm` | 2 writers, 2 readers, 4 messages of 3 parts, a pipe of 2 parts, one failure | `WholeMessages`, `AllDelivered`, `AllEnd` |
| `ex` | 2 clients of up to 2 lines, 2 starts of the server, sockets of 1 datagram, kills and losses | `AnswersMatch`, `Answered`, `EchoEnds` |
| `el` | 2 producers of up to 2 inputs, 2 cells, 2 starts of either elaborator, CTRL+C and kills, a memory left or not before giugno | `InOrder`, `RestartSucceeds`, `AllServed` |
| `ra_missed_start`, `ns_shm_restart`, `cs_close` | | the three findings below |

Why these bounds are enough for the questions asked.

- Two threads of a kind are what a lost lock needs. Twice as many items as cells
  make the indexes wrap and every semaphore reach both its limits. `ShmRing`'s 5
  items go round 3 cells with one always free. Nothing more is proved by larger
  instances, since the theorems hold for all of them.
- `Amount` alternates signs and powers of 3, so that a lost or repeated item or a
  lost update of `deposit` always changes the sum.
- Three children tell "all are ready" from "one is" and from "all but one are", and
  let one hold the lock, one wait for it and one be killed. Two rounds tell "at most
  one more" from "stops at once" and "never stops". The threads of one child meet at
  the same lock as those of different children.
- Two sessions are needed for a stale name, and are enough: a session sees of
  those before it only what the names stand for. Two consumers against one producer
  put two processes at one end of the buffer. Two attempts let a consumer fail in
  its set-up, leave a name, and be started again.
- Two connections meet at a counter, two lines on each let one be merged with the
  next, three clients wait for two slots. `N = 2` includes a number out of range,
  which the server takes for resource 0.
- Four threads want two resources, so some wait; three items end a pair with a single
  one, which is where `scheduler_solution1.c` could post one time too few or too many.
  Two starts of the server give two semaphores in use at once.
- A message of 3 parts fits the pipe of 2 in no state, so every write and every read
  of a message is interleaved with the other side's. Two messages for each child let
  one failing child leave another waiting for its mutex. One failure is enough for
  each kind of end, and two would only end more processes.
- Two clients and two starts let a client meet the FIFOs of the client before, and
  those of an echo that is no more; a socket of one datagram overflows with two clients.
- Two producers and the elaborator are the two kinds of neighbour in the lock of
  `Elaborator`; four inputs go twice round two cells. The second start is the one that
  a name can refuse, while producers may still be on the memory of the first.

Deadlock is checked in `pc_nm`, `sr_leftover`, `rp` and
`ra_missed_start`. It is not in the others, whose programs really may stop: in
`NamedSession` consumers may wait on objects of an earlier session for ever; a server
of `ConnectionServer` waits in `accept`, or in `recv` for a client that never sends;
threads of `Scheduler` may wait for the units of a process that was killed; a child
that fails in `PipeMessages` may take the mutex of its side with it, and one program
of E07/01 may be started alone; a client of `EchoPrograms` whose datagram is lost, or
that opens the FIFO of an echo that is about to end, waits for ever; so do the
elaborator when nobody puts anything, and producers whose elaborator has ended.
`SessionEnds`, `AllServed`, `OthersServed`, `AllEnd`, `Answered` and `EchoEnds` say what
must go on there. In `Riepilogo` only the end of `main` allows the others to stay
blocked, in `ShmRing` only two processes that poll or have ended.

Some of what TLC showed while the models were written, kept in the comments:

- Consumers of E03/es3 started while the producers set up may hold the `filled`
  semaphore of an earlier session and the `empty` of this one. They then post
  `empty` above `BUFFER_SIZE`. `TypeOK` of `NamedSession` bounds the locks only.
- Consumers of E04/02 started too early fail at `shm_open` and leave
  `SEMNAME_CS_CONS` behind, so that the next ones fail too, until producers start
  again. `SessionEnds` is stated for consumers not started yet.
- Consumers started on the objects that a crashed session left may run to their end
  there, while the producers of this one drop the names; started again, they join a
  session in which the index in the file has already moved. The attempt at a proof of
  `InOrder` found this, with one child on each side, two cells and two sessions; since
  then `stale` records it, and `InOrder` and `NothingLeft` except it.
- The echo server of E08/01 spins for ever when a client closes between two lines
  without `QUIT` (server.c:67), and serves nobody else; the attempt (es1) does not. A
  client whose input ends without a newline and the server wait for each other
  (client.c:98). These are the clients `AllServed` and `OthersServed` except.
- A child of 2021 settembre that dies in `handle_error` never posts its slot
  (server.c:151-152). `SlotsConserved` counts it, `OthersServed` holds until all slots
  are lost.
- E10 compares the result of `pthread_create` with -1 (server.c:109), which it
  never is: the client of a thread that was not made waits for ever, and `pthread_detach`
  is given a handle that nobody has set (server.c:112), which may end the server there and
  then. `CreateFails` admits both outcomes. After the second `AllServed` promises nothing to
  anybody, and `CloseIsHandled` is of a server in which no creation has failed.
- `recv_from_socket` of 2021 luglio returns 0 for an empty line and for a close alike
  (io.c:75), so ENTER alone ends the connection with an error. A signal that comes
  between the test of `shutting_down` and `accept` takes effect only after one more
  connection, which is dropped.
- The first two solutions of E02 free the semaphore while their threads use it.
  `FreedAfterUse` is of the programs that wait, `joined`, `onExit` and `counter`.
- A server of E03/es2 that is started again makes a semaphore of `NUM_RESOURCES` new
  units, while threads of earlier clients still hold units of the one before: the
  bound holds for each semaphore (`UnitsConserved`), not for the resources.
- A child that SIGPIPE kills passes for one that ended well (E06/02 main.c:245).
  `AllDelivered` holds all the same: a writer is killed only when no reader is left, and
  a reader that ended before its last message ended with an error, which main sees.
- The parent of the attempt of E06/02 keeps both ends of the pipe, so a read of 0
  bytes, which it takes for a complete message, comes only when the parent has failed.
  `WholeMessages` excepts it.
- The echo of E06/03 never sees `QUIT`, as `bytes_read` counts the newline and
  `quit_command_len` does not (echo.c:87). It ends all the same, by an error, when
  its last client closes (`EchoEnds`), and leaves its FIFOs to the next start.
- A producer of 2022 gennaio may open the memory before its semaphores are set up, and
  wait on zeros: `sem_init` then wakes nobody. `AllServed` excepts that, while
  `InOrder` holds.
- CTRL+C before the elaborator of 2022 gennaio has made its memory gets to `shm_unlink`
  of a name that does not exist, and "Exiting gracefully" ends in `handle_error`
  (elaborator.c:115).
- The elaborator of 2021 giugno never gets through `initMemory`: it takes it for fatal
  that there is no old memory to unlink (elaborator.c:58), and where there is one it
  opens the new one for reading only, so that `ftruncate` fails (elaborator.c:61-65).

## 4. Findings

1. `ra_missed_start`: in the attempt at E05 the start is a word that is 1 for `t`
   seconds, `t` from the command line and possibly 0. A child that does not look
   at it meanwhile polls it for ever, and `main` never parses the log, which the
   comment at riepilogo.c:128-133 says it does.
2. `ns_shm_restart`: the producers of E04/02 delete stale semaphores "from a previous
   crash (if any)" but not the stale memory, which `O_EXCL` then refuses: after a
   crash no start succeeds until somebody removes the object.
3. `cs_close`: the comment in E10 asks to leave the reading loop when a client
   closes unexpectedly; the code calls `handle_error`, which ends the server with
   every connection it has.

## 5. Fairness

Every liveness property is of a specification with weak fairness of each process
or thread: the scheduler eventually runs whoever can run. That is what Linux
gives a runnable thread, and no more: a thread blocked on a semaphore is not
promised to win it. In `ProducerConsumer`, `Riepilogo`, `NamedSession`, `Scheduler`
and `PipeMessages` the programs end all the same, since each thread makes finitely
many operations.

- `sleep` is a delay of any length that ends.
- In `NamedSession` the two programs are started at some time, and a crash is never
  bound to happen. In `PipeMessages` a main that is never started is outside `AllEnd`,
  which begins when the pipe is open at both ends; failures are outside the fairness.
- In `Scheduler` the input of each process ends (`EndOfInput`), while nobody is bound
  to press ENTER, to start the server or to stop it.
- In `EchoPrograms` a client that has started goes on, and nobody is bound to start a
  client or a server; kills and losses are outside the fairness.
- In `ConnectionServer` the network delivers and the user of a client goes on to its
  `QUIT`; `Signal`, `CloseEarly`, `SendEmpty` and `LeaveLineOpen` are outside the
  fairness, so nobody is bound to do any of them.
- In `Elaborator` a process that has started goes on (a balance is spent
  at some time: `MaxInputs`), and nobody is bound to start, kill or interrupt one. The
  producers win the semaphores all the same, since they make finitely many operations.

The liveness properties name the failures they exclude in their premises: a hazard that
is itself such a failure is in the model, and in what these properties let happen, but is
not flagged by them. So it is with the consumer attached to an old object (`RunEnds`), the
consumer that finds `SEMNAME_CS_CONS` (`SessionEnds`, `NothingLeft`), stale consumers
(`InOrder` of `NamedSession`), the echo server that spins and the line left open
(`AllServed` of `ConnectionServer`), slots all lost (`OthersServed`), a FIFO that `mkfifo`
refuses (`AllEnd`), lost datagrams (`Answered`) and producers that came before the
semaphores (`AllServed` of `Elaborator`). `SumsAgree` subtracts the garbage of the
uninitialised sum, and `EchoEnds` does not depend on whether `QUIT` matches.

## 6. Proofs

All for every value of the constants that the named assumptions admit:
`ParametersAssumption` and `ProgramAssumption` (what the preprocessor checks, and
that a lock is left out only when there is one thread of that kind),
`RingAssumption` (positive sizes), `SizesAssumption` and `RunAssumption` (children,
threads and rounds of the log), `SchedulerAssumption` (units, threads and bursts),
`ServerAssumption` (clients and slots), `SessionAssumption` and `ElaboratorAssumption`
(processes, operations, cells and starts), `PipeAssumption` (positive sizes, and messages
that are shared out evenly, as the code's checks ask) and `EchoAssumption` (clients,
lines, starts and the datagrams a socket holds). TLC evaluates them on each run.

**Lemmas in common**, at the top of each module that needs them. Indexes that wrap around: counting modulo B (`ModSucc`), once
round is back in place (`ModRound`), fewer than B successive counts fall on
distinct cells (`ModDistinct`): what it takes to read a circular buffer as a window
of a sequence. And induction: the library's induction theorems have an operator as
parameter, which no prover here instantiates, but its `WFMin`, about a set, gives
`SetInduction` (a set with 0, and with n + 1 wherever it has n, has every natural
number), with the set of those n for which a fact holds in the place of the fact. From
it, that a function which is defined by recursion exists and is what its equations say:
`SumsDefined`, `SumsStep`, `SumsRaised` for sums.

**`ProducerConsumerProofs`**. Neither exclusion nor the absence of races is inductive.
That no producer stores where a consumer loads follows from the cells between the
indexes being those sent and not received, at most `BUFFER_SIZE` of them, and that
only from the counters lagging behind the indexes by exactly the threads that are
between a semaphore and an index. `IndInv` says so:

- `MutualExclusion` and `LockInv`: a lock is 1 exactly when nobody is inside, and
  where there is no lock there is one thread;
- `CountInv`: `empty_sem` plus the threads holding a free cell is what the indexes
  leave free, and `fill_sem` likewise;
- `WindowInv`, `HandInv`: the indexes count modulo `BUFFER_SIZE`, the cells between
  them hold what was sent, and a thread's item is that of its cell;
- `DrawInv`: the numbers still to draw are those the rounds left ask for, so no more
  than `NUM_OPERATIONS` are drawn.

One lemma for each (`TypeStep`, `LockStep`, `CountStep`, `DrawStep`, `CellStep`),
by cases on the actions, over `StepMoves` (how a step changes the set of threads at
given steps, and its cardinality). `Inductive` is `Spec => []IndInv`, and from it:
`Types`, `Exclusion`, `NoRace`, `Conservation` (every cell is free, full or in the
hands of one thread) and `ImplementsFifo` (`AdvanceWrite` is `Put`, `AdvanceRead` is
`Get`, all else stutters). `SemsLast` (`JoinInv`: the threads joined have ended, and
who has ended makes no step) and `InDrawnOrder`, for the program that draws inside the
lock (`OrderInv`: whoever has drawn and not sent has the lock, so the last number
drawn), take the place of a run.

`SameResult` is that main prints the sum of the seeded sequence. The consumers add up
the items in an order that depends on the interleaving, so the sum is taken of a set of
items (`TotalOf`), which an item raises by its value (`TotalAdds`). `ItemInv`: an item
is drawn once, and is in the hands of one producer or sent. `DepositInv`: `deposit` is
the total of those received, and of the one that a consumer has added and whose cell it
has not yet left. `TakeInv`: the rounds left to the consumers are the items left, so that
when all threads have ended all items are received (`AllTaken`), and main prints after
that (`JoinInv`). The five kinds of step that matter to these are those of `StepKinds`.

`DeadlockFree`: until main exits, main or some thread is at a step that does not wait in
vain (`SomeoneCanStep`, which spells out the guards). A lock that is taken is held by
a thread that can go on, so if nobody can, all wait for cells (`StuckAtCells`); producers
and consumers cannot both, as every cell is then free or full; and consumers alone, or
producers alone, have as many items or cells left as rounds (`EndInv`, `TakeInv`). That is
what the preprocessor's check that the two kinds make as many operations is for.

**`ShmRingProofs`**. With no lock, what a process knows after its poll must stay
true until it moves its own index. `RoomInv` says that: a producer past `WaitSpace`
still has room, a consumer past `WaitItem` still has an item, since the other can
only make more. `ObjectInv` and `FreshInv` say that nobody but `initMemory` makes the
object and that it stays as `ftruncate` made it until the loop starts, which is why
the memset is harmless (`ClearIsHarmless`). `NoRace` and `ImplementsFifo`, with
capacity `BUFFER_SIZE - 1`, follow as above. No assumption is made on when the
consumer starts or which object it maps. `SumInv` adds that each side has summed the
first numbers of the sequence, as many as it has moved its index by, whence
`SumsDifferByGarbage`. `NeverBothWait`: with two cells or more the two do not both poll
in vain. With one cell the producer polls for ever, as `(w + 1) % 1 = r`.

**`RiepilogoProofs`**, for any number of children and threads, either start, and
creation that fails at any place. `LockInv`: the semaphore of the file is 1 only when
nobody is between its two calls, also after a process has ended with its threads,
so `FileIsExclusive`. `BarrierInv`: the posts on the semaphore of the children who are
ready, and those main has already taken, are as many as these children, so that main
lets them go when all are ready (`Barrier`), whichever the start. `NoticeInv`: since
the notice, a child is in the round it was in, or has completed it and cannot begin
another (`NoticeIsObeyed`). `RoundInv`: the lines of a child in the log are M for each
round it has completed and one for each thread of this round that has written, unless
something failed; `ReapInv`: main waits for all children before it reads the log. With
`ScanFindsMost`, by induction over the scan of `parseOutput`, that the child it ends up
with has the most lines, they give `ReportIsFinal`.

`DeadlockFree`: somebody can go on until main has ended, and if it has ended well so have
all children. `BornInv` is the order of the forks, `StartInv` that the posts that start the
children are on the semaphore or have been taken, and `AliveInv` that whoever has the lock
of the file is a thread that still runs, unless its child failed; then main, who waits for
its children, will see that. `BarrierOpens` and `NobodyWaitsForTheFile` are the two places
where processes wait for each other.

**`SchedulerProofs`**, for any number of threads, units, items and bursts, and any
grouping of items. `ItemInv` says at which items a thread can hold a unit, from which
each acquisition meets its release; with `HoldersFinite` (so that a step changes the
count of holders by one) it gives `Conservation`, whose sum includes the units lost
with a process. `EndInv` is about the end of main: in `joined` the threads joined, the
posts still to be taken and the threads still running are at most those made; in
`counter` the first threads have been joined. From that `FreedLast`. `AddInv`: the
variable of `counter` is the number of pairs of a thread and an item whose addition is
in, and what a thread has read is still the variable, since one thread at most has the
unit; when main has joined all threads every pair is there (`AdditionsKept`).

`DeadlockFree` is the safety half of `AllServed`: unless a unit went with a process ended
by an error, or a semaphore is freed under its threads, some thread or main can go on
until all have ended. Who waits for a unit waits for a thread that has it, by
`Conservation` and as there is at least one unit (`SomeThreadCanStep`), and when no thread
runs main has no more to wait for (`MainGoesOn`). That takes `PlaceInv` (a thread is started
exactly when its number is below those given, and all are at steps of their own program)
and, for `joined`, `NobodyMissing`: the threads that run, the posts pending and the
posts taken are together as many as the threads started, where `EndInv` says only
at most.

**`ConnectionServerProofs`**, for any number of clients and slots. `BacklogInv` (a
connection that waits to be accepted has no handler, and waits once) is what makes an
`accept` start a handler for a connection that had none; `StepsInv` says where main and
the handlers can be, program by program. `Slots` is then by cases on who moves.

That the i-th reply answers the i-th line needs all that is on its way on a connection:
`FrameInv` says at which stage it is (`AtStart`, `Greeted`, `Quiet`, or a line `Written`,
`Received`, `Complete`, `Answered`) and what the two queues, the handler and the client
then have. A client never has more than one line without a reply, and the bytes of that
line are the only ones anybody has, so that no two lines are merged
(`RepliesAnswerLines`). For `CountsOnce`, `LockInv` says that the thread between the two
calls on the semaphore of a resource is alone there, and `ToldInv` that each count told,
received or on its way, is one that its counter has had, and no two are the same.

**`NamedSessionProofs`**, for any number of processes, cells, operations and sessions, and
both pairs of programs. The set-up is a sequence of calls, so `CallInv` says that a
handle is open exactly when the place of its call is past. `OwnerInv` says whose objects
are in use: those of this session are what its producers have made, and consumers that
are not `stale` hold all of them. Over that,

- `LockInv`: one child at most is between the calls of a lock of this session (`Has`),
  which `Exclusion` states;
- `CountInv`: the units of `filled` and the children on their way are *at most* the items
  in the buffer, and those of `empty` likewise. They are not equal as they are in
  `ProducerConsumer`: a consumer that fails takes nothing back, and consumers may come
  again;
- `FreshInv`, `WindowInv`, `HandInv`: a new memory is all zeros, the cells between the
  indexes are what was sent and not received, and an item in hand is that of its cell.
  `ItemsInOrder` follows.

`DropInv` (a name is free between its `sem_unlink` and its `sem_open`) gives
`FileRestart`: with the file, the producers never fail to start. `GoneInv` (a name is
gone from its last `unlink` on) gives `NoNameLeft`. The lemmas go by who moves: a main
process leaves the data alone (`KeptMainData`), a child leaves the names alone, and each
call of a child has its lemma for locks, counters and buffer.

**`ElaboratorProofs`**, for any number of producers, cells, inputs and starts, kills and
CTRL+C included. Each start makes a memory of its own, and the invariant is of each of
them: `SetUpInv` (how far `initMemory` has got: which semaphores are `Unset` and who can
be past them), `LockInv`, `CountInv` (again with at most, since a process may be killed
with a unit) and `CellInv`. `InputsInOrder` is for every memory, also those whose
elaborator has ended. `NameInv` (the name is that of the memory of a live elaborator of
gennaio, or none) gives `NameFree`.

`DeadlockFree` is the safety half of `AllServed`, under the same condition: as long as the
elaborator loops and nobody has come before its semaphores, it or a producer of its memory
can go on, unless those producers have all ended. `CountInv` is too weak for that, as it
lets units be lost; while `early` is empty none is, which `OnTimeInv` says: the cells that
are free, the inputs that wait and the units in somebody's hand add up to `BUFFER_SIZE`
(`AllThere`), and the lock is at 0 only if somebody is inside. It also says that a memory
which somebody has opened is set up, so that no `sem_init` comes after its use. A producer
killed by SIGBUS would take its unit with it: `SizedInv` (what is set up has its size)
shows that only an early one is killed. In the end (`NobodyStuck`), with nobody inside the
lock is free, with it everyone who has a unit can go on, and with all units back one of
the two semaphores is above 0.

**`ChannelProofs`** is about `PipeMessages` and, after it, `EchoPrograms`, which share
nothing but the lemmas on queues (`AtTheEnd`, `AtTheHead`); the names of `EchoPrograms` are
such that a module can extend both.

`PipeMessages`: a reader takes parts out of the pipe, and that they make a message depends
on all that was written before them. The invariant counts positions from the first part of
the message that a reader has taken some parts of, if there is one (`Offset`), and else from
the head of the pipe; `Block`, the quotient by the size of a message, is the message that a
position belongs to.

- `BegunInv`: what is in the pipe, in the hands of a reader or read is of messages whose
  writing has begun;
- `StreamAt`: parts of one block are of one message, and the blocks after it have `Later`
  messages, if they are of the same writer;
- `TailAt`: if a writer is half way, the last block is what it has written so far of its
  message (`LastOf`), and else the last block is complete;
- `HandInv`: what a reader has taken is of one message, the rest of it is at the head of
  the pipe, and nobody else has it or has read it; `ReadInv`: the messages read are all
  different, and earlier than those of the same writer still in the pipe.

`LockInv` is that one child of each side at most moves a message or has left one half way
(`Active`), and has the mutex: a child that fails there never posts it. In the attempt a
reader goes on when the pipe ends in the middle of a message, which happens only after a
call has failed: there the conjunction of these (`Whole`) holds as long as none has
(`Good`), which is what the property says. The steps that matter are a part written, a part read, a message
written or read to its end; each has its lemmas.

`EndMeansDelivered` counts. A main ends without an error only when it has reaped all its
children and none has failed (`MainInv`), and a reader that has ended has read its share
(`Progress`): as many messages as there are. Each is of a writer and a number of its share
(`Given`), no two are the same, and as there are only as many of these pairs (the
library's `FS_Injection`) all were read; one still in the pipe would be later than those.

Nor is a message lost: one that has begun is in the pipe, in the hands of a reader or read
(`KeptInv`). So as long as a writer has parts to write some reader has not ended
(`StrandedWriter`), and a reader that finds the pipe empty has a writer that has not
(`StarvedReader`: the messages would else have to be in one place fewer than they are, of
those in the work of the readers). By these and `ClosedEnd` a child is never killed, and
never fails, before a call of some process has (`NobodyFailsFirst`). `PipeDeadlockFree` is
the safety half of `AllEnd`: whoever waits for a mutex waits for a child that moves a
message (`HeldInv`), a writer waits for a full pipe and a reader for an empty one, and
never all of those of one side for none on the other (`NobodyIsStuck`).

`EchoPrograms`: a client does not look at which line an answer answers, so the invariant
says where a line without an answer is. Over FIFOs one client at most uses those of one
start, until its `QUIT` (`UseInv`), and one line at most is on its way through the two, in the
hands of the echo included (`Passage`): none when the client is about to send one, and none
but its own when it waits. The welcome counts too, and so does the answer to the `QUIT` of
the client before. Over datagrams, of a client that waits at most its last line is on its
way, in one place only (`DatagramOf`); it may be lost, and then the client waits for ever. With
both, what a client has are the answers to the lines it has sent, but for the last one if
it waits (`AnswerInv`), and `AnswersAreTheLines` follows.

## 7. Limits

Only model-checked: all liveness, which needs fairness and `ENABLED`. All other properties
of the runs are theorems too. Only proved, for every
instance, and in no run: `SemsOutliveThreads` and `ConsumedAsDrawn` of
`ProducerConsumer`, and the formulas of the four `DeadlockFree`, of `PipeDeadlockFree`,
`NobodyFailsFirst` and `NeverBothWait`, which are in the modules of the proofs (the runs check
for deadlock or liveness in their instances). The `TypeOK` of
the later modules states the types of their variables for the reader.

Left out of the models, on purpose:

- system calls that fail for lack of resources, other than `fork` and
  `pthread_create` where a run lets them fail, and in `PipeMessages` any call of a child;
  `EINTR`, which the code mostly retries (in `do { } while` loops its `continue` tests a
  length not updated), but for that of `reverse`;
- bytes: lines longer than a buffer, sends of a part of a line and the two
  subtractions for one send in 2021 settembre (server.c:180-191), numbers too large
  for an `int`, the reversal of a line and the text of the time;
- zombies of the servers that do not wait for their children;
- datagrams repeated or out of order: the programs run over the loopback interface,
  and a client has one line unanswered;
- two clients of the echo over FIFOs that are both at their lines: the program is
  written for one at a time, and shares its two FIFOs among all it has; for the same reason
  no client is started while another, whose echo was started again, has one FIFO and looks
  for the second;
- in `NamedSession`, what lies between the calls of `initMemory` (`shm_open`, `ftruncate`,
  `mmap`, `memset`) and between the truncation and the writes of `initFile`, each one step: a
  consumer gets to the buffer after a wait on `filled`, which in its own session is posted
  after the set-up, so that only consumers that are `stale` could see an object half made,
  and be ended by SIGBUS or a short read. Nothing is claimed of what these take;
- reordering of stores by compiler or processor in `ShmRing`, which the C standard
  allows and the build the labs use does not show;
- the order of the log's records in E05, as `parseOutput` only counts them.

Not modelled, and not planned: E01 (one unprotected counter and its repair by a
thread-local sum, and timings), E04/01 (a parent and its child that hand three numbers
over once each way), E06/01 (one loop of `read` and `write`), E09 (a
skeleton), the empty papers and the unfinished texts (the echo of `E06/es3` writes in
front of its buffer, `E07/es1` and `E08/es2` stop half way, the solution in
`2021_luglio` `src/sol` does not compile), `performance.c` and other timing code.

## 8. Plan

Done, in this order: `BoundedFifo`, `ProducerConsumer`, `ShmRing`, `NamedSession`,
`AccessLog`, `Riepilogo`, `RiepilogoAttempt`, `ConnectionServer`, `Scheduler`,
`PipeMessages`, `EchoPrograms`, `Elaborator`, and the proofs of all but the three that
are small: the refinements of `BoundedFifo` are proved with those that implement it,
`AccessLog` has no properties of its own, and `RiepilogoAttempt` is there for its finding.

What could be added, the most useful first:

1. A channel of whole messages as the abstract specification of `PipeMessages`.
2. Two elaborators at once, the second of which `O_EXCL` refuses.
