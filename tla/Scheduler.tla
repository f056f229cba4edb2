------------------------------ MODULE Scheduler ------------------------------
(* The programs whose threads share NUM_RESOURCES resources, or one counter,   *)
(* by a semaphore.  Of labs/E02 - Concorrenza:                                 *)
(*   "detached" sol/scheduler_solution.c, and scheduler.c, an attempt: main    *)
(*              frees the semaphore at the end of its input, without waiting   *)
(*              for its detached threads;                                      *)
(*   "pairs"    sol/scheduler_solution1.c: the same, with the semaphore taken  *)
(*              for two work items at a time;                                  *)
(*   "joined"   sol/scheduler_solution2.c: main waits on a second semaphore    *)
(*              for as many posts as there are threads;                        *)
(*   "onExit"   sol/scheduler_solution2b.c: the end of the process frees it;   *)
(*   "counter"  sol/concurrent_threads_semaphore.c and concurrent_threads.c:   *)
(*              threads add to a variable, and main joins them;                *)
(* and of labs/E03 - Concorrenza 2/sol/es2:                                    *)
(*   "named"    server.c makes a named semaphore, client.c's threads use it.   *)
EXTENDS Integers, FiniteSets

CONSTANTS
    Programs,           \* which of the six
    NUM_RESOURCES,      \* units of the semaphore
    NUM_TASKS,          \* work items of a thread, but in "named"
    THREAD_BURST,       \* threads that one line of input starts
    MaxBursts,          \* bound: such lines for a process of each program
    NumClients,         \* bound: processes of client.c in "named"
    MaxStarts,          \* bound: starts of the server in "named"
    MayFail             \* pthread_create may fail, the server may be killed

ASSUME SchedulerAssumption ==
    /\ Programs \subseteq {"detached", "pairs", "joined", "onExit", "counter",
                           "named"}
    /\ {NUM_RESOURCES, NUM_TASKS, THREAD_BURST, NumClients, MaxStarts}
           \subseteq Nat \ {0}
    /\ MaxBursts \in [Programs -> Nat \ {0}]
    /\ MayFail \in BOOLEAN

Processes == 1 .. NumClients
MaxThreads == [p \in Programs |-> MaxBursts[p] * THREAD_BURST]
Threads == Processes \X UNION {0 .. MaxThreads[p] - 1 : p \in Programs}
Semaphores == 1 .. MaxStarts

VARIABLES
    program,
    driver,             \* the next step of the main thread of each process
    thread_ID,          \* how many threads it has started
    j,                  \* how many it has waited for
    threadPc, task,     \* each thread: next step, work item
    my_semaphore,       \* the semaphore it uses, 0 before it has opened one
    value,              \* the value of every semaphore for resources
    lost,               \* history: units its threads held when they were killed
    semaphore2,         \* the second semaphore of "joined"
    freed,              \* the semaphore of E02 has been destroyed
    shared_variable, loaded,    \* "counter": the variable, what a thread has read
    serverPc, starts,   \* "named": the server's next step, how often it started
    name                \* the semaphore the name stands for, 0 for none

drivers == <<driver, thread_ID, j>>
threads == <<threadPc, task, my_semaphore>>
counter == <<shared_variable, loaded>>
serverVars == <<serverPc, starts, name>>
vars == <<program, drivers, threads, value, lost, semaphore2, freed, counter,
          serverVars>>

Present(p) == program = "named" \/ p = 1

\* sem_init of main, or sem_open of the server.
Units == IF program = "counter" THEN 1 ELSE NUM_RESOURCES

\* A thread of "named" works once.
Items == IF program = "named" THEN 1 ELSE NUM_TASKS

Init ==
    /\ program \in Programs
    /\ driver = [p \in Processes |-> IF program = "counter" THEN "spawn" ELSE "read"]
    /\ thread_ID = [p \in Processes |-> 0] /\ j = [p \in Processes |-> 0]
    /\ threadPc = [t \in Threads |-> "none"]
    /\ task = [t \in Threads |-> 0]
    /\ my_semaphore = [t \in Threads |-> IF program = "named" THEN 0 ELSE 1]
    /\ value = [s \in Semaphores |-> IF program # "named" /\ s = 1 THEN Units ELSE 0]
    /\ lost = [s \in Semaphores |-> 0]
    /\ semaphore2 = 0 /\ freed = FALSE
    /\ shared_variable = 0 /\ loaded = [t \in Threads |-> 0]
    /\ serverPc = "down" /\ starts = 0 /\ name = 0

DriverStep(p, from, to) ==
    Present(p) /\ driver[p] = from /\ driver' = [driver EXCEPT ![p] = to]

ThreadStep(t, from, to) ==
    threadPc[t] = from /\ threadPc' = [threadPc EXCEPT ![t] = to]

\* A thread inside its critical section, with a unit of its semaphore.
Holding(t) == threadPc[t] \in {"work", "store", "release"}
Holders(s) == {t \in Threads : Holding(t) /\ my_semaphore[t] = s}
Alive(t) == threadPc[t] \notin {"none", "done", "killed"}

\* A plausible mistake: a post after every item, with a wait before some of them.
PostsAlways(i) == i \in Nat

\* The work items before which a thread waits, and after which it posts.
WaitsBefore(i) ==
    CASE program = "counter" -> TRUE
      [] program = "pairs" -> i % 2 = 0
      [] OTHER -> i = 0
PostsAfter(i) ==
    CASE program = "counter" -> TRUE
      [] program = "pairs" -> i % 2 = 1 \/ i = Items - 1
      [] OTHER -> i = Items - 1

\* Where a thread goes when item i is finished with.
AfterItem(i) ==
    IF i < Items - 1 THEN IF WaitsBefore(i + 1) THEN "acquire" ELSE "work"
    ELSE IF program = "joined" THEN "signal" ELSE "done"

-----------------------------------------------------------------------------
(* Plausible mistakes, which the properties below are shown to catch *)

\* main waits for one thread less than it has started.
LoopOverAwaitShort(p) ==
    /\ j[p] + 1 >= thread_ID[p]
    /\ DriverStep(p, "await", "destroy")
    /\ UNCHANGED <<program, thread_ID, j, threads, value, lost, semaphore2, freed,
                   counter, serverVars>>

\* A thread adds to the variable outside its critical section.
AcquireUnlocked(t) ==
    /\ ThreadStep(t, "acquire", "work")
    /\ UNCHANGED <<program, drivers, task, my_semaphore, value, lost, semaphore2, freed,
                   counter, serverVars>>

\* The post that tells main about the end of a thread is forgotten.
SignalEndMissing(t) ==
    /\ ThreadStep(t, "signal", "done")
    /\ UNCHANGED <<program, drivers, task, my_semaphore, value, lost, semaphore2, freed,
                   counter, serverVars>>

-----------------------------------------------------------------------------
(* The main thread of the programs *)

\* ENTER starts THREAD_BURST threads.
Enter(p) ==
    /\ thread_ID[p] < MaxThreads[program]
    /\ DriverStep(p, "read", "spawn")
    /\ UNCHANGED <<program, thread_ID, j, threads, value, lost, semaphore2, freed,
                   counter, serverVars>>

\* One turn of the loop that starts threads.
Spawn(p) ==
    LET t == <<p, thread_ID[p]>>
        started == thread_ID[p] + 1
    IN  /\ DriverStep(p, "spawn",
                      IF program = "counter"
                      THEN IF started = MaxThreads[program] THEN "await" ELSE "spawn"
                      ELSE IF started % THREAD_BURST = 0 THEN "read" ELSE "spawn")
        /\ thread_ID' = [thread_ID EXCEPT ![p] = started]
        /\ ThreadStep(t, "none", IF program = "named" THEN "open" ELSE "acquire")
        /\ UNCHANGED <<program, j, task, my_semaphore, value, lost, semaphore2, freed,
                       counter, serverVars>>

\* exit(1) ends every thread of the process, wherever it is.
ExitProcess(p) ==
    LET killed == {t \in Threads : t[1] = p /\ Alive(t)}
    IN  /\ driver' = [driver EXCEPT ![p] = "failed"]
        /\ threadPc' =
              [t \in Threads |-> IF t \in killed THEN "killed" ELSE threadPc[t]]
        /\ lost' = [s \in Semaphores |->
                       lost[s] + Cardinality(Holders(s) \cap killed)]
        /\ UNCHANGED <<program, thread_ID, j, task, my_semaphore, value, semaphore2,
                       freed, counter, serverVars>>

CreateFails(p) == MayFail /\ Present(p) /\ driver[p] = "spawn" /\ ExitProcess(p)

\* CTRL+D leaves the main loop.
EndOfInput(p) ==
    /\ DriverStep(p, "read", CASE program = "joined" -> "await"
                               [] program \in {"onExit", "named"} -> "gone"
                               [] OTHER -> "destroy")
    /\ UNCHANGED <<program, thread_ID, j, threads, value, lost, semaphore2, freed,
                   counter, serverVars>>

\* "joined" counts the posts of threads that end, "counter" joins them in turn.
AwaitThread(p) ==
    /\ DriverStep(p, "await", "await")
    /\ j[p] < thread_ID[p]
    /\ j' = [j EXCEPT ![p] = @ + 1]
    /\ IF program = "joined"
       THEN semaphore2 > 0 /\ semaphore2' = semaphore2 - 1
       ELSE threadPc[<<p, j[p]>>] = "done" /\ UNCHANGED semaphore2
    /\ UNCHANGED <<program, thread_ID, threads, value, lost, freed, counter,
                   serverVars>>

LoopOverAwait(p) ==
    /\ j[p] = thread_ID[p]
    /\ DriverStep(p, "await", "destroy")
    /\ UNCHANGED <<program, thread_ID, j, threads, value, lost, semaphore2, freed,
                   counter, serverVars>>

\* sem_destroy, free and pthread_exit; the process goes on with its other threads.
Destroy(p) ==
    /\ DriverStep(p, "destroy", "gone")
    /\ freed' = TRUE
    /\ UNCHANGED <<program, thread_ID, j, threads, value, lost, semaphore2, counter,
                   serverVars>>

\* "onExit": the process ends with its last thread, and its handler frees.
ExitSafely(p) ==
    /\ program = "onExit" /\ Present(p) /\ driver[p] = "gone" /\ ~freed
    /\ \A t \in Threads : ~Alive(t)
    /\ freed' = TRUE
    /\ UNCHANGED <<program, drivers, threads, value, lost, semaphore2, counter,
                   serverVars>>

-----------------------------------------------------------------------------
(* The threads *)

\* "named": sem_open of an existing name; its failure ends the process.
Open(t) ==
    /\ name # 0
    /\ ThreadStep(t, "open", "acquire")
    /\ my_semaphore' = [my_semaphore EXCEPT ![t] = name]
    /\ UNCHANGED <<program, drivers, task, value, lost, semaphore2, freed, counter,
                   serverVars>>

OpenFails(t) == threadPc[t] = "open" /\ name = 0 /\ ExitProcess(t[1])

Acquire(t) ==
    LET s == my_semaphore[t]
    IN  /\ ~freed
        /\ ThreadStep(t, "acquire", "work")
        /\ value[s] > 0 /\ value' = [value EXCEPT ![s] = @ - 1]
        /\ UNCHANGED <<program, drivers, task, my_semaphore, lost, semaphore2, freed,
                       counter, serverVars>>

\* A work item: a sleep, or shared_variable += v in a load and a store.
Work(t) ==
    /\ ThreadStep(t, "work", IF PostsAfter(task[t]) THEN "release"
                             ELSE AfterItem(task[t]))
    /\ task' = IF PostsAfter(task[t]) THEN task ELSE [task EXCEPT ![t] = @ + 1]
    /\ UNCHANGED <<program, drivers, my_semaphore, value, lost, semaphore2, freed,
                   counter, serverVars>>

LoadVariable(t) ==
    /\ ThreadStep(t, "work", "store")
    /\ loaded' = [loaded EXCEPT ![t] = shared_variable]
    /\ UNCHANGED <<program, drivers, task, my_semaphore, value, lost, semaphore2, freed,
                   shared_variable, serverVars>>

StoreVariable(t) ==
    /\ ThreadStep(t, "store", "release")
    /\ shared_variable' = loaded[t] + 1
    /\ UNCHANGED <<program, drivers, task, my_semaphore, value, lost, semaphore2, freed,
                   loaded, serverVars>>

\* sem_post, then sem_close in "named", which keeps the semaphore for the others.
Release(t) ==
    /\ ~freed
    /\ ThreadStep(t, "release", AfterItem(task[t]))
    /\ task' = [task EXCEPT ![t] = @ + 1]
    /\ value' = [value EXCEPT ![my_semaphore[t]] = @ + 1]
    /\ UNCHANGED <<program, drivers, my_semaphore, lost, semaphore2, freed, counter,
                   serverVars>>

\* A semaphore that is no more: the call may return, fail or never return.
UseFreed(t) ==
    /\ freed
    /\ \/ /\ ThreadStep(t, "acquire", "work")
          /\ UNCHANGED <<program, drivers, task, my_semaphore, value, lost, semaphore2,
                         freed, counter, serverVars>>
       \/ /\ ThreadStep(t, "release", AfterItem(task[t]))
          /\ task' = [task EXCEPT ![t] = @ + 1]
          /\ UNCHANGED <<program, drivers, my_semaphore, value, lost, semaphore2, freed,
                         counter, serverVars>>
       \/ threadPc[t] \in {"acquire", "release"} /\ ExitProcess(t[1])

SignalEnd(t) ==
    /\ ThreadStep(t, "signal", "done")
    /\ semaphore2' = semaphore2 + 1
    /\ UNCHANGED <<program, drivers, task, my_semaphore, value, lost, freed, counter,
                   serverVars>>

-----------------------------------------------------------------------------
(* The server of "named" *)

UnlinkOld ==
    /\ program = "named" /\ starts < MaxStarts
    /\ serverPc = "down" /\ serverPc' = "create"
    /\ name' = 0
    /\ UNCHANGED <<program, drivers, threads, value, lost, semaphore2, freed, counter,
                   starts>>

CreateSemaphore ==
    /\ serverPc = "create" /\ serverPc' = "up"
    /\ starts' = starts + 1 /\ name' = starts + 1
    /\ value' = [value EXCEPT ![starts + 1] = Units]
    /\ UNCHANGED <<program, drivers, threads, lost, semaphore2, freed, counter>>

\* CTRL+C: cleanup closes the semaphore, unlinks its name and exits.
Cleanup ==
    /\ serverPc = "up" /\ serverPc' = "down"
    /\ name' = 0
    /\ UNCHANGED <<program, drivers, threads, value, lost, semaphore2, freed, counter,
                   starts>>

\* The server is killed, and the name stays.
ServerKilled ==
    /\ MayFail
    /\ serverPc = "up" /\ serverPc' = "down"
    /\ UNCHANGED <<program, drivers, threads, value, lost, semaphore2, freed, counter,
                   starts, name>>

-----------------------------------------------------------------------------
(* The programs *)

\* What the main threads have in common, and the end of each.
DriverLoop(p) == Enter(p) \/ Spawn(p) \/ CreateFails(p) \/ EndOfInput(p)
AwaitThreads(p) == AwaitThread(p) \/ LoopOverAwait(p)

DetachingDriver(p) == DriverLoop(p) \/ Destroy(p)
WaitingDriver(p) == DriverLoop(p) \/ AwaitThreads(p) \/ Destroy(p)
ExitingDriver(p) == DriverLoop(p) \/ ExitSafely(p)
CountingDriver(p) == Spawn(p) \/ CreateFails(p) \/ AwaitThreads(p) \/ Destroy(p)

DriverNext(p) ==
    \/ program \in {"detached", "pairs"} /\ DetachingDriver(p)
    \/ program = "joined" /\ WaitingDriver(p)
    \/ program = "onExit" /\ ExitingDriver(p)
    \/ program = "counter" /\ CountingDriver(p)
    \/ program = "named" /\ DriverLoop(p)

ClientThread(t) == Acquire(t) \/ Work(t) \/ Release(t)
SignallingThread(t) == ClientThread(t) \/ SignalEnd(t)
CounterThread(t) ==
    Acquire(t) \/ LoadVariable(t) \/ StoreVariable(t) \/ Release(t)
NamedThread(t) == Open(t) \/ OpenFails(t) \/ ClientThread(t)

ThreadNext(t) ==
    \/ program \in {"detached", "pairs", "onExit"} /\ ClientThread(t)
    \/ program = "joined" /\ SignallingThread(t)
    \/ program = "counter" /\ CounterThread(t)
    \/ program = "named" /\ NamedThread(t)

Server == UnlinkOld \/ CreateSemaphore \/ Cleanup \/ ServerKilled

Next ==
    \/ \E p \in Processes : DriverNext(p)
    \/ \E t \in Threads : ThreadNext(t) \/ UseFreed(t)
    \/ Server

\* Whoever can run does, and every input ends.
Fairness ==
    /\ \A p \in Processes :
          /\ WF_vars(Spawn(p) \/ AwaitThreads(p) \/ Destroy(p) \/ ExitSafely(p))
          /\ WF_vars(EndOfInput(p))
    /\ \A t \in Threads : WF_vars(ThreadNext(t))

Spec == Init /\ [][Next]_vars

FairSpec == Spec /\ Fairness

-----------------------------------------------------------------------------
(* What the programs promise *)

TypeOK ==
    /\ program \in Programs
    /\ driver \in [Processes -> {"read", "spawn", "await", "destroy", "gone", "failed"}]
    /\ thread_ID \in [Processes -> 0 .. MaxThreads[program]] /\ j \in [Processes -> Nat]
    /\ threadPc \in [Threads -> {"none", "open", "acquire", "work", "store", "release",
                                 "signal", "done", "killed"}]
    /\ task \in [Threads -> 0 .. NUM_TASKS]
    /\ my_semaphore \in [Threads -> {0} \cup Semaphores]
    /\ value \in [Semaphores -> 0 .. Units] /\ lost \in [Semaphores -> Nat]
    /\ semaphore2 \in Nat /\ freed \in BOOLEAN
    /\ shared_variable \in Nat /\ loaded \in [Threads -> Nat]
    /\ serverPc \in {"down", "create", "up"}
    /\ starts \in 0 .. MaxStarts /\ name \in {0} \cup Semaphores

\* Every unit of a semaphore is free, in the hands of one thread, or went with a
\* process that ended while a thread held it: never are more than NUM_RESOURCES
\* threads at work by the same semaphore, however the items are grouped, and only
\* such an end lowers the number for the other processes.
UnitsConserved ==
    ~freed => \A s \in Semaphores :
        value[s] + Cardinality(Holders(s)) + lost[s]
            = IF program # "named" THEN IF s = 1 THEN Units ELSE 0
              ELSE IF s <= starts THEN NUM_RESOURCES ELSE 0

\* The programs that take care of the end free the semaphore when no thread will
\* use it any more; the threads of the others may find it gone.
FreedAfterUse ==
    program \in {"joined", "onExit", "counter"} /\ freed
        => \A t \in Threads : threadPc[t] \notin {"acquire", "work", "store", "release"}

\* "The value of the shared variable is ...": no addition is lost.
NoLostAdds ==
    program = "counter" /\ freed => shared_variable = MaxThreads[program] * NUM_TASKS

\* As long as no process ends by an error and no semaphore is freed under its
\* threads, every thread is served, also by a semaphore whose server is gone, and
\* main ends.
AllServed ==
    []( /\ \A p \in Processes : driver[p] # "failed"
        /\ freed => \A t \in Threads : ~Alive(t) )
        => <>( /\ \A p \in Processes : Present(p) => driver[p] = "gone"
               /\ \A t \in Threads : ~Alive(t) )
=============================================================================
