------------------------------ MODULE AccessLog ------------------------------
(* The threads of labs/E05 - Riepilogo: each child process creates threads     *)
(* that append the child's identity to a log file shared by all the processes, *)
(* under a named semaphore.  The module has the threads' own steps; Riepilogo  *)
(* and RiepilogoAttempt add the processes that create and join them.           *)
EXTENDS Integers, FiniteSets

CONSTANTS
    N,      \* child processes
    M       \* threads each child creates at a time

ASSUME SizesAssumption == N \in Nat \ {0} /\ M \in Nat \ {0}

Children == 0 .. N - 1
Threads == Children \X (0 .. M - 1)

VARIABLES
    critical_section,   \* the value of the semaphore
    threadPc,           \* the next step of each thread
    log                 \* how many records of each child the file holds

logVars == <<critical_section, threadPc, log>>

\* init_file leaves an empty file; the order of its records is not kept, as
\* parseOutput only counts them.
LogInit ==
    /\ critical_section = 1
    /\ threadPc = [t \in Threads |-> "none"]
    /\ log = [c \in Children |-> 0]

ThreadStep(t, from, to) ==
    threadPc[t] = from /\ threadPc' = [threadPc EXCEPT ![t] = to]

\* The wait for the semaphore is left out.
EnterUnlocked(t) ==
    ThreadStep(t, "wait", "open") /\ UNCHANGED <<critical_section, log>>

EnterCritical(t) ==
    /\ ThreadStep(t, "wait", "open")
    /\ critical_section > 0
    /\ critical_section' = critical_section - 1
    /\ UNCHANGED log

OpenFile(t) ==
    ThreadStep(t, "open", "write") /\ UNCHANGED <<critical_section, log>>

WriteRecord(t) ==
    /\ ThreadStep(t, "write", "close")
    /\ log' = [log EXCEPT ![t[1]] = @ + 1]
    /\ UNCHANGED critical_section

CloseFile(t) ==
    ThreadStep(t, "close", "post") /\ UNCHANGED <<critical_section, log>>

LeaveCritical(t) ==
    /\ ThreadStep(t, "post", "done")
    /\ critical_section' = critical_section + 1
    /\ UNCHANGED log

\* thread_function, from its sem_wait to its pthread_exit.
ThreadNext(t) ==
    \/ EnterCritical(t) \/ OpenFile(t) \/ WriteRecord(t) \/ CloseFile(t)
    \/ LeaveCritical(t)

\* A thread that has been created and has not ended.
Running(t) == threadPc[t] \in {"wait", "open", "write", "close", "post"}

\* The threads inside the critical section.
Inside == {t \in Threads : threadPc[t] \in {"open", "write", "close", "post"}}

LogTypeOK ==
    /\ critical_section \in {0, 1}
    /\ threadPc \in [Threads -> {"none", "wait", "open", "write", "close", "post",
                                 "done", "killed"}]
    /\ log \in [Children -> Nat]

\* No two threads, of the same process or of different ones, are at work on the
\* file at once.
ExclusiveFile == \A t, u \in Inside : t = u
=============================================================================
