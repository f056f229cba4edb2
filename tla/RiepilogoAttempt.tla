--------------------------- MODULE RiepilogoAttempt ---------------------------
(* labs/E05 - Riepilogo/riepilogo.c, the author's own attempt: the processes   *)
(* are told to start and to end by one word of shared memory, 0, then 1, then  *)
(* 0 again, which the children poll; nothing says that a child is ready.       *)
EXTENDS AccessLog

CONSTANT MaxBursts      \* bound: bursts a child makes before the word is 0 again

VARIABLES
    mainPc, i,              \* the main process: step, loop counter
    shared_memory,          \* *shared_memory_ptr
    childPc, j,             \* each child: step, loop counter
    bursts                  \* b of each child

mainVars == <<mainPc, i>>
childVars == <<childPc, j, bursts>>
vars == <<logVars, mainVars, shared_memory, childVars>>

\* The state main has set up before its first fork: ftruncate leaves a 0.
Init ==
    /\ LogInit
    /\ mainPc = "fork" /\ i = 0
    /\ shared_memory = 0
    /\ childPc = [c \in Children |-> "unborn"]
    /\ j = [c \in Children |-> 0]
    /\ bursts = [c \in Children |-> 0]

MainLoop(here, next) ==
    /\ mainPc = here
    /\ mainPc' = IF i + 1 = N THEN next ELSE here
    /\ i' = IF i + 1 = N THEN 0 ELSE i + 1

ChildStep(c, from, to) ==
    childPc[c] = from /\ childPc' = [childPc EXCEPT ![c] = to]

ChildLoop(c, here, next) ==
    /\ ChildStep(c, here, IF j[c] + 1 = M THEN next ELSE here)
    /\ j' = [j EXCEPT ![c] = IF j[c] + 1 = M THEN 0 ELSE j[c] + 1]

Fork ==
    /\ MainLoop("fork", "start")
    /\ ChildStep(i, "unborn", "open")
    /\ UNCHANGED <<logVars, shared_memory, j, bursts>>

SignalStart ==
    /\ mainPc = "start" /\ mainPc' = "sleep"
    /\ shared_memory' = 1
    /\ UNCHANGED <<logVars, i, childVars>>

\* The sleep is over at any time at all.
SignalStop ==
    /\ mainPc = "sleep" /\ mainPc' = "waitpid"
    /\ shared_memory' = 0
    /\ UNCHANGED <<logVars, i, childVars>>

\* waitpid waits for the children in the order of their creation.
WaitPid ==
    /\ childPc[i] = "exited"
    /\ MainLoop("waitpid", "cleanup")
    /\ UNCHANGED <<logVars, shared_memory, childVars>>

\* The semaphore and the memory are released, then the log is parsed.
CleanUp ==
    /\ mainPc = "cleanup" /\ mainPc' = "exited"
    /\ UNCHANGED <<logVars, i, shared_memory, childVars>>

\* The child opens the memory again and maps it.
OpenMemory(c) ==
    /\ ChildStep(c, "open", "spin")
    /\ UNCHANGED <<logVars, mainVars, shared_memory, j, bursts>>

\* while(*shared_memory_ptr == 0) {}
Spin(c) ==
    /\ shared_memory # 0
    /\ ChildStep(c, "spin", "test")
    /\ UNCHANGED <<logVars, mainVars, shared_memory, j, bursts>>

\* The condition of the for; a child at its bound waits for the word to change.
Test(c) ==
    /\ IF shared_memory = 1
       THEN bursts[c] < MaxBursts /\ ChildStep(c, "test", "create")
       ELSE ChildStep(c, "test", "close")
    /\ UNCHANGED <<logVars, mainVars, shared_memory, j, bursts>>

CreateThread(c) ==
    /\ ChildLoop(c, "create", "join")
    /\ threadPc' = [threadPc EXCEPT ![<<c, j[c]>>] = "wait"]
    /\ UNCHANGED <<critical_section, log, mainVars, shared_memory, bursts>>

JoinThread(c) ==
    /\ threadPc[<<c, j[c]>>] = "done"
    /\ ChildLoop(c, "join", "test")
    /\ bursts' = IF j[c] + 1 = M THEN [bursts EXCEPT ![c] = @ + 1] ELSE bursts
    /\ UNCHANGED <<logVars, mainVars, shared_memory>>

ExitChild(c) ==
    /\ ChildStep(c, "close", "exited")
    /\ UNCHANGED <<logVars, mainVars, shared_memory, j, bursts>>

MainNext == Fork \/ SignalStart \/ SignalStop \/ WaitPid \/ CleanUp

ChildNext(c) ==
    \/ OpenMemory(c) \/ Spin(c) \/ Test(c) \/ CreateThread(c) \/ JoinThread(c)
    \/ ExitChild(c)

LogThread(t) == ThreadNext(t) /\ UNCHANGED <<mainVars, shared_memory, childVars>>

\* A child that polls a word that is 0 again goes on for ever.
Polling == shared_memory = 0 /\ (\E c \in Children : childPc[c] = "spin") /\ UNCHANGED vars

Exited == mainPc = "exited" /\ UNCHANGED vars

Next ==
    \/ MainNext
    \/ Polling
    \/ Exited
    \/ \E c \in Children : ChildNext(c)
    \/ \E t \in Threads : LogThread(t)

\* The scheduler runs whoever can run, and every sleep ends.
Fairness ==
    /\ WF_vars(MainNext)
    /\ \A c \in Children : WF_vars(ChildNext(c))
    /\ \A t \in Threads : WF_vars(LogThread(t))

Spec == Init /\ [][Next]_vars

FairSpec == Spec /\ Fairness

-----------------------------------------------------------------------------

\* "... it notifies the children to end their activities, and waits for their
\* termination.  Finally, it calls the parseOutput() method": main gets there.
MainGetsToParse == <>(mainPc = "exited")
=============================================================================
