------------------------------ MODULE Riepilogo ------------------------------
(* labs/E05 - Riepilogo/sol/riepilogo.c, "[only semaphores]riepilogo.c" and    *)
(* labs/E06 - PIPE & FIFO/sol/04 riepilogo/riepilogo.c: the main process forks *)
(* N children, waits until all are ready, lets them start together, sleeps,    *)
(* tells them to end, waits for them and counts the accesses in the log.  The  *)
(* notice to end is a word of shared memory or the value of a semaphore: a     *)
(* flag in both cases.  The start is a semaphore that main posts N times, or,  *)
(* in E06, a FIFO that main opens to read and each child to write.             *)
EXTENDS AccessLog

CONSTANTS
    Starts,     \* the programs: how main lets the children start
    MaxRounds,  \* bound: rounds a child makes before the notice
    MayFail     \* fork and pthread_create may fail

ASSUME RunAssumption ==
    /\ Starts \subseteq {"semaphore", "fifo"} /\ Starts # {}
    /\ MaxRounds \in Nat \ {0} /\ MayFail \in BOOLEAN

VARIABLES
    start,                      \* the program that runs
    mainPc, i,                  \* the main process: step, loop counter
    main_waits_for_children, children_wait_for_main,
    data,                       \* the notice to end
    childPc, j,                 \* each child: step, loop counter
    status,                     \* exit status of each child, -1 while it runs
    reaped,                     \* children main has waited for
    winner,                     \* << >>, then what parseOutput found
    linked,                     \* the names exist
    leftover,                   \* history: they did before main began
    rounds,                     \* history: rounds each child completed
    roundsAtNotice              \* history: rounds when the notice was given

setting == <<start, leftover>>
mainVars == <<setting, mainPc, i, reaped, winner, linked>>
sems == <<main_waits_for_children, children_wait_for_main>>
childVars == <<childPc, j, status, rounds>>
notice == <<data, roundsAtNotice>>
vars == <<logVars, mainVars, sems, childVars, notice>>

\* main begins; a run that failed may have left its names behind.
Init ==
    /\ LogInit
    /\ start \in Starts
    /\ mainPc = "setUp" /\ i = 0 /\ reaped = {} /\ winner = << >>
    /\ leftover \in BOOLEAN /\ linked = leftover
    /\ main_waits_for_children = 0 /\ children_wait_for_main = 0
    /\ data = FALSE
    /\ childPc = [c \in Children |-> "unborn"]
    /\ j = [c \in Children |-> 0]
    /\ status = [c \in Children |-> -1]
    /\ rounds = [c \in Children |-> 0]
    /\ roundsAtNotice = [c \in Children |-> 0]

\* One turn of a loop of main: next tells where the last of N turns goes.
MainLoop(here, next) ==
    /\ mainPc = here
    /\ mainPc' = IF i + 1 = N THEN next ELSE here
    /\ i' = IF i + 1 = N THEN 0 ELSE i + 1

ChildStep(c, from, to) ==
    childPc[c] = from /\ childPc' = [childPc EXCEPT ![c] = to]

\* One turn of a loop of child c over its M threads.
ChildLoop(c, here, next) ==
    /\ ChildStep(c, here, IF j[c] + 1 = M THEN next ELSE here)
    /\ j' = [j EXCEPT ![c] = IF j[c] + 1 = M THEN 0 ELSE j[c] + 1]

\* parseOutput's scan: a child replaces the best one so far if it beats it.
MostAccesses(stats) ==
    LET best[k \in 0 .. N] ==
            IF k = 0 THEN -1
            ELSE IF best[k - 1] = -1 \/ stats[k - 1] > stats[best[k - 1]] THEN k - 1
            ELSE best[k - 1]
    IN  best[N]

-----------------------------------------------------------------------------
(* Plausible mistakes, which the properties below are shown to catch *)

\* main starts the children as soon as the first one is ready.
WaitReadyOnce ==
    /\ mainPc = "waitReady"
    /\ main_waits_for_children > 0
    /\ main_waits_for_children' = main_waits_for_children - 1
    /\ mainPc' = "postStart"
    /\ UNCHANGED <<setting, logVars, i, reaped, winner, linked, children_wait_for_main,
                   childVars, notice>>

\* One post is taken to wake up every child.
PostStartOnce ==
    /\ mainPc = "postStart"
    /\ children_wait_for_main' = children_wait_for_main + 1
    /\ mainPc' = "sleep"
    /\ UNCHANGED <<setting, logVars, i, reaped, winner, linked, main_waits_for_children,
                   childVars, notice>>

\* The notice is looked at every other round only.
CheckEveryOtherRound(c) ==
    /\ IF data /\ rounds[c] % 2 = 0
       THEN ChildStep(c, "check", "close")
       ELSE (data \/ rounds[c] < MaxRounds) /\ ChildStep(c, "check", "create")
    /\ UNCHANGED <<logVars, mainVars, sems, j, status, rounds, notice>>

\* The error of pthread_create is ignored.
CreateUnchecked(c) ==
    /\ MayFail
    /\ ChildLoop(c, "create", "join")
    /\ UNCHANGED <<logVars, mainVars, sems, status, rounds, notice>>

\* main counts the accesses when the first child has ended.
ReapOne(c) ==
    /\ status[c] # -1 /\ c \notin reaped
    /\ reaped' = reaped \cup {c}
    /\ mainPc = "reap" /\ mainPc' = IF status[c] = 0 THEN "parse" ELSE "failed"
    /\ UNCHANGED <<setting, logVars, i, winner, linked, sems, childVars, notice>>

-----------------------------------------------------------------------------
(* The main process *)

\* Every name is unlinked before it is created, but for the FIFO: mkfifo fails,
\* after the shared memory is made again, if the FIFO is there.
SetUp ==
    /\ mainPc = "setUp"
    /\ mainPc' = IF start = "fifo" /\ linked THEN "cannotStart" ELSE "fork"
    /\ linked' = TRUE
    /\ UNCHANGED <<setting, logVars, i, reaped, winner, sems, childVars, notice>>

Fork ==
    /\ MainLoop("fork", "waitReady")
    /\ ChildStep(i, "unborn", "postReady")
    /\ UNCHANGED <<setting, logVars, reaped, winner, linked, sems, j, status, rounds,
                   notice>>

\* exit(EXIT_FAILURE), leaving behind the children forked so far.
ForkFails ==
    /\ MayFail
    /\ mainPc = "fork" /\ mainPc' = "failed"
    /\ UNCHANGED <<setting, logVars, i, reaped, winner, linked, sems, childVars,
                   notice>>

WaitReady ==
    /\ main_waits_for_children > 0
    /\ main_waits_for_children' = main_waits_for_children - 1
    /\ MainLoop("waitReady", IF start = "fifo" THEN "openFifo" ELSE "postStart")
    /\ UNCHANGED <<setting, logVars, reaped, winner, linked, children_wait_for_main,
                   childVars, notice>>

PostStart ==
    /\ children_wait_for_main' = children_wait_for_main + 1
    /\ MainLoop("postStart", "sleep")
    /\ UNCHANGED <<setting, logVars, reaped, winner, linked, main_waits_for_children,
                   childVars, notice>>

\* main opens the FIFO to read: it waits until some child has come to open it.
OpenFifo ==
    /\ mainPc = "openFifo" /\ mainPc' = "sleep"
    /\ \E c \in Children : childPc[c] \notin {"unborn", "postReady"}
    /\ UNCHANGED <<setting, logVars, i, reaped, winner, linked, sems, childVars,
                   notice>>

\* The sleep is over at any time at all.
NotifyEnd ==
    /\ mainPc = "sleep" /\ mainPc' = "reap"
    /\ data' = TRUE
    /\ roundsAtNotice' = rounds
    /\ UNCHANGED <<setting, logVars, i, reaped, winner, linked, sems, childVars>>

\* wait() returns any child that has ended; a failed one ends main too.
Reap(c) ==
    /\ status[c] # -1 /\ c \notin reaped
    /\ reaped' = reaped \cup {c}
    /\ \/ status[c] = 0 /\ MainLoop("reap", "parse")
       \/ status[c] # 0 /\ mainPc = "reap" /\ mainPc' = "failed" /\ UNCHANGED i
    /\ UNCHANGED <<setting, logVars, winner, linked, sems, childVars, notice>>

ParseOutput ==
    /\ mainPc = "parse" /\ mainPc' = "cleanup"
    /\ winner' = <<MostAccesses(log), log>>
    /\ UNCHANGED <<setting, logVars, i, reaped, linked, sems, childVars, notice>>

CleanUp ==
    /\ mainPc = "cleanup" /\ mainPc' = "exited"
    /\ linked' = FALSE
    /\ UNCHANGED <<setting, logVars, i, reaped, winner, sems, childVars, notice>>

-----------------------------------------------------------------------------
(* The child processes *)

PostReady(c) ==
    /\ ChildStep(c, "postReady", "waitStart")
    /\ main_waits_for_children' = main_waits_for_children + 1
    /\ UNCHANGED <<logVars, mainVars, children_wait_for_main, j, status, rounds,
                   notice>>

WaitStart(c) ==
    /\ ChildStep(c, "waitStart", "create")
    /\ children_wait_for_main > 0
    /\ children_wait_for_main' = children_wait_for_main - 1
    /\ UNCHANGED <<logVars, mainVars, main_waits_for_children, j, status, rounds,
                   notice>>

\* A child that opens the FIFO to write waits until main has come to open it,
\* and main holds it open until its cleaning up.
OpenStart(c) ==
    /\ ChildStep(c, "waitStart", "create")
    /\ mainPc \in {"openFifo", "sleep", "reap"}
    /\ UNCHANGED <<logVars, mainVars, sems, j, status, rounds, notice>>

CreateThread(c) ==
    /\ ChildLoop(c, "create", "join")
    /\ threadPc' = [threadPc EXCEPT ![<<c, j[c]>>] = "wait"]
    /\ UNCHANGED <<critical_section, log, mainVars, sems, status, rounds, notice>>

\* handle_error_en ends the process and every thread of it, wherever they are.
CreateFails(c) ==
    /\ MayFail
    /\ ChildStep(c, "create", "exited")
    /\ status' = [status EXCEPT ![c] = 1]
    /\ threadPc' = [t \in Threads |-> IF t[1] = c /\ Running(t) THEN "killed"
                                      ELSE threadPc[t]]
    /\ UNCHANGED <<critical_section, log, mainVars, sems, j, rounds, notice>>

JoinThread(c) ==
    /\ threadPc[<<c, j[c]>>] = "done"
    /\ ChildLoop(c, "join", "check")
    /\ rounds' = IF j[c] + 1 = M THEN [rounds EXCEPT ![c] = @ + 1] ELSE rounds
    /\ UNCHANGED <<logVars, mainVars, sems, status, notice>>

\* if (*data) break; a child at its bound waits for the notice.
Check(c) ==
    /\ IF data THEN ChildStep(c, "check", "close")
       ELSE rounds[c] < MaxRounds /\ ChildStep(c, "check", "create")
    /\ UNCHANGED <<logVars, mainVars, sems, j, status, rounds, notice>>

ExitChild(c) ==
    /\ ChildStep(c, "close", "exited")
    /\ status' = [status EXCEPT ![c] = 0]
    /\ UNCHANGED <<logVars, mainVars, sems, j, rounds, notice>>

\* What main and a child do in every program.
MainProcess ==
    \/ WaitReady \/ NotifyEnd \/ ParseOutput \/ CleanUp
    \/ \E c \in Children : Reap(c)

ChildProcess(c) ==
    \/ PostReady(c) \/ CreateThread(c) \/ CreateFails(c)
    \/ JoinThread(c) \/ Check(c) \/ ExitChild(c)

\* The programs of E05, where main posts a semaphore, and of E06, with a FIFO.
SemaphoreMain == start = "semaphore" /\ (MainProcess \/ PostStart)
SemaphoreChild(c) == start = "semaphore" /\ (ChildProcess(c) \/ WaitStart(c))
FifoMain == start = "fifo" /\ (MainProcess \/ OpenFifo)
FifoChild(c) == start = "fifo" /\ (ChildProcess(c) \/ OpenStart(c))

Launch == SetUp \/ Fork \/ ForkFails
MainNext == Launch \/ SemaphoreMain \/ FifoMain
ChildNext(c) == SemaphoreChild(c) \/ FifoChild(c)

LogThread(t) ==
    ThreadNext(t) /\ UNCHANGED <<mainVars, sems, childVars, notice>>

\* main has ended: whoever is still there may stay blocked for ever.
MainEnded == mainPc \in {"exited", "failed", "cannotStart"} /\ UNCHANGED vars

Next ==
    \/ MainNext
    \/ MainEnded
    \/ \E c \in Children : ChildNext(c)
    \/ \E t \in Threads : LogThread(t)

\* The scheduler runs whoever can run, and every sleep ends.
Fairness ==
    /\ WF_vars(MainNext)
    /\ \A c \in Children : WF_vars(ChildNext(c))
    /\ \A t \in Threads : WF_vars(LogThread(t))

Spec == Init /\ [][Next]_vars

FairSpec == Spec /\ Fairness

-----------------------------------------------------------------------------
(* What the program promises *)

\* The variables keep their types; no semaphore is ever posted more than N
\* times ahead of its waits.
TypeOK ==
    /\ LogTypeOK
    /\ start \in Starts /\ leftover \in BOOLEAN
    /\ mainPc \in {"setUp", "cannotStart", "fork", "waitReady", "postStart", "openFifo",
                   "sleep", "reap", "parse", "cleanup", "exited", "failed"}
    /\ i \in 0 .. N - 1
    /\ reaped \subseteq Children
    /\ linked \in BOOLEAN
    /\ main_waits_for_children \in 0 .. N /\ children_wait_for_main \in 0 .. N
    /\ data \in BOOLEAN
    /\ childPc \in [Children -> {"unborn", "postReady", "waitStart", "create",
                                 "join", "check", "close", "exited"}]
    /\ j \in [Children -> 0 .. M - 1]
    /\ status \in [Children -> {-1, 0, 1}]
    /\ rounds \in [Children -> 0 .. MaxRounds]
    /\ roundsAtNotice \in [Children -> 0 .. MaxRounds]
    /\ winner = << >> \/ winner[1] \in Children

\* The two semaphores make a barrier: no child starts its activities before
\* every child has said that it is ready.
NobodyStartsEarly ==
    \A c, d \in Children :
        childPc[c] \notin {"unborn", "postReady", "waitStart"}
            => childPc[d] \notin {"unborn", "postReady"}

\* When main counts the accesses nobody is writing any more, every child has
\* made at least one whole round, and no child has failed: the child main
\* reports is the one with the most accesses, for good.
CountIsFinal ==
    winner # << >> =>
        /\ winner[2] = log
        /\ \A c \in Children : log[c] <= log[winner[1]]
        /\ \A c \in Children :
               status[c] = 0 /\ log[c] = M * rounds[c] /\ rounds[c] >= 1

\* However late a child sees the notice, it completes at most the round it is in.
AtMostOneMoreRound ==
    data => \A c \in Children : rounds[c] <= roundsAtNotice[c] + 1

\* No call has failed, neither fork in main nor pthread_create in a child.
NothingFailed == mainPc # "failed" /\ \A c \in Children : status[c] # 1

\* Without failures every process ends, and main reaches the log and the end of
\* its cleaning up: the barrier wakes up every child and the notice reaches them.
\* That an earlier run left its names behind matters to the program with a FIFO.
AllTerminate ==
    [](NothingFailed /\ (start = "fifo" => ~leftover))
        => <>(mainPc = "exited" /\ \A c \in Children : childPc[c] = "exited")

\* A child that dies with the lock in its hands blocks the others for ever, but
\* not main, which ends at the first child that failed.
MainTerminates == <>(mainPc \in {"exited", "failed", "cannotStart"})
=============================================================================
