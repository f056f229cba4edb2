--------------------------- MODULE RiepilogoProofs ---------------------------
(* What Riepilogo promises for every number of children, of threads and of     *)
(* rounds, with any creation that fails: the file is one thread's at a time,   *)
(* nobody starts before all are ready, and nobody goes on after the notice.    *)
EXTENDS Riepilogo, FiniteSetTheorems, WellFoundedInduction, TLAPS

-----------------------------------------------------------------------------
(* Induction over the natural numbers, as a fact about sets of them *)

\* A set of natural numbers has a least one.
LEMMA LeastNumber ==
  ASSUME NEW S \in SUBSET Nat, S # {}
  PROVE  \E n \in S : \A k \in S : n <= k
  <1>. DEFINE R == {x \in Nat \X Nat : x[1] < x[2]}
  <1>1. IsWellFoundedOn(R, Nat)
    BY NatLessThanWellFounded DEF OpToRel
  <1>. HIDE DEF R
  <1>2. PICK n \in S : \A k \in S : ~ (<<k, n>> \in R)
    BY <1>1, WFMin
  <1>3. \A k \in S : ~ (k < n)
    BY <1>2 DEF R
  <1>. QED
    BY <1>3

\* A set with 0, and with n + 1 wherever it has n, has all of them.
LEMMA SetInduction ==
  ASSUME NEW S, 0 \in S, \A n \in Nat : n \in S => n + 1 \in S
  PROVE  Nat \subseteq S
  <1>. SUFFICES ASSUME Nat \ S # {}
                PROVE  FALSE
    OBVIOUS
  <1>1. PICK n \in Nat \ S : \A k \in Nat \ S : n <= k
    BY LeastNumber
  <1>2. n # 0 /\ n - 1 \in Nat /\ n - 1 \in S
    BY <1>1
  <1>3. (n - 1) + 1 \in S
    BY <1>2
  <1>. QED
    BY <1>1, <1>3

-----------------------------------------------------------------------------
(* The inductive invariants *)

\* The types of the variables, as far as each step keeps them.
Types ==
  /\ critical_section \in Nat
  /\ threadPc \in [Threads -> {"none", "wait", "open", "write", "close", "post",
                               "done", "killed"}]
  /\ start \in Starts
  /\ mainPc \in {"setUp", "cannotStart", "fork", "waitReady", "postStart", "openFifo",
                 "sleep", "reap", "parse", "cleanup", "exited", "failed"}
  /\ i \in 0 .. N - 1
  /\ main_waits_for_children \in Nat /\ children_wait_for_main \in Nat
  /\ childPc \in [Children -> {"unborn", "postReady", "waitStart", "create",
                               "join", "check", "close", "exited"}]
  /\ j \in [Children -> 0 .. M - 1]
  /\ rounds \in [Children -> Nat] /\ roundsAtNotice \in [Children -> Nat]

\* The lock is free only when nobody is inside.
LockInv ==
  /\ critical_section \in {0, 1}
  /\ critical_section = 1 => Inside = {}
  /\ ExclusiveFile

\* Once the notice is given a child either is in the round it was in, or has
\* completed it and cannot begin another.
NoticeInv ==
  data => \A c \in Children :
      \/ rounds[c] = roundsAtNotice[c]
      \/ /\ rounds[c] = roundsAtNotice[c] + 1
         /\ childPc[c] \in {"check", "close", "exited"}

\* The children that have said that they are ready, and those that have started.
Ready == {c \in Children : childPc[c] \notin {"unborn", "postReady"}}
Started == {c \in Children : childPc[c] \notin {"unborn", "postReady", "waitStart"}}

\* The posts of the children are on the semaphore or have been taken by main, which
\* goes on to the start when it has taken N; nobody starts, and no start is given,
\* until then.
BarrierInv ==
  /\ mainPc \in {"setUp", "cannotStart", "fork"} =>
        main_waits_for_children = Cardinality(Ready)
  /\ mainPc = "waitReady" => main_waits_for_children + i = Cardinality(Ready)
  /\ mainPc \in {"postStart", "openFifo", "sleep", "reap", "parse", "cleanup", "exited"}
        => Ready = Children
  /\ children_wait_for_main > 0 => Ready = Children
  /\ Started # {} => Ready = Children

-----------------------------------------------------------------------------
(* Types *)

\* The types hold at the start and after every step.
LEMMA TypesInit == Init => Types
  BY SizesAssumption DEF Init, LogInit, Types

LEMMA TypesStep ==
  ASSUME Types, [Next]_vars
  PROVE  Types'
  <1>. USE SizesAssumption DEF Types
  <1>1. CASE SetUp
    BY <1>1 DEF SetUp, setting, logVars, sems, childVars, notice
  <1>2. CASE Fork
    <2>1. mainPc' \in {"fork", "waitReady"} /\ i' \in 0 .. N - 1
      BY <1>2 DEF Fork, MainLoop
    <2>2. /\ childPc' = [childPc EXCEPT ![i] = "postReady"]
          /\ UNCHANGED <<logVars, start, sems, j, rounds, notice>>
      BY <1>2 DEF Fork, ChildStep, setting
    <2>. QED
      BY <2>1, <2>2 DEF logVars, sems, notice
  <1>3. CASE ForkFails
    BY <1>3 DEF ForkFails, setting, logVars, sems, childVars, notice
  <1>4. CASE WaitReady
    BY <1>4 DEF WaitReady, MainLoop, setting, logVars, childVars, notice
  <1>5. CASE PostStart
    BY <1>5 DEF PostStart, MainLoop, setting, logVars, childVars, notice
  <1>6. CASE OpenFifo
    BY <1>6 DEF OpenFifo, setting, logVars, sems, childVars, notice
  <1>7. CASE NotifyEnd
    BY <1>7 DEF NotifyEnd, setting, logVars, sems, childVars
  <1>8. ASSUME NEW c \in Children, Reap(c)
        PROVE  Types'
    BY <1>8 DEF Reap, MainLoop, setting, logVars, sems, childVars, notice
  <1>9. CASE ParseOutput
    BY <1>9 DEF ParseOutput, setting, logVars, sems, childVars, notice
  <1>10. CASE CleanUp
    BY <1>10 DEF CleanUp, setting, logVars, sems, childVars, notice
  <1>11. ASSUME NEW c \in Children, PostReady(c)
         PROVE  Types'
    BY <1>11 DEF PostReady, ChildStep, logVars, mainVars, setting, notice
  <1>12. ASSUME NEW c \in Children, WaitStart(c)
         PROVE  Types'
    BY <1>12 DEF WaitStart, ChildStep, logVars, mainVars, setting, notice
  <1>13. ASSUME NEW c \in Children, OpenStart(c)
         PROVE  Types'
    BY <1>13 DEF OpenStart, ChildStep, logVars, mainVars, setting, sems, notice
  <1>14. ASSUME NEW c \in Children, CreateThread(c)
         PROVE  Types'
    <2>1. /\ childPc' = [childPc EXCEPT ![c] = IF j[c] + 1 = M THEN "join"
                                              ELSE "create"]
          /\ j' = [j EXCEPT ![c] = IF j[c] + 1 = M THEN 0 ELSE j[c] + 1]
          /\ threadPc' = [threadPc EXCEPT ![<<c, j[c]>>] = "wait"]
          /\ UNCHANGED <<critical_section, start, mainPc, i, sems, rounds, notice>>
      BY <1>14 DEF CreateThread, ChildLoop, ChildStep, mainVars, setting
    <2>2. j' \in [Children -> 0 .. M - 1]
      BY <2>1
    <2>. QED
      BY <2>1, <2>2 DEF sems, notice
  <1>15. ASSUME NEW c \in Children, CreateFails(c)
         PROVE  Types'
    BY <1>15 DEF CreateFails, ChildStep, mainVars, setting, sems, notice
  <1>16. ASSUME NEW c \in Children, JoinThread(c)
         PROVE  Types'
    BY <1>16 DEF JoinThread, ChildLoop, ChildStep, logVars, mainVars, setting, sems,
                 notice
  <1>17. ASSUME NEW c \in Children, Check(c)
         PROVE  Types'
    BY <1>17 DEF Check, ChildStep, logVars, mainVars, setting, sems, notice
  <1>18. ASSUME NEW c \in Children, ExitChild(c)
         PROVE  Types'
    BY <1>18 DEF ExitChild, ChildStep, logVars, mainVars, setting, sems, notice
  <1>19. ASSUME NEW t \in Threads, LogThread(t)
         PROVE  Types'
    BY <1>19 DEF LogThread, ThreadNext, EnterCritical, OpenFile, WriteRecord, CloseFile,
                LeaveCritical, ThreadStep, mainVars, setting, sems, childVars, notice
  <1>20. CASE UNCHANGED vars
    BY <1>20 DEF vars, logVars, mainVars, setting, sems, childVars, notice
  <1>. QED
    BY <1>1, <1>2, <1>3, <1>4, <1>5, <1>6, <1>7, <1>8, <1>9, <1>10, <1>11, <1>12,
       <1>13, <1>14, <1>15, <1>16, <1>17, <1>18, <1>19, <1>20
    DEF Next, MainNext, MainEnded, ChildNext, Launch, MainProcess, ChildProcess,
        SemaphoreMain, SemaphoreChild, FifoMain, FifoChild

-----------------------------------------------------------------------------
(* The lock of the file *)

\* Threads come and go outside the critical section, die in it, and enter it one
\* at a time.
LEMMA LockStep ==
  ASSUME Types, LockInv, [Next]_vars
  PROVE  LockInv'
  <1>1. ASSUME UNCHANGED critical_section, Inside' \subseteq Inside
        PROVE  LockInv'
    BY <1>1 DEF LockInv, ExclusiveFile
  <1>2. ASSUME UNCHANGED <<critical_section, threadPc>>
        PROVE  LockInv'
    BY <1>1, <1>2 DEF Inside
  <1>3. CASE Launch \/ MainProcess \/ PostStart \/ OpenFifo
    BY <1>2, <1>3 DEF Launch, SetUp, Fork, ForkFails, MainProcess, WaitReady, NotifyEnd,
                      ParseOutput, CleanUp, Reap, PostStart, OpenFifo, logVars
  <1>4. ASSUME NEW c \in Children,
               \/ PostReady(c) \/ JoinThread(c) \/ Check(c) \/ ExitChild(c)
               \/ WaitStart(c) \/ OpenStart(c)
        PROVE  LockInv'
    BY <1>2, <1>4 DEF PostReady, JoinThread, Check, ExitChild, WaitStart, OpenStart,
                      logVars
  <1>5. ASSUME NEW c \in Children, CreateThread(c)
        PROVE  LockInv'
    <2>1. /\ threadPc' = [threadPc EXCEPT ![<<c, j[c]>>] = "wait"]
          /\ UNCHANGED critical_section
      BY <1>5 DEF CreateThread
    <2>2. Inside' \subseteq Inside
      BY <2>1 DEF Inside, Types
    <2>. QED
      BY <1>1, <2>1, <2>2
  <1>6. ASSUME NEW c \in Children, CreateFails(c)
        PROVE  LockInv'
    <2>1. /\ threadPc' = [t \in Threads |-> IF t[1] = c /\ Running(t) THEN "killed"
                                            ELSE threadPc[t]]
          /\ UNCHANGED critical_section
      BY <1>6 DEF CreateFails
    <2>2. Inside' \subseteq Inside
      BY <2>1 DEF Inside
    <2>. QED
      BY <1>1, <2>1, <2>2
  <1>7. ASSUME NEW t \in Threads, EnterCritical(t)
        PROVE  LockInv'
    <2>1. /\ threadPc' = [threadPc EXCEPT ![t] = "open"]
          /\ critical_section = 1 /\ critical_section' = 0
      BY <1>7 DEF EnterCritical, ThreadStep, LockInv
    <2>2. Inside = {}
      BY <2>1 DEF LockInv
    <2>3. Inside' = {t}
      BY <2>1, <2>2 DEF Inside, Types
    <2>. QED
      BY <2>1, <2>3 DEF LockInv, ExclusiveFile
  <1>8. ASSUME NEW t \in Threads, OpenFile(t) \/ WriteRecord(t) \/ CloseFile(t)
        PROVE  LockInv'
    <2>1. PICK to \in {"write", "close", "post"} :
              threadPc' = [threadPc EXCEPT ![t] = to]
      BY <1>8 DEF OpenFile, WriteRecord, CloseFile, ThreadStep
    <2>2. threadPc[t] \in {"open", "write", "close"} /\ UNCHANGED critical_section
      BY <1>8 DEF OpenFile, WriteRecord, CloseFile, ThreadStep
    <2>3. Inside' \subseteq Inside
      BY <2>1, <2>2 DEF Inside, Types
    <2>. QED
      BY <1>1, <2>2, <2>3
  <1>9. ASSUME NEW t \in Threads, LeaveCritical(t)
        PROVE  LockInv'
    <2>1. /\ threadPc[t] = "post" /\ threadPc' = [threadPc EXCEPT ![t] = "done"]
          /\ critical_section' = critical_section + 1
      BY <1>9 DEF LeaveCritical, ThreadStep
    <2>2. t \in Inside
      BY <2>1 DEF Inside
    <2>3. Inside' = {} /\ critical_section' = 1
      BY <2>1, <2>2 DEF Inside, Types, LockInv, ExclusiveFile
    <2>. QED
      BY <2>3 DEF LockInv, ExclusiveFile
  <1>10. CASE UNCHANGED vars
    BY <1>2, <1>10 DEF vars, logVars
  <1>. QED
    BY <1>3, <1>4, <1>5, <1>6, <1>7, <1>8, <1>9, <1>10
    DEF Next, MainNext, MainEnded, ChildNext, ChildProcess, SemaphoreMain,
        SemaphoreChild, FifoMain, FifoChild, LogThread, ThreadNext

-----------------------------------------------------------------------------
(* The notice *)

\* The rounds of a child after the notice: the one it is in, and no other.
LEMMA NoticeStep ==
  ASSUME Types, NoticeInv, [Next]_vars
  PROVE  NoticeInv'
  <1>1. ASSUME UNCHANGED <<data, rounds, roundsAtNotice>>,
               \A c \in Children :
                   childPc[c] \in {"check", "close", "exited"} /\ data
                       => childPc'[c] \in {"check", "close", "exited"}
        PROVE  NoticeInv'
    BY <1>1 DEF NoticeInv
  <1>2. ASSUME UNCHANGED <<notice, childVars>>
        PROVE  NoticeInv'
    BY <1>1, <1>2 DEF notice, childVars
  <1>3. CASE Fork
    <2>1. /\ childPc' = [childPc EXCEPT ![i] = "postReady"] /\ childPc[i] = "unborn"
          /\ UNCHANGED <<data, rounds, roundsAtNotice>>
      BY <1>3 DEF Fork, ChildStep, notice
    <2>. QED
      BY <1>1, <2>1 DEF Types
  <1>4. CASE \/ SetUp \/ ForkFails \/ WaitReady \/ PostStart \/ OpenFifo
             \/ ParseOutput \/ CleanUp \/ \E c \in Children : Reap(c)
    BY <1>2, <1>4 DEF SetUp, ForkFails, WaitReady, PostStart, OpenFifo, ParseOutput,
                      CleanUp, Reap
  <1>5. CASE NotifyEnd
    BY <1>5 DEF NotifyEnd, NoticeInv, childVars
  <1>6. ASSUME NEW c \in Children,
               \/ PostReady(c) \/ WaitStart(c) \/ OpenStart(c) \/ CreateThread(c)
               \/ CreateFails(c) \/ ExitChild(c)
        PROVE  NoticeInv'
    <2>1. PICK to : childPc' = [childPc EXCEPT ![c] = to]
      BY <1>6 DEF PostReady, WaitStart, OpenStart, CreateThread, CreateFails, ExitChild,
                  ChildLoop, ChildStep
    <2>2. childPc[c] \in {"check", "close", "exited"} => to = "exited"
      BY <1>6, <2>1 DEF PostReady, WaitStart, OpenStart, CreateThread, CreateFails,
                        ExitChild, ChildLoop, ChildStep, Types
    <2>3. UNCHANGED <<data, rounds, roundsAtNotice>>
      BY <1>6 DEF PostReady, WaitStart, OpenStart, CreateThread, CreateFails, ExitChild,
                  notice
    <2>. QED
      BY <1>1, <2>1, <2>2, <2>3 DEF Types
  <1>7. ASSUME NEW c \in Children, JoinThread(c)
        PROVE  NoticeInv'
    <2>1. /\ childPc[c] = "join"
          /\ childPc' = [childPc EXCEPT ![c] = IF j[c] + 1 = M THEN "check" ELSE "join"]
          /\ rounds' = IF j[c] + 1 = M THEN [rounds EXCEPT ![c] = @ + 1] ELSE rounds
          /\ UNCHANGED <<data, roundsAtNotice>>
      BY <1>7 DEF JoinThread, ChildLoop, ChildStep, notice
    <2>2. CASE j[c] + 1 # M
      BY <1>1, <2>1, <2>2 DEF Types
    <2>3. CASE j[c] + 1 = M
      BY <2>1, <2>3 DEF NoticeInv, Types
    <2>. QED
      BY <2>2, <2>3
  <1>8. ASSUME NEW c \in Children, Check(c)
        PROVE  NoticeInv'
    <2>1. /\ data => childPc' = [childPc EXCEPT ![c] = "close"]
          /\ UNCHANGED <<data, rounds, roundsAtNotice>>
      BY <1>8 DEF Check, ChildStep, notice
    <2>. QED
      BY <2>1 DEF NoticeInv, Types
  <1>9. ASSUME NEW t \in Threads, LogThread(t)
        PROVE  NoticeInv'
    BY <1>2, <1>9 DEF LogThread
  <1>10. CASE UNCHANGED vars
    BY <1>2, <1>10 DEF vars
  <1>. QED
    BY <1>3, <1>4, <1>5, <1>6, <1>7, <1>8, <1>9, <1>10
    DEF Next, MainNext, MainEnded, ChildNext, Launch, MainProcess, ChildProcess,
        SemaphoreMain, SemaphoreChild, FifoMain, FifoChild

-----------------------------------------------------------------------------
(* The barrier *)

\* The ready children are some of N.
LEMMA ReadyFacts ==
  /\ IsFiniteSet(Ready) /\ Cardinality(Ready) \in 0 .. N
  /\ Cardinality(Ready) = N => Ready = Children
  <1>1. IsFiniteSet(Children) /\ Cardinality(Children) = N
    BY SizesAssumption, FS_Interval DEF Children
  <1>2. Ready \subseteq Children
    BY DEF Ready
  <1>3. /\ IsFiniteSet(Ready) /\ Cardinality(Ready) <= N
        /\ Cardinality(Ready) = N => Ready = Children
    BY <1>1, <1>2, FS_Subset
  <1>4. Cardinality(Ready) \in Nat
    BY <1>3, FS_CardinalityType
  <1>. QED
    BY <1>3, <1>4, SizesAssumption

\* What has to be said of a step in which no child says that it is ready: who is
\* ready is the same, and nobody starts but when all are ready.
LEMMA Quiet ==
  ASSUME Types, BarrierInv, Ready' = Ready,
         Started' \subseteq Started \/ Ready = Children,
         UNCHANGED <<mainPc, i, main_waits_for_children>>,
         children_wait_for_main' > 0 => children_wait_for_main > 0
  PROVE  BarrierInv'
  BY DEF BarrierInv

\* One more child, one more post; one post taken, one turn of main's loop.
LEMMA BarrierStep ==
  ASSUME Types, BarrierInv, [Next]_vars
  PROVE  BarrierInv'
  <1>1. ASSUME UNCHANGED childPc
        PROVE  Ready' = Ready /\ Started' = Started
    BY <1>1 DEF Ready, Started
  <1>2. ASSUME UNCHANGED childPc,
               mainPc' \in {"sleep", "reap", "parse", "cleanup", "exited"},
               mainPc \in {"postStart", "openFifo", "sleep", "reap", "parse", "cleanup"}
        PROVE  BarrierInv'
    BY <1>1, <1>2 DEF BarrierInv
  <1>3. CASE SetUp
    <2>1. /\ mainPc = "setUp" /\ mainPc' \in {"cannotStart", "fork"}
          /\ UNCHANGED <<childPc, sems>>
      BY <1>3 DEF SetUp, childVars
    <2>. QED
      BY <1>1, <2>1 DEF BarrierInv, sems
  <1>4. CASE Fork
    <2>1. /\ childPc[i] = "unborn" /\ childPc' = [childPc EXCEPT ![i] = "postReady"]
          /\ mainPc = "fork" /\ UNCHANGED sems
      BY <1>4 DEF Fork, MainLoop, ChildStep
    <2>2. Ready' = Ready /\ Started' = Started
      BY <2>1 DEF Ready, Started, Types
    <2>3. CASE i + 1 = N
      <3>1. mainPc' = "waitReady" /\ i' = 0
        BY <1>4, <2>3 DEF Fork, MainLoop
      <3>. QED
        BY <2>1, <2>2, <3>1, ReadyFacts DEF BarrierInv, sems
    <2>4. CASE i + 1 # N
      <3>1. mainPc' = "fork"
        BY <1>4, <2>4 DEF Fork, MainLoop
      <3>. QED
        BY <2>1, <2>2, <3>1 DEF BarrierInv, sems
    <2>. QED
      BY <2>3, <2>4
  <1>5. CASE ForkFails
    <2>1. mainPc' = "failed" /\ UNCHANGED <<childPc, sems>>
      BY <1>5 DEF ForkFails, childVars
    <2>. QED
      BY <1>1, <2>1 DEF BarrierInv, sems
  <1>6. CASE WaitReady
    <2>1. /\ mainPc = "waitReady" /\ main_waits_for_children > 0
          /\ main_waits_for_children' = main_waits_for_children - 1
          /\ UNCHANGED <<childPc, children_wait_for_main>>
          /\ IF i + 1 = N THEN mainPc' \in {"postStart", "openFifo"}
             ELSE mainPc' = "waitReady" /\ i' = i + 1
      BY <1>6 DEF WaitReady, MainLoop, childVars
    <2>2. main_waits_for_children + i = Cardinality(Ready)
      BY <2>1 DEF BarrierInv
    <2>3. CASE i + 1 = N
      <3>1. Cardinality(Ready) = N
        BY <2>1, <2>2, <2>3, ReadyFacts, SizesAssumption DEF Types
      <3>. QED
        BY <1>1, <2>1, <2>3, <3>1, ReadyFacts DEF BarrierInv
    <2>4. CASE i + 1 # N
      <3>1. main_waits_for_children' + i' = Cardinality(Ready)
        BY <2>1, <2>2, <2>4, SizesAssumption DEF Types
      <3>. QED
        BY <1>1, <2>1, <2>4, <3>1 DEF BarrierInv
    <2>. QED
      BY <2>3, <2>4
  <1>7. CASE PostStart
    <2>1. /\ mainPc = "postStart" /\ mainPc' \in {"postStart", "sleep"}
          /\ UNCHANGED childPc
      BY <1>7 DEF PostStart, MainLoop, childVars
    <2>. QED
      BY <1>1, <2>1 DEF BarrierInv
  <1>8. CASE OpenFifo \/ NotifyEnd \/ ParseOutput \/ CleanUp
    BY <1>2, <1>8 DEF OpenFifo, NotifyEnd, ParseOutput, CleanUp, childVars
  <1>9. ASSUME NEW c \in Children, Reap(c)
        PROVE  BarrierInv'
    <2>1. /\ mainPc = "reap" /\ mainPc' \in {"reap", "parse", "failed"}
          /\ UNCHANGED <<childPc, sems>>
      BY <1>9 DEF Reap, MainLoop, childVars
    <2>. QED
      BY <1>1, <2>1 DEF BarrierInv, sems
  <1>10. ASSUME NEW c \in Children, PostReady(c)
         PROVE  BarrierInv'
    <2>1. /\ childPc[c] = "postReady" /\ childPc' = [childPc EXCEPT ![c] = "waitStart"]
          /\ main_waits_for_children' = main_waits_for_children + 1
          /\ UNCHANGED <<mainPc, i, children_wait_for_main>>
      BY <1>10 DEF PostReady, ChildStep, mainVars
    <2>2. c \notin Ready /\ Ready' = Ready \cup {c} /\ Started' = Started
      BY <2>1 DEF Ready, Started, Types
    <2>3. Cardinality(Ready') = Cardinality(Ready) + 1
      BY <2>2, ReadyFacts, FS_AddElement
    <2>4. Cardinality(Ready)' = Cardinality(Ready')
      OBVIOUS
    <2>. QED
      BY <2>1, <2>2, <2>3, <2>4, ReadyFacts DEF BarrierInv, Types
  <1>11. ASSUME NEW c \in Children, WaitStart(c) \/ OpenStart(c)
         PROVE  BarrierInv'
    <2>1. /\ childPc[c] = "waitStart" /\ childPc' = [childPc EXCEPT ![c] = "create"]
          /\ UNCHANGED <<mainPc, i, main_waits_for_children>>
      BY <1>11 DEF WaitStart, OpenStart, ChildStep, mainVars, sems
    <2>2. /\ children_wait_for_main > 0 \/ mainPc \in {"openFifo", "sleep", "reap"}
          /\ children_wait_for_main' > 0 => children_wait_for_main > 0
      BY <1>11 DEF WaitStart, OpenStart, sems, Types
    <2>3. Ready' = Ready
      BY <2>1 DEF Ready, Types
    <2>4. Ready = Children
      BY <2>2 DEF BarrierInv
    <2>. QED
      BY <2>1, <2>2, <2>3, <2>4, Quiet
  <1>12. ASSUME NEW c \in Children,
                \/ CreateThread(c) \/ CreateFails(c) \/ JoinThread(c) \/ Check(c)
                \/ ExitChild(c)
         PROVE  BarrierInv'
    <2>1. /\ childPc[c] \in {"create", "join", "check", "close"}
          /\ UNCHANGED <<mainPc, i, sems>>
      BY <1>12 DEF CreateThread, CreateFails, JoinThread, Check, ExitChild, ChildLoop,
                   ChildStep, mainVars
    <2>2. PICK to \in {"create", "join", "check", "close", "exited"} :
              childPc' = [childPc EXCEPT ![c] = to]
      BY <1>12 DEF CreateThread, CreateFails, JoinThread, Check, ExitChild, ChildLoop,
                   ChildStep
    <2>3. Ready' = Ready /\ Started' = Started
      BY <2>1, <2>2 DEF Ready, Started, Types
    <2>. QED
      BY <2>1, <2>3, Quiet DEF sems
  <1>13. ASSUME UNCHANGED <<mainVars, sems, childVars>>
         PROVE  BarrierInv'
    BY <1>1, <1>13, Quiet DEF mainVars, sems, childVars
  <1>14. ASSUME NEW t \in Threads, LogThread(t)
         PROVE  BarrierInv'
    BY <1>13, <1>14 DEF LogThread
  <1>15. CASE UNCHANGED vars
    BY <1>13, <1>15 DEF vars
  <1>. QED
    BY <1>3, <1>4, <1>5, <1>6, <1>7, <1>8, <1>9, <1>10, <1>11, <1>12, <1>14, <1>15
    DEF Next, MainNext, MainEnded, ChildNext, Launch, MainProcess, ChildProcess,
        SemaphoreMain, SemaphoreChild, FifoMain, FifoChild

-----------------------------------------------------------------------------
(* The theorems *)

\* All three invariants hold at the start.
LEMMA InvInit == Init => Types /\ LockInv /\ NoticeInv /\ BarrierInv
  <1>. SUFFICES ASSUME Init PROVE Types /\ LockInv /\ NoticeInv /\ BarrierInv
    OBVIOUS
  <1>1. LockInv
    BY DEF Init, LogInit, LockInv, Inside, ExclusiveFile
  <1>2. NoticeInv
    BY DEF Init, NoticeInv
  <1>3. Ready = {} /\ Started = {}
    BY DEF Init, Ready, Started
  <1>4. BarrierInv
    BY <1>3, FS_EmptySet DEF Init, BarrierInv
  <1>. QED
    BY TypesInit, <1>1, <1>2, <1>4

\* The invariants hold in every reachable state.
THEOREM Invariants == Spec => [](Types /\ LockInv /\ NoticeInv /\ BarrierInv)
  BY InvInit, TypesStep, LockStep, NoticeStep, BarrierStep, PTL DEF Spec

\* However many processes and threads there are, and whichever of them are killed,
\* the log file is in the hands of one thread at a time.
THEOREM FileIsExclusive == Spec => []ExclusiveFile
  <1>1. LockInv => ExclusiveFile
    BY DEF LockInv
  <1>. QED
    BY Invariants, <1>1, PTL

\* No child starts before every child is ready, with either kind of start.
THEOREM Barrier == Spec => []NobodyStartsEarly
  <1>1. ASSUME BarrierInv PROVE NobodyStartsEarly
    <2>. SUFFICES ASSUME NEW c \in Children, NEW d \in Children,
                         childPc[c] \notin {"unborn", "postReady", "waitStart"}
                  PROVE  childPc[d] \notin {"unborn", "postReady"}
      BY DEF NobodyStartsEarly
    <2>1. c \in Started
      BY DEF Started
    <2>2. d \in Ready
      BY <1>1, <2>1 DEF BarrierInv
    <2>. QED
      BY <2>2 DEF Ready
  <1>. QED
    BY Invariants, <1>1, PTL

\* A child completes at most the round it is in when main gives the notice.
THEOREM NoticeIsObeyed == Spec => []AtMostOneMoreRound
  <1>1. ASSUME Types, NoticeInv PROVE AtMostOneMoreRound
    BY <1>1 DEF Types, NoticeInv, AtMostOneMoreRound
  <1>. QED
    BY Invariants, <1>1, PTL

-----------------------------------------------------------------------------
(* The accesses in the log                                                     *)

\* The threads of the round of a child that it has created, and those of them that
\* have written.
Recent(c) ==
  IF childPc[c] = "create" THEN 0 .. j[c] - 1
  ELSE IF childPc[c] = "join" THEN 0 .. M - 1 ELSE {}
Wrote(c) == {k \in Recent(c) : threadPc[<<c, k>>] \in {"close", "post", "done"}}

LogTypes == log \in [Children -> Nat] /\ status \in [Children -> {-1, 0, 1}]

\* Unless a child failed, its records are those of its rounds and of the threads of this
\* round that have written; no thread of another round is there to add to them.
RoundAt(c) ==
  /\ status[c] = -1 <=> childPc[c] # "exited"
  /\ childPc[c] \notin {"create", "join"} =>
        \A k \in 0 .. M - 1 : ~ Running(<<c, k>>)
  /\ childPc[c] \notin {"create", "join", "exited"} => j[c] = 0
  /\ childPc[c] \in {"create", "join"} =>
        \A k \in 0 .. M - 1 : Running(<<c, k>>) => k \in Recent(c)
  /\ childPc[c] = "join" =>
        \A k \in 0 .. M - 1 : k < j[c] => threadPc[<<c, k>>] = "done"
  /\ status[c] # 1 => log[c] = M * rounds[c] + Cardinality(Wrote(c))
  /\ childPc[c] \in {"check", "close"} \/ status[c] = 0 => rounds[c] >= 1
RoundInv == LogTypes /\ \A c \in Children : RoundAt(c)

LEMMA WroteFinite ==
  ASSUME Types, NEW c \in Children
  PROVE  IsFiniteSet(Wrote(c)) /\ Cardinality(Wrote(c)) \in Nat
  <1>1. IsFiniteSet(0 .. M - 1)
    BY SizesAssumption, FS_Interval
  <1>2. Wrote(c) \subseteq 0 .. M - 1
    BY SizesAssumption DEF Wrote, Recent, Types
  <1>. QED
    BY <1>1, <1>2, FS_Subset, FS_CardinalityType

\* A step that leaves a child and its threads alone.
Untouched(c) ==
  /\ childPc'[c] = childPc[c] /\ j'[c] = j[c] /\ status'[c] = status[c]
  /\ rounds'[c] = rounds[c] /\ log'[c] = log[c]
  /\ \A k \in 0 .. M - 1 : threadPc'[<<c, k>>] = threadPc[<<c, k>>]

LEMMA RoundUntouched ==
  ASSUME Types, NEW c \in Children, RoundAt(c), Untouched(c)
  PROVE  RoundAt(c)'
  <1>1. Recent(c)' = Recent(c)
    BY DEF Recent, Untouched
  <1>2. \A k \in Recent(c) : threadPc'[<<c, k>>] = threadPc[<<c, k>>]
    BY SizesAssumption DEF Recent, Untouched, Types
  <1>3. Wrote(c)' = Wrote(c)
    BY <1>1, <1>2 DEF Wrote
  <1>4. \A k \in 0 .. M - 1 : Running(<<c, k>>)' <=> Running(<<c, k>>)
    BY DEF Running, Untouched
  <1>. QED
    BY <1>1, <1>3, <1>4 DEF RoundAt, Untouched

\* Outside its rounds a child has no thread, and it begins one with none.
LEMMA RoundOutside ==
  ASSUME Types, LogTypes, NEW c \in Children, RoundAt(c),
         NEW from \in {"unborn", "postReady", "waitStart", "check", "close"},
         NEW to \in {"postReady", "waitStart", "create", "close", "exited"},
         ChildStep(c, from, to), UNCHANGED <<logVars, j, rounds>>,
         IF to = "exited" THEN status' = [status EXCEPT ![c] = 0] ELSE status' = status,
         to \in {"close", "exited"} => from \in {"check", "close"}
  PROVE  RoundAt(c)'
  <1>1. childPc[c] = from /\ childPc'[c] = to /\ j'[c] = j[c] /\ j[c] = 0
    BY DEF ChildStep, Types, RoundAt
  <1>2. Recent(c) = {} /\ Recent(c)' = {}
    BY <1>1 DEF Recent
  <1>3. Wrote(c) = {} /\ Wrote(c)' = {}
    BY <1>2 DEF Wrote
  <1>4. \A k \in 0 .. M - 1 : ~ Running(<<c, k>>) /\ ~ Running(<<c, k>>)'
    BY <1>1 DEF RoundAt, Running, logVars
  <1>5. /\ status[c] = -1 /\ status'[c] = IF to = "exited" THEN 0 ELSE -1
        /\ rounds'[c] = rounds[c] /\ log'[c] = log[c]
    BY <1>1 DEF RoundAt, LogTypes, logVars
  <1>6. to \in {"close", "exited"} => rounds[c] >= 1
    BY <1>1 DEF RoundAt
  <1>7. log[c] = M * rounds[c] + Cardinality(Wrote(c))
    BY <1>5 DEF RoundAt
  <1>8. log'[c] = M * rounds'[c] + Cardinality(Wrote(c)')
    BY <1>3, <1>5, <1>7
  <1>. QED
    BY <1>1, <1>4, <1>5, <1>6, <1>8 DEF RoundAt

\* A new thread has not written.
LEMMA RoundCreate ==
  ASSUME Types, NEW c \in Children, RoundAt(c), CreateThread(c)
  PROVE  RoundAt(c)'
  <1>. USE SizesAssumption DEF Types
  <1>1. /\ childPc[c] = "create" /\ j[c] \in 0 .. M - 1
        /\ childPc'[c] = IF j[c] + 1 = M THEN "join" ELSE "create"
        /\ j'[c] = IF j[c] + 1 = M THEN 0 ELSE j[c] + 1
        /\ rounds'[c] = rounds[c] /\ log'[c] = log[c] /\ status'[c] = status[c]
    BY DEF CreateThread, ChildLoop, ChildStep
  <1>2. \A k \in 0 .. M - 1 :
           threadPc'[<<c, k>>] = IF k = j[c] THEN "wait" ELSE threadPc[<<c, k>>]
    BY DEF CreateThread, Threads
  <1>3. Recent(c) = 0 .. j[c] - 1 /\ Recent(c)' = 0 .. j[c]
    <2>1. Recent(c) = 0 .. j[c] - 1
      BY <1>1, Zenon DEF Recent
    <2>2. CASE j[c] + 1 = M
      <3>1. childPc'[c] = "join" /\ j[c] = M - 1
        BY <1>1, <2>2
      <3>2. Recent(c)' = 0 .. M - 1
        BY <3>1 DEF Recent
      <3>. QED
        BY <2>1, <3>1, <3>2
    <2>3. CASE j[c] + 1 # M
      <3>1. childPc'[c] = "create" /\ j'[c] - 1 = j[c]
        BY <1>1, <2>3
      <3>2. Recent(c)' = 0 .. j'[c] - 1
        BY <3>1, Zenon DEF Recent
      <3>. QED
        BY <2>1, <3>1, <3>2
    <2>. QED
      BY <2>2, <2>3
  <1>4. Wrote(c)' = Wrote(c)
    <2>1. \A k \in 0 .. j[c] - 1 : k \in 0 .. M - 1 /\ threadPc'[<<c, k>>] = threadPc[<<c, k>>]
      BY <1>1, <1>2
    <2>2. threadPc'[<<c, j[c]>>] = "wait"
      BY <1>1, <1>2
    <2>3. \A k : k \in Wrote(c) <=>
                    k \in 0 .. j[c] - 1 /\ threadPc[<<c, k>>] \in {"close", "post", "done"}
      BY <1>3 DEF Wrote
    <2>4. \A k : k \in Wrote(c)' <=>
                    k \in 0 .. j[c] /\ threadPc'[<<c, k>>] \in {"close", "post", "done"}
      BY <1>3 DEF Wrote
    <2>5. \A k \in 0 .. j[c] : k = j[c] \/ k \in 0 .. j[c] - 1
      BY <1>1
    <2>6. 0 .. j[c] - 1 \subseteq 0 .. j[c]
      BY <1>1
    <2>. QED
      BY <2>1, <2>2, <2>3, <2>4, <2>5, <2>6
  <1>5. ASSUME NEW k \in 0 .. M - 1, Running(<<c, k>>)'
        PROVE  k \in Recent(c)'
    <2>1. CASE k = j[c]
      BY <1>1, <1>3, <2>1
    <2>2. CASE k # j[c]
      <3>1. Running(<<c, k>>)
        BY <1>2, <1>5, <2>2 DEF Running
      <3>2. k \in 0 .. j[c] - 1
        BY <1>1, <1>3, <3>1 DEF RoundAt
      <3>. QED
        BY <1>1, <1>3, <3>2
    <2>. QED
      BY <2>1, <2>2
  <1>6. status[c] = -1 /\ log[c] = M * rounds[c] + Cardinality(Wrote(c))
    BY <1>1 DEF RoundAt
  <1>7. childPc'[c] = "join" => j'[c] = 0
    BY <1>1
  <1>. QED
    BY <1>1, <1>4, <1>5, <1>6, <1>7 DEF RoundAt

\* A child that fails ends its threads.
LEMMA RoundFails ==
  ASSUME Types, LogTypes, NEW c \in Children, CreateFails(c)
  PROVE  RoundAt(c)'
  <1>1. childPc'[c] = "exited" /\ status'[c] = 1
    BY DEF CreateFails, ChildStep, Types, LogTypes
  <1>2. \A k \in 0 .. M - 1 : ~ Running(<<c, k>>)'
    BY DEF CreateFails, Running, Threads
  <1>. QED
    BY <1>1, <1>2 DEF RoundAt

\* The last thread that is joined ends a round of M records.
LEMMA RoundJoin ==
  ASSUME Types, NEW c \in Children, RoundAt(c), JoinThread(c)
  PROVE  RoundAt(c)'
  <1>. USE SizesAssumption DEF Types
  <1>1. /\ childPc[c] = "join" /\ j[c] \in 0 .. M - 1 /\ threadPc[<<c, j[c]>>] = "done"
        /\ childPc'[c] = IF j[c] + 1 = M THEN "check" ELSE "join"
        /\ j'[c] = IF j[c] + 1 = M THEN 0 ELSE j[c] + 1
        /\ rounds'[c] = IF j[c] + 1 = M THEN rounds[c] + 1 ELSE rounds[c]
        /\ UNCHANGED <<threadPc, log, status>>
    BY DEF JoinThread, ChildLoop, ChildStep, logVars
  <1>2. \A k \in 0 .. M - 1 : k < j[c] + 1 => threadPc[<<c, k>>] = "done"
    BY <1>1 DEF RoundAt
  <1>3. \A k \in 0 .. M - 1 : Running(<<c, k>>)' <=> Running(<<c, k>>)
    BY <1>1 DEF Running
  <1>4. status[c] = -1 /\ log[c] = M * rounds[c] + Cardinality(Wrote(c))
    BY <1>1 DEF RoundAt
  <1>5. CASE j[c] + 1 # M
    <2>1. Recent(c) = 0 .. M - 1 /\ Recent(c)' = 0 .. M - 1
      BY <1>1, <1>5 DEF Recent
    <2>2. Wrote(c)' = Wrote(c)
      BY <1>1, <2>1 DEF Wrote
    <2>3. /\ childPc'[c] = "join" /\ j'[c] = j[c] + 1 /\ rounds'[c] = rounds[c]
          /\ threadPc' = threadPc /\ log' = log /\ status' = status
      BY <1>1, <1>5
    <2>. QED
      BY <1>2, <1>3, <1>4, <2>1, <2>2, <2>3 DEF RoundAt
  <1>6. CASE j[c] + 1 = M
    <2>1. \A k \in 0 .. M - 1 : threadPc[<<c, k>>] = "done"
      BY <1>1, <1>2, <1>6
    <2>2. Recent(c) = 0 .. M - 1 /\ Recent(c)' = {}
      BY <1>1, <1>6 DEF Recent
    <2>3. Wrote(c) = 0 .. M - 1 /\ Wrote(c)' = {}
      BY <2>1, <2>2 DEF Wrote
    <2>4. Cardinality(Wrote(c)) = M /\ Cardinality(Wrote(c)') = 0
      BY <2>3, FS_Interval, FS_EmptySet
    <2>5. log[c] = M * (rounds[c] + 1) + 0
      <3>1. rounds[c] \in Nat
        OBVIOUS
      <3>. QED
        BY <1>4, <2>4, <3>1
    <2>6. /\ childPc'[c] = "check" /\ j'[c] = 0 /\ rounds'[c] = rounds[c] + 1
          /\ log' = log /\ status' = status /\ rounds[c] \in Nat
      BY <1>1, <1>6
    <2>7. \A k \in 0 .. M - 1 : ~ Running(<<c, k>>)'
      BY <1>3, <2>1 DEF Running
    <2>. QED
      BY <1>4, <2>4, <2>5, <2>6, <2>7 DEF RoundAt
  <1>. QED
    BY <1>5, <1>6

\* The members of a pair of a child and a number.
LEMMA ThreadParts ==
  ASSUME NEW t \in Threads
  PROVE  t = <<t[1], t[2]>> /\ t[1] \in Children /\ t[2] \in 0 .. M - 1
  BY DEF Threads

\* A thread that runs is of the round of its child, and its record is one more in both.
LEMMA RoundThread ==
  ASSUME Types, LogTypes, NEW c \in Children, NEW k \in 0 .. M - 1, RoundAt(c),
         ThreadNext(<<c, k>>), UNCHANGED childVars
  PROVE  RoundAt(c)'
  <1>. DEFINE t == <<c, k>>
  <1>. USE SizesAssumption
  <1>1. \E from \in {"wait", "open", "write", "close", "post"},
            to \in {"open", "write", "close", "post", "done"} :
           /\ ThreadStep(t, from, to)
           /\ from = "write" <=> to = "close"
           /\ from \in {"close", "post"} <=> to \in {"post", "done"}
           /\ log' = IF from = "write" THEN [log EXCEPT ![c] = @ + 1] ELSE log
    BY DEF ThreadNext, EnterCritical, OpenFile, WriteRecord, CloseFile, LeaveCritical
  <1>2. PICK from \in {"wait", "open", "write", "close", "post"},
             to \in {"open", "write", "close", "post", "done"} :
           /\ ThreadStep(t, from, to)
           /\ from = "write" <=> to = "close"
           /\ from \in {"close", "post"} <=> to \in {"post", "done"}
           /\ log' = IF from = "write" THEN [log EXCEPT ![c] = @ + 1] ELSE log
    BY <1>1
  <1>3. /\ threadPc[t] = from
        /\ \A m \in 0 .. M - 1 :
              threadPc'[<<c, m>>] = IF m = k THEN to ELSE threadPc[<<c, m>>]
    BY <1>2 DEF ThreadStep, Types, Threads
  <1>4. UNCHANGED <<childPc, j, status, rounds>>
    BY DEF childVars
  <1>5. /\ Running(<<c, k>>) /\ childPc[c] \in {"create", "join"} /\ k \in Recent(c)
        /\ status[c] = -1
    BY <1>3 DEF Running, RoundAt
  <1>6. Recent(c)' = Recent(c) /\ Recent(c) \subseteq 0 .. M - 1
    BY <1>4 DEF Recent, Types
  <1>7. \A m \in Recent(c) :
           m # k => (m \in Wrote(c)' <=> m \in Wrote(c))
    BY <1>3, <1>6 DEF Wrote
  <1>8. /\ k \in Wrote(c) <=> from \in {"close", "post"}
        /\ k \in Wrote(c)' <=> to \in {"close", "post", "done"}
    BY <1>3, <1>5, <1>6 DEF Wrote
  <1>9. Wrote(c) \subseteq Recent(c) /\ Wrote(c)' \subseteq Recent(c)
    BY <1>6 DEF Wrote
  <1>10. log'[c] = M * rounds[c] + Cardinality(Wrote(c)')
    <2>1. log[c] = M * rounds[c] + Cardinality(Wrote(c))
          /\ log[c] \in Nat /\ rounds[c] \in Nat /\ Cardinality(Wrote(c)) \in Nat
      BY <1>5, WroteFinite DEF RoundAt, LogTypes, Types
    <2>2. CASE from = "write"
      <3>1. Wrote(c)' = Wrote(c) \cup {k} /\ k \notin Wrote(c)
        BY <1>2, <1>5, <1>7, <1>8, <1>9, <2>2
      <3>2. Cardinality(Wrote(c)') = Cardinality(Wrote(c)) + 1
        BY <3>1, WroteFinite, FS_AddElement
      <3>3. log'[c] = log[c] + 1
        BY <1>2, <2>2 DEF LogTypes
      <3>. QED
        BY <2>1, <3>2, <3>3
    <2>3. CASE from # "write"
      <3>1. k \in Wrote(c)' <=> k \in Wrote(c)
        BY <1>2, <1>8, <2>3
      <3>2. Wrote(c)' = Wrote(c)
        BY <1>7, <1>9, <3>1
      <3>. QED
        BY <1>2, <2>1, <2>3, <3>2
    <2>. QED
      BY <2>2, <2>3
  <1>11. ASSUME NEW m \in 0 .. M - 1
         PROVE  /\ Running(<<c, m>>)' => m \in Recent(c)
                /\ threadPc[<<c, m>>] = "done" => threadPc'[<<c, m>>] = "done"
    <2>1. CASE m = k
      BY <1>3, <1>5, <2>1
    <2>2. CASE m # k
      BY <1>3, <1>5, <2>2 DEF Running, RoundAt
    <2>. QED
      BY <2>1, <2>2
  <1>. QED
    BY <1>4, <1>5, <1>6, <1>10, <1>11 DEF RoundAt

LEMMA RoundInit == Init => RoundInv
  <1>. SUFFICES ASSUME Init
                PROVE  RoundInv
    OBVIOUS
  <1>1. LogTypes
    BY DEF Init, LogInit, LogTypes
  <1>2. ASSUME NEW c \in Children
        PROVE  RoundAt(c)
    <2>1. /\ childPc[c] = "unborn" /\ j[c] = 0 /\ status[c] = -1 /\ rounds[c] = 0
          /\ log[c] = 0
      BY <1>2 DEF Init, LogInit
    <2>2. \A k \in 0 .. M - 1 : ~ Running(<<c, k>>)
      BY <1>2 DEF Init, LogInit, Running, Threads
    <2>3. Wrote(c) = {}
      BY <2>1 DEF Wrote, Recent
    <2>4. Cardinality(Wrote(c)) = 0
      BY <2>3, FS_EmptySet
    <2>5. log[c] = M * rounds[c] + Cardinality(Wrote(c))
      BY <2>1, <2>4, SizesAssumption
    <2>. QED
      BY <2>1, <2>2, <2>5 DEF RoundAt
  <1>. QED
    BY <1>1, <1>2 DEF RoundInv

\* What the steps of a child and its threads leave alone.
LEMMA OneChild ==
  ASSUME Types, RoundInv, LogTypes', NEW c \in Children, RoundAt(c)',
         \A d \in Children \ {c} : Untouched(d)
  PROVE  RoundInv'
  <1>1. ASSUME NEW d \in Children
        PROVE  RoundAt(d)'
    <2>1. CASE d = c
      BY <2>1
    <2>2. CASE d # c
      BY <2>2, RoundUntouched DEF RoundInv
    <2>. QED
      BY <2>1, <2>2
  <1>. QED
    BY <1>1 DEF RoundInv

\* The fork, and the steps of a child outside its rounds.
LEMMA RoundMove ==
  ASSUME Types, RoundInv, NEW c \in Children,
         NEW from \in {"unborn", "postReady", "waitStart", "check", "close"},
         NEW to \in {"postReady", "waitStart", "create", "close", "exited"},
         ChildStep(c, from, to), UNCHANGED <<logVars, j, rounds>>,
         IF to = "exited" THEN status' = [status EXCEPT ![c] = 0] ELSE status' = status,
         to \in {"close", "exited"} => from \in {"check", "close"}
  PROVE  RoundInv'
  <1>. USE DEF RoundInv
  <1>1. LogTypes'
    BY DEF LogTypes, logVars
  <1>2. RoundAt(c)'
    BY RoundOutside
  <1>3. \A d \in Children \ {c} : Untouched(d)
    BY DEF Untouched, ChildStep, logVars, LogTypes, Types
  <1>. QED
    BY <1>1, <1>2, <1>3, OneChild

LEMMA RoundStep ==
  ASSUME Types, RoundInv, [Next]_vars
  PROVE  RoundInv'
  <1>. USE DEF RoundInv
  <1>1. ASSUME UNCHANGED <<logVars, childVars>>
        PROVE  RoundInv'
    <2>1. \A c \in Children : Untouched(c)
      BY <1>1 DEF Untouched, logVars, childVars
    <2>2. LogTypes'
      BY <1>1 DEF LogTypes, logVars, childVars
    <2>. QED
      BY <2>1, <2>2, RoundUntouched
  <1>2. CASE SetUp \/ ForkFails \/ MainProcess \/ PostStart \/ OpenFifo \/ UNCHANGED vars
    BY <1>1, <1>2 DEF SetUp, ForkFails, MainProcess, WaitReady, NotifyEnd, ParseOutput,
                      CleanUp, Reap, PostStart, OpenFifo, vars
  <1>3. CASE Fork
    <2>1. i \in Children
      BY DEF Types, Children
    <2>. QED
      BY <1>3, <2>1, RoundMove DEF Fork
  <1>4. ASSUME NEW c \in Children, PostReady(c) \/ WaitStart(c) \/ OpenStart(c)
        PROVE  RoundInv'
    BY <1>4, RoundMove DEF PostReady, WaitStart, OpenStart
  <1>5. ASSUME NEW c \in Children, Check(c)
        PROVE  RoundInv'
    BY <1>5, RoundMove DEF Check
  <1>6. ASSUME NEW c \in Children, ExitChild(c)
        PROVE  RoundInv'
    BY <1>6, RoundMove DEF ExitChild
  <1>7. ASSUME NEW c \in Children, CreateThread(c)
        PROVE  RoundInv'
    <2>1. LogTypes'
      BY <1>7 DEF CreateThread, LogTypes
    <2>2. \A d \in Children \ {c} : Untouched(d)
      BY <1>7 DEF CreateThread, ChildLoop, ChildStep, Untouched, Types, Threads
    <2>. QED
      BY <1>7, <2>1, <2>2, RoundCreate, OneChild
  <1>8. ASSUME NEW c \in Children, CreateFails(c)
        PROVE  RoundInv'
    <2>1. LogTypes'
      BY <1>8 DEF CreateFails, LogTypes
    <2>2. \A d \in Children \ {c} : Untouched(d)
      BY <1>8 DEF CreateFails, ChildStep, Untouched, Types, LogTypes, Threads
    <2>. QED
      BY <1>8, <2>1, <2>2, RoundFails, OneChild
  <1>9. ASSUME NEW c \in Children, JoinThread(c)
        PROVE  RoundInv'
    <2>1. LogTypes'
      BY <1>9 DEF JoinThread, LogTypes, logVars
    <2>2. \A d \in Children \ {c} : Untouched(d)
      BY <1>9 DEF JoinThread, ChildLoop, ChildStep, Untouched, Types, logVars
    <2>. QED
      BY <1>9, <2>1, <2>2, RoundJoin, OneChild
  <1>10. ASSUME NEW t \in Threads, LogThread(t)
         PROVE  RoundInv'
    <2>1. /\ t = <<t[1], t[2]>> /\ t[1] \in Children /\ t[2] \in 0 .. M - 1
          /\ ThreadNext(t) /\ UNCHANGED childVars
      BY <1>10, ThreadParts DEF LogThread
    <2>2. \E to : threadPc' = [threadPc EXCEPT ![t] = to]
      BY <2>1 DEF ThreadNext, EnterCritical, OpenFile, WriteRecord, CloseFile,
                  LeaveCritical, ThreadStep
    <2>3. log' \in {log, [log EXCEPT ![t[1]] = @ + 1]}
      BY <2>1 DEF ThreadNext, EnterCritical, OpenFile, WriteRecord, CloseFile,
                  LeaveCritical
    <2>4. LogTypes'
      BY <2>1, <2>3 DEF LogTypes, childVars
    <2>5. \A d \in Children \ {t[1]} : Untouched(d)
      BY <2>1, <2>2, <2>3 DEF Untouched, childVars, Types, LogTypes, Threads
    <2>6. RoundAt(t[1])'
      BY <2>1, RoundThread
    <2>. QED
      BY <2>1, <2>4, <2>5, <2>6, OneChild
  <1>. QED
    BY <1>2, <1>3, <1>4, <1>5, <1>6, <1>7, <1>8, <1>9, <1>10
    DEF Next, MainNext, MainEnded, ChildNext, Launch, ChildProcess, SemaphoreMain,
        SemaphoreChild, FifoMain, FifoChild

\* The turn k of the loop of parseOutput, on what it has found before.
Scan(best, k, stats) ==
  IF k = 0 THEN -1
  ELSE IF best[k - 1] = -1 \/ stats[k - 1] > stats[best[k - 1]] THEN k - 1
  ELSE best[k - 1]

LEMMA ScanDefined ==
  ASSUME NEW stats
  PROVE  \E best : /\ best = [k \in 0 .. N |-> Scan(best, k, stats)]
                   /\ MostAccesses(stats) = best[N]
  <1>. DEFINE IsScan(b, n) == b = [k \in 0 .. n |-> Scan(b, k, stats)]
              S == {n \in Nat : \E b : IsScan(b, n)}
  <1>1. 0 \in S
    <2>. DEFINE b == [k \in 0 .. 0 |-> -1]
    <2>1. IsScan(b, 0)
      BY DEF Scan
    <2>. QED
      BY <2>1
  <1>2. ASSUME NEW n \in S
        PROVE  n + 1 \in S
    <2>1. PICK b : IsScan(b, n)
      OBVIOUS
    <2>. DEFINE g == [k \in 0 .. n + 1 |-> IF k = n + 1 THEN Scan(b, n + 1, stats)
                                           ELSE b[k]]
    <2>2. \A k \in 0 .. n + 1 : g[k] = Scan(g, k, stats)
      <3>. SUFFICES ASSUME NEW k \in 0 .. n + 1
                    PROVE  g[k] = Scan(g, k, stats)
        OBVIOUS
      <3>1. k # 0 => k - 1 \in 0 .. n + 1 /\ g[k - 1] = b[k - 1]
        OBVIOUS
      <3>2. Scan(g, k, stats) = Scan(b, k, stats)
        BY <3>1 DEF Scan
      <3>3. g[k] = Scan(b, k, stats)
        BY <2>1
      <3>. QED
        BY <3>2, <3>3
    <2>3. g = [k \in 0 .. n + 1 |-> g[k]]
      OBVIOUS
    <2>. HIDE DEF g
    <2>4. IsScan(g, n + 1)
      BY <2>2, <2>3
    <2>. QED
      BY <2>4
  <1>. HIDE DEF S
  <1>3. N \in S
    BY <1>1, <1>2, SetInduction, SizesAssumption
  <1>4. \E b : IsScan(b, N)
    BY <1>3 DEF S
  <1>5. MostAccesses(stats) = (CHOOSE b : IsScan(b, N))[N]
    BY DEF MostAccesses, Scan
  <1>6. IsScan(CHOOSE b : IsScan(b, N), N)
    BY <1>4
  <1>. QED
    BY <1>5, <1>6

\* The child that parseOutput finds has at least as many accesses as any.
LEMMA ScanFindsMost ==
  ASSUME NEW stats \in [Children -> Nat]
  PROVE  /\ MostAccesses(stats) \in Children
         /\ \A c \in Children : stats[c] <= stats[MostAccesses(stats)]
  <1>1. PICK best : /\ best = [k \in 0 .. N |-> Scan(best, k, stats)]
                    /\ MostAccesses(stats) = best[N]
    BY ScanDefined
  <1>. DEFINE Found(k) == /\ best[k] \in 0 .. k - 1
                          /\ \A c \in 0 .. k - 1 : stats[c] <= stats[best[k]]
              S == {n \in Nat : n + 1 \in 1 .. N => Found(n + 1)}
  <1>2. \A k \in 0 .. N : best[k] = Scan(best, k, stats)
    BY <1>1
  <1>3. best[0] = -1
    BY <1>2, SizesAssumption DEF Scan
  <1>4. 0 \in S
    <2>1. 1 \in 0 .. N /\ best[1] = 0
      BY <1>2, <1>3, SizesAssumption DEF Scan
    <2>2. stats[0] \in Nat
      BY SizesAssumption DEF Children
    <2>. QED
      BY <2>1, <2>2
  <1>5. ASSUME NEW n \in S
        PROVE  n + 1 \in S
    <2>. SUFFICES ASSUME n + 2 \in 1 .. N
                  PROVE  Found(n + 2)
      OBVIOUS
    <2>1. Found(n + 1) /\ n + 2 \in 0 .. N /\ n \in Nat
      BY SizesAssumption
    <2>2. best[n + 2] = IF stats[n + 1] > stats[best[n + 1]] THEN n + 1 ELSE best[n + 1]
      <3>1. best[n + 2] = Scan(best, n + 2, stats)
        BY <1>2, <2>1
      <3>2. best[n + 1] # -1 /\ n + 2 # 0 /\ (n + 2) - 1 = n + 1
        BY <2>1
      <3>. QED
        BY <3>1, <3>2 DEF Scan
    <2>3. \A c \in 0 .. n + 1 : stats[c] \in Nat
      BY <2>1, SizesAssumption DEF Children
    <2>4. stats[best[n + 1]] \in Nat /\ best[n + 1] \in 0 .. n
      BY <2>1, <2>3
    <2>5. best[n + 2] \in 0 .. n + 1
      BY <2>1, <2>2, <2>4
    <2>6. ASSUME NEW c \in 0 .. n + 1
          PROVE  stats[c] <= stats[best[n + 2]]
      <3>1. CASE c = n + 1
        BY <2>1, <2>2, <2>3, <2>4, <3>1
      <3>2. CASE c # n + 1
        <4>1. c \in 0 .. n
          BY <2>1, <3>2
        <4>2. stats[c] <= stats[best[n + 1]]
          BY <2>1, <4>1
        <4>3. stats[n + 1] \in Nat /\ stats[c] \in Nat
          BY <2>1, <2>3
        <4>. QED
          BY <2>2, <2>4, <4>2, <4>3
      <3>. QED
        BY <3>1, <3>2
    <2>. QED
      BY <2>1, <2>5, <2>6
  <1>. HIDE DEF S
  <1>6. N - 1 \in S
    BY <1>4, <1>5, SetInduction, SizesAssumption
  <1>7. Found(N)
    BY <1>6, SizesAssumption DEF S
  <1>. QED
    BY <1>1, <1>7 DEF Children

\* main waits for each child once and goes on to parseOutput when none is left, all of
\* them without error; what it has found then is what the log says for good.
Beginning == {"setUp", "cannotStart", "fork", "waitReady", "postStart", "openFifo", "sleep"}
ReapInv ==
  /\ reaped \subseteq Children
  /\ mainPc \in {"openFifo", "sleep"} => i = 0
  /\ mainPc \in Beginning => reaped = {}
  /\ mainPc = "reap" => i = Cardinality(reaped)
  /\ mainPc # "failed" => \A c \in reaped : status[c] = 0
  /\ mainPc \in {"parse", "cleanup", "exited"} => reaped = Children
  /\ winner # << >> =>
        /\ mainPc \in {"cleanup", "exited"}
        /\ winner = <<MostAccesses(log), log>>

LEMMA ReapInit == Init => ReapInv
  BY DEF Init, ReapInv

LEMMA ChildrenFinite == IsFiniteSet(Children) /\ Cardinality(Children) = N
  BY SizesAssumption, FS_Interval DEF Children

\* A step that leaves main alone, and those who have been waited for.
LEMMA ReapKept ==
  ASSUME ReapInv, UNCHANGED mainVars, winner # << >> => log' = log,
         mainPc # "failed" => \A c \in reaped : status'[c] = status[c]
  PROVE  ReapInv'
  <1>1. UNCHANGED <<mainPc, i, reaped, winner>>
    BY DEF mainVars
  <1>. QED
    BY <1>1 DEF ReapInv

\* The steps of main.
LEMMA ReapMain ==
  ASSUME Types, ReapInv, Launch \/ MainProcess \/ PostStart \/ OpenFifo
  PROVE  ReapInv'
  <1>. USE SizesAssumption DEF Beginning, Types
  <1>0. CASE SetUp
    BY <1>0 DEF SetUp, ReapInv, logVars, childVars
  <1>1. CASE Fork
    <2>1. /\ mainPc = "fork" /\ mainPc' \in {"fork", "waitReady"}
          /\ UNCHANGED <<reaped, winner, status>>
      BY <1>1 DEF Fork, MainLoop
    <2>. QED
      BY <2>1 DEF ReapInv
  <1>2. CASE ForkFails
    BY <1>2 DEF ForkFails, ReapInv
  <1>3. CASE WaitReady
    <2>1. /\ mainPc = "waitReady" /\ mainPc' \in {"waitReady", "openFifo", "postStart"}
          /\ mainPc' # "waitReady" => i' = 0
          /\ UNCHANGED <<reaped, winner>>
      BY <1>3 DEF WaitReady, MainLoop
    <2>. QED
      BY <2>1 DEF ReapInv
  <1>4. CASE PostStart
    <2>1. /\ mainPc = "postStart" /\ mainPc' \in {"postStart", "sleep"}
          /\ mainPc' # "postStart" => i' = 0
          /\ UNCHANGED <<reaped, winner>>
      BY <1>4 DEF PostStart, MainLoop
    <2>. QED
      BY <2>1 DEF ReapInv
  <1>5. CASE OpenFifo
    BY <1>5 DEF OpenFifo, ReapInv
  <1>6. CASE NotifyEnd
    <2>1. mainPc = "sleep" /\ mainPc' = "reap" /\ UNCHANGED <<i, reaped, winner>>
      BY <1>6 DEF NotifyEnd
    <2>2. i = 0 /\ reaped = {} /\ winner = << >>
      BY <2>1 DEF ReapInv
    <2>3. Cardinality(reaped') = 0
      BY <2>1, <2>2, FS_EmptySet
    <2>. QED
      BY <2>1, <2>2, <2>3 DEF ReapInv
  <1>7. ASSUME NEW c \in Children, Reap(c)
        PROVE  ReapInv'
    <2>1. /\ mainPc = "reap" /\ c \notin reaped /\ reaped' = reaped \cup {c}
          /\ UNCHANGED <<winner, log, status>>
      BY <1>7 DEF Reap, MainLoop, logVars, childVars
    <2>2. winner = << >> /\ reaped \subseteq Children /\ i = Cardinality(reaped)
          /\ \A d \in reaped : status[d] = 0
      BY <2>1 DEF ReapInv
    <2>3. IsFiniteSet(reaped) /\ Cardinality(reaped') = i + 1
      BY <2>1, <2>2, ChildrenFinite, FS_Subset, FS_AddElement
    <2>4. CASE mainPc' = "failed"
      BY <2>1, <2>2, <2>4 DEF ReapInv
    <2>5. CASE status[c] = 0 /\ mainPc' = (IF i + 1 = N THEN "parse" ELSE "reap")
               /\ i' = (IF i + 1 = N THEN 0 ELSE i + 1)
      <3>1. reaped' \subseteq Children /\ \A d \in reaped' : status'[d] = 0
        BY <2>1, <2>2, <2>5
      <3>2. i + 1 = N => reaped' = Children
        BY <2>3, <3>1, ChildrenFinite, FS_Subset
      <3>. QED
        BY <2>1, <2>2, <2>3, <2>5, <3>1, <3>2 DEF ReapInv
    <2>. QED
      BY <1>7, <2>4, <2>5 DEF Reap, MainLoop
  <1>8. CASE ParseOutput
    <2>1. /\ mainPc = "parse" /\ mainPc' = "cleanup" /\ winner' = <<MostAccesses(log), log>>
          /\ UNCHANGED <<log, reaped, status>>
      BY <1>8 DEF ParseOutput, logVars, childVars
    <2>2. MostAccesses(log)' = MostAccesses(log)
      BY <2>1 DEF MostAccesses
    <2>. QED
      BY <2>1, <2>2 DEF ReapInv
  <1>9. CASE CleanUp
    <2>1. /\ mainPc = "cleanup" /\ mainPc' = "exited"
          /\ UNCHANGED <<log, reaped, status, winner>>
      BY <1>9 DEF CleanUp, logVars, childVars
    <2>2. MostAccesses(log)' = MostAccesses(log)
      BY <2>1 DEF MostAccesses
    <2>. QED
      BY <2>1, <2>2 DEF ReapInv
  <1>. QED
    BY <1>0, <1>1, <1>2, <1>3, <1>4, <1>5, <1>6, <1>7, <1>8, <1>9 DEF Launch, MainProcess

LEMMA ReapStep ==
  ASSUME Types, RoundInv, ReapInv, [Next]_vars
  PROVE  ReapInv'
  <1>1. ASSUME NEW c \in Children,
               \/ ChildProcess(c) \/ WaitStart(c) \/ OpenStart(c)
        PROVE  ReapInv'
    <2>1. UNCHANGED mainVars /\ log' = log
      BY <1>1 DEF ChildProcess, PostReady, CreateThread, CreateFails, JoinThread, Check,
                  ExitChild, WaitStart, OpenStart, logVars
    <2>2. \/ status' = status
          \/ childPc[c] # "exited" /\ \E s : status' = [status EXCEPT ![c] = s]
      BY <1>1 DEF ChildProcess, PostReady, CreateThread, CreateFails, JoinThread, Check,
                  ExitChild, WaitStart, OpenStart, ChildStep
    <2>3. mainPc # "failed" /\ childPc[c] # "exited" => c \notin reaped
      BY DEF RoundInv, RoundAt, ReapInv
    <2>4. mainPc # "failed" => \A d \in reaped : status'[d] = status[d]
      BY <2>2, <2>3 DEF RoundInv, LogTypes, ReapInv
    <2>. QED
      BY <2>1, <2>4, ReapKept
  <1>2. ASSUME NEW t \in Threads, LogThread(t)
        PROVE  ReapInv'
    <2>1. UNCHANGED <<mainVars, status>>
      BY <1>2 DEF LogThread, childVars
    <2>2. Running(t) /\ t = <<t[1], t[2]>> /\ t[1] \in Children /\ t[2] \in 0 .. M - 1
      BY <1>2, ThreadParts
      DEF LogThread, ThreadNext, EnterCritical, OpenFile, WriteRecord, CloseFile,
          LeaveCritical, ThreadStep, Running
    <2>3. winner # << >> => status[t[1]] = 0
      BY <2>2 DEF ReapInv
    <2>4. status[t[1]] = 0 => FALSE
      <3>1. status[t[1]] = 0 => childPc[t[1]] = "exited"
        BY <2>2 DEF RoundInv, RoundAt, LogTypes
      <3>2. childPc[t[1]] = "exited" => ~ Running(<<t[1], t[2]>>)
        BY <2>2 DEF RoundInv, RoundAt
      <3>. QED
        BY <2>2, <3>1, <3>2
    <2>. QED
      BY <2>1, <2>3, <2>4, ReapKept
  <1>3. CASE UNCHANGED vars
    BY <1>3, ReapKept DEF vars, logVars, childVars
  <1>. QED
    BY <1>1, <1>2, <1>3, ReapMain
    DEF Next, MainNext, MainEnded, ChildNext, SemaphoreMain, SemaphoreChild, FifoMain,
        FifoChild

\* What main reports is what the log says for good: each child is there with M records
\* for each of its rounds, at least one, and none with more than the one reported.
THEOREM ReportIsFinal == Spec => []CountIsFinal
  <1>1. Init => Types /\ RoundInv /\ ReapInv
    BY TypesInit, RoundInit, ReapInit
  <1>2. Types /\ RoundInv /\ ReapInv /\ [Next]_vars => (Types /\ RoundInv /\ ReapInv)'
    BY TypesStep, RoundStep, ReapStep
  <1>3. Types /\ RoundInv /\ ReapInv => CountIsFinal
    <2>. SUFFICES ASSUME Types, RoundInv, ReapInv, winner # << >>
                  PROVE  /\ winner[2] = log
                         /\ \A c \in Children : log[c] <= log[winner[1]]
                         /\ \A c \in Children : /\ status[c] = 0
                                                /\ log[c] = M * rounds[c] /\ rounds[c] >= 1
      BY DEF CountIsFinal
    <2>1. winner[2] = log /\ winner[1] = MostAccesses(log)
      BY DEF ReapInv
    <2>2. \A c \in Children : log[c] <= log[winner[1]]
      BY <2>1, ScanFindsMost DEF RoundInv, LogTypes
    <2>3. ASSUME NEW c \in Children
          PROVE  status[c] = 0 /\ log[c] = M * rounds[c] /\ rounds[c] >= 1
      <3>1. status[c] = 0
        BY <2>3 DEF ReapInv
      <3>2. childPc[c] = "exited" /\ rounds[c] >= 1
            /\ log[c] = M * rounds[c] + Cardinality(Wrote(c))
        BY <2>3, <3>1 DEF RoundInv, RoundAt
      <3>3. Wrote(c) = {}
        BY <3>2 DEF Wrote, Recent
      <3>4. Cardinality(Wrote(c)) = 0
        BY <3>3, FS_EmptySet
      <3>5. M * rounds[c] \in Int
        BY <2>3, SizesAssumption DEF Types
      <3>. QED
        BY <3>1, <3>2, <3>4, <3>5
    <2>. QED
      BY <2>1, <2>2, <2>3
  <1>. QED
    BY <1>1, <1>2, <1>3, PTL DEF Spec

-----------------------------------------------------------------------------
(* Deadlock *)

\* The children are forked in the order of their numbers, all of them before main waits.
BornInv ==
  /\ mainPc \in {"setUp", "cannotStart"} => \A c \in Children : childPc[c] = "unborn"
  /\ mainPc = "setUp" => i = 0
  /\ mainPc = "fork" => \A c \in Children : childPc[c] = "unborn" <=> c >= i
  /\ mainPc \notin {"setUp", "cannotStart", "fork", "failed"} =>
        \A c \in Children : childPc[c] # "unborn"

\* The posts that start the children are on the semaphore or have been taken.
StartInv ==
  /\ start = "fifo" => mainPc # "postStart"
  /\ start = "semaphore" =>
        /\ mainPc # "openFifo"
        /\ mainPc \in {"setUp", "cannotStart", "fork", "waitReady"} =>
              children_wait_for_main = 0 /\ Started = {}
        /\ mainPc = "postStart" => children_wait_for_main + Cardinality(Started) = i
        /\ mainPc \in {"sleep", "reap", "parse", "cleanup", "exited"} =>
              children_wait_for_main + Cardinality(Started) = N

\* The lock is taken by a thread that is still there, unless a child failed; and the
\* threads that a child has created in this round run or have ended.
AliveInv ==
  /\ mainPc \in {"reap", "parse", "cleanup", "exited"} => data
  /\ (\A c \in Children : status[c] # 1) /\ critical_section = 0 => Inside # {}
  /\ \A c \in Children : \A k \in Recent(c) :
        Running(<<c, k>>) \/ threadPc[<<c, k>>] = "done"

\* What a thread, a child and main can do at their next step.
ThreadCanStep(t) ==
  \/ t \in Inside
  \/ threadPc[t] = "wait" /\ critical_section > 0

ChildCanStep(c) ==
  \/ childPc[c] \in {"postReady", "create", "close"}
  \/ childPc[c] = "waitStart" /\ IF start = "semaphore" THEN children_wait_for_main > 0
                                 ELSE mainPc \in {"openFifo", "sleep", "reap"}
  \/ childPc[c] = "join" /\ threadPc[<<c, j[c]>>] = "done"
  \/ childPc[c] = "check" /\ (data \/ rounds[c] < MaxRounds)

MainCanStep ==
  \/ mainPc \in {"setUp", "fork", "postStart", "sleep", "parse", "cleanup"}
  \/ mainPc = "waitReady" /\ main_waits_for_children > 0
  \/ mainPc = "openFifo" /\ Ready # {}
  \/ mainPc = "reap" /\ \E c \in Children : status[c] # -1 /\ c \notin reaped

SomeoneCanStep ==
  \/ MainCanStep
  \/ \E c \in Children : ChildCanStep(c)
  \/ \E t \in Threads : ThreadCanStep(t)
  \/ mainPc \in {"cannotStart", "failed"}
  \/ mainPc = "exited" /\ \A c \in Children : childPc[c] = "exited"

\* The steps of a child, as far as its own step goes.
ChildActs(c) == ChildProcess(c) \/ WaitStart(c) \/ OpenStart(c)

LEMMA ChildMoves ==
  ASSUME NEW c \in Children, ChildActs(c)
  PROVE  /\ UNCHANGED mainVars
         /\ childPc[c] \in {"postReady", "waitStart", "create", "join", "check", "close"}
         /\ \E to \in {"waitStart", "create", "join", "check", "close", "exited"} :
               childPc' = [childPc EXCEPT ![c] = to]
  <1>1. CASE PostReady(c)
    BY <1>1 DEF PostReady, ChildStep
  <1>2. CASE CreateThread(c)
    BY <1>2 DEF CreateThread, ChildLoop, ChildStep
  <1>3. CASE CreateFails(c)
    BY <1>3 DEF CreateFails, ChildStep
  <1>4. CASE JoinThread(c)
    BY <1>4 DEF JoinThread, ChildLoop, ChildStep
  <1>5. CASE Check(c)
    BY <1>5 DEF Check, ChildStep
  <1>6. CASE ExitChild(c)
    BY <1>6 DEF ExitChild, ChildStep
  <1>7. CASE WaitStart(c) \/ OpenStart(c)
    BY <1>7 DEF WaitStart, OpenStart, ChildStep
  <1>. QED
    BY <1>1, <1>2, <1>3, <1>4, <1>5, <1>6, <1>7 DEF ChildActs, ChildProcess

LEMMA BornStep ==
  ASSUME Types, BornInv, [Next]_vars
  PROVE  BornInv'
  <1>. USE SizesAssumption DEF Types, BornInv
  <1>1. CASE SetUp
    BY <1>1 DEF SetUp, childVars, Children
  <1>2. CASE Fork
    <2>1. /\ mainPc = "fork" /\ childPc' = [childPc EXCEPT ![i] = "postReady"]
          /\ IF i + 1 = N THEN mainPc' = "waitReady" ELSE mainPc' = "fork" /\ i' = i + 1
      BY <1>2 DEF Fork, MainLoop, ChildStep
    <2>2. ASSUME NEW c \in Children
          PROVE  childPc'[c] = "unborn" <=> c >= i + 1
      BY <2>1, <2>2 DEF Children
    <2>. QED
      BY <2>1, <2>2 DEF Children
  <1>3. CASE ForkFails \/ WaitReady \/ PostStart \/ OpenFifo \/ NotifyEnd \/ ParseOutput
             \/ CleanUp
    BY <1>3 DEF ForkFails, WaitReady, PostStart, OpenFifo, NotifyEnd, ParseOutput, CleanUp,
                MainLoop, childVars
  <1>4. ASSUME NEW c \in Children, Reap(c)
        PROVE  BornInv'
    BY <1>4 DEF Reap, MainLoop, childVars
  <1>5. ASSUME NEW c \in Children, ChildActs(c)
        PROVE  BornInv'
    <2>1. /\ UNCHANGED <<mainPc, i>> /\ childPc[c] # "unborn"
          /\ \E to : to # "unborn" /\ childPc' = [childPc EXCEPT ![c] = to]
      BY <1>5, ChildMoves DEF mainVars
    <2>2. \A d \in Children : childPc'[d] = "unborn" <=> childPc[d] = "unborn"
      BY <2>1
    <2>3. (\E d \in Children : childPc[d] # "unborn") => mainPc \notin {"setUp", "cannotStart"}
      OBVIOUS
    <2>. QED
      BY <2>1, <2>2, <2>3
  <1>6. CASE UNCHANGED <<mainVars, childVars>>
    BY <1>6 DEF mainVars, childVars
  <1>7. ASSUME NEW t \in Threads, LogThread(t)
        PROVE  BornInv'
    BY <1>6, <1>7 DEF LogThread
  <1>8. CASE UNCHANGED vars
    BY <1>6, <1>8 DEF vars
  <1>. QED
    BY <1>1, <1>2, <1>3, <1>4, <1>5, <1>7, <1>8
    DEF Next, MainNext, MainEnded, ChildNext, Launch, MainProcess, SemaphoreMain,
        SemaphoreChild, FifoMain, FifoChild, ChildActs

LEMMA StartedFacts ==
  /\ Started \subseteq Children /\ IsFiniteSet(Started)
  /\ Cardinality(Started) \in 0 .. N
  /\ Cardinality(Started) = N => Started = Children
  <1>1. IsFiniteSet(Children) /\ Cardinality(Children) = N
    BY SizesAssumption, FS_Interval DEF Children
  <1>2. Started \subseteq Children
    BY DEF Started
  <1>3. /\ IsFiniteSet(Started) /\ Cardinality(Started) <= N
        /\ Cardinality(Started) = N => Started = Children
    BY <1>1, <1>2, FS_Subset
  <1>4. Cardinality(Started) \in Nat
    BY <1>3, FS_CardinalityType
  <1>. QED
    BY <1>2, <1>3, <1>4, SizesAssumption

LEMMA StartStep ==
  ASSUME Types, BarrierInv, StartInv, [Next]_vars
  PROVE  StartInv'
  <1>1. Started' = Started => Cardinality(Started)' = Cardinality(Started)
    OBVIOUS
  <1>2. UNCHANGED childPc => Started' = Started
    BY DEF Started
  <1>3. ASSUME UNCHANGED <<childPc, start, children_wait_for_main>>,
               \/ mainPc' = mainPc /\ i' = i
               \/ mainPc' = "failed"
               \/ /\ mainPc \in {"setUp", "fork"}
                  /\ mainPc' \in {"cannotStart", "fork"}
               \/ /\ mainPc \in {"openFifo", "sleep", "reap", "parse", "cleanup"}
                  /\ mainPc' \in {"sleep", "reap", "parse", "cleanup", "exited"}
        PROVE  StartInv'
    BY <1>1, <1>2, <1>3 DEF StartInv
  <1>4. CASE SetUp \/ ForkFails \/ OpenFifo \/ NotifyEnd \/ ParseOutput \/ CleanUp
    BY <1>3, <1>4 DEF SetUp, ForkFails, OpenFifo, NotifyEnd, ParseOutput, CleanUp, setting,
                      childVars, sems
  <1>5. CASE Fork
    <2>1. /\ childPc[i] = "unborn" /\ childPc' = [childPc EXCEPT ![i] = "postReady"]
          /\ mainPc = "fork" /\ mainPc' \in {"fork", "waitReady"}
          /\ UNCHANGED <<start, children_wait_for_main>>
      BY <1>5 DEF Fork, MainLoop, ChildStep, sems, setting
    <2>2. Started' = Started
      BY <2>1 DEF Started, Types
    <2>. QED
      BY <2>1, <2>2 DEF StartInv
  <1>6. ASSUME start = "semaphore", WaitReady
        PROVE  StartInv'
    <2>1. /\ mainPc = "waitReady"
          /\ \/ mainPc' = "waitReady"
             \/ mainPc' = "postStart" /\ i' = 0
          /\ UNCHANGED <<childPc, start, children_wait_for_main>>
      BY <1>6 DEF WaitReady, MainLoop, childVars, setting
    <2>2. Started = {} /\ Started' = Started /\ children_wait_for_main = 0
      BY <1>2, <1>6, <2>1 DEF StartInv
    <2>3. Cardinality(Started) = 0
      BY <2>2, FS_EmptySet
    <2>. QED
      BY <1>1, <1>6, <2>1, <2>2, <2>3 DEF StartInv
  <1>7. ASSUME start = "fifo", WaitReady \/ PostStart
        PROVE  StartInv'
    BY <1>7 DEF WaitReady, PostStart, MainLoop, StartInv, setting
  <1>8. ASSUME start = "semaphore", PostStart
        PROVE  StartInv'
    <2>1. /\ mainPc = "postStart" /\ children_wait_for_main' = children_wait_for_main + 1
          /\ IF i + 1 = N THEN mainPc' = "sleep" ELSE mainPc' = "postStart" /\ i' = i + 1
          /\ UNCHANGED <<childPc, start>>
      BY <1>8 DEF PostStart, MainLoop, childVars, setting
    <2>2. children_wait_for_main + Cardinality(Started) = i
      BY <1>8, <2>1 DEF StartInv
    <2>3. children_wait_for_main' + Cardinality(Started) = i + 1
      BY <2>1, <2>2, StartedFacts, SizesAssumption DEF Types
    <2>4. Cardinality(Started)' = Cardinality(Started)
      BY <1>1, <1>2, <2>1
    <2>. QED
      BY <1>8, <2>1, <2>3, <2>4 DEF StartInv
  <1>9. ASSUME NEW c \in Children, Reap(c)
        PROVE  StartInv'
    <2>1. /\ mainPc = "reap"
          /\ \/ mainPc' = "failed"
             \/ mainPc' \in {"reap", "parse"}
          /\ UNCHANGED <<childPc, start, children_wait_for_main>>
      BY <1>9 DEF Reap, MainLoop, childVars, setting, sems
    <2>. QED
      BY <1>3, <2>1
  <1>10. ASSUME NEW c \in Children, ChildProcess(c)
         PROVE  StartInv'
    <2>1. /\ UNCHANGED <<mainPc, i, start, children_wait_for_main>>
          /\ \/ childPc[c] = "postReady" /\ childPc' = [childPc EXCEPT ![c] = "waitStart"]
             \/ /\ childPc[c] \in {"create", "join", "check", "close"}
                /\ \E to \in {"create", "join", "check", "close", "exited"} :
                      childPc' = [childPc EXCEPT ![c] = to]
      BY <1>10 DEF ChildProcess, PostReady, CreateThread, CreateFails, JoinThread, Check,
                   ExitChild, ChildLoop, ChildStep, mainVars, sems, setting
    <2>2. Started' = Started
      BY <2>1 DEF Started, Types
    <2>. QED
      BY <1>1, <2>1, <2>2 DEF StartInv
  <1>11. ASSUME NEW c \in Children, start = "semaphore", WaitStart(c)
         PROVE  StartInv'
    <2>1. /\ childPc[c] = "waitStart" /\ childPc' = [childPc EXCEPT ![c] = "create"]
          /\ children_wait_for_main > 0
          /\ children_wait_for_main' = children_wait_for_main - 1
          /\ UNCHANGED <<mainPc, i, start>>
      BY <1>11 DEF WaitStart, ChildStep, mainVars, setting
    <2>2. c \notin Started /\ Started' = Started \cup {c}
      BY <2>1 DEF Started, Types
    <2>3. Cardinality(Started') = Cardinality(Started) + 1
      BY <2>2, StartedFacts, FS_AddElement
    <2>4. /\ children_wait_for_main' + Cardinality(Started')
               = children_wait_for_main + Cardinality(Started)
          /\ Cardinality(Started)' = Cardinality(Started')
      BY <2>1, <2>3, StartedFacts DEF Types
    <2>5. mainPc \notin {"setUp", "cannotStart", "fork", "waitReady"}
      BY <2>1, <1>11 DEF StartInv
    <2>. QED
      BY <1>11, <2>1, <2>4, <2>5 DEF StartInv
  <1>12. ASSUME NEW c \in Children, start = "fifo", OpenStart(c)
         PROVE  StartInv'
    BY <1>12 DEF OpenStart, StartInv, mainVars, setting
  <1>13. ASSUME UNCHANGED <<mainVars, sems, childVars>>
         PROVE  StartInv'
    BY <1>3, <1>13 DEF mainVars, sems, childVars, setting
  <1>14. ASSUME NEW t \in Threads, LogThread(t)
         PROVE  StartInv'
    BY <1>13, <1>14 DEF LogThread
  <1>15. CASE UNCHANGED vars
    BY <1>13, <1>15 DEF vars
  <1>16. CASE MainProcess
    BY <1>4, <1>6, <1>7, <1>9, <1>16, RunAssumption DEF MainProcess, Types
  <1>. QED
    BY <1>4, <1>5, <1>7, <1>8, <1>10, <1>11, <1>12, <1>14, <1>15, <1>16
    DEF Next, MainNext, MainEnded, ChildNext, Launch, SemaphoreMain, SemaphoreChild,
        FifoMain, FifoChild

\* A step that leaves the threads of a round alone.
LEMMA RecentKept ==
  ASSUME Types, AliveInv, NEW c \in Children,
         childPc'[c] = childPc[c], j'[c] = j[c],
         \A k \in 0 .. M - 1 : threadPc'[<<c, k>>] = threadPc[<<c, k>>]
  PROVE  \A k \in Recent(c)' : Running(<<c, k>>)' \/ threadPc'[<<c, k>>] = "done"
  <1>1. Recent(c)' = Recent(c) /\ Recent(c) \subseteq 0 .. M - 1
    BY SizesAssumption DEF Recent, Types
  <1>. QED
    BY <1>1 DEF AliveInv, Running

LEMMA AliveStep ==
  ASSUME Types, LockInv, RoundInv, AliveInv, [Next]_vars
  PROVE  AliveInv'
  <1>. DEFINE Recently(c) == \A k \in Recent(c) :
                                Running(<<c, k>>) \/ threadPc[<<c, k>>] = "done"
              Lock == (\A c \in Children : status[c] # 1) /\ critical_section = 0
                          => Inside # {}
              Notice == mainPc \in {"reap", "parse", "cleanup", "exited"} => data
  <1>1. AliveInv = (Notice /\ Lock /\ \A c \in Children : Recently(c))
        /\ AliveInv' = (Notice' /\ Lock' /\ \A c \in Children : Recently(c)')
    BY DEF AliveInv
  <1>. HIDE DEF Recently, Lock, Notice
  <1>2. ASSUME UNCHANGED <<threadPc, critical_section, status>>
        PROVE  Lock'
    BY <1>1, <1>2 DEF Lock, Inside
  <1>3. ASSUME UNCHANGED <<threadPc, childPc, j>>
        PROVE  \A c \in Children : Recently(c)'
    BY <1>3, RecentKept DEF Recently
  <1>4. ASSUME UNCHANGED <<mainPc, data>>
        PROVE  Notice'
    BY <1>1, <1>4 DEF Notice
  <1>5. CASE SetUp \/ ForkFails \/ MainProcess \/ PostStart \/ OpenFifo
    <2>1. UNCHANGED <<logVars, childVars>>
      BY <1>5 DEF SetUp, ForkFails, MainProcess, WaitReady, NotifyEnd, ParseOutput,
                  CleanUp, Reap, PostStart, OpenFifo
    <2>2. Notice'
      BY <1>1, <1>5 DEF SetUp, ForkFails, MainProcess, WaitReady, NotifyEnd, ParseOutput,
                        CleanUp, Reap, PostStart, OpenFifo, MainLoop, Notice, notice
    <2>. QED
      BY <1>1, <1>2, <1>3, <2>1, <2>2 DEF logVars, childVars
  <1>6. CASE Fork
    <2>1. /\ childPc' = [childPc EXCEPT ![i] = "postReady"]
          /\ mainPc' \in {"fork", "waitReady"}
          /\ UNCHANGED <<logVars, j, status>>
      BY <1>6 DEF Fork, MainLoop, ChildStep
    <2>2. ASSUME NEW c \in Children
          PROVE  Recently(c)'
      <3>1. CASE c = i
        <4>1. childPc'[c] = "postReady"
          BY <2>1, <3>1 DEF Types
        <4>. QED
          BY <4>1 DEF Recently, Recent
      <3>2. CASE c # i
        BY <2>1, <3>2, RecentKept DEF Types, Recently, logVars
      <3>. QED
        BY <3>1, <3>2
    <2>3. Notice'
      BY <2>1 DEF Notice
    <2>. QED
      BY <1>1, <1>2, <2>1, <2>2, <2>3 DEF logVars
  <1>7. ASSUME NEW c \in Children, ChildActs(c)
        PROVE  AliveInv'
    <2>1. UNCHANGED <<mainPc, data>> /\ childPc[c] # "unborn"
      BY <1>7, ChildMoves DEF ChildActs, ChildProcess, PostReady, WaitStart, OpenStart,
             CreateThread, CreateFails, JoinThread, Check, ExitChild, notice, mainVars
    <2>2. /\ childPc' = [childPc EXCEPT ![c] = childPc'[c]]
          /\ j' = [j EXCEPT ![c] = j'[c]]
      BY <1>7 DEF ChildActs, ChildProcess, PostReady, WaitStart, OpenStart, CreateThread,
                  CreateFails, JoinThread, Check, ExitChild, ChildLoop, ChildStep, Types
    <2>3. \A d \in Children \ {c} : \A k \in 0 .. M - 1 :
              threadPc'[<<d, k>>] = threadPc[<<d, k>>]
      BY <1>7 DEF ChildActs, ChildProcess, PostReady, WaitStart, OpenStart, CreateThread,
                  CreateFails, JoinThread, Check, ExitChild, logVars, Types, Threads
    <2>4. \A d \in Children \ {c} : Recently(d)'
      BY <2>2, <2>3, RecentKept DEF Recently, Types
    <2>5. Lock' /\ Recently(c)'
      <3>1. CASE CreateThread(c)
        <4>1. /\ childPc[c] = "create" /\ j[c] \in 0 .. M - 1
              /\ threadPc' = [threadPc EXCEPT ![<<c, j[c]>>] = "wait"]
              /\ childPc'[c] = IF j[c] + 1 = M THEN "join" ELSE "create"
              /\ j'[c] = IF j[c] + 1 = M THEN 0 ELSE j[c] + 1
              /\ UNCHANGED <<critical_section, status>>
          BY <3>1 DEF CreateThread, ChildLoop, ChildStep, Types
        <4>2. <<c, j[c]>> \in Threads /\ ~ Running(<<c, j[c]>>)
          <5>1. Recent(c) = 0 .. j[c] - 1
            BY <4>1, Zenon DEF Recent
          <5>2. j[c] \notin Recent(c)
            BY <4>1, <5>1
          <5>. QED
            BY <4>1, <5>2 DEF RoundInv, RoundAt, Threads
        <4>3. Inside \subseteq Inside'
          BY <4>1, <4>2 DEF Inside, Running, Types
        <4>4. Lock'
          BY <1>1, <4>1, <4>3 DEF Lock
        <4>5. Recent(c)' \subseteq 0 .. j[c] /\ Recent(c) = 0 .. j[c] - 1
          <5>1. CASE j[c] + 1 = M
            <6>1. childPc'[c] = "join"
              BY <4>1, <5>1
            <6>2. Recent(c)' = 0 .. M - 1
              BY <6>1 DEF Recent
            <6>. QED
              BY <4>1, <5>1, <6>2 DEF Recent
          <5>2. CASE j[c] + 1 # M
            <6>1. childPc'[c] = "create" /\ j'[c] - 1 = j[c]
              BY <4>1, <5>2
            <6>2. Recent(c)' = 0 .. j'[c] - 1
              BY <6>1, Zenon DEF Recent
            <6>. QED
              BY <4>1, <6>1, <6>2 DEF Recent
          <5>. QED
            BY <5>1, <5>2
        <4>6. ASSUME NEW k \in Recent(c)'
              PROVE  Running(<<c, k>>)' \/ threadPc'[<<c, k>>] = "done"
          <5>0. k \in 0 .. j[c]
            BY <4>5
          <5>1. k \in 0 .. j[c] /\ <<c, k>> \in Threads
            <6>1. k \in 0 .. M - 1
              BY <4>1, <5>0, SizesAssumption
            <6>. QED
              BY <5>0, <6>1 DEF Threads
          <5>2. CASE k = j[c]
            BY <4>1, <4>2, <5>2 DEF Running, Types
          <5>3. CASE k # j[c]
            <6>1. k \in Recent(c)
              BY <4>1, <4>5, <5>1, <5>3
            <6>2. threadPc'[<<c, k>>] = threadPc[<<c, k>>]
              BY <4>1, <5>1, <5>3 DEF Types
            <6>. QED
              BY <6>1, <6>2 DEF AliveInv, Running
          <5>. QED
            BY <5>2, <5>3
        <4>. QED
          BY <4>4, <4>6 DEF Recently
      <3>2. CASE CreateFails(c)
        <4>1. status'[c] = 1 /\ childPc'[c] = "exited"
          BY <3>2 DEF CreateFails, ChildStep, Types, RoundInv, LogTypes
        <4>. QED
          BY <4>1 DEF Lock, Recently, Recent
      <3>3. CASE JoinThread(c)
        <4>1. /\ childPc[c] = "join" /\ childPc'[c] \in {"join", "check"}
              /\ UNCHANGED <<logVars, status>>
          BY <3>3 DEF JoinThread, ChildLoop, ChildStep, Types
        <4>2. Recent(c)' \subseteq Recent(c)
          BY <4>1 DEF Recent
        <4>. QED
          BY <1>1, <1>2, <4>1, <4>2 DEF Recently, logVars, Running
      <3>4. CASE PostReady(c) \/ WaitStart(c) \/ OpenStart(c) \/ Check(c) \/ ExitChild(c)
        <4>1. /\ childPc[c] \notin {"create", "join", "exited"} /\ childPc'[c] # "join"
              /\ UNCHANGED <<logVars, j>> /\ j[c] = 0
          BY <3>4 DEF PostReady, WaitStart, OpenStart, Check, ExitChild, ChildStep, Types,
                      RoundInv, RoundAt
        <4>2. Recent(c)' = {}
          BY <4>1 DEF Recent
        <4>3. status' = status \/ (status' = [status EXCEPT ![c] = 0] /\ status[c] = -1)
          BY <3>4 DEF PostReady, WaitStart, OpenStart, Check, ExitChild, ChildStep, RoundInv,
                      RoundAt
        <4>4. (\A d \in Children : status'[d] # 1) => \A d \in Children : status[d] # 1
          BY <4>3 DEF RoundInv, LogTypes
        <4>5. Inside' = Inside /\ critical_section' = critical_section
          BY <4>1 DEF logVars, Inside
        <4>. QED
          BY <1>1, <4>2, <4>4, <4>5 DEF Recently, Lock
      <3>. QED
        BY <1>7, <3>1, <3>2, <3>3, <3>4 DEF ChildActs, ChildProcess
    <2>6. ASSUME NEW d \in Children
          PROVE  Recently(d)'
      BY <2>4, <2>5
    <2>. QED
      BY <1>1, <1>4, <2>1, <2>5, <2>6
  <1>8. ASSUME NEW t \in Threads, LogThread(t)
        PROVE  AliveInv'
    <2>1. UNCHANGED <<mainPc, data, childPc, j, status>>
      BY <1>8 DEF LogThread, mainVars, childVars, notice
    <2>2. PICK from \in {"wait", "open", "write", "close", "post"},
               to \in {"open", "write", "close", "post", "done"} :
            /\ threadPc[t] = from /\ threadPc' = [threadPc EXCEPT ![t] = to]
            /\ to = "done" => critical_section' = critical_section + 1
      BY <1>8 DEF LogThread, ThreadNext, EnterCritical, OpenFile, WriteRecord, CloseFile,
                  LeaveCritical, ThreadStep
    <2>3. Lock'
      <3>1. CASE to = "done"
        BY <2>2, <3>1 DEF Lock, LockInv
      <3>2. CASE to # "done"
        <4>1. t \in Inside'
          BY <2>2, <3>2 DEF Inside, Types
        <4>. QED
          BY <4>1 DEF Lock
      <3>. QED
        BY <3>1, <3>2
    <2>4. ASSUME NEW c \in Children
          PROVE  Recently(c)'
      <3>1. Recent(c)' = Recent(c) /\ Recent(c) \subseteq 0 .. M - 1
        BY <2>1, SizesAssumption DEF Recent, Types
      <3>2. ASSUME NEW k \in Recent(c)
            PROVE  Running(<<c, k>>)' \/ threadPc'[<<c, k>>] = "done"
        <4>1. <<c, k>> \in Threads
          BY <3>1 DEF Threads
        <4>2. CASE <<c, k>> = t
          BY <2>2, <4>1, <4>2 DEF Running, Types
        <4>3. CASE <<c, k>> # t
          BY <2>2, <4>1, <4>3 DEF AliveInv, Running, Types
        <4>. QED
          BY <4>2, <4>3
      <3>. QED
        BY <3>1, <3>2 DEF Recently
    <2>. QED
      BY <1>1, <1>4, <2>1, <2>3, <2>4
  <1>9. CASE UNCHANGED vars
    BY <1>1, <1>2, <1>3, <1>4, <1>9 DEF vars, logVars, childVars, notice, mainVars
  <1>. QED
    BY <1>5, <1>6, <1>7, <1>8, <1>9
    DEF Next, MainNext, MainEnded, ChildNext, Launch, SemaphoreMain, SemaphoreChild,
        FifoMain, FifoChild, ChildActs

\* Who waits for the file waits for a thread that is there.
LEMMA NobodyWaitsForTheFile ==
  ASSUME Types, LockInv, RoundInv, AliveInv, \A c \in Children : status[c] # 1,
         ~ \E t \in Threads : ThreadCanStep(t)
  PROVE  \A t \in Threads : ~ Running(t)
  <1>1. Inside = {}
    BY DEF ThreadCanStep, Inside
  <1>2. critical_section > 0
    BY <1>1 DEF AliveInv, LockInv
  <1>. QED
    BY <1>1, <1>2 DEF ThreadCanStep, Inside, Running

WaitInv ==
  /\ Types /\ LockInv /\ BarrierInv /\ RoundInv /\ ReapInv
  /\ BornInv /\ StartInv /\ AliveInv

\* When main waits for the children, or they wait for it, some of them or main can go on.
LEMMA BarrierOpens ==
  ASSUME WaitInv, ~ MainCanStep, ~ \E c \in Children : ChildCanStep(c),
         mainPc \notin {"cannotStart", "failed"}
  PROVE  /\ mainPc \in {"reap", "exited"}
         /\ \A c \in Children : childPc[c] \in {"join", "exited"}
  <1>. USE SizesAssumption
  <1>0. /\ Types /\ BarrierInv /\ ReapInv /\ BornInv /\ StartInv /\ AliveInv
    BY DEF WaitInv
  <1>1. \A c \in Children : childPc[c] \notin {"postReady", "create", "close"}
    BY DEF ChildCanStep
  <1>2. mainPc \in {"waitReady", "openFifo", "reap", "exited"}
    BY <1>0 DEF MainCanStep, Types
  <1>3. Ready = Children
    BY <1>0, <1>1, <1>2 DEF BornInv, Ready
  <1>4. mainPc # "waitReady"
    <2>1. SUFFICES ASSUME mainPc = "waitReady"
                   PROVE  FALSE
      OBVIOUS
    <2>2. main_waits_for_children = 0 /\ main_waits_for_children + i = Cardinality(Ready)
      BY <1>0, <2>1 DEF MainCanStep, BarrierInv, Types
    <2>3. Cardinality(Ready) = N
      BY <1>3, ChildrenFinite
    <2>. QED
      BY <1>0, <2>2, <2>3 DEF Types
  <1>5. mainPc # "openFifo"
    BY <1>3 DEF MainCanStep, Children
  <1>6. mainPc \in {"reap", "exited"} /\ data
    BY <1>0, <1>2, <1>4, <1>5 DEF AliveInv
  <1>7. ASSUME NEW c \in Children, childPc[c] = "waitStart"
        PROVE  FALSE
    <2>1. CASE start = "semaphore"
      <3>1. children_wait_for_main = 0
        BY <1>0, <1>7, <2>1 DEF ChildCanStep, Types
      <3>2. Cardinality(Started) = N
        BY <1>0, <1>6, <2>1, <3>1, StartedFacts DEF StartInv
      <3>. QED
        BY <1>7, <3>2, StartedFacts DEF Started
    <2>2. CASE start # "semaphore"
      <3>1. mainPc = "exited"
        BY <1>6, <1>7, <2>2 DEF ChildCanStep
      <3>2. status[c] = 0 /\ (status[c] = -1 <=> childPc[c] # "exited")
        BY <1>0, <1>7, <3>1 DEF ReapInv, WaitInv, RoundInv, RoundAt
      <3>. QED
        BY <1>7, <3>2
    <2>. QED
      BY <2>1, <2>2
  <1>8. ASSUME NEW c \in Children
        PROVE  childPc[c] \in {"join", "exited"}
    <2>1. childPc[c] # "check"
      BY <1>6 DEF ChildCanStep
    <2>2. childPc[c] # "unborn"
      BY <1>0, <1>6 DEF BornInv
    <2>3. childPc[c] \in {"unborn", "postReady", "waitStart", "create", "join", "check",
                          "close", "exited"}
      BY <1>0 DEF Types
    <2>. QED
      BY <1>1, <1>7, <2>1, <2>2, <2>3
  <1>. QED
    BY <1>6, <1>8

\* Somebody can go on until main has ended, calls that fail included; and when main has
\* ended well, so have the children.
THEOREM DeadlockFree == Spec => []SomeoneCanStep
  <1>1. Init => WaitInv
    <2>. SUFFICES ASSUME Init PROVE WaitInv
      OBVIOUS
    <2>1. Types /\ LockInv /\ BarrierInv /\ RoundInv /\ ReapInv
      BY InvInit, RoundInit, ReapInit
    <2>2. BornInv
      BY DEF Init, BornInv
    <2>3. StartInv
      BY DEF Init, StartInv, Started
    <2>4. AliveInv
      BY DEF Init, LogInit, AliveInv, Recent
    <2>. QED
      BY <2>1, <2>2, <2>3, <2>4 DEF WaitInv
  <1>2. WaitInv /\ [Next]_vars => WaitInv'
    BY TypesStep, LockStep, BarrierStep, RoundStep, ReapStep, BornStep, StartStep, AliveStep
    DEF WaitInv
  <1>3. WaitInv => SomeoneCanStep
    <2>. SUFFICES ASSUME WaitInv, ~ MainCanStep, ~ \E c \in Children : ChildCanStep(c),
                         ~ \E t \in Threads : ThreadCanStep(t),
                         mainPc \notin {"cannotStart", "failed"}
                  PROVE  mainPc = "exited" /\ \A c \in Children : childPc[c] = "exited"
      BY DEF SomeoneCanStep
    <2>0. /\ Types /\ LockInv /\ RoundInv /\ ReapInv /\ AliveInv
      BY DEF WaitInv
    <2>1. /\ mainPc \in {"reap", "exited"}
          /\ \A c \in Children : childPc[c] \in {"join", "exited"}
      BY BarrierOpens
    <2>2. \A c \in Children : status[c] # 1
      <3>. SUFFICES ASSUME NEW c \in Children, status[c] = 1 PROVE FALSE
        OBVIOUS
      <3>1. c \notin reaped
        BY <2>0, <2>1 DEF ReapInv
      <3>2. mainPc = "reap"
        BY <2>0, <2>1, <3>1 DEF ReapInv
      <3>. QED
        BY <3>1, <3>2 DEF MainCanStep
    <2>3. \A t \in Threads : ~ Running(t)
      BY <2>0, <2>2, NobodyWaitsForTheFile
    <2>4. \A c \in Children : childPc[c] = "exited"
      <3>. SUFFICES ASSUME NEW c \in Children, childPc[c] = "join" PROVE FALSE
        BY <2>1
      <3>1. j[c] \in Recent(c) /\ <<c, j[c]>> \in Threads
        BY <2>0, SizesAssumption DEF Recent, Types, Threads
      <3>2. threadPc[<<c, j[c]>>] = "done"
        BY <2>0, <2>3, <3>1 DEF AliveInv
      <3>. QED
        BY <3>2 DEF ChildCanStep
    <2>5. mainPc # "reap"
      <3>. SUFFICES ASSUME mainPc = "reap" PROVE FALSE
        OBVIOUS
      <3>1. \A c \in Children : status[c] # -1
        BY <2>0, <2>4 DEF RoundInv, RoundAt
      <3>2. reaped = Children
        BY <2>0, <3>1 DEF MainCanStep, ReapInv
      <3>3. i = N
        BY <2>0, <3>2, ChildrenFinite DEF ReapInv
      <3>. QED
        BY <2>0, <3>3, SizesAssumption DEF Types
    <2>. QED
      BY <2>1, <2>4, <2>5
  <1>. QED
    BY <1>1, <1>2, <1>3, PTL DEF Spec
=============================================================================
