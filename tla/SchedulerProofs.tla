--------------------------- MODULE SchedulerProofs ---------------------------
(* What Scheduler promises for every number of threads, work items, processes, *)
(* units and starts of the server: units of a semaphore are neither made nor   *)
(* lost, but with a process that ends while its threads hold them, and the     *)
(* programs that take care of the end free the semaphore after its last use;   *)
(* and nobody waits but for somebody who can go on.                            *)
EXTENDS Scheduler, FiniteSetTheorems, TLAPS

-----------------------------------------------------------------------------
(* Remainders *)

\* A number is a multiple of B and a remainder.
LEMMA DivMod ==
  ASSUME NEW B \in Nat \ {0}, NEW a \in Nat
  PROVE  \E q \in Int, r \in 0 .. B - 1 : a = B * q + r /\ r = a % B
  OBVIOUS

\* The remainder is the only number of 0 .. B - 1 that leaves a multiple of B.
LEMMA ModUnique ==
  ASSUME NEW B \in Nat \ {0}, NEW a \in Nat, NEW q \in Int, NEW r \in 0 .. B - 1,
         a = B * q + r
  PROVE  a % B = r
  <1>1. PICK k \in Int, s \in 0 .. B - 1 : a = B * k + s /\ s = a % B
    BY DivMod
  <1>2. B * (q - k) = s - r
    BY <1>1
  <1>3. q - k < 1
    <2>1. SUFFICES ASSUME q - k >= 1 PROVE FALSE
      BY <1>1
    <2>2. B * (q - k) >= B
      BY <2>1, <1>1
    <2>. QED
      BY <2>2, <1>2, <1>1
  <1>4. q - k > -1
    <2>1. SUFFICES ASSUME q - k <= -1 PROVE FALSE
      BY <1>1
    <2>2. B * (q - k) <= -B
      BY <2>1, <1>1
    <2>. QED
      BY <2>2, <1>2, <1>1
  <1>5. q = k
    BY <1>1, <1>3, <1>4
  <1>6. B * (q - k) = 0
    BY <1>1, <1>5
  <1>7. s = r
    BY <1>2, <1>6
  <1>8. a % B = s
    BY <1>1, Zenon
  <1>. QED
    BY <1>7, <1>8, Zenon

-----------------------------------------------------------------------------
(* The inductive invariant *)

\* The types of the variables, as far as each step keeps them.
Types ==
  /\ program \in Programs
  /\ threadPc \in [Threads -> {"none", "open", "acquire", "work", "store", "release",
                               "signal", "done", "killed"}]
  /\ task \in [Threads -> Nat]
  /\ my_semaphore \in [Threads -> {0} \cup Semaphores]
  /\ value \in [Semaphores -> Nat] /\ lost \in [Semaphores -> Nat]
  /\ starts \in 0 .. MaxStarts /\ name \in 0 .. MaxStarts

\* A thread at its work items has opened its semaphore and has items left, all of
\* them when it starts; it posts only after the last item of a group.
ItemInv ==
  \A t \in Threads :
      /\ program # "named" => my_semaphore[t] \in Semaphores
      /\ threadPc[t] \in {"none", "open"} => task[t] = 0
      /\ threadPc[t] \in {"acquire", "work", "store", "release"} =>
            my_semaphore[t] \in Semaphores /\ task[t] < Items
      /\ threadPc[t] = "release" => PostsAfter(task[t])

\* The server that is about to make a semaphore has one more start.
ServerInv ==
  serverPc = "create" => program = "named" /\ starts < MaxStarts

Inv == Types /\ ItemInv /\ ServerInv /\ UnitsConserved

-----------------------------------------------------------------------------
(* Threads and those that hold a unit *)

LEMMA Sizes ==
  /\ NUM_RESOURCES \in Nat /\ NUM_TASKS \in Nat \ {0} /\ THREAD_BURST \in Nat
  /\ NumClients \in Nat /\ MaxStarts \in Nat \ {0}
  /\ Units \in Nat /\ Items \in Nat \ {0}
  BY SchedulerAssumption DEF Units, Items

\* There are finitely many threads.
LEMMA ThreadsFinite == IsFiniteSet(Threads)
  <1>. DEFINE Numbers(p) == IF p \in Programs THEN 0 .. MaxThreads[p] - 1 ELSE {}
              Pair == Numbers("detached") \cup Numbers("pairs")
              Other == Numbers("joined") \cup Numbers("onExit")
              Rest == Numbers("counter") \cup Numbers("named")
  <1>1. \A p : IsFiniteSet(Numbers(p))
    <2>. SUFFICES ASSUME NEW p PROVE IsFiniteSet(Numbers(p))
      OBVIOUS
    <2>1. CASE p \in Programs
      <3>1. MaxThreads[p] = MaxBursts[p] * THREAD_BURST /\ MaxBursts[p] \in Nat
        BY <2>1, SchedulerAssumption DEF MaxThreads
      <3>2. MaxThreads[p] - 1 \in Int
        BY <3>1, Sizes
      <3>. QED
        BY <2>1, <3>2, FS_Interval
    <2>2. CASE p \notin Programs
      BY <2>2, FS_EmptySet
    <2>. QED
      BY <2>1, <2>2
  <1>2. IsFiniteSet(Pair) /\ IsFiniteSet(Other) /\ IsFiniteSet(Rest)
    <2>. HIDE DEF Numbers
    <2>. QED
      BY <1>1, FS_Union
  <1>3. IsFiniteSet((Pair \cup Other) \cup Rest)
    <2>. HIDE DEF Numbers, Pair, Other, Rest
    <2>1. IsFiniteSet(Pair \cup Other)
      BY <1>2, FS_Union
    <2>. QED
      BY <1>2, <2>1, FS_Union
  <1>4. IsFiniteSet(UNION {0 .. MaxThreads[p] - 1 : p \in Programs})
    <2>1. UNION {0 .. MaxThreads[p] - 1 : p \in Programs}
             \subseteq (Pair \cup Other) \cup Rest
      BY SchedulerAssumption
    <2>. QED
      BY <1>3, <2>1, FS_Subset
  <1>5. IsFiniteSet(Processes)
    BY Sizes, FS_Interval DEF Processes
  <1>. QED
    BY <1>4, <1>5, FS_Product DEF Threads

\* And so there are of those that hold a unit.
LEMMA HoldersFinite ==
  ASSUME NEW s
  PROVE  IsFiniteSet(Holders(s)) /\ Cardinality(Holders(s)) \in Nat
  <1>1. Holders(s) \subseteq Threads
    BY DEF Holders
  <1>. QED
    BY <1>1, ThreadsFinite, FS_Subset, FS_CardinalityType

\* And so after a step.
LEMMA HoldersFiniteNext ==
  ASSUME NEW s
  PROVE  IsFiniteSet(Holders(s)') /\ Cardinality(Holders(s)') \in Nat
  <1>1. Holders(s)' \subseteq Threads
    BY DEF Holders
  <1>. QED
    BY <1>1, ThreadsFinite, FS_Subset, FS_CardinalityType

\* What follows a work item: the next one of its group, or what a post leads to.
LEMMA ItemOrder ==
  ASSUME NEW n \in Nat, n < Items
  PROVE  /\ ~PostsAfter(n) => n + 1 < Items /\ AfterItem(n) = "work"
         /\ PostsAfter(n) => /\ AfterItem(n) \in {"acquire", "signal", "done"}
                             /\ AfterItem(n) = "acquire" => n + 1 < Items
  <1>. USE Sizes
  <1>1. CASE program = "counter"
    BY <1>1 DEF PostsAfter, AfterItem, WaitsBefore
  <1>2. CASE program = "pairs"
    <2>1. n % 2 = 0 \/ n % 2 = 1
      OBVIOUS
    <2>2. n % 2 = 0 => (n + 1) % 2 = 1
      OBVIOUS
    <2>3. n % 2 = 1 => (n + 1) % 2 = 0
      OBVIOUS
    <2>. QED
      BY <1>2, <2>1, <2>2, <2>3 DEF PostsAfter, AfterItem, WaitsBefore
  <1>3. CASE program \notin {"counter", "pairs"}
    <2>1. PostsAfter(n) <=> n = Items - 1
      BY <1>3 DEF PostsAfter
    <2>2. CASE n < Items - 1
      BY <1>3, <2>1, <2>2 DEF AfterItem, WaitsBefore
    <2>3. CASE n = Items - 1
      BY <1>3, <2>1, <2>3 DEF AfterItem
    <2>. QED
      BY <2>2, <2>3
  <1>. QED
    BY <1>1, <1>2, <1>3

\* A step of a thread moves this thread and no other.
LEMMA Moves ==
  ASSUME Types, NEW t, NEW from, NEW to, ThreadStep(t, from, to)
  PROVE  /\ threadPc[t] = from
         /\ threadPc' = [threadPc EXCEPT ![t] = to]
         /\ \A u \in Threads : threadPc'[u] = IF u = t THEN to ELSE threadPc[u]
  BY DEF ThreadStep, Types

\* A thread that moves on outside, or inside, its critical section leaves those that
\* hold a unit as they are.
LEMMA HoldersKept ==
  ASSUME Types, NEW t, NEW from, NEW to, ThreadStep(t, from, to),
         from \in {"work", "store", "release"} <=> to \in {"work", "store", "release"},
         my_semaphore' = my_semaphore
  PROVE  \A s : Holders(s)' = Holders(s)
  <1>1. \A u \in Threads : threadPc'[u] = IF u = t THEN to ELSE threadPc[u]
    BY Moves
  <1>2. threadPc[t] = from
    BY Moves
  <1>. QED
    BY <1>1, <1>2 DEF Holders, Holding

-----------------------------------------------------------------------------
(* The end of a process *)

\* A process that ends takes the units of its threads with it, and no others.
LEMMA ExitTakes ==
  ASSUME Types, NEW p, ExitProcess(p)
  PROVE  \A s \in Semaphores :
             /\ lost'[s] \in Nat
             /\ Cardinality(Holders(s)') + lost'[s] = Cardinality(Holders(s)) + lost[s]
  <1>. DEFINE killed == {t \in Threads : t[1] = p /\ Alive(t)}
  <1>. SUFFICES ASSUME NEW s \in Semaphores
                PROVE  /\ lost'[s] \in Nat
                       /\ Cardinality(Holders(s)') + lost'[s]
                             = Cardinality(Holders(s)) + lost[s]
    OBVIOUS
  <1>1. Holders(s)' = Holders(s) \ killed
    BY DEF ExitProcess, threads, Holders, Holding, Alive
  <1>2. lost'[s] = lost[s] + Cardinality(Holders(s) \cap killed)
    BY DEF ExitProcess
  <1>. HIDE DEF killed
  <1>3. /\ IsFiniteSet(Holders(s) \cap killed)
        /\ Cardinality(Holders(s) \cap killed) \in Nat
    BY HoldersFinite, FS_Subset, FS_CardinalityType
  <1>4. Cardinality(Holders(s) \ killed)
           = Cardinality(Holders(s)) - Cardinality(Holders(s) \cap killed)
    BY HoldersFinite, FS_Difference
  <1>5. Cardinality(Holders(s)) \in Nat /\ lost[s] \in Nat
    BY HoldersFinite DEF Types
  <1>. QED
    BY <1>1, <1>2, <1>3, <1>4, <1>5

-----------------------------------------------------------------------------
(* The initial states *)

LEMMA InitInv == Init => Inv
  <1>. SUFFICES ASSUME Init
                PROVE  Inv
    OBVIOUS
  <1>. USE Sizes DEF Init
  <1>1. Types
    <2>1. \A s \in Semaphores : value[s] \in Nat
      OBVIOUS
    <2>2. value \in [Semaphores -> Nat]
      BY <2>1
    <2>3. my_semaphore \in [Threads -> {0} \cup Semaphores]
      BY DEF Semaphores
    <2>. QED
      BY <2>2, <2>3 DEF Types
  <1>2. ItemInv /\ ServerInv
    BY DEF ItemInv, ServerInv, Semaphores
  <1>3. UnitsConserved
    <2>. SUFFICES ASSUME NEW s \in Semaphores
                  PROVE  value[s] + Cardinality(Holders(s)) + lost[s]
                           = IF program # "named" THEN IF s = 1 THEN Units ELSE 0
                             ELSE IF s <= starts THEN NUM_RESOURCES ELSE 0
      BY DEF UnitsConserved
    <2>1. Holders(s) = {}
      BY DEF Holders, Holding
    <2>2. Cardinality(Holders(s)) = 0
      BY <2>1, FS_EmptySet
    <2>3. ~(s <= starts)
      BY DEF Semaphores
    <2>. QED
      BY <2>2, <2>3
  <1>. QED
    BY <1>1, <1>2, <1>3 DEF Inv

-----------------------------------------------------------------------------
(* The steps *)

\* The steps of the main threads and of the server that move no thread and no unit.
Quiet ==
  \/ \E p \in Processes :
        \/ Enter(p) \/ EndOfInput(p) \/ AwaitThread(p) \/ LoopOverAwait(p)
        \/ Destroy(p) \/ ExitSafely(p)
  \/ UnlinkOld \/ Cleanup \/ ServerKilled
  \/ UNCHANGED vars

LEMMA QuietKeeps ==
  ASSUME Quiet
  PROVE  /\ UNCHANGED <<program, threads, value, lost, starts>>
         /\ name' \in {0, name}
         /\ serverPc' = "create" => serverPc = "create" \/ UnlinkOld
         /\ freed' = freed \/ freed' = TRUE
  <1>. USE DEF drivers, threads, counter, serverVars
  <1>1. ASSUME NEW p \in Processes,
               \/ Enter(p) \/ EndOfInput(p) \/ AwaitThread(p) \/ LoopOverAwait(p)
               \/ Destroy(p) \/ ExitSafely(p)
        PROVE  /\ UNCHANGED <<program, threads, value, lost, starts, name, serverPc>>
               /\ freed' = freed \/ freed' = TRUE
    BY <1>1 DEF Enter, EndOfInput, AwaitThread, LoopOverAwait, Destroy, ExitSafely
  <1>2. CASE UnlinkOld
    BY <1>2 DEF UnlinkOld
  <1>3. CASE Cleanup
    BY <1>3 DEF Cleanup
  <1>4. CASE ServerKilled
    BY <1>4 DEF ServerKilled
  <1>5. CASE UNCHANGED vars
    BY <1>5 DEF vars
  <1>. QED
    BY <1>1, <1>2, <1>3, <1>4, <1>5 DEF Quiet

\* What a step must leave alone to keep the invariant for this reason only.
LEMMA KeptStep ==
  ASSUME Inv,
         UNCHANGED <<program, threads, value, lost, starts>>,
         name' \in {0, name},
         serverPc' = "create" => serverPc = "create" \/ UnlinkOld,
         freed' = freed \/ freed' = TRUE
  PROVE  Inv'
  <1>. USE DEF Inv, threads
  <1>1. Types'
    BY Sizes DEF Types
  <1>2. ItemInv'
    BY DEF ItemInv, PostsAfter, Items
  <1>3. ServerInv'
    BY DEF ServerInv, UnlinkOld
  <1>4. UnitsConserved'
    BY DEF UnitsConserved, Holders, Holding, Units
  <1>. QED
    BY <1>1, <1>2, <1>3, <1>4

\* As long as the right-hand side is what it was, it is enough that each semaphore
\* has as many units as before.
LEMMA UnitsKept ==
  ASSUME UnitsConserved, UNCHANGED <<program, starts, freed>>,
         \A s \in Semaphores : value'[s] + Cardinality(Holders(s)') + lost'[s]
                                  = value[s] + Cardinality(Holders(s)) + lost[s]
  PROVE  UnitsConserved'
  BY DEF UnitsConserved, Units

\* The steps of a thread, and the start of one: what the thread must keep to.
LEMMA MoveKeeps ==
  ASSUME Inv, NEW t \in Threads, NEW from,
         NEW to \in {"open", "acquire", "work", "store", "release", "signal", "done"},
         ThreadStep(t, from, to),
         task' \in [Threads -> Nat], my_semaphore' \in [Threads -> {0} \cup Semaphores],
         \A u \in Threads : u # t => /\ task'[u] = task[u]
                                     /\ my_semaphore'[u] = my_semaphore[u],
         program # "named" => my_semaphore'[t] \in Semaphores,
         to \in {"acquire", "work", "store", "release"}
            => my_semaphore'[t] \in Semaphores /\ task'[t] < Items,
         to = "release" => PostsAfter(task'[t]), to = "open" => task'[t] = 0,
         value' \in [Semaphores -> Nat], UNCHANGED <<program, lost, serverVars>>
  PROVE  Types' /\ ItemInv' /\ ServerInv'
  <1>. USE DEF Inv, serverVars
  <1>1. /\ threadPc' = [threadPc EXCEPT ![t] = to]
        /\ \A u \in Threads : threadPc'[u] = IF u = t THEN to ELSE threadPc[u]
    BY Moves
  <1>2. Types'
    BY <1>1 DEF Types
  <1>3. ItemInv'
    <2>. SUFFICES ASSUME NEW u \in Threads
                  PROVE  /\ program' # "named" => my_semaphore'[u] \in Semaphores
                         /\ threadPc'[u] \in {"none", "open"} => task'[u] = 0
                         /\ threadPc'[u] \in {"acquire", "work", "store", "release"} =>
                               my_semaphore'[u] \in Semaphores /\ task'[u] < Items'
                         /\ threadPc'[u] = "release" => PostsAfter(task[u])'
      BY DEF ItemInv
    <2>1. Items' = Items /\ (PostsAfter(task[u])' <=> PostsAfter(task'[u]))
      BY DEF Items, PostsAfter
    <2>2. CASE u = t
      BY <1>1, <2>1, <2>2 DEF ItemInv
    <2>3. CASE u # t
      BY <1>1, <2>1, <2>3 DEF ItemInv
    <2>. QED
      BY <2>2, <2>3
  <1>4. ServerInv'
    BY DEF ServerInv
  <1>. QED
    BY <1>2, <1>3, <1>4

\* Such a step that leaves every unit where it is.
LEMMA MoveStep ==
  ASSUME Inv, NEW t \in Threads, NEW from,
         NEW to \in {"open", "acquire", "work", "store", "release", "signal", "done"},
         ThreadStep(t, from, to),
         from \in {"work", "store", "release"} <=> to \in {"work", "store", "release"},
         task' \in [Threads -> Nat],
         \A u \in Threads : u # t => task'[u] = task[u],
         to \in {"acquire", "work", "store", "release"}
            => my_semaphore[t] \in Semaphores /\ task'[t] < Items,
         to = "release" => PostsAfter(task'[t]), to = "open" => task'[t] = 0,
         UNCHANGED <<program, my_semaphore, value, lost, freed, serverVars>>
  PROVE  Inv'
  <1>. USE DEF Inv
  <1>1. program # "named" => my_semaphore'[t] \in Semaphores
    BY DEF ItemInv
  <1>2. /\ my_semaphore' \in [Threads -> {0} \cup Semaphores]
        /\ value' \in [Semaphores -> Nat]
    BY DEF Types
  <1>3. Types' /\ ItemInv' /\ ServerInv'
    BY <1>1, <1>2, MoveKeeps
  <1>4. \A s : Holders(s)' = Holders(s)
    BY HoldersKept
  <1>5. UnitsConserved'
    BY <1>4, UnitsKept DEF serverVars
  <1>. QED
    BY <1>3, <1>5

\* The main thread starts a thread, which has all its items before it.
LEMMA SpawnStep ==
  ASSUME Inv, NEW p \in Processes, Spawn(p)
  PROVE  Inv'
  <1>. DEFINE t == <<p, thread_ID[p]>>
              to == IF program = "named" THEN "open" ELSE "acquire"
  <1>. USE DEF Inv
  <1>1. /\ ThreadStep(t, "none", to)
        /\ UNCHANGED <<program, task, my_semaphore, value, lost, freed, serverVars>>
    BY DEF Spawn
  <1>2. CASE t \in Threads
    <2>1. threadPc[t] = "none"
      BY <1>1 DEF ThreadStep
    <2>2. task[t] = 0 /\ 0 < Items
      BY <1>2, <2>1, Sizes DEF ItemInv
    <2>3. program # "named" => my_semaphore[t] \in Semaphores
      BY <1>2 DEF ItemInv
    <2>4. task \in [Threads -> Nat]
      BY DEF Types
    <2>. HIDE DEF t
    <2>. QED
      BY <1>1, <1>2, <2>2, <2>3, <2>4, MoveStep
  <1>3. CASE t \notin Threads
    <2>1. threadPc' = threadPc
      BY <1>1, <1>3 DEF ThreadStep, Types
    <2>. QED
      BY <1>1, <2>1, KeptStep DEF threads, serverVars
  <1>. QED
    BY <1>2, <1>3

\* A thread that ends a process, by exit(1).
LEMMA ExitStep ==
  ASSUME Inv, NEW p, ExitProcess(p)
  PROVE  Inv'
  <1>. USE DEF Inv
  <1>1. UNCHANGED <<program, task, my_semaphore, value, freed, starts, name, serverPc>>
    BY DEF ExitProcess, counter, serverVars
  <1>2. \A t \in Threads : threadPc'[t] \in {threadPc[t], "killed"}
    BY DEF ExitProcess
  <1>3. \A s \in Semaphores :
             /\ lost'[s] \in Nat
             /\ Cardinality(Holders(s)') + lost'[s] = Cardinality(Holders(s)) + lost[s]
    BY ExitTakes
  <1>4. Types'
    <2>1. threadPc' = [t \in Threads |-> threadPc'[t]]
          /\ lost' = [s \in Semaphores |-> lost'[s]]
      BY DEF ExitProcess
    <2>2. lost' \in [Semaphores -> Nat]
      BY <1>3, <2>1
    <2>3. threadPc' \in [Threads -> {"none", "open", "acquire", "work", "store",
                                      "release", "signal", "done", "killed"}]
      BY <1>2, <2>1 DEF Types
    <2>. QED
      BY <1>1, <2>2, <2>3 DEF Types
  <1>5. ItemInv'
    <2>. SUFFICES ASSUME NEW t \in Threads
                  PROVE  /\ program' # "named" => my_semaphore'[t] \in Semaphores
                         /\ threadPc'[t] \in {"none", "open"} => task'[t] = 0
                         /\ threadPc'[t] \in {"acquire", "work", "store", "release"} =>
                               my_semaphore'[t] \in Semaphores /\ task'[t] < Items'
                         /\ threadPc'[t] = "release" => PostsAfter(task[t])'
      BY DEF ItemInv
    <2>1. Items' = Items /\ (PostsAfter(task[t])' <=> PostsAfter(task[t]))
      BY <1>1 DEF Items, PostsAfter
    <2>2. CASE threadPc'[t] = "killed"
      BY <1>1, <2>2 DEF ItemInv
    <2>3. CASE threadPc'[t] = threadPc[t]
      BY <1>1, <2>1, <2>3 DEF ItemInv
    <2>. QED
      BY <1>2, <2>2, <2>3
  <1>6. ServerInv'
    BY <1>1 DEF ServerInv
  <1>7. UnitsConserved'
    <2>1. \A s \in Semaphores : value'[s] + Cardinality(Holders(s)') + lost'[s]
                                  = value[s] + Cardinality(Holders(s)) + lost[s]
      <3>. SUFFICES ASSUME NEW s \in Semaphores
                    PROVE  value'[s] + Cardinality(Holders(s)') + lost'[s]
                              = value[s] + Cardinality(Holders(s)) + lost[s]
        OBVIOUS
      <3>. DEFINE before == Cardinality(Holders(s))
                  after == Cardinality(Holders(s)')
      <3>1. before \in Nat /\ after \in Nat /\ value[s] \in Nat /\ lost[s] \in Nat
        BY <1>4, HoldersFinite, HoldersFiniteNext DEF Types
      <3>2. lost'[s] \in Nat /\ after + lost'[s] = before + lost[s] /\ value' = value
        BY <1>1, <1>3
      <3>. HIDE DEF before, after
      <3>3. value'[s] + after + lost'[s] = value[s] + before + lost[s]
        BY <3>1, <3>2
      <3>. QED
        BY <3>3 DEF before, after
    <2>. QED
      BY <1>1, <2>1, UnitsKept
  <1>. QED
    BY <1>4, <1>5, <1>6, <1>7

-----------------------------------------------------------------------------
(* The steps of the threads *)

LEMMA OpenStep ==
  ASSUME Inv, NEW t \in Threads, Open(t)
  PROVE  Inv'
  <1>. USE DEF Inv
  <1>1. /\ ThreadStep(t, "open", "acquire") /\ name # 0
        /\ my_semaphore' = [my_semaphore EXCEPT ![t] = name]
        /\ UNCHANGED <<program, task, value, lost, freed, serverVars>>
    BY DEF Open
  <1>2. threadPc[t] = "open"
    BY <1>1 DEF ThreadStep
  <1>3. task[t] = 0 /\ 0 < Items /\ task \in [Threads -> Nat]
    BY <1>2, Sizes DEF ItemInv, Types
  <1>4. name \in Semaphores
    BY <1>1, Sizes DEF Types, Semaphores
  <1>5. /\ my_semaphore' \in [Threads -> {0} \cup Semaphores]
        /\ \A u \in Threads : my_semaphore'[u] = IF u = t THEN name ELSE my_semaphore[u]
    BY <1>1, <1>4 DEF Types
  <1>6. value' \in [Semaphores -> Nat]
    BY <1>1 DEF Types
  <1>7. Types' /\ ItemInv' /\ ServerInv'
    BY <1>1, <1>3, <1>4, <1>5, <1>6, MoveKeeps
  <1>8. \A s : Holders(s)' = Holders(s)
    <2>1. \A u \in Threads : threadPc'[u] = IF u = t THEN "acquire" ELSE threadPc[u]
      BY <1>1, Moves
    <2>. QED
      BY <1>2, <1>5, <2>1 DEF Holders, Holding
  <1>9. UnitsConserved'
    BY <1>1, <1>8, UnitsKept DEF serverVars
  <1>. QED
    BY <1>7, <1>9

\* The unit that a thread takes is the one that the semaphore has less.
LEMMA AcquireStep ==
  ASSUME Inv, NEW t \in Threads, Acquire(t)
  PROVE  Inv'
  <1>. DEFINE m == my_semaphore[t]
  <1>. USE DEF Inv
  <1>1. /\ ThreadStep(t, "acquire", "work")
        /\ value[m] > 0 /\ value' = [value EXCEPT ![m] = @ - 1]
        /\ UNCHANGED <<program, task, my_semaphore, lost, freed, serverVars>>
    BY DEF Acquire
  <1>2. threadPc[t] = "acquire"
    BY <1>1 DEF ThreadStep
  <1>3. m \in Semaphores /\ task[t] < Items /\ task \in [Threads -> Nat]
    BY <1>2 DEF ItemInv, Types
  <1>4. /\ value' \in [Semaphores -> Nat]
        /\ my_semaphore \in [Threads -> {0} \cup Semaphores]
    BY <1>1, <1>3 DEF Types
  <1>5. Types' /\ ItemInv' /\ ServerInv'
    BY <1>1, <1>3, <1>4, MoveKeeps
  <1>6. \A u \in Threads : threadPc'[u] = IF u = t THEN "work" ELSE threadPc[u]
    BY <1>1, Moves
  <1>7. ASSUME NEW s \in Semaphores
        PROVE  value'[s] + Cardinality(Holders(s)') + lost'[s]
                  = value[s] + Cardinality(Holders(s)) + lost[s]
    <2>1. CASE s = m
      <3>1. Holders(s)' = Holders(s) \cup {t} /\ t \notin Holders(s)
        BY <1>1, <1>2, <1>6, <2>1 DEF Holders, Holding
      <3>2. Cardinality(Holders(s)') = Cardinality(Holders(s)) + 1
        BY <3>1, HoldersFinite, FS_AddElement
      <3>3. value[s] \in Nat /\ value'[s] = value[s] - 1 /\ lost[s] \in Nat
            /\ lost'[s] = lost[s]
        BY <1>1, <2>1 DEF Types
      <3>4. Cardinality(Holders(s)) \in Nat
        BY HoldersFinite
      <3>. QED
        BY <3>2, <3>3, <3>4
    <2>2. CASE s # m
      <3>1. Holders(s)' = Holders(s)
        BY <1>1, <1>2, <1>6, <2>2 DEF Holders, Holding
      <3>. QED
        BY <1>1, <2>2, <3>1 DEF Types
    <2>. QED
      BY <2>1, <2>2
  <1>8. UnitsConserved'
    BY <1>1, <1>7, UnitsKept DEF serverVars
  <1>. QED
    BY <1>5, <1>8

\* A work item ends in a post where a group does, and in the next item elsewhere.
LEMMA WorkStep ==
  ASSUME Inv, NEW t \in Threads, Work(t)
  PROVE  Inv'
  <1>. USE DEF Inv
  <1>1. /\ ThreadStep(t, "work", IF PostsAfter(task[t]) THEN "release"
                                 ELSE AfterItem(task[t]))
        /\ task' = IF PostsAfter(task[t]) THEN task ELSE [task EXCEPT ![t] = @ + 1]
        /\ UNCHANGED <<program, my_semaphore, value, lost, freed, serverVars>>
    BY DEF Work
  <1>2. threadPc[t] = "work"
    BY <1>1 DEF ThreadStep
  <1>3. /\ my_semaphore[t] \in Semaphores /\ task[t] < Items /\ task[t] \in Nat
        /\ task \in [Threads -> Nat]
    BY <1>2 DEF ItemInv, Types
  <1>4. CASE PostsAfter(task[t])
    <2>1. ThreadStep(t, "work", "release") /\ task' = task
      BY <1>1, <1>4
    <2>. QED
      BY <1>1, <1>3, <1>4, <2>1, MoveStep
  <1>5. CASE ~PostsAfter(task[t])
    <2>1. AfterItem(task[t]) = "work" /\ task[t] + 1 < Items
      BY <1>3, <1>5, ItemOrder
    <2>2. ThreadStep(t, "work", "work") /\ task' = [task EXCEPT ![t] = @ + 1]
      BY <1>1, <1>5, <2>1
    <2>3. /\ task' \in [Threads -> Nat] /\ task'[t] = task[t] + 1
          /\ \A u \in Threads : u # t => task'[u] = task[u]
      BY <1>3, <2>2
    <2>. QED
      BY <1>1, <1>3, <2>1, <2>2, <2>3, MoveStep
  <1>. QED
    BY <1>4, <1>5

\* The load and the store of "counter", where each item ends in a post.
LEMMA CounterStep ==
  ASSUME Inv, NEW t \in Threads, program = "counter",
         LoadVariable(t) \/ StoreVariable(t)
  PROVE  Inv'
  <1>. USE DEF Inv
  <1>1. PICK from \in {"work", "store"} :
          /\ ThreadStep(t, from, IF from = "work" THEN "store" ELSE "release")
          /\ UNCHANGED <<program, task, my_semaphore, value, lost, freed, serverVars>>
    BY DEF LoadVariable, StoreVariable
  <1>. DEFINE to == IF from = "work" THEN "store" ELSE "release"
  <1>2. threadPc[t] = from
    BY <1>1 DEF ThreadStep
  <1>3. my_semaphore[t] \in Semaphores /\ task[t] < Items /\ task \in [Threads -> Nat]
    BY <1>2 DEF ItemInv, Types
  <1>4. PostsAfter(task[t])
    BY DEF PostsAfter
  <1>5. to \in {"store", "release"} /\ ThreadStep(t, from, to)
    BY <1>1
  <1>. HIDE DEF to
  <1>. QED
    BY <1>1, <1>3, <1>4, <1>5, MoveStep

\* The post that tells main about the end of a thread.
LEMMA SignalStep ==
  ASSUME Inv, NEW t \in Threads, SignalEnd(t)
  PROVE  Inv'
  <1>. USE DEF Inv
  <1>1. /\ ThreadStep(t, "signal", "done")
        /\ UNCHANGED <<program, task, my_semaphore, value, lost, freed, serverVars>>
    BY DEF SignalEnd
  <1>2. task \in [Threads -> Nat]
    BY DEF Types
  <1>. QED
    BY <1>1, <1>2, MoveStep

\* What a thread that posts goes on to, and with which item.
LEMMA ReleaseMoves ==
  ASSUME Inv, NEW t \in Threads, ThreadStep(t, "release", AfterItem(task[t])),
         task' = [task EXCEPT ![t] = @ + 1],
         value' \in [Semaphores -> Nat],
         UNCHANGED <<program, my_semaphore, lost, serverVars>>
  PROVE  /\ Types' /\ ItemInv' /\ ServerInv'
         /\ threadPc[t] = "release" /\ my_semaphore[t] \in Semaphores
         /\ AfterItem(task[t]) \in {"acquire", "signal", "done"}
  <1>. USE DEF Inv
  <1>1. threadPc[t] = "release"
    BY DEF ThreadStep
  <1>2. /\ my_semaphore[t] \in Semaphores /\ task[t] < Items /\ task[t] \in Nat
        /\ PostsAfter(task[t])
        /\ task \in [Threads -> Nat]
        /\ my_semaphore \in [Threads -> {0} \cup Semaphores]
    BY <1>1 DEF ItemInv, Types
  <1>3. /\ AfterItem(task[t]) \in {"acquire", "signal", "done"}
        /\ AfterItem(task[t]) = "acquire" => task[t] + 1 < Items
    BY <1>2, ItemOrder
  <1>4. /\ task' \in [Threads -> Nat] /\ task'[t] = task[t] + 1
        /\ \A u \in Threads : u # t => task'[u] = task[u]
    BY <1>2
  <1>5. Types' /\ ItemInv' /\ ServerInv'
    BY <1>2, <1>3, <1>4, MoveKeeps
  <1>. QED
    BY <1>1, <1>2, <1>3, <1>5

\* The unit that a thread gives back is the one that the semaphore has more.
LEMMA ReleaseStep ==
  ASSUME Inv, NEW t \in Threads, Release(t)
  PROVE  Inv'
  <1>. DEFINE m == my_semaphore[t]
              to == AfterItem(task[t])
  <1>. USE DEF Inv
  <1>1. /\ ThreadStep(t, "release", to)
        /\ task' = [task EXCEPT ![t] = @ + 1]
        /\ value' = [value EXCEPT ![m] = @ + 1]
        /\ UNCHANGED <<program, my_semaphore, lost, freed, serverVars>>
    BY DEF Release
  <1>2. value' \in [Semaphores -> Nat]
    <2>1. m \in Semaphores
      BY <1>1 DEF ItemInv, ThreadStep
    <2>2. value[m] + 1 \in Nat /\ value \in [Semaphores -> Nat]
      BY <2>1 DEF Types
    <2>3. value' = [value EXCEPT ![m] = value[m] + 1]
      BY <1>1
    <2>. HIDE DEF m, to
    <2>. QED
      BY <2>2, <2>3
  <1>3. /\ Types' /\ ItemInv' /\ ServerInv'
        /\ threadPc[t] = "release" /\ m \in Semaphores
        /\ to \in {"acquire", "signal", "done"}
    BY <1>1, <1>2, ReleaseMoves
  <1>4. \A u \in Threads : threadPc'[u] = IF u = t THEN to ELSE threadPc[u]
    BY <1>1, Moves
  <1>. HIDE DEF to
  <1>5. ASSUME NEW s \in Semaphores
        PROVE  value'[s] + Cardinality(Holders(s)') + lost'[s]
                  = value[s] + Cardinality(Holders(s)) + lost[s]
    <2>1. CASE s = m
      <3>1. Holders(s)' = Holders(s) \ {t} /\ t \in Holders(s)
        BY <1>1, <1>3, <1>4, <2>1 DEF Holders, Holding
      <3>2. Cardinality(Holders(s)') = Cardinality(Holders(s)) - 1
        BY <3>1, HoldersFinite, FS_RemoveElement
      <3>3. /\ value[s] \in Nat /\ value'[s] = value[s] + 1
            /\ lost[s] \in Nat /\ lost'[s] = lost[s]
        BY <1>1, <2>1 DEF Types
      <3>4. Cardinality(Holders(s)) \in Nat
        BY HoldersFinite
      <3>. QED
        BY <3>2, <3>3, <3>4
    <2>2. CASE s # m
      <3>1. Holders(s)' = Holders(s)
        BY <1>1, <1>3, <1>4, <2>2 DEF Holders, Holding
      <3>. QED
        BY <1>1, <2>2, <3>1 DEF Types
    <2>. QED
      BY <2>1, <2>2
  <1>6. UnitsConserved'
    BY <1>1, <1>5, UnitsKept DEF serverVars
  <1>. QED
    BY <1>3, <1>6

\* Of a semaphore that is no more nothing is promised, and it does not come back.
LEMMA UseFreedStep ==
  ASSUME Inv, NEW t \in Threads, UseFreed(t)
  PROVE  Inv'
  <1>. USE DEF Inv
  <1>1. freed
    BY DEF UseFreed
  <1>2. ASSUME ThreadStep(t, "acquire", "work"),
               UNCHANGED <<program, task, my_semaphore, value, lost, freed, serverVars>>
        PROVE  Inv'
    <2>1. threadPc[t] = "acquire"
      BY <1>2 DEF ThreadStep
    <2>2. my_semaphore[t] \in Semaphores /\ task[t] < Items /\ task \in [Threads -> Nat]
      BY <2>1 DEF ItemInv, Types
    <2>3. /\ value' \in [Semaphores -> Nat]
          /\ my_semaphore \in [Threads -> {0} \cup Semaphores]
      BY <1>2 DEF Types
    <2>4. Types' /\ ItemInv' /\ ServerInv'
      BY <1>2, <2>2, <2>3, MoveKeeps
    <2>. QED
      BY <1>1, <1>2, <2>4 DEF UnitsConserved
  <1>3. ASSUME ThreadStep(t, "release", AfterItem(task[t])),
               task' = [task EXCEPT ![t] = @ + 1],
               UNCHANGED <<program, my_semaphore, value, lost, freed, serverVars>>
        PROVE  Inv'
    <2>1. value' \in [Semaphores -> Nat]
      BY <1>3 DEF Types
    <2>2. Types' /\ ItemInv' /\ ServerInv'
      BY <1>3, <2>1, ReleaseMoves
    <2>. QED
      BY <1>1, <1>3, <2>2 DEF UnitsConserved
  <1>4. CASE ExitProcess(t[1])
    BY <1>4, ExitStep
  <1>. QED
    BY <1>2, <1>3, <1>4 DEF UseFreed

-----------------------------------------------------------------------------
(* The server, and every step *)

\* A semaphore that is made has all its units, and had none before.
LEMMA CreateStep ==
  ASSUME Inv, CreateSemaphore
  PROVE  Inv'
  <1>. DEFINE k == starts + 1
  <1>. USE DEF Inv
  <1>1. /\ serverPc = "create" /\ serverPc' = "up" /\ starts' = k /\ name' = k
        /\ value' = [value EXCEPT ![k] = Units]
        /\ UNCHANGED <<program, threadPc, task, my_semaphore, lost, freed>>
    BY DEF CreateSemaphore, threads
  <1>2. program = "named" /\ Units = NUM_RESOURCES /\ starts < MaxStarts
    BY <1>1 DEF ServerInv, Units
  <1>3. starts \in Nat /\ starts' \in 1 .. MaxStarts /\ k \in Semaphores
    BY <1>1, <1>2, Sizes DEF Types, Semaphores
  <1>4. Types'
    <2>1. value' \in [Semaphores -> Nat]
      BY <1>1, Sizes DEF Types
    <2>. QED
      BY <1>1, <1>3, <2>1, Sizes DEF Types
  <1>5. ItemInv'
    BY <1>1 DEF ItemInv, PostsAfter, Items
  <1>6. ServerInv'
    BY <1>1 DEF ServerInv
  <1>7. UnitsConserved'
    <2>. SUFFICES ASSUME ~freed, NEW s \in Semaphores
                  PROVE  value'[s] + Cardinality(Holders(s)') + lost'[s]
                            = IF s <= starts' THEN NUM_RESOURCES ELSE 0
      BY <1>1, <1>2 DEF UnitsConserved
    <2>1. value[s] + Cardinality(Holders(s)) + lost[s]
             = IF s <= starts THEN NUM_RESOURCES ELSE 0
      BY <1>2 DEF UnitsConserved
    <2>2. Holders(s)' = Holders(s) /\ lost' = lost
      BY <1>1 DEF Holders, Holding
    <2>3. Cardinality(Holders(s)) \in Nat /\ value[s] \in Nat /\ lost[s] \in Nat
      BY HoldersFinite DEF Types
    <2>4. s \in Nat
      BY DEF Semaphores
    <2>5. CASE s = k
      <3>1. value'[s] = NUM_RESOURCES
        BY <1>1, <1>2, <2>5 DEF Types
      <3>2. value[s] + Cardinality(Holders(s)) + lost[s] = 0
        BY <1>3, <2>1, <2>5
      <3>3. Cardinality(Holders(s)) = 0 /\ lost[s] = 0
        BY <2>3, <3>2
      <3>. QED
        BY <1>1, <1>3, <2>2, <2>5, <3>1, <3>3, Sizes
    <2>6. CASE s # k
      <3>1. value'[s] = value[s] /\ (s <= starts' <=> s <= starts)
        BY <1>1, <1>3, <2>4, <2>6 DEF Types
      <3>. QED
        BY <2>1, <2>2, <3>1
    <2>. QED
      BY <2>5, <2>6
  <1>. QED
    BY <1>4, <1>5, <1>6, <1>7

LEMMA QuietStep ==
  ASSUME Inv, Quiet
  PROVE  Inv'
  BY QuietKeeps, KeptStep

\* Every step keeps the invariant.
LEMMA InvStep ==
  ASSUME Inv, [Next]_vars
  PROVE  Inv'
  <1>1. ASSUME NEW p \in Processes, DriverNext(p)
        PROVE  Inv'
    <2>1. CASE Spawn(p)
      BY <2>1, SpawnStep
    <2>2. CASE CreateFails(p)
      BY <2>2, ExitStep DEF CreateFails
    <2>3. CASE \/ Enter(p) \/ EndOfInput(p) \/ AwaitThread(p) \/ LoopOverAwait(p)
               \/ Destroy(p) \/ ExitSafely(p)
      BY <2>3, QuietStep DEF Quiet
    <2>. QED
      BY <1>1, <2>1, <2>2, <2>3
      DEF DriverNext, DetachingDriver, WaitingDriver, ExitingDriver, CountingDriver,
          DriverLoop, AwaitThreads
  <1>2. ASSUME NEW t \in Threads, ThreadNext(t)
        PROVE  Inv'
    <2>1. CASE Open(t)
      BY <2>1, OpenStep
    <2>2. CASE OpenFails(t)
      BY <2>2, ExitStep DEF OpenFails
    <2>3. CASE Acquire(t)
      BY <2>3, AcquireStep
    <2>4. CASE Work(t)
      BY <2>4, WorkStep
    <2>5. CASE program = "counter" /\ (LoadVariable(t) \/ StoreVariable(t))
      BY <2>5, CounterStep
    <2>6. CASE Release(t)
      BY <2>6, ReleaseStep
    <2>7. CASE SignalEnd(t)
      BY <2>7, SignalStep
    <2>. QED
      BY <1>2, <2>1, <2>2, <2>3, <2>4, <2>5, <2>6, <2>7
      DEF ThreadNext, ClientThread, SignallingThread, CounterThread, NamedThread
  <1>3. ASSUME NEW t \in Threads, UseFreed(t)
        PROVE  Inv'
    BY <1>3, UseFreedStep
  <1>4. CASE CreateSemaphore
    BY <1>4, CreateStep
  <1>5. CASE UnlinkOld \/ Cleanup \/ ServerKilled \/ UNCHANGED vars
    BY <1>5, QuietStep DEF Quiet
  <1>. QED
    BY <1>1, <1>2, <1>3, <1>4, <1>5 DEF Next, Server

\* The invariant holds throughout.
THEOREM Invariants == Spec => []Inv
  <1>1. Init => Inv
    BY InitInv
  <1>2. Inv /\ [Next]_vars => Inv'
    BY InvStep
  <1>. QED
    BY <1>1, <1>2, PTL DEF Spec

\* Units are neither made nor lost, whatever the number of threads and the grouping
\* of their items, and however often the server of "named" is started anew: those of
\* the sem_wait and sem_post of client go by pairs.
THEOREM Conservation == Spec => []UnitsConserved
  <1>1. Inv => UnitsConserved
    BY DEF Inv
  <1>. QED
    BY <1>1, Invariants, PTL

-----------------------------------------------------------------------------
(* The end of the programs that take care of it *)

\* The threads that have started and have not ended.
Running == {t \in Threads : Alive(t)}

EndTypes ==
  /\ driver \in [Processes -> {"read", "spawn", "await", "destroy", "gone", "failed"}]
  /\ thread_ID \in [Processes -> Nat] /\ j \in [Processes -> Nat]
  /\ semaphore2 \in Nat

\* main has waited as often as it has started a thread when it frees.  In "joined"
\* the posts of the threads that end, those main has taken and the threads that run
\* are no more than those started; in "counter" main has joined the first j.
EndInv ==
  /\ program \in {"joined", "counter"} =>
        /\ driver[1] \in {"destroy", "gone"} => j[1] = thread_ID[1]
        /\ freed => driver[1] = "gone"
  /\ program = "joined" /\ driver[1] # "failed" =>
        j[1] + semaphore2 + Cardinality(Running) <= thread_ID[1]
  /\ program = "counter" =>
        /\ \A t \in Running : t[1] = 1 /\ t[2] < thread_ID[1]
        /\ \A t \in Threads : t[1] = 1 /\ t[2] < j[1] => threadPc[t] = "done"
  /\ program = "onExit" /\ freed => driver[1] = "gone" /\ Running = {}

LEMMA RunningFinite == IsFiniteSet(Running) /\ Cardinality(Running) \in Nat
  <1>1. Running \subseteq Threads
    BY DEF Running
  <1>. QED
    BY <1>1, ThreadsFinite, FS_Subset, FS_CardinalityType

\* The number of a thread, and the process it is of.
LEMMA ThreadParts ==
  ASSUME NEW t \in Threads
  PROVE  t = <<t[1], t[2]>> /\ t[1] \in Processes /\ t[2] \in Nat
  <1>1. \A p \in Programs : 0 .. MaxThreads[p] - 1 \subseteq Nat
    OBVIOUS
  <1>. QED
    BY <1>1 DEF Threads

LEMMA OneIsProcess == 1 \in Processes
  BY SchedulerAssumption DEF Processes

\* Once freed, no thread runs.
LEMMA FreedMeansNone ==
  ASSUME EndTypes, EndInv, freed, program \in {"joined", "onExit", "counter"}
  PROVE  Running = {} /\ driver[1] = "gone"
  <1>1. CASE program = "joined"
    <2>1. j[1] + semaphore2 + Cardinality(Running) <= thread_ID[1]
          /\ j[1] = thread_ID[1] /\ driver[1] = "gone"
      BY <1>1 DEF EndInv
    <2>2. Cardinality(Running) = 0
      BY <2>1, RunningFinite, OneIsProcess DEF EndTypes
    <2>. QED
      BY <2>1, <2>2, RunningFinite, FS_EmptySet
  <1>2. CASE program = "counter"
    <2>1. driver[1] = "gone" /\ j[1] = thread_ID[1]
      BY <1>2 DEF EndInv
    <2>2. \A t \in Running : FALSE
      BY <1>2, <2>1 DEF EndInv, Running, Alive
    <2>. QED
      BY <2>1, <2>2
  <1>3. CASE program = "onExit"
    BY <1>3 DEF EndInv
  <1>. QED
    BY <1>1, <1>2, <1>3

LEMMA EndInit == Init => EndTypes /\ EndInv
  <1>. SUFFICES ASSUME Init
                PROVE  EndTypes /\ EndInv
    OBVIOUS
  <1>1. Running = {}
    BY DEF Init, Running, Alive
  <1>2. Cardinality(Running) = 0
    BY <1>1, FS_EmptySet
  <1>3. EndTypes
    BY DEF Init, EndTypes
  <1>4. /\ driver[1] \in {"read", "spawn"} /\ ~freed /\ semaphore2 = 0
        /\ thread_ID[1] = 0 /\ j[1] = 0
    BY OneIsProcess DEF Init
  <1>5. \A t \in Threads : ~(t[2] < j[1])
    BY <1>4, ThreadParts
  <1>. QED
    BY <1>1, <1>2, <1>3, <1>4, <1>5 DEF EndInv

LEMMA EndTypesStep ==
  ASSUME EndTypes, [Next]_vars
  PROVE  EndTypes'
  <1>. USE DEF EndTypes, drivers
  <1>0. ASSUME NEW p, ExitProcess(p)
        PROVE  EndTypes'
    BY <1>0 DEF ExitProcess
  <1>1. ASSUME NEW p \in Processes, DriverNext(p)
        PROVE  EndTypes'
    <2>1. CASE Spawn(p)
      BY <2>1 DEF Spawn, DriverStep
    <2>2. CASE CreateFails(p)
      BY <2>2, <1>0 DEF CreateFails
    <2>3. CASE Enter(p)
      BY <2>3 DEF Enter, DriverStep
    <2>4. CASE EndOfInput(p)
      BY <2>4 DEF EndOfInput, DriverStep
    <2>5. CASE AwaitThread(p)
      BY <2>5 DEF AwaitThread, DriverStep
    <2>6. CASE LoopOverAwait(p)
      BY <2>6 DEF LoopOverAwait, DriverStep
    <2>7. CASE Destroy(p)
      BY <2>7 DEF Destroy, DriverStep
    <2>8. CASE ExitSafely(p)
      BY <2>8 DEF ExitSafely
    <2>. QED
      BY <1>1, <2>1, <2>2, <2>3, <2>4, <2>5, <2>6, <2>7, <2>8
      DEF DriverNext, DetachingDriver, WaitingDriver, ExitingDriver, CountingDriver,
          DriverLoop, AwaitThreads
  <1>2. ASSUME NEW t \in Threads, ThreadNext(t) \/ UseFreed(t)
        PROVE  EndTypes'
    <2>1. CASE SignalEnd(t)
      BY <2>1 DEF SignalEnd
    <2>2. CASE \E p : ExitProcess(p)
      BY <2>2, <1>0
    <2>3. CASE UNCHANGED <<drivers, semaphore2>>
      BY <2>3
    <2>. QED
      BY <1>2, <2>1, <2>2, <2>3
      DEF ThreadNext, ClientThread, SignallingThread, CounterThread, NamedThread,
          Open, OpenFails, Acquire, Work, LoadVariable, StoreVariable, Release, UseFreed
  <1>3. CASE Server \/ UNCHANGED vars
    BY <1>3 DEF Server, UnlinkOld, CreateSemaphore, Cleanup, ServerKilled, vars
  <1>. QED
    BY <1>1, <1>2, <1>3 DEF Next

\* A step that starts no thread and leaves main where it is.
LEMMA EndKept ==
  ASSUME EndInv, EndTypes,
         Running' \subseteq Running,
         \A u \in Threads : threadPc[u] = "done" => threadPc'[u] = "done",
         UNCHANGED <<program, drivers, semaphore2, freed>>
  PROVE  EndInv'
  <1>. USE DEF drivers
  <1>1. Cardinality(Running') <= Cardinality(Running)
    BY RunningFinite, FS_Subset
  <1>2. Cardinality(Running') \in Nat
    BY RunningFinite, FS_Subset, FS_CardinalityType
  <1>3. program = "joined" /\ driver[1] # "failed" =>
           j'[1] + semaphore2' + Cardinality(Running') <= thread_ID'[1]
    BY <1>1, <1>2, RunningFinite, OneIsProcess DEF EndInv, EndTypes
  <1>. QED
    BY <1>3 DEF EndInv

\* A thread that moves on is one that runs.
LEMMA RunningMoves ==
  ASSUME Types, NEW t \in Threads,
         NEW from \in {"open", "acquire", "work", "store", "release", "signal"}, NEW to,
         ThreadStep(t, from, to)
  PROVE  /\ t \in Running /\ Running' \subseteq Running
         /\ to = "done" => Running' = Running \ {t}
         /\ \A u \in Threads : threadPc[u] = "done" => threadPc'[u] = "done"
  <1>1. /\ threadPc[t] = from
        /\ \A u \in Threads : threadPc'[u] = IF u = t THEN to ELSE threadPc[u]
    BY Moves
  <1>. QED
    BY <1>1 DEF Running, Alive

\* The steps of the threads of these programs.
LEMMA EndThreadStep ==
  ASSUME Types, EndTypes, EndInv, program \in {"joined", "onExit", "counter"},
         NEW t \in Threads, ThreadNext(t) \/ UseFreed(t)
  PROVE  EndInv'
  <1>1. ASSUME NEW from \in {"open", "acquire", "work", "store", "release", "signal"},
               NEW to, ThreadStep(t, from, to),
               UNCHANGED <<program, drivers, semaphore2, freed>>
        PROVE  EndInv'
    BY <1>1, RunningMoves, EndKept
  <1>2. CASE Acquire(t)
    BY <1>1, <1>2 DEF Acquire
  <1>3. CASE Work(t)
    BY <1>1, <1>3 DEF Work
  <1>4. CASE LoadVariable(t)
    BY <1>1, <1>4 DEF LoadVariable
  <1>5. CASE StoreVariable(t)
    BY <1>1, <1>5 DEF StoreVariable
  <1>6. CASE Release(t)
    BY <1>1, <1>6 DEF Release
  <1>7. CASE program = "joined" /\ SignalEnd(t)
    <2>1. /\ ThreadStep(t, "signal", "done") /\ semaphore2' = semaphore2 + 1
          /\ UNCHANGED <<program, drivers, freed>>
      BY <1>7 DEF SignalEnd
    <2>2. t \in Running /\ Running' = Running \ {t}
      BY <2>1, RunningMoves
    <2>3. Cardinality(Running') = Cardinality(Running) - 1
      BY <2>2, RunningFinite, FS_RemoveElement
    <2>4. driver[1] # "failed" =>
             j'[1] + semaphore2' + Cardinality(Running') <= thread_ID'[1]
      BY <1>7, <2>1, <2>3, RunningFinite, OneIsProcess DEF EndInv, EndTypes, drivers
    <2>. QED
      BY <1>7, <2>1, <2>4 DEF EndInv, drivers
  <1>8. CASE UseFreed(t)
    <2>1. Running = {}
      BY <1>8, FreedMeansNone DEF UseFreed
    <2>2. threadPc[t] \in {"acquire", "release"}
      BY <1>8 DEF UseFreed, ThreadStep
    <2>. QED
      BY <2>1, <2>2 DEF Running, Alive
  <1>. QED
    BY <1>2, <1>3, <1>4, <1>5, <1>6, <1>7, <1>8
    DEF ThreadNext, ClientThread, SignallingThread, CounterThread

\* The start of a thread, which is one more that runs.
LEMMA EndSpawn ==
  ASSUME Types, EndTypes, EndInv, program \in {"joined", "onExit", "counter"},
         NEW p \in Processes, Spawn(p)
  PROVE  EndInv'
  <1>. DEFINE t == <<p, thread_ID[p]>>
              to == IF program = "named" THEN "open" ELSE "acquire"
  <1>1. /\ p = 1 /\ driver[1] = "spawn" /\ driver'[1] \in {"spawn", "read", "await"}
        /\ ThreadStep(t, "none", to)
        /\ thread_ID' = [thread_ID EXCEPT ![1] = @ + 1]
        /\ UNCHANGED <<program, j, semaphore2, freed>>
    BY OneIsProcess DEF Spawn, DriverStep, Present, EndTypes
  <1>2. ~freed
    BY <1>1, FreedMeansNone
  <1>3. /\ threadPc[t] = "none"
        /\ \A u \in Threads : threadPc'[u] = IF u = t THEN to ELSE threadPc[u]
    BY <1>1, Moves
  <1>4. Running' \subseteq Running \cup {t}
    BY <1>3 DEF Running, Alive
  <1>5. thread_ID'[1] = thread_ID[1] + 1
    BY <1>1, OneIsProcess DEF EndTypes
  <1>6. CASE program = "joined"
    <2>1. /\ IsFiniteSet(Running \cup {t})
          /\ Cardinality(Running \cup {t}) <= Cardinality(Running) + 1
      <3>. HIDE DEF t
      <3>. QED
        BY RunningFinite, FS_AddElement
    <2>2. /\ Cardinality(Running') <= Cardinality(Running) + 1
          /\ Cardinality(Running') \in Nat
      <3>1. Cardinality(Running') <= Cardinality(Running \cup {t})
            /\ IsFiniteSet(Running')
        BY <1>4, <2>1, FS_Subset
      <3>2. Cardinality(Running') \in Nat /\ Cardinality(Running \cup {t}) \in Nat
        BY <2>1, <3>1, FS_CardinalityType
      <3>. HIDE DEF t
      <3>. QED
        BY <2>1, <3>1, <3>2, RunningFinite
    <2>3. j'[1] + semaphore2' + Cardinality(Running') <= thread_ID'[1]
      BY <1>1, <1>5, <1>6, <2>2, RunningFinite, OneIsProcess DEF EndInv, EndTypes
    <2>. QED
      BY <1>1, <1>2, <1>6, <2>3 DEF EndInv
  <1>7. CASE program = "counter"
    <2>1. \A u \in Running' : u[1] = 1 /\ u[2] < thread_ID'[1]
      <3>. SUFFICES ASSUME NEW u \in Running'
                    PROVE  u[1] = 1 /\ u[2] < thread_ID'[1]
        OBVIOUS
      <3>1. u[2] \in Nat /\ thread_ID[1] \in Nat
        BY ThreadParts, OneIsProcess DEF Running, EndTypes
      <3>2. CASE u = t
        BY <1>1, <1>5, <3>1, <3>2
      <3>3. CASE u \in Running
        BY <1>5, <1>7, <3>1, <3>3 DEF EndInv
      <3>. QED
        BY <1>4, <3>2, <3>3
    <2>2. \A u \in Threads : u[1] = 1 /\ u[2] < j[1] => threadPc'[u] = "done"
      BY <1>3, <1>7 DEF EndInv
    <2>. QED
      BY <1>1, <1>2, <1>7, <2>1, <2>2 DEF EndInv
  <1>8. CASE program = "onExit"
    BY <1>1, <1>2, <1>8 DEF EndInv
  <1>. QED
    BY <1>6, <1>7, <1>8

\* The other steps of the main thread.
LEMMA EndDriverStep ==
  ASSUME Types, EndTypes, EndInv, program \in {"joined", "onExit", "counter"},
         NEW p \in Processes, DriverNext(p)
  PROVE  EndInv'
  <1>. USE OneIsProcess DEF EndTypes
  <1>1. p = 1
    BY DEF DriverNext, DetachingDriver, WaitingDriver, ExitingDriver, CountingDriver, DriverLoop,
           AwaitThreads, Enter, Spawn, CreateFails, EndOfInput, AwaitThread,
           LoopOverAwait, Destroy, ExitSafely, DriverStep, Present
  <1>2. CASE Spawn(p)
    BY <1>2, EndSpawn
  <1>3. CASE CreateFails(p)
    <2>1. driver[1] = "spawn" /\ driver'[1] = "failed" /\ UNCHANGED <<j, freed, program>>
      BY <1>1, <1>3 DEF CreateFails, ExitProcess
    <2>2. ~freed
      BY <2>1, FreedMeansNone
    <2>3. /\ Running' \subseteq Running /\ UNCHANGED thread_ID
          /\ \A u \in Threads : threadPc[u] = "done" => threadPc'[u] = "done"
      BY <1>3 DEF CreateFails, ExitProcess, Running, Alive
    <2>. QED
      BY <2>1, <2>2, <2>3 DEF EndInv
  <1>4. CASE Enter(p)
    <2>1. /\ p = 1 /\ driver[1] = "read" /\ driver'[1] = "spawn"
          /\ UNCHANGED <<program, threadPc, thread_ID, j, semaphore2, freed>>
      BY <1>1, <1>4 DEF Enter, DriverStep, threads
    <2>. QED
      BY <2>1, FreedMeansNone DEF EndInv, Running, Alive
  <1>5. CASE EndOfInput(p) /\ program # "counter"
    <2>1. /\ p = 1 /\ driver[1] = "read"
          /\ driver'[1] = IF program = "joined" THEN "await" ELSE "gone"
          /\ UNCHANGED <<program, threadPc, thread_ID, j, semaphore2, freed>>
      BY <1>1, <1>5 DEF EndOfInput, DriverStep, threads
    <2>2. ~freed
      BY <2>1, FreedMeansNone
    <2>. QED
      BY <1>5, <2>1, <2>2 DEF EndInv, Running, Alive
  <1>6. CASE AwaitThread(p)
    <2>1. /\ p = 1 /\ driver[1] = "await" /\ driver' = [driver EXCEPT ![1] = "await"]
          /\ j' = [j EXCEPT ![1] = @ + 1]
          /\ UNCHANGED <<program, threadPc, thread_ID, freed>>
          /\ IF program = "joined"
             THEN semaphore2 > 0 /\ semaphore2' = semaphore2 - 1
             ELSE threadPc[<<1, j[1]>>] = "done" /\ UNCHANGED semaphore2
      BY <1>1, <1>6 DEF AwaitThread, DriverStep, drivers, threads
    <2>2. ~freed /\ driver'[1] = "await" /\ j'[1] = j[1] + 1 /\ j[1] \in Nat
      BY <2>1, FreedMeansNone
    <2>3. Running' = Running
      BY <2>1 DEF Running, Alive
    <2>4. program = "joined" =>
             j'[1] + semaphore2' + Cardinality(Running') <= thread_ID'[1]
      BY <2>1, <2>2, <2>3, RunningFinite DEF EndInv
    <2>5. program = "counter" =>
             \A t \in Threads : t[1] = 1 /\ t[2] < j'[1] => threadPc'[t] = "done"
      <3>. SUFFICES ASSUME program = "counter", NEW t \in Threads, t[1] = 1, t[2] < j'[1]
                    PROVE  threadPc[t] = "done"
        BY <2>1
      <3>1. t[2] \in Nat /\ t = <<t[1], t[2]>>
        BY ThreadParts
      <3>2. CASE t[2] = j[1]
        BY <2>1, <3>1, <3>2
      <3>3. CASE t[2] < j[1]
        BY <3>3 DEF EndInv
      <3>. QED
        BY <2>2, <3>1, <3>2, <3>3
    <2>. QED
      BY <2>1, <2>2, <2>3, <2>4, <2>5 DEF EndInv
  <1>7. CASE LoopOverAwait(p)
    <2>1. /\ p = 1 /\ driver[1] = "await" /\ driver'[1] = "destroy"
          /\ j[1] = thread_ID[1]
          /\ UNCHANGED <<program, threadPc, thread_ID, j, semaphore2, freed>>
      BY <1>1, <1>7 DEF LoopOverAwait, DriverStep, threads
    <2>. QED
      BY <2>1, FreedMeansNone DEF EndInv, Running, Alive
  <1>8. CASE Destroy(p) /\ program # "onExit"
    <2>1. /\ p = 1 /\ driver[1] = "destroy" /\ driver'[1] = "gone"
          /\ UNCHANGED <<program, threadPc, thread_ID, j, semaphore2>>
      BY <1>1, <1>8 DEF Destroy, DriverStep, threads
    <2>. QED
      BY <1>8, <2>1 DEF EndInv, Running, Alive
  <1>9. CASE ExitSafely(p)
    <2>1. /\ program = "onExit" /\ driver[1] = "gone" /\ Running = {}
          /\ UNCHANGED <<program, threadPc, driver>>
      BY <1>1, <1>9 DEF ExitSafely, Running, drivers, threads
    <2>. QED
      BY <1>9, <2>1 DEF EndInv, Running, Alive
  <1>. QED
    BY <1>2, <1>3, <1>4, <1>5, <1>6, <1>7, <1>8, <1>9
    DEF DriverNext, WaitingDriver, ExitingDriver, CountingDriver, DriverLoop,
        AwaitThreads

\* A step is of the program that runs.
LEMMA SameProgram == [Next]_vars => program' = program
  <1>1. ASSUME NEW p \in Processes, DriverNext(p) PROVE program' = program
    BY <1>1
    DEF DriverNext, DetachingDriver, WaitingDriver, ExitingDriver, CountingDriver,
        DriverLoop, AwaitThreads, Enter, Spawn, CreateFails, ExitProcess, EndOfInput,
        AwaitThread, LoopOverAwait, Destroy, ExitSafely
  <1>2. ASSUME NEW t \in Threads, ThreadNext(t) PROVE program' = program
    <2>1. ClientThread(t) => program' = program
      BY DEF ClientThread, Acquire, Work, Release
    <2>2. CounterThread(t) => program' = program
      BY DEF CounterThread, Acquire, LoadVariable, StoreVariable, Release
    <2>3. SignalEnd(t) \/ Open(t) \/ OpenFails(t) => program' = program
      BY DEF SignalEnd, Open, OpenFails, ExitProcess
    <2>. QED
      BY <1>2, <2>1, <2>2, <2>3 DEF ThreadNext, SignallingThread, NamedThread
  <1>3. ASSUME NEW t \in Threads, UseFreed(t) PROVE program' = program
    BY <1>3 DEF UseFreed, ExitProcess
  <1>4. Server => program' = program
    BY DEF Server, UnlinkOld, CreateSemaphore, Cleanup, ServerKilled
  <1>. QED
    BY <1>1, <1>2, <1>3, <1>4 DEF Next, vars

LEMMA EndStep ==
  ASSUME Types, EndTypes, EndInv, [Next]_vars
  PROVE  EndInv'
  <1>1. program' = program
    BY SameProgram
  <1>2. CASE program \notin {"joined", "onExit", "counter"}
    BY <1>1, <1>2 DEF EndInv
  <1>3. CASE program \in {"joined", "onExit", "counter"}
    <2>1. CASE Server \/ UNCHANGED vars
      <3>1. UNCHANGED <<program, threadPc, drivers, semaphore2, freed>>
        BY <2>1 DEF Server, UnlinkOld, CreateSemaphore, Cleanup, ServerKilled, vars,
                    threads
      <3>. QED
        BY <3>1, EndKept DEF Running, Alive
    <2>. QED
      BY <1>3, <2>1, EndDriverStep, EndThreadStep DEF Next
  <1>. QED
    BY <1>2, <1>3

\* Where main waits for its threads, by a second semaphore or by joining them, and
\* where the handler of the end of the process frees, the semaphore is freed when no
\* thread will use it any more.
THEOREM FreedLast == Spec => []FreedAfterUse
  <1>1. Init => Inv /\ EndTypes /\ EndInv
    BY InitInv, EndInit
  <1>2. Inv /\ EndTypes /\ EndInv /\ [Next]_vars => (Inv /\ EndTypes /\ EndInv)'
    BY InvStep, EndTypesStep, EndStep DEF Inv
  <1>3. EndTypes /\ EndInv => FreedAfterUse
    BY FreedMeansNone DEF FreedAfterUse, Running, Alive
  <1>. QED
    BY <1>1, <1>2, <1>3, PTL DEF Spec

-----------------------------------------------------------------------------
(* The additions of "counter"                                                  *)

\* The items whose addition is in the variable, thread by thread.
IsAdded(t, i) == i < task[t] \/ (i = task[t] /\ threadPc[t] = "release")
Added == {a \in Threads \X (0 .. NUM_TASKS - 1) : IsAdded(a[1], a[2])}

\* As long as main has not failed, the variable counts these items; a thread that is
\* about to store has loaded what is still there, and one that is done has no item left.
AddInv ==
  program = "counter" /\ driver[1] # "failed" =>
     /\ shared_variable = Cardinality(Added) /\ loaded \in [Threads -> Nat]
     /\ \A t \in Threads :
           /\ threadPc[t] = "store" => loaded[t] = shared_variable
           /\ threadPc[t] = "done" => task[t] = NUM_TASKS
           /\ threadPc[t] # "none" => t[1] = 1 /\ t[2] < thread_ID[1]
           /\ threadPc[t] # "killed"
     /\ driver[1] # "spawn" => thread_ID[1] = MaxThreads["counter"]

LEMMA AddedFinite == IsFiniteSet(Added) /\ Cardinality(Added) \in Nat
  <1>1. IsFiniteSet(0 .. NUM_TASKS - 1)
    BY Sizes, FS_Interval
  <1>2. IsFiniteSet(Threads \X (0 .. NUM_TASKS - 1))
    BY <1>1, ThreadsFinite, FS_Product
  <1>3. Added \subseteq Threads \X (0 .. NUM_TASKS - 1)
    BY DEF Added
  <1>. QED
    BY <1>2, <1>3, FS_Subset, FS_CardinalityType

\* The semaphore of "counter" has one unit, so one thread at most is past it.
LEMMA OneCounts ==
  ASSUME Inv, program = "counter", ~ freed, NEW t \in Threads, NEW u \in Threads,
         Holding(t), Holding(u)
  PROVE  t = u
  <1>. DEFINE s == my_semaphore[t]
              k == my_semaphore[u]
  <1>1. s \in Semaphores /\ k \in Semaphores
    BY DEF Inv, ItemInv, Holding
  <1>2. \A x \in Semaphores : value[x] + Cardinality(Holders(x)) + lost[x]
                                 = IF x = 1 THEN 1 ELSE 0
    BY DEF Inv, UnitsConserved, Units
  <1>3. \A x \in Semaphores : value[x] \in Nat /\ lost[x] \in Nat
    BY DEF Inv, Types
  <1>4. \A x \in Semaphores : /\ Cardinality(Holders(x)) \in {0, 1}
                              /\ x # 1 => Cardinality(Holders(x)) = 0
    BY <1>2, <1>3, HoldersFinite
  <1>5. t \in Holders(s) /\ u \in Holders(k)
    BY DEF Holders
  <1>. HIDE DEF s, k
  <1>6. Cardinality(Holders(s)) # 0 /\ Cardinality(Holders(k)) # 0
    BY <1>5, HoldersFinite, FS_EmptySet
  <1>7. s = 1 /\ k = 1 /\ Cardinality(Holders(s)) = 1
    BY <1>1, <1>4, <1>6
  <1>8. \E x : Holders(s) = {x}
    BY <1>7, HoldersFinite, FS_Singleton
  <1>. QED
    BY <1>5, <1>7, <1>8

\* Who holds a unit, or has come to its end, has started.
LEMMA CountersOf ==
  ASSUME AddInv, program = "counter", driver[1] # "failed"
  PROVE  /\ shared_variable = Cardinality(Added) /\ shared_variable \in Nat
         /\ loaded \in [Threads -> Nat]
         /\ \A t \in Threads :
               /\ threadPc[t] = "store" => loaded[t] = shared_variable
               /\ threadPc[t] = "done" => task[t] = NUM_TASKS
               /\ threadPc[t] # "none" => t[1] = 1 /\ t[2] < thread_ID[1]
               /\ threadPc[t] # "killed"
         /\ driver[1] # "spawn" => thread_ID[1] = MaxThreads["counter"]
  BY AddedFinite DEF AddInv

LEMMA AddInit == Init => AddInv
  <1>. SUFFICES ASSUME Init, program = "counter"
                PROVE  AddInv
    BY DEF AddInv
  <1>1. Added = {}
    BY DEF Added, IsAdded, Init
  <1>2. Cardinality(Added) = 0
    BY <1>1, FS_EmptySet
  <1>3. driver[1] = "spawn"
    BY OneIsProcess DEF Init
  <1>. QED
    BY <1>2, <1>3 DEF AddInv, Init

\* A step that moves no thread, and leaves main among the steps before or after its
\* loop.
LEMMA AddStill ==
  ASSUME AddInv, UNCHANGED <<program, threadPc, task, counter, thread_ID>>,
         driver'[1] # "failed" => driver[1] # "failed",
         driver[1] = "spawn" => driver'[1] \in {"spawn", "failed"}
  PROVE  AddInv'
  <1>1. Added' = Added
    BY DEF Added, IsAdded
  <1>. QED
    BY <1>1 DEF AddInv, counter

\* A step of a thread that adds nothing.
LEMMA AddMove ==
  ASSUME Types, AddInv, program = "counter", driver[1] # "failed",
         NEW t \in Threads, NEW from \in {"acquire", "work", "release"},
         NEW to \in {"acquire", "work", "store", "done"}, ThreadStep(t, from, to),
         task' = (IF from = "release" THEN [task EXCEPT ![t] = @ + 1] ELSE task),
         to = "store" => loaded'[t] = shared_variable,
         loaded' \in [Threads -> Nat],
         \A u \in Threads : u # t => loaded'[u] = loaded[u],
         to = "done" => task'[t] = NUM_TASKS,
         UNCHANGED <<program, drivers, shared_variable>>
  PROVE  AddInv'
  <1>1. /\ threadPc[t] = from
        /\ \A u \in Threads : threadPc'[u] = IF u = t THEN to ELSE threadPc[u]
    BY Moves
  <1>2. \A u \in Threads :
           task'[u] = IF u = t /\ from = "release" THEN task[u] + 1 ELSE task[u]
    BY DEF Types
  <1>3. \A u \in Threads, i \in 0 .. NUM_TASKS - 1 : IsAdded(u, i)' <=> IsAdded(u, i)
    <2>. SUFFICES ASSUME NEW u \in Threads, NEW i \in 0 .. NUM_TASKS - 1
                  PROVE  IsAdded(u, i)' <=> IsAdded(u, i)
      OBVIOUS
    <2>1. task[u] \in Nat /\ i \in Nat
      BY DEF Types
    <2>2. CASE u = t /\ from = "release"
      BY <1>1, <1>2, <2>1, <2>2 DEF IsAdded
    <2>3. CASE u # t \/ from # "release"
      BY <1>1, <1>2, <2>1, <2>3 DEF IsAdded
    <2>. QED
      BY <2>2, <2>3
  <1>4. Added' = Added
    BY <1>3 DEF Added
  <1>5. ASSUME NEW u \in Threads
        PROVE  /\ threadPc'[u] = "store" => loaded'[u] = shared_variable
               /\ threadPc'[u] = "done" => task'[u] = NUM_TASKS
               /\ threadPc'[u] # "none" => u[1] = 1 /\ u[2] < thread_ID[1]
               /\ threadPc'[u] # "killed"
    <2>1. CASE u = t
      BY <1>1, <2>1, CountersOf
    <2>2. CASE u # t
      BY <1>1, <1>2, <2>2, CountersOf
    <2>. QED
      BY <2>1, <2>2
  <1>. QED
    BY <1>4, <1>5, CountersOf DEF AddInv, drivers

\* The store is one more addition, and nobody else has loaded what it replaces.
LEMMA AddStore ==
  ASSUME Inv, AddInv, program = "counter", driver[1] # "failed", ~ freed,
         NEW t \in Threads, StoreVariable(t)
  PROVE  AddInv'
  <1>0. PICK a : a = <<t, task[t]>>
    OBVIOUS
  <1>1. /\ ThreadStep(t, "store", "release") /\ shared_variable' = loaded[t] + 1
        /\ UNCHANGED <<program, drivers, task, loaded>>
    BY DEF StoreVariable
  <1>2. /\ threadPc[t] = "store"
        /\ \A u \in Threads : threadPc'[u] = IF u = t THEN "release" ELSE threadPc[u]
    BY <1>1, Moves DEF Inv
  <1>3. task[t] \in Nat /\ task[t] < NUM_TASKS
    BY <1>2 DEF Inv, Types, ItemInv, Items
  <1>4. Added' = Added \cup {a} /\ a \notin Added
    <2>. DEFINE all == Threads \X (0 .. NUM_TASKS - 1)
    <2>1. a \in all /\ ~ IsAdded(t, task[t])
          /\ IsAdded(t, task[t])'
      BY <1>0, <1>1, <1>2, <1>3, Sizes DEF IsAdded
    <2>2. \A u \in Threads, i \in 0 .. NUM_TASKS - 1 :
             <<u, i>> # a => (IsAdded(u, i)' <=> IsAdded(u, i))
      BY <1>0, <1>1, <1>2, <1>3 DEF IsAdded
    <2>3. IsAdded(a[1], a[2])' /\ ~ IsAdded(a[1], a[2])
      BY <1>0, <1>1, <2>1
    <2>4. \A x \in all :
             x # a => (IsAdded(x[1], x[2])' <=> IsAdded(x[1], x[2]))
      BY <2>2
    <2>5. \A x : x \in Added <=>
                    x \in all /\ IsAdded(x[1], x[2])
      BY DEF Added
    <2>6. \A x : x \in Added' <=>
                    x \in all /\ IsAdded(x[1], x[2])'
      BY DEF Added
    <2>. HIDE DEF all
    <2>7. ASSUME NEW x
          PROVE  x \in Added' <=> x \in Added \cup {a}
      <3>1. CASE x = a
        BY <2>1, <2>3, <2>6, <3>1
      <3>2. CASE x # a
        BY <2>4, <2>5, <2>6, <3>2
      <3>. QED
        BY <3>1, <3>2
    <2>8. a \notin Added
      BY <2>3, <2>5
    <2>. QED
      BY <2>7, <2>8
  <1>5. Cardinality(Added') = Cardinality(Added) + 1
    BY <1>4, AddedFinite, FS_AddElement
  <1>6. shared_variable' = Cardinality(Added')
    BY <1>1, <1>2, <1>5, CountersOf
  <1>7. ASSUME NEW u \in Threads
        PROVE  /\ threadPc'[u] = "store" => loaded'[u] = shared_variable'
               /\ threadPc'[u] = "done" => task'[u] = NUM_TASKS
               /\ threadPc'[u] # "none" => u[1] = 1 /\ u[2] < thread_ID[1]
               /\ threadPc'[u] # "killed"
    <2>1. threadPc'[u] # "store"
      BY <1>2, OneCounts DEF Holding
    <2>2. CASE u = t
      BY <1>2, <2>2, CountersOf
    <2>3. CASE u # t
      BY <1>1, <1>2, <2>1, <2>3, CountersOf
    <2>. QED
      BY <2>1, <2>2, <2>3
  <1>. QED
    BY <1>1, <1>6, <1>7, CountersOf DEF AddInv, drivers

LEMMA AddThreadStep ==
  ASSUME Inv, EndTypes, EndInv, AddInv, program = "counter", driver[1] # "failed",
         NEW t \in Threads, ThreadNext(t) \/ UseFreed(t)
  PROVE  AddInv'
  <1>. USE DEF Inv
  <1>1. ~ freed
    <2>1. SUFFICES ASSUME freed
                   PROVE  FALSE
      OBVIOUS
    <2>2. t \notin Running
      BY <2>1, FreedMeansNone
    <2>. QED
      BY <2>1, <2>2
      DEF Running, Alive, ThreadNext, CounterThread, Acquire, LoadVariable, StoreVariable,
          Release, UseFreed, ThreadStep, ExitProcess
  <1>2. CASE Acquire(t)
    <2>1. ThreadStep(t, "acquire", "work")
          /\ UNCHANGED <<program, drivers, task, shared_variable, loaded>>
      BY <1>2 DEF Acquire, counter
    <2>. QED
      BY <2>1, AddMove, CountersOf
  <1>3. CASE LoadVariable(t)
    <2>1. ThreadStep(t, "work", "store") /\ loaded' = [loaded EXCEPT ![t] = shared_variable]
          /\ UNCHANGED <<program, drivers, task, shared_variable>>
      BY <1>3 DEF LoadVariable
    <2>2. /\ loaded' \in [Threads -> Nat] /\ loaded'[t] = shared_variable
          /\ \A u \in Threads : u # t => loaded'[u] = loaded[u]
      BY <2>1, CountersOf
    <2>. QED
      BY <2>1, <2>2, AddMove
  <1>4. CASE Release(t)
    <2>1. /\ ThreadStep(t, "release", AfterItem(task[t]))
          /\ task' = [task EXCEPT ![t] = @ + 1]
          /\ UNCHANGED <<program, drivers, shared_variable, loaded>>
      BY <1>4 DEF Release, counter
    <2>2. task[t] \in Nat /\ task[t] < NUM_TASKS /\ task'[t] = task[t] + 1
      BY <2>1 DEF ThreadStep, Types, ItemInv, Items
    <2>3. /\ AfterItem(task[t]) \in {"acquire", "done"}
          /\ AfterItem(task[t]) = "done" => task'[t] = NUM_TASKS
      BY <2>2, Sizes DEF AfterItem, WaitsBefore, Items
    <2>. QED
      BY <2>1, <2>3, AddMove, CountersOf
  <1>. QED
    BY <1>1, <1>2, <1>3, <1>4, AddStore DEF ThreadNext, CounterThread, UseFreed

\* The start of a thread, which has none of its items behind it.
LEMMA AddSpawn ==
  ASSUME Inv, EndTypes, AddInv, program = "counter", driver[1] # "failed", Spawn(1)
  PROVE  AddInv'
  <1>. DEFINE t == <<1, thread_ID[1]>>
  <1>. USE OneIsProcess DEF Inv
  <1>1. /\ driver' = [driver EXCEPT ![1] = IF thread_ID[1] + 1 = MaxThreads[program]
                                           THEN "await" ELSE "spawn"]
        /\ thread_ID' = [thread_ID EXCEPT ![1] = thread_ID[1] + 1]
        /\ ThreadStep(t, "none", "acquire")
        /\ UNCHANGED <<program, task, shared_variable, loaded>>
    BY DEF Spawn, DriverStep, counter
  <1>2. /\ threadPc[t] = "none"
        /\ \A u \in Threads : threadPc'[u] = IF u = t THEN "acquire" ELSE threadPc[u]
    BY <1>1, Moves
  <1>3. /\ thread_ID[1] \in Nat /\ thread_ID'[1] = thread_ID[1] + 1
        /\ driver'[1] # "spawn" => thread_ID'[1] = MaxThreads["counter"]
    BY <1>1 DEF EndTypes
  <1>4. \A u \in Threads, i \in 0 .. NUM_TASKS - 1 : IsAdded(u, i)' <=> IsAdded(u, i)
    BY <1>1, <1>2 DEF IsAdded
  <1>5. Added' = Added
    BY <1>4 DEF Added
  <1>6. ASSUME NEW u \in Threads
        PROVE  /\ threadPc'[u] = "store" => loaded'[u] = shared_variable
               /\ threadPc'[u] = "done" => task'[u] = NUM_TASKS
               /\ threadPc'[u] # "none" => u[1] = 1 /\ u[2] < thread_ID'[1]
               /\ threadPc'[u] # "killed"
    <2>1. CASE u = t
      BY <1>2, <1>3, <2>1
    <2>2. CASE u # t
      <3>1. u[2] \in Nat /\ threadPc'[u] = threadPc[u]
        BY <1>2, <2>2, ThreadParts
      <3>. QED
        BY <1>1, <1>3, <3>1, CountersOf
    <2>. QED
      BY <2>1, <2>2
  <1>. QED
    BY <1>1, <1>3, <1>5, <1>6, CountersOf DEF AddInv

LEMMA AddStep ==
  ASSUME Inv, EndTypes, EndInv, AddInv, [Next]_vars
  PROVE  AddInv'
  <1>1. program' = program
    BY SameProgram
  <1>2. CASE program # "counter"
    BY <1>1, <1>2 DEF AddInv
  <1>3. CASE program = "counter"
    <2>. USE <1>3, OneIsProcess
    <2>1. ASSUME NEW p \in Processes, DriverNext(p)
          PROVE  AddInv'
      <3>1. p = 1 /\ CountingDriver(1)
        BY <2>1 DEF DriverNext, CountingDriver, Spawn, CreateFails, AwaitThreads,
                    AwaitThread, LoopOverAwait, Destroy, DriverStep, Present
      <3>2. CASE Spawn(1)
        <4>1. driver[1] # "failed"
          BY <3>2 DEF Spawn, DriverStep
        <4>. QED
          BY <3>2, <4>1, AddSpawn
      <3>3. CASE CreateFails(1)
        <4>1. driver'[1] = "failed"
          BY <3>3 DEF CreateFails, ExitProcess, EndTypes
        <4>. QED
          BY <4>1 DEF AddInv
      <3>4. CASE AwaitThread(1)
        BY <3>4, AddStill DEF AwaitThread, DriverStep, threads, EndTypes
      <3>5. CASE LoopOverAwait(1)
        BY <3>5, AddStill DEF LoopOverAwait, DriverStep, threads, EndTypes
      <3>6. CASE Destroy(1)
        BY <3>6, AddStill DEF Destroy, DriverStep, threads, EndTypes
      <3>. QED
        BY <3>1, <3>2, <3>3, <3>4, <3>5, <3>6 DEF CountingDriver, AwaitThreads
    <2>2. ASSUME NEW t \in Threads, ThreadNext(t) \/ UseFreed(t)
          PROVE  AddInv'
      <3>1. CASE driver[1] # "failed"
        BY <2>2, <3>1, AddThreadStep
      <3>2. CASE driver[1] = "failed"
        <4>1. driver'[1] = "failed"
          BY <2>2, <3>2 DEF ThreadNext, CounterThread, Acquire, LoadVariable,
             StoreVariable, Release, UseFreed, ExitProcess, drivers, EndTypes
        <4>. QED
          BY <4>1 DEF AddInv
      <3>. QED
        BY <3>1, <3>2
    <2>3. CASE Server \/ UNCHANGED vars
      <3>1. UNCHANGED <<program, threads, counter, drivers>>
        BY <2>3 DEF Server, UnlinkOld, CreateSemaphore, Cleanup, ServerKilled, vars,
                    threads
      <3>. QED
        BY <3>1, AddStill DEF threads, drivers
    <2>. QED
      BY <2>1, <2>2, <2>3 DEF Next
  <1>. QED
    BY <1>2, <1>3

\* The items of the threads that main has joined are all there are.
LEMMA AllAdded ==
  ASSUME Inv, EndTypes, EndInv, AddInv, program = "counter", freed
  PROVE  shared_variable = MaxThreads[program] * NUM_TASKS
  <1>. DEFINE n == MaxThreads["counter"]
              first == {1} \X (0 .. n - 1)
              numbers == 0 .. NUM_TASKS - 1
  <1>1. driver[1] = "gone" /\ Running = {} /\ j[1] = thread_ID[1] /\ thread_ID[1] = n
    BY FreedMeansNone, CountersOf DEF EndInv
  <1>2. n \in Nat /\ "counter" \in Programs
    <2>1. "counter" \in Programs
      BY DEF Inv, Types
    <2>2. MaxBursts["counter"] \in Nat
      BY <2>1, SchedulerAssumption
    <2>. QED
      BY <2>1, <2>2, Sizes DEF MaxThreads
  <1>. HIDE DEF n
  <1>3. first \subseteq Threads
    BY <1>2, OneIsProcess DEF Threads, n
  <1>4. \A t \in Threads : t \in first => task[t] = NUM_TASKS
    <2>. SUFFICES ASSUME NEW t \in Threads, t \in first
                  PROVE  task[t] = NUM_TASKS
      OBVIOUS
    <2>1. t[1] = 1 /\ t[2] < n
      BY <1>2
    <2>2. threadPc[t] = "done"
      BY <1>1, <2>1 DEF EndInv
    <2>. QED
      BY <1>1, <2>2, CountersOf
  <1>5. \A t \in Threads : t \notin first => task[t] = 0 /\ threadPc[t] = "none"
    <2>. SUFFICES ASSUME NEW t \in Threads, t \notin first
                  PROVE  task[t] = 0 /\ threadPc[t] = "none"
      OBVIOUS
    <2>1. ~ (t[1] = 1 /\ t[2] < n)
      BY <1>2, ThreadParts
    <2>2. threadPc[t] = "none"
      BY <1>1, <2>1, CountersOf
    <2>. QED
      BY <2>2 DEF Inv, ItemInv
  <1>6. \A t \in Threads, i \in numbers : IsAdded(t, i) <=> t \in first
    <2>. SUFFICES ASSUME NEW t \in Threads, NEW i \in numbers
                  PROVE  IsAdded(t, i) <=> t \in first
      OBVIOUS
    <2>. HIDE DEF first
    <2>. QED
      BY <1>4, <1>5, Sizes DEF IsAdded
  <1>7. Added = first \X numbers
    <2>1. \A a \in Threads \X numbers : IsAdded(a[1], a[2]) <=> a[1] \in first
      <3>. HIDE DEF first, numbers
      <3>. QED
        BY <1>6
    <2>2. Added = {a \in Threads \X numbers : a[1] \in first}
      <3>. HIDE DEF first
      <3>. QED
        BY <2>1 DEF Added
    <2>. HIDE DEF first, numbers
    <2>. QED
      BY <1>3, <2>2
  <1>8. /\ IsFiniteSet({1}) /\ Cardinality({1}) = 1
        /\ IsFiniteSet(0 .. n - 1) /\ Cardinality(0 .. n - 1) = n
        /\ IsFiniteSet(numbers) /\ Cardinality(numbers) = NUM_TASKS
    <2>1. IsFiniteSet({1}) /\ Cardinality({1}) = 1
      BY FS_Singleton
    <2>2. IsFiniteSet(0 .. n - 1) /\ Cardinality(0 .. n - 1) = n
      BY <1>2, FS_Interval
    <2>3. IsFiniteSet(numbers) /\ Cardinality(numbers) = NUM_TASKS
      BY Sizes, FS_Interval
    <2>. QED
      BY <2>1, <2>2, <2>3
  <1>9. IsFiniteSet(first) /\ Cardinality(first) = 1 * n
    <2>1. IsFiniteSet(first) /\ Cardinality(first) = Cardinality({1}) * Cardinality(0 .. n - 1)
      BY <1>8, FS_Product
    <2>. QED
      BY <1>8, <2>1
  <1>10. Cardinality(first \X numbers) = n * NUM_TASKS
    <2>. HIDE DEF first, numbers
    <2>1. Cardinality(first \X numbers) = (1 * n) * NUM_TASKS
      BY <1>8, <1>9, FS_Product
    <2>. QED
      BY <1>2, <2>1
  <1>. QED
    BY <1>1, <1>7, <1>10, CountersOf DEF n

\* The value main prints when it has joined its threads is what all of them have added:
\* the semaphore around each load and store is enough.
THEOREM AdditionsKept == Spec => []NoLostAdds
  <1>1. Init => Inv /\ EndTypes /\ EndInv /\ AddInv
    BY InitInv, EndInit, AddInit
  <1>2. Inv /\ EndTypes /\ EndInv /\ AddInv /\ [Next]_vars
           => (Inv /\ EndTypes /\ EndInv /\ AddInv)'
    BY InvStep, EndTypesStep, EndStep, AddStep DEF Inv
  <1>3. Inv /\ EndTypes /\ EndInv /\ AddInv => NoLostAdds
    BY AllAdded DEF NoLostAdds
  <1>. QED
    BY <1>1, <1>2, <1>3, PTL DEF Spec

-----------------------------------------------------------------------------
(* Nobody waits for nobody *)

\* A thread has been started when its number is below those that main has given, and it
\* is at a step of its own program, with a semaphore that has been made.
Placed(t) ==
  /\ threadPc[t] = "none" <=> thread_ID[t[1]] <= t[2]
  /\ threadPc[t] = "open" => program = "named"
  /\ threadPc[t] = "store" => program = "counter"
  /\ threadPc[t] = "signal" => program = "joined"
  /\ IF program = "named" THEN my_semaphore[t] <= starts ELSE my_semaphore[t] = 1

\* Main is at a step of its own program, with a thread left to start where it starts one.
MainPlaced(p) ==
  /\ driver[p] = "read" => program # "counter" /\ j[p] = 0
  /\ driver[p] = "spawn" => thread_ID[p] < MaxThreads[program] /\ j[p] = 0
  /\ driver[p] = "await" => program \in {"joined", "counter"} /\ j[p] <= thread_ID[p]
  /\ driver[p] = "destroy" => program \notin {"onExit", "named"}

\* In "joined" each thread that has been started runs, or main has taken its post, or
\* will find it.
NobodyMissing ==
  program = "joined" /\ driver[1] # "failed" =>
      j[1] + semaphore2 + Cardinality(Running) = thread_ID[1]

PlaceInv ==
  /\ \A t \in Threads : Placed(t)
  /\ \A p \in Processes : MainPlaced(p)
  /\ name <= starts

LEMMA PlaceInit == Init => PlaceInv /\ NobodyMissing
  <1>. SUFFICES ASSUME Init
                PROVE  PlaceInv /\ NobodyMissing
    OBVIOUS
  <1>1. \A t \in Threads : Placed(t)
    BY ThreadParts DEF Init, Placed
  <1>2. program = "counter" => MaxThreads[program] > 0
    <2>1. SUFFICES ASSUME program = "counter"
                   PROVE  MaxThreads["counter"] > 0
      OBVIOUS
    <2>2. /\ MaxBursts["counter"] \in Nat \ {0} /\ THREAD_BURST \in Nat \ {0}
          /\ MaxThreads["counter"] = MaxBursts["counter"] * THREAD_BURST
      BY <2>1, SchedulerAssumption DEF Init, MaxThreads
    <2>. QED
      BY <2>2
  <1>3. \A p \in Processes : MainPlaced(p)
    BY <1>2 DEF Init, MainPlaced
  <1>4. Running = {}
    BY DEF Init, Running, Alive
  <1>5. j[1] = 0 /\ semaphore2 = 0 /\ Cardinality(Running) = 0 /\ thread_ID[1] = 0
    BY <1>4, FS_EmptySet, OneIsProcess DEF Init
  <1>. QED
    BY <1>1, <1>3, <1>5 DEF PlaceInv, NobodyMissing, Init

\* A step of a thread that has been started.
LEMMA PlacedMove ==
  ASSUME Types, PlaceInv, NEW t \in Threads, NEW from, NEW to, ThreadStep(t, from, to),
         from # "none", to \notin {"none", "open"},
         to = "store" => program = "counter", to = "signal" => program = "joined",
         UNCHANGED <<program, drivers, my_semaphore, starts, name>>
  PROVE  PlaceInv'
  <1>1. /\ threadPc[t] = from
        /\ \A u \in Threads : threadPc'[u] = IF u = t THEN to ELSE threadPc[u]
    BY Moves
  <1>2. ASSUME NEW u \in Threads
        PROVE  Placed(u)'
    <2>1. Placed(u)
      BY DEF PlaceInv
    <2>2. CASE u = t
      BY <1>1, <2>1, <2>2 DEF Placed, drivers
    <2>3. CASE u # t
      BY <1>1, <2>1, <2>3 DEF Placed, drivers
    <2>. QED
      BY <2>2, <2>3
  <1>3. \A p \in Processes : MainPlaced(p)'
    BY DEF PlaceInv, MainPlaced, drivers
  <1>. QED
    BY <1>2, <1>3 DEF PlaceInv

\* The end of a process by an error.
LEMMA PlacedExit ==
  ASSUME Types, EndTypes, PlaceInv, NEW p \in Processes, ExitProcess(p)
  PROVE  PlaceInv'
  <1>1. /\ driver' = [driver EXCEPT ![p] = "failed"]
        /\ \A u \in Threads : \/ threadPc'[u] = threadPc[u]
                              \/ threadPc'[u] = "killed" /\ threadPc[u] # "none"
        /\ UNCHANGED <<program, thread_ID, j, my_semaphore, starts, name>>
    BY DEF ExitProcess, Alive, serverVars
  <1>2. \A u \in Threads : Placed(u)'
    BY <1>1 DEF PlaceInv, Placed
  <1>3. \A q \in Processes : MainPlaced(q)'
    BY <1>1 DEF PlaceInv, MainPlaced, EndTypes
  <1>. QED
    BY <1>1, <1>2, <1>3 DEF PlaceInv

\* A step that moves no thread.
LEMMA PlacedStill ==
  ASSUME PlaceInv, UNCHANGED <<program, thread_ID, threadPc, my_semaphore, starts, name>>,
         \A p \in Processes : MainPlaced(p)'
  PROVE  PlaceInv'
  <1>1. \A u \in Threads : Placed(u)'
    BY DEF PlaceInv, Placed
  <1>. QED
    BY <1>1 DEF PlaceInv

LEMMA PlaceThreadStep ==
  ASSUME Inv, EndTypes, PlaceInv, NEW t \in Threads, ThreadNext(t) \/ UseFreed(t)
  PROVE  PlaceInv'
  <1>. USE DEF Inv
  <1>1. t[1] \in Processes
    BY ThreadParts
  <1>2. ASSUME NEW n
        PROVE  /\ AfterItem(n) \in {"acquire", "work", "signal", "done"}
               /\ AfterItem(n) = "signal" => program = "joined"
    BY DEF AfterItem
  <1>3. CASE program = "named" /\ Open(t)
    <2>1. /\ ThreadStep(t, "open", "acquire")
          /\ my_semaphore' = [my_semaphore EXCEPT ![t] = name]
          /\ UNCHANGED <<program, drivers, starts, name>>
      BY <1>3 DEF Open, serverVars
    <2>2. /\ threadPc[t] = "open"
          /\ \A u \in Threads : threadPc'[u] = IF u = t THEN "acquire" ELSE threadPc[u]
      BY <2>1, Moves
    <2>3. \A u \in Threads : my_semaphore'[u] = IF u = t THEN name ELSE my_semaphore[u]
      BY <2>1 DEF Types
    <2>4. ASSUME NEW u \in Threads
          PROVE  Placed(u)'
      <3>1. Placed(u) /\ name <= starts
        BY DEF PlaceInv
      <3>2. CASE u = t
        BY <1>3, <2>1, <2>2, <2>3, <3>1, <3>2 DEF Placed, drivers
      <3>3. CASE u # t
        BY <2>1, <2>2, <2>3, <3>1, <3>3 DEF Placed, drivers
      <3>. QED
        BY <3>2, <3>3
    <2>5. \A p \in Processes : MainPlaced(p)'
      BY <2>1 DEF PlaceInv, MainPlaced, drivers
    <2>. QED
      BY <2>1, <2>4, <2>5 DEF PlaceInv
  <1>4. CASE OpenFails(t)
    BY <1>1, <1>4, PlacedExit DEF OpenFails
  <1>5. CASE Acquire(t)
    BY <1>5, PlacedMove DEF Acquire, serverVars
  <1>6. CASE Work(t)
    <2>1. /\ ThreadStep(t, "work", IF PostsAfter(task[t]) THEN "release"
                                   ELSE AfterItem(task[t]))
          /\ UNCHANGED <<program, drivers, my_semaphore, starts, name>>
      BY <1>6 DEF Work, serverVars
    <2>. QED
      BY <1>2, <2>1, PlacedMove
  <1>7. CASE program = "counter" /\ LoadVariable(t)
    BY <1>7, PlacedMove DEF LoadVariable, serverVars
  <1>8. CASE StoreVariable(t)
    BY <1>8, PlacedMove DEF StoreVariable, serverVars
  <1>9. CASE Release(t)
    <2>1. /\ ThreadStep(t, "release", AfterItem(task[t]))
          /\ UNCHANGED <<program, drivers, my_semaphore, starts, name>>
      BY <1>9 DEF Release, serverVars
    <2>. QED
      BY <1>2, <2>1, PlacedMove
  <1>10. CASE SignalEnd(t)
    BY <1>10, PlacedMove DEF SignalEnd, serverVars
  <1>11. CASE UseFreed(t)
    <2>1. CASE ThreadStep(t, "acquire", "work")
               /\ UNCHANGED <<program, drivers, my_semaphore, starts, name>>
      BY <2>1, PlacedMove
    <2>2. CASE ThreadStep(t, "release", AfterItem(task[t]))
               /\ UNCHANGED <<program, drivers, my_semaphore, starts, name>>
      BY <1>2, <2>2, PlacedMove
    <2>3. CASE ExitProcess(t[1])
      BY <1>1, <2>3, PlacedExit
    <2>. QED
      BY <1>11, <2>1, <2>2, <2>3 DEF UseFreed, serverVars
  <1>. QED
    BY <1>3, <1>4, <1>5, <1>6, <1>7, <1>8, <1>9, <1>10, <1>11
    DEF ThreadNext, ClientThread, SignallingThread, CounterThread, NamedThread

\* Threads are started a burst after the other.
LEMMA WholeBursts ==
  ASSUME NEW p \in Programs
  PROVE  /\ MaxThreads[p] \in Nat /\ THREAD_BURST \in Nat \ {0}
         /\ MaxThreads[p] % THREAD_BURST = 0
         /\ \A i \in 1 .. NumClients, n \in Nat : n < MaxThreads[p] => <<i, n>> \in Threads
  <1>. DEFINE B == THREAD_BURST  q == MaxBursts[p]  m == MaxThreads[p]
  <1>1. B \in Nat \ {0} /\ q \in Nat \ {0} /\ m = q * B
    BY SchedulerAssumption DEF MaxThreads
  <1>. HIDE DEF B, q, m
  <1>2. m \in Nat /\ q * B = B * q
    BY <1>1
  <1>3. m = B * q + 0
    BY <1>1, <1>2
  <1>4. m % B = 0
    BY <1>1, <1>2, <1>3, ModUnique
  <1>5. \A n \in Nat : n < m => n \in 0 .. m - 1
    BY <1>2
  <1>. QED
    BY <1>1, <1>2, <1>4, <1>5 DEF Threads, Processes, B, m

LEMMA PlaceSpawn ==
  ASSUME Types, EndTypes, PlaceInv, NEW p \in Processes, Spawn(p)
  PROVE  PlaceInv'
  <1>. DEFINE t == <<p, thread_ID[p]>>
              started == thread_ID[p] + 1
              next == IF program = "counter"
                      THEN IF started = MaxThreads[program] THEN "await" ELSE "spawn"
                      ELSE IF started % THREAD_BURST = 0 THEN "read" ELSE "spawn"
              to == IF program = "named" THEN "open" ELSE "acquire"
  <1>1. /\ driver[p] = "spawn" /\ driver' = [driver EXCEPT ![p] = next]
        /\ thread_ID' = [thread_ID EXCEPT ![p] = started]
        /\ ThreadStep(t, "none", to)
        /\ UNCHANGED <<program, j, my_semaphore, starts, name>>
    BY DEF Spawn, DriverStep, serverVars
  <1>2. /\ threadPc[t] = "none"
        /\ \A u \in Threads : threadPc'[u] = IF u = t THEN to ELSE threadPc[u]
    BY <1>1, Moves
  <1>3. /\ thread_ID[p] \in Nat /\ thread_ID \in [Processes -> Nat]
        /\ \A q \in Processes : thread_ID'[q] = IF q = p THEN started ELSE thread_ID[q]
        /\ \A q \in Processes : driver'[q] = IF q = p THEN next ELSE driver[q]
    BY <1>1 DEF EndTypes
  <1>4. ASSUME NEW u \in Threads
        PROVE  Placed(u)'
    <2>1. Placed(u)
      BY DEF PlaceInv
    <2>2. u = <<u[1], u[2]>> /\ u[1] \in Processes /\ u[2] \in Nat
      BY ThreadParts
    <2>3. CASE u = t
      <3>1. u[1] = p /\ u[2] = thread_ID[p] /\ threadPc'[u] = to
        BY <1>2, <2>3
      <3>2. ~ (thread_ID'[u[1]] <= u[2]) /\ threadPc'[u] # "none"
        BY <1>3, <3>1
      <3>. QED
        BY <1>1, <2>1, <3>1, <3>2 DEF Placed
    <2>4. CASE u # t
      <3>1. thread_ID'[u[1]] <= u[2] <=> thread_ID[u[1]] <= u[2]
        <4>1. CASE u[1] = p
          <5>1. u[2] # thread_ID[p]
            BY <2>2, <2>4, <4>1
          <5>. QED
            BY <1>3, <2>2, <4>1, <5>1
        <4>2. CASE u[1] # p
          BY <1>3, <2>2, <4>2
        <4>. QED
          BY <4>1, <4>2
      <3>. QED
        BY <1>1, <1>2, <2>1, <2>4, <3>1 DEF Placed
    <2>. QED
      BY <2>3, <2>4
  <1>5. ASSUME NEW q \in Processes
        PROVE  MainPlaced(q)'
    <2>1. MainPlaced(q)
      BY DEF PlaceInv
    <2>2. CASE q = p
      <3>1. /\ thread_ID[p] < MaxThreads[program] /\ MaxThreads[program] \in Nat /\ j[p] = 0
            /\ MaxThreads[program] % THREAD_BURST = 0
        BY <1>1, <2>1, <2>2, WholeBursts DEF MainPlaced, Types
      <3>2. next = "spawn" => started < MaxThreads[program]
        <4>1. next = "spawn" => started # MaxThreads[program]
          BY <3>1
        <4>. HIDE DEF next
        <4>. QED
          BY <1>3, <3>1, <4>1
      <3>3. next = "read" => program # "counter"
        OBVIOUS
      <3>4. next = "await" => program = "counter" /\ j[p] <= started
        <4>1. j[p] <= started
          BY <1>3, <3>1
        <4>. HIDE DEF started
        <4>. QED
          BY <4>1
      <3>. QED
        BY <1>1, <1>3, <2>2, <3>1, <3>2, <3>3, <3>4 DEF MainPlaced
    <2>3. CASE q # p
      BY <1>1, <1>3, <2>1, <2>3 DEF MainPlaced
    <2>. QED
      BY <2>2, <2>3
  <1>. QED
    BY <1>1, <1>4, <1>5 DEF PlaceInv

LEMMA PlaceDriverStep ==
  ASSUME Types, EndTypes, PlaceInv, NEW p \in Processes, DriverNext(p)
  PROVE  PlaceInv'
  <1>1. CASE Spawn(p)
    BY <1>1, PlaceSpawn
  <1>2. CASE CreateFails(p)
    BY <1>2, PlacedExit DEF CreateFails
  <1>3. CASE program # "counter" /\ Enter(p)
    <2>1. \A q \in Processes : MainPlaced(q)'
      BY <1>3 DEF Enter, DriverStep, PlaceInv, MainPlaced, EndTypes
    <2>. QED
      BY <1>3, <2>1, PlacedStill DEF Enter, threads, serverVars
  <1>4. CASE program # "counter" /\ EndOfInput(p)
    <2>1. /\ driver[p] = "read"
          /\ driver' = [driver EXCEPT ![p] =
                           CASE program = "joined" -> "await"
                             [] program \in {"onExit", "named"} -> "gone"
                             [] OTHER -> "destroy"]
          /\ UNCHANGED <<program, thread_ID, j, threadPc, my_semaphore, starts, name>>
      BY <1>4 DEF EndOfInput, DriverStep, threads, serverVars
    <2>2. \A q \in Processes : driver'[q] = driver[q] \/ q = p
      BY <2>1 DEF EndTypes
    <2>3. /\ program = "joined" => driver'[p] = "await"
          /\ program \in {"onExit", "named"} => driver'[p] = "gone"
          /\ program \notin {"joined", "onExit", "named"} => driver'[p] = "destroy"
      BY <2>1 DEF EndTypes
    <2>4. j[p] <= thread_ID[p]
      BY <2>1 DEF PlaceInv, MainPlaced, EndTypes
    <2>5. MainPlaced(p)'
      <3>1. driver'[p] \notin {"read", "spawn"}
        BY <2>3
      <3>2. driver'[p] = "await" => program = "joined"
        BY <2>3
      <3>3. driver'[p] = "destroy" => program \notin {"onExit", "named"}
        BY <2>3
      <3>. QED
        BY <2>1, <2>4, <3>1, <3>2, <3>3 DEF MainPlaced
    <2>6. \A q \in Processes : MainPlaced(q)'
      BY <2>1, <2>2, <2>5 DEF PlaceInv, MainPlaced
    <2>. QED
      BY <2>1, <2>6, PlacedStill
  <1>5. CASE AwaitThread(p)
    <2>1. /\ driver[p] = "await" /\ driver' = [driver EXCEPT ![p] = "await"]
          /\ j[p] < thread_ID[p] /\ j' = [j EXCEPT ![p] = @ + 1]
          /\ UNCHANGED <<program, thread_ID, threadPc, my_semaphore, starts, name>>
      BY <1>5 DEF AwaitThread, DriverStep, threads, serverVars
    <2>2. /\ driver'[p] = "await" /\ j'[p] <= thread_ID[p]
          /\ \A q \in Processes : q # p => driver'[q] = driver[q] /\ j'[q] = j[q]
      BY <2>1 DEF EndTypes
    <2>3. ASSUME NEW q \in Processes
          PROVE  MainPlaced(q)'
      <3>1. CASE q = p
        BY <2>1, <2>2, <3>1 DEF PlaceInv, MainPlaced
      <3>2. CASE q # p
        BY <2>1, <2>2, <3>2 DEF PlaceInv, MainPlaced
      <3>. QED
        BY <3>1, <3>2
    <2>. QED
      BY <2>1, <2>3, PlacedStill
  <1>6. CASE LoopOverAwait(p)
    <2>1. /\ driver[p] = "await" /\ driver' = [driver EXCEPT ![p] = "destroy"]
          /\ UNCHANGED <<program, thread_ID, j, threadPc, my_semaphore, starts, name>>
      BY <1>6 DEF LoopOverAwait, DriverStep, threads, serverVars
    <2>2. \A q \in Processes : MainPlaced(q)'
      BY <2>1 DEF PlaceInv, MainPlaced, EndTypes
    <2>. QED
      BY <2>1, <2>2, PlacedStill
  <1>7. CASE Destroy(p)
    <2>1. /\ driver' = [driver EXCEPT ![p] = "gone"]
          /\ UNCHANGED <<program, thread_ID, j, threadPc, my_semaphore, starts, name>>
      BY <1>7 DEF Destroy, DriverStep, threads, serverVars
    <2>2. \A q \in Processes : MainPlaced(q)'
      BY <2>1 DEF PlaceInv, MainPlaced, EndTypes
    <2>. QED
      BY <2>1, <2>2, PlacedStill
  <1>8. CASE ExitSafely(p)
    <2>1. UNCHANGED <<program, drivers, threadPc, my_semaphore, starts, name>>
      BY <1>8 DEF ExitSafely, threads, serverVars
    <2>2. \A q \in Processes : MainPlaced(q)'
      BY <2>1 DEF PlaceInv, MainPlaced, drivers
    <2>. QED
      BY <2>1, <2>2, PlacedStill DEF drivers
  <1>. QED
    BY <1>1, <1>2, <1>3, <1>4, <1>5, <1>6, <1>7, <1>8
    DEF DriverNext, DetachingDriver, WaitingDriver, ExitingDriver, CountingDriver,
        DriverLoop, AwaitThreads

LEMMA PlaceStep ==
  ASSUME Inv, EndTypes, PlaceInv, [Next]_vars
  PROVE  PlaceInv'
  <1>1. CASE Server \/ UNCHANGED vars
    <2>1. /\ UNCHANGED <<program, drivers, threadPc, my_semaphore>>
          /\ starts <= starts' /\ name' <= starts'
      BY <1>1 DEF Server, UnlinkOld, CreateSemaphore, Cleanup, ServerKilled, vars,
                  threads, serverVars, PlaceInv, Inv, Types
    <2>2. ASSUME NEW u \in Threads
          PROVE  Placed(u)'
      <3>1. my_semaphore[u] \in Nat /\ starts \in Nat /\ starts' \in Nat
        BY <1>1, Sizes
        DEF Server, UnlinkOld, CreateSemaphore, Cleanup, ServerKilled, vars, serverVars,
            Inv, Types, Semaphores
      <3>. QED
        BY <2>1, <3>1 DEF PlaceInv, Placed, drivers
    <2>3. \A p \in Processes : MainPlaced(p)'
      BY <2>1 DEF PlaceInv, MainPlaced, drivers
    <2>. QED
      BY <2>1, <2>2, <2>3 DEF PlaceInv
  <1>. QED
    BY <1>1, PlaceThreadStep, PlaceDriverStep DEF Next, Inv

\* A step of a thread that goes on.
LEMMA RunningStays ==
  ASSUME Types, NEW t \in Threads, NEW from, NEW to, ThreadStep(t, from, to),
         {from, to} \cap {"none", "done", "killed"} = {}
  PROVE  Running' = Running
  <1>1. /\ threadPc[t] = from
        /\ \A u \in Threads : threadPc'[u] = IF u = t THEN to ELSE threadPc[u]
    BY Moves
  <1>. QED
    BY <1>1 DEF Running, Alive

LEMMA MissingThreadStep ==
  ASSUME Inv, EndTypes, EndInv, NobodyMissing, program = "joined",
         NEW t \in Threads, ThreadNext(t) \/ UseFreed(t)
  PROVE  NobodyMissing'
  <1>. USE OneIsProcess DEF Inv
  <1>1. ~ freed
    <2>1. SUFFICES ASSUME freed
                   PROVE  FALSE
      OBVIOUS
    <2>2. t \notin Running
      BY <2>1, FreedMeansNone
    <2>. QED
      BY <2>1, <2>2
      DEF Running, Alive, ThreadNext, SignallingThread, ClientThread, Acquire, Work, Release,
          SignalEnd, UseFreed, ThreadStep, ExitProcess
  <1>2. ASSUME NEW from \in {"acquire", "work", "release"},
               NEW to \in {"acquire", "work", "release", "signal"}, ThreadStep(t, from, to),
               UNCHANGED <<program, drivers, semaphore2>>
        PROVE  NobodyMissing'
    <2>1. Running' = Running
      BY <1>2, RunningStays
    <2>. QED
      BY <1>2, <2>1 DEF NobodyMissing, drivers
  <1>3. ASSUME NEW n
        PROVE  AfterItem(n) \in {"acquire", "work", "signal"}
    BY DEF AfterItem
  <1>4. CASE Acquire(t)
    BY <1>2, <1>4 DEF Acquire
  <1>5. CASE Work(t)
    <2>1. PICK to \in {"acquire", "work", "release", "signal"} : ThreadStep(t, "work", to)
      BY <1>3, <1>5 DEF Work
    <2>. QED
      BY <1>2, <1>5, <2>1 DEF Work
  <1>6. CASE Release(t)
    BY <1>2, <1>3, <1>6 DEF Release
  <1>7. CASE SignalEnd(t)
    <2>1. /\ ThreadStep(t, "signal", "done") /\ semaphore2' = semaphore2 + 1
          /\ UNCHANGED <<program, drivers>>
      BY <1>7 DEF SignalEnd
    <2>2. t \in Running /\ Running' = Running \ {t}
      BY <2>1, RunningMoves
    <2>3. Cardinality(Running') = Cardinality(Running) - 1
      BY <2>2, RunningFinite, FS_RemoveElement
    <2>. QED
      BY <2>1, <2>3, RunningFinite DEF NobodyMissing, EndTypes, drivers
  <1>. QED
    BY <1>1, <1>4, <1>5, <1>6, <1>7 DEF ThreadNext, SignallingThread, ClientThread, UseFreed

LEMMA MissingSpawn ==
  ASSUME Types, EndTypes, PlaceInv, NobodyMissing, program = "joined", Spawn(1)
  PROVE  NobodyMissing'
  <1>. USE OneIsProcess DEF EndTypes
  <1>1. PICK t : t = <<1, thread_ID[1]>>
    OBVIOUS
  <1>2. /\ driver[1] = "spawn" /\ thread_ID'[1] = thread_ID[1] + 1
        /\ ThreadStep(t, "none", "acquire")
        /\ UNCHANGED <<program, j, semaphore2>>
    BY <1>1 DEF Spawn, DriverStep
  <1>3. /\ threadPc[t] = "none"
        /\ \A u \in Threads : threadPc'[u] = IF u = t THEN "acquire" ELSE threadPc[u]
    BY <1>2, Moves
  <1>4. t \in Threads
    <2>1. thread_ID[1] < MaxThreads[program] /\ thread_ID[1] \in Nat /\ 1 \in 1 .. NumClients
      BY <1>2 DEF PlaceInv, MainPlaced, Processes
    <2>. QED
      BY <1>1, <2>1, WholeBursts DEF Types
  <1>5. Running' = Running \cup {t} /\ t \notin Running
    BY <1>3, <1>4 DEF Running, Alive
  <1>6. Cardinality(Running') = Cardinality(Running) + 1
    BY <1>5, RunningFinite, FS_AddElement
  <1>. QED
    BY <1>2, <1>6, RunningFinite DEF NobodyMissing

LEMMA MissingStep ==
  ASSUME Inv, EndTypes, EndInv, PlaceInv, NobodyMissing, [Next]_vars
  PROVE  NobodyMissing'
  <1>. USE OneIsProcess
  <1>1. program' = program
    BY SameProgram
  <1>2. CASE program # "joined"
    BY <1>1, <1>2 DEF NobodyMissing
  <1>3. CASE program = "joined"
    <2>. USE <1>3
    <2>1. ASSUME NEW p \in Processes, DriverNext(p)
          PROVE  NobodyMissing'
      <3>. USE DEF EndTypes
      <3>1. p = 1 /\ WaitingDriver(1)
        BY <2>1 DEF DriverNext, WaitingDriver, DriverLoop, AwaitThreads, Enter, Spawn, CreateFails,
                    EndOfInput, AwaitThread, LoopOverAwait, Destroy, DriverStep, Present
      <3>2. CASE Spawn(1)
        BY <3>2, MissingSpawn DEF Inv
      <3>3. CASE CreateFails(1)
        <4>1. driver'[1] = "failed"
          BY <3>3 DEF CreateFails, ExitProcess
        <4>. QED
          BY <4>1 DEF NobodyMissing
      <3>4. CASE AwaitThread(1)
        <4>1. /\ driver[1] = "await" /\ UNCHANGED <<program, threadPc, thread_ID>>
              /\ j'[1] = j[1] + 1 /\ semaphore2' = semaphore2 - 1
          BY <3>4 DEF AwaitThread, DriverStep, threads
        <4>2. Running' = Running
          BY <4>1 DEF Running, Alive
        <4>. QED
          BY <4>1, <4>2, RunningFinite DEF NobodyMissing
      <3>5. CASE Enter(1) \/ EndOfInput(1) \/ LoopOverAwait(1) \/ Destroy(1)
        <4>1. driver[1] # "failed" /\ UNCHANGED <<program, threadPc, thread_ID, j, semaphore2>>
          BY <3>5 DEF Enter, EndOfInput, LoopOverAwait, Destroy, DriverStep, threads
        <4>2. Running' = Running
          BY <4>1 DEF Running, Alive
        <4>. QED
          BY <4>1, <4>2 DEF NobodyMissing
      <3>. QED
        BY <3>1, <3>2, <3>3, <3>4, <3>5 DEF WaitingDriver, DriverLoop, AwaitThreads
    <2>2. ASSUME NEW t \in Threads, ThreadNext(t) \/ UseFreed(t)
          PROVE  NobodyMissing'
      BY <2>2, MissingThreadStep
    <2>3. CASE Server \/ UNCHANGED vars
      <3>1. UNCHANGED <<program, threadPc, drivers, semaphore2>>
        BY <2>3 DEF Server, UnlinkOld, CreateSemaphore, Cleanup, ServerKilled, vars,
                    threads
      <3>2. Running' = Running
        BY <3>1 DEF Running, Alive
      <3>. QED
        BY <3>1, <3>2 DEF NobodyMissing, drivers
    <2>. QED
      BY <2>1, <2>2, <2>3 DEF Next
  <1>. QED
    BY <1>2, <1>3

\* What a thread waits for: a unit of a semaphore that has not been freed.
ThreadCanStep(t) ==
  \/ threadPc[t] = "open" /\ program = "named"
  \/ threadPc[t] = "acquire" /\ ~ freed /\ value[my_semaphore[t]] > 0
  \/ threadPc[t] = "work"
  \/ threadPc[t] = "store" /\ program = "counter"
  \/ threadPc[t] = "release" /\ ~ freed
  \/ threadPc[t] = "signal" /\ program = "joined"

\* What main waits for: a post of each thread, the end of the next one, or, in the
\* handler of "onExit", the end of all.
MainCanStep(p) ==
  \/ driver[p] = "read" /\ program # "counter"
  \/ /\ driver[p] = "spawn"
     /\ <<p, thread_ID[p]>> \in Threads /\ threadPc[<<p, thread_ID[p]>>] = "none"
  \/ /\ driver[p] = "await" /\ program \in {"joined", "counter"}
     /\ \/ j[p] = thread_ID[p]
        \/ j[p] < thread_ID[p] /\ program = "joined" /\ semaphore2 > 0
        \/ j[p] < thread_ID[p] /\ program = "counter" /\ threadPc[<<p, j[p]>>] = "done"
  \/ driver[p] = "destroy" /\ program \notin {"onExit", "named"}
  \/ driver[p] = "gone" /\ program = "onExit" /\ ~ freed /\ Running = {}

AllEnded ==
  /\ Running = {}
  /\ \A p \in Processes : Present(p) => driver[p] \in {"gone", "failed"}
  /\ program = "onExit" /\ driver[1] = "gone" => freed

\* As long as no unit went with a process that was ended by an error, and no semaphore
\* is freed under the threads that use it, somebody can go on until all have ended.
SomeoneCanStep ==
  (\A s \in Semaphores : lost[s] = 0) /\ (freed => Running = {}) =>
      \/ \E t \in Threads : ThreadCanStep(t)
      \/ \E p \in Processes : Present(p) /\ MainCanStep(p)
      \/ AllEnded

\* Who waits for a unit waits for a thread that has it.
LEMMA SomeThreadCanStep ==
  ASSUME Inv, PlaceInv, \A s \in Semaphores : lost[s] = 0, freed => Running = {},
         Running # {}
  PROVE  \E t \in Threads : ThreadCanStep(t)
  <1>. USE DEF Inv
  <1>1. PICK t \in Threads : Alive(t)
    BY DEF Running
  <1>2. ~ freed
    OBVIOUS
  <1>3. Placed(t) /\ threadPc[t] \in {"open", "acquire", "work", "store", "release", "signal"}
    BY <1>1 DEF PlaceInv, Types, Alive
  <1>4. CASE threadPc[t] # "acquire"
    BY <1>2, <1>3, <1>4 DEF ThreadCanStep, Placed
  <1>5. CASE threadPc[t] = "acquire"
    <2>. DEFINE s == my_semaphore[t]
    <2>1. s \in Semaphores /\ lost[s] = 0 /\ value[s] \in Nat
      BY <1>5 DEF ItemInv, Types
    <2>2. value[s] + Cardinality(Holders(s)) + lost[s]
             = IF program # "named" THEN IF s = 1 THEN Units ELSE 0
               ELSE IF s <= starts THEN NUM_RESOURCES ELSE 0
      BY <1>2, <2>1 DEF UnitsConserved
    <2>3. Units \in Nat \ {0} /\ NUM_RESOURCES \in Nat \ {0}
      BY SchedulerAssumption DEF Units
    <2>4. IF program = "named" THEN s <= starts ELSE s = 1
      BY <1>3 DEF Placed
    <2>. HIDE DEF s
    <2>5. value[s] + Cardinality(Holders(s)) > 0
      BY <2>1, <2>2, <2>3, <2>4, HoldersFinite
    <2>6. CASE value[s] > 0
      BY <1>2, <1>5, <2>6 DEF ThreadCanStep, s
    <2>7. CASE Cardinality(Holders(s)) > 0
      <3>1. PICK u : u \in Holders(s)
        BY <2>7, FS_EmptySet
      <3>2. u \in Threads /\ threadPc[u] \in {"work", "store", "release"} /\ Placed(u)
        BY <3>1 DEF Holders, Holding, PlaceInv
      <3>. QED
        BY <1>2, <3>2 DEF ThreadCanStep, Placed
    <2>. QED
      BY <2>1, <2>5, <2>6, <2>7, HoldersFinite
  <1>. QED
    BY <1>4, <1>5

WaitInv == Inv /\ EndTypes /\ EndInv /\ AddInv /\ PlaceInv /\ NobodyMissing

\* When no thread runs, main has no more to wait for.
LEMMA MainGoesOn ==
  ASSUME Inv, EndTypes, EndInv, PlaceInv, AddInv, NobodyMissing, Running = {},
         NEW p \in Processes, Present(p), driver[p] \notin {"gone", "failed"}
  PROVE  MainCanStep(p)
  <1>. USE OneIsProcess
  <1>1. MainPlaced(p) /\ thread_ID[p] \in Nat /\ j[p] \in Nat /\ semaphore2 \in Nat
    BY DEF PlaceInv, EndTypes
  <1>2. driver[p] \in {"read", "spawn", "await", "destroy"}
    BY DEF EndTypes
  <1>3. CASE driver[p] = "spawn"
    <2>1. program \in Programs /\ p \in 1 .. NumClients
      BY DEF Inv, Types, Processes
    <2>2. PICK t : t = <<p, thread_ID[p]>>
      OBVIOUS
    <2>3. t \in Threads /\ t[1] = p /\ t[2] = thread_ID[p]
      BY <1>1, <1>3, <2>1, <2>2, WholeBursts DEF MainPlaced
    <2>4. threadPc[t] = "none"
      BY <1>1, <2>3 DEF PlaceInv, Placed
    <2>. QED
      BY <1>3, <2>2, <2>3, <2>4 DEF MainCanStep
  <1>4. CASE driver[p] = "await" /\ program = "joined"
    <2>1. p = 1
      BY <1>4 DEF Present
    <2>2. j[1] + semaphore2 = thread_ID[1]
      BY <1>1, <1>4, <2>1, FS_EmptySet DEF NobodyMissing
    <2>. QED
      BY <1>1, <1>4, <2>1, <2>2 DEF MainCanStep, MainPlaced
  <1>5. CASE driver[p] = "await" /\ program = "counter"
    <2>1. p = 1
      BY <1>5 DEF Present
    <2>2. SUFFICES ASSUME j[1] < thread_ID[1]
                   PROVE  threadPc[<<1, j[1]>>] = "done"
      BY <1>1, <1>5, <2>1 DEF MainCanStep, MainPlaced
    <2>3. PICK t : t = <<1, j[1]>>
      OBVIOUS
    <2>4. /\ thread_ID[1] = MaxThreads["counter"] /\ "counter" \in Programs
          /\ 1 \in 1 .. NumClients
      BY <1>5, <2>1, CountersOf DEF Inv, Types, Processes
    <2>5. t \in Threads /\ t[1] = 1 /\ t[2] = j[1]
      BY <1>1, <2>1, <2>2, <2>3, <2>4, WholeBursts
    <2>6. threadPc[t] # "none"
      BY <1>1, <2>1, <2>2, <2>5 DEF PlaceInv, Placed
    <2>7. threadPc[t] # "killed"
      BY <1>5, <2>1, <2>5, CountersOf
    <2>8. ~ Alive(t)
      BY <2>5 DEF Running
    <2>. QED
      BY <2>3, <2>6, <2>7, <2>8 DEF Alive
  <1>. QED
    BY <1>1, <1>2, <1>3, <1>4, <1>5 DEF MainCanStep, MainPlaced

\* The waits of the six programs end in no deadlock: nobody waits but for somebody who
\* can go on, whatever the number of threads, units and starts of the server.
THEOREM DeadlockFree == Spec => []SomeoneCanStep
  <1>1. Init => WaitInv
    BY InitInv, EndInit, AddInit, PlaceInit DEF WaitInv
  <1>2. WaitInv /\ [Next]_vars => WaitInv'
    BY InvStep, EndTypesStep, EndStep, AddStep, PlaceStep, MissingStep DEF WaitInv, Inv
  <1>3. WaitInv => SomeoneCanStep
    <2>. SUFFICES ASSUME WaitInv,
                         \A s \in Semaphores : lost[s] = 0,
                         freed => Running = {},
                         ~ \E t \in Threads : ThreadCanStep(t),
                         ~ \E p \in Processes : Present(p) /\ MainCanStep(p)
                  PROVE  AllEnded
      BY DEF SomeoneCanStep
    <2>1. Running = {}
      BY SomeThreadCanStep DEF WaitInv
    <2>2. \A p \in Processes : Present(p) => driver[p] \in {"gone", "failed"}
      BY <2>1, MainGoesOn DEF WaitInv
    <2>3. program = "onExit" /\ driver[1] = "gone" => freed
      BY <2>1, OneIsProcess DEF MainCanStep, Present
    <2>. QED
      BY <2>1, <2>2, <2>3 DEF AllEnded
  <1>. QED
    BY <1>1, <1>2, <1>3, PTL DEF Spec
=============================================================================
