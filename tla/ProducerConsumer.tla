-------------------------- MODULE ProducerConsumer --------------------------
(* The threads of labs/E03 - Concorrenza 2/sol/es1: producers and consumers    *)
(* over a circular buffer, two counting semaphores and, where there are        *)
(* several threads of a kind, one mutex semaphore for that kind.  One module   *)
(* stands for the five programs: _NM has both mutexes, _N1 only write_sem, _1M *)
(* only read_sem, _11 none, and _global decides by preprocessor and draws the  *)
(* item inside the write lock.                                                 *)
EXTENDS Integers, Sequences, FiniteSets

CONSTANTS
    BufferSize,        \* BUFFER_SIZE
    NumProducers,      \* NUM_PRODUCERS
    NumConsumers,      \* NUM_CONSUMERS
    OpsPerProducer,    \* OPS_PER_PRODUCER
    OpsPerConsumer,    \* OPS_PER_CONSUMER
    UsesWriteSem,      \* the program has a write_sem
    UsesReadSem,       \* the program has a read_sem
    DrawsInLock,       \* the item is produced inside the write lock (_global)
    Amount             \* Amount[k] is the k-th number the seeded rand() yields

NumOperations == NumProducers * OpsPerProducer

\* The preprocessor checks of the programs, and the locks each variant keeps.
ASSUME ParametersAssumption ==
    /\ BufferSize \in Nat \ {0}
    /\ NumProducers \in Nat \ {0} /\ NumConsumers \in Nat \ {0}
    /\ OpsPerProducer \in Nat \ {0} /\ OpsPerConsumer \in Nat \ {0}
    /\ OpsPerConsumer * NumConsumers = NumOperations
    /\ UsesWriteSem \in BOOLEAN /\ UsesReadSem \in BOOLEAN
    /\ DrawsInLock \in BOOLEAN
    /\ NumProducers > 1 => UsesWriteSem
    /\ NumConsumers > 1 => UsesReadSem
    /\ Amount \in [1 .. NumOperations -> Int]

\* The threads of each program, and the locks between which they work.
ProgramNM == UsesWriteSem /\ UsesReadSem /\ ~DrawsInLock
ProgramN1 == UsesWriteSem /\ ~UsesReadSem /\ ~DrawsInLock /\ NumConsumers = 1
Program1M == ~UsesWriteSem /\ UsesReadSem /\ ~DrawsInLock /\ NumProducers = 1
Program11 ==
    ~UsesWriteSem /\ ~UsesReadSem /\ ~DrawsInLock /\ NumProducers = 1 /\ NumConsumers = 1
ProgramGlobal ==
    DrawsInLock /\ UsesWriteSem = (NumProducers > 1) /\ UsesReadSem = (NumConsumers > 1)

ASSUME ProgramAssumption ==
    ProgramNM \/ ProgramN1 \/ Program1M \/ Program11 \/ ProgramGlobal

\* Threads are numbered in the order in which main creates and joins them.
NumThreads == NumProducers + NumConsumers
Producers == 0 .. NumProducers - 1
Consumers == NumProducers .. NumThreads - 1
Threads == Producers \cup Consumers

\* Item k is the k-th number drawn from rand(); the cells of the static buffer
\* hold 0 until they are first written.
Items == 0 .. NumOperations
Value(item) == IF item = 0 THEN 0 ELSE Amount[item]

VARIABLES
    transactions, read_index, write_index, deposit,   \* the shared data
    empty_sem, fill_sem, read_sem, write_sem,         \* the semaphores' values
    semsAlive,      \* the semaphores are initialised and not destroyed
    drawn,          \* how many numbers rand() has yielded
    pc,             \* the next step of each thread
    numOps,         \* args->numOps of each thread
    item,           \* currentTransaction, or the cell a consumer has loaded
    balance,        \* the sum a consumer is about to store in deposit
    created, joined,\* how many threads main has created and joined
    printed,        \* what main printed, << >> before it does
    sent, received  \* history: the items, as the two indexes pass them

shared == <<transactions, read_index, write_index, deposit>>
sems == <<empty_sem, fill_sem, read_sem, write_sem>>
locals == <<pc, numOps, item, balance>>
mainVars == <<semsAlive, created, joined, printed>>
history == <<sent, received>>
vars == <<shared, sems, locals, mainVars, drawn, history>>

FirstStep(t) ==
    IF t \in Consumers THEN "waitFill"
    ELSE IF DrawsInLock THEN "waitEmpty" ELSE "draw"

Init ==
    /\ transactions = [i \in 0 .. BufferSize - 1 |-> 0]
    /\ read_index = 0 /\ write_index = 0 /\ deposit = 0
    /\ empty_sem = BufferSize /\ fill_sem = 0 /\ read_sem = 1 /\ write_sem = 1
    /\ semsAlive = TRUE
    /\ drawn = 0
    /\ pc = [t \in Threads |-> "unborn"]
    /\ numOps = [t \in Threads |->
                    IF t \in Producers THEN OpsPerProducer ELSE OpsPerConsumer]
    /\ item = [t \in Threads |-> 0]
    /\ balance = [t \in Consumers |-> 0]
    /\ created = 0 /\ joined = 0 /\ printed = << >>
    /\ sent = << >> /\ received = << >>

\* Thread t goes from step from to step to.
Step(t, from, to) == pc[t] = from /\ pc' = [pc EXCEPT ![t] = to]

\* The end of an iteration: numOps--, and round the loop while it is positive.
NextRound(t, from) ==
    /\ numOps' = [numOps EXCEPT ![t] = @ - 1]
    /\ Step(t, from, IF numOps[t] > 1 THEN FirstStep(t) ELSE "done")

-----------------------------------------------------------------------------
(* Plausible mistakes, which the properties below are shown to catch *)

\* The result of the wait is not waited for (a sem_trywait left unchecked).
WaitEmptyUnchecked(p) ==
    /\ Step(p, "waitEmpty", "waitWrite")
    /\ empty_sem' = IF empty_sem > 0 THEN empty_sem - 1 ELSE 0
    /\ UNCHANGED <<shared, fill_sem, read_sem, write_sem, numOps, item, balance,
                   mainVars, drawn, history>>

\* A thread enters its critical section without waiting for the lock.
WaitWriteUnlocked(p) ==
    /\ Step(p, "waitWrite", IF DrawsInLock THEN "draw" ELSE "store")
    /\ UNCHANGED <<shared, sems, numOps, item, balance, mainVars, drawn, history>>

WaitReadUnlocked(c) ==
    /\ Step(c, "waitRead", "load")
    /\ UNCHANGED <<shared, sems, numOps, item, balance, mainVars, drawn, history>>

\* The consumer never gives the cell back.
PostEmptyMissing(c) ==
    /\ NextRound(c, "postEmpty")
    /\ UNCHANGED <<shared, sems, item, balance, mainVars, drawn, history>>

-----------------------------------------------------------------------------
(* Producer threads: performTransactions *)

\* performRandomTransaction(): the next number of the seeded sequence.
Draw(p) ==
    /\ Step(p, "draw", IF DrawsInLock THEN "store" ELSE "waitEmpty")
    /\ drawn' = drawn + 1
    /\ item' = [item EXCEPT ![p] = drawn + 1]
    /\ UNCHANGED <<shared, sems, numOps, balance, mainVars, history>>

WaitEmpty(p) ==
    /\ Step(p, "waitEmpty", "waitWrite")
    /\ empty_sem > 0
    /\ empty_sem' = empty_sem - 1
    /\ UNCHANGED <<shared, fill_sem, read_sem, write_sem, numOps, item, balance,
                   mainVars, drawn, history>>

WaitWrite(p) ==
    /\ Step(p, "waitWrite", IF DrawsInLock THEN "draw" ELSE "store")
    /\ UsesWriteSem => write_sem > 0
    /\ write_sem' = IF UsesWriteSem THEN write_sem - 1 ELSE write_sem
    /\ UNCHANGED <<shared, empty_sem, fill_sem, read_sem, numOps, item, balance,
                   mainVars, drawn, history>>

StoreItem(p) ==
    /\ Step(p, "store", "advanceWrite")
    /\ transactions' = [transactions EXCEPT ![write_index] = item[p]]
    /\ UNCHANGED <<read_index, write_index, deposit, sems, numOps, item, balance,
                   mainVars, drawn, history>>

AdvanceWrite(p) ==
    /\ Step(p, "advanceWrite", "postWrite")
    /\ write_index' = (write_index + 1) % BufferSize
    /\ sent' = Append(sent, item[p])
    /\ UNCHANGED <<transactions, read_index, deposit, sems, numOps, item, balance,
                   mainVars, drawn, received>>

PostWrite(p) ==
    /\ Step(p, "postWrite", "postFill")
    /\ write_sem' = IF UsesWriteSem THEN write_sem + 1 ELSE write_sem
    /\ UNCHANGED <<shared, empty_sem, fill_sem, read_sem, numOps, item, balance,
                   mainVars, drawn, history>>

PostFill(p) ==
    /\ NextRound(p, "postFill")
    /\ fill_sem' = fill_sem + 1
    /\ UNCHANGED <<shared, empty_sem, read_sem, write_sem, item, balance,
                   mainVars, drawn, history>>

-----------------------------------------------------------------------------
(* Consumer threads: processTransactions *)

WaitFill(c) ==
    /\ Step(c, "waitFill", "waitRead")
    /\ fill_sem > 0
    /\ fill_sem' = fill_sem - 1
    /\ UNCHANGED <<shared, empty_sem, read_sem, write_sem, numOps, item, balance,
                   mainVars, drawn, history>>

WaitRead(c) ==
    /\ Step(c, "waitRead", "load")
    /\ UsesReadSem => read_sem > 0
    /\ read_sem' = IF UsesReadSem THEN read_sem - 1 ELSE read_sem
    /\ UNCHANGED <<shared, empty_sem, fill_sem, write_sem, numOps, item, balance,
                   mainVars, drawn, history>>

\* deposit += transactions[read_index] is a load, an addition and a store.
LoadItem(c) ==
    /\ Step(c, "load", "addDeposit")
    /\ item' = [item EXCEPT ![c] = transactions[read_index]]
    /\ balance' = [balance EXCEPT ![c] = deposit + Value(transactions[read_index])]
    /\ UNCHANGED <<shared, sems, numOps, mainVars, drawn, history>>

StoreDeposit(c) ==
    /\ Step(c, "addDeposit", "advanceRead")
    /\ deposit' = balance[c]
    /\ UNCHANGED <<transactions, read_index, write_index, sems, numOps, item,
                   balance, mainVars, drawn, history>>

\* The index moves on; the progress lines, printed at some of its values, are left out.
AdvanceRead(c) ==
    /\ Step(c, "advanceRead", "postRead")
    /\ read_index' = (read_index + 1) % BufferSize
    /\ received' = Append(received, item[c])
    /\ UNCHANGED <<transactions, write_index, deposit, sems, numOps, item, balance,
                   mainVars, drawn, sent>>

PostRead(c) ==
    /\ Step(c, "postRead", "postEmpty")
    /\ read_sem' = IF UsesReadSem THEN read_sem + 1 ELSE read_sem
    /\ UNCHANGED <<shared, empty_sem, fill_sem, write_sem, numOps, item, balance,
                   mainVars, drawn, history>>

PostEmpty(c) ==
    /\ NextRound(c, "postEmpty")
    /\ empty_sem' = empty_sem + 1
    /\ UNCHANGED <<shared, fill_sem, read_sem, write_sem, item, balance,
                   mainVars, drawn, history>>

-----------------------------------------------------------------------------
(* The main thread *)

CreateThread ==
    /\ created < NumThreads
    /\ created' = created + 1
    /\ Step(created, "unborn", FirstStep(created))
    /\ UNCHANGED <<shared, sems, numOps, item, balance, semsAlive, joined, printed,
                   drawn, history>>

JoinThread ==
    /\ created = NumThreads /\ joined < NumThreads
    /\ pc[joined] = "done"
    /\ joined' = joined + 1
    /\ UNCHANGED <<shared, sems, locals, semsAlive, created, printed, drawn, history>>

PrintDeposit ==
    /\ joined = NumThreads /\ printed = << >>
    /\ printed' = <<deposit>>
    /\ UNCHANGED <<shared, sems, locals, semsAlive, created, joined, drawn, history>>

DestroySems ==
    /\ printed # << >> /\ semsAlive
    /\ semsAlive' = FALSE
    /\ UNCHANGED <<shared, sems, locals, created, joined, printed, drawn, history>>

\* After exit(EXIT_SUCCESS) nothing runs any more.
Exited == ~semsAlive /\ UNCHANGED vars

ProducerNext(p) ==
    \/ Draw(p) \/ WaitEmpty(p) \/ WaitWrite(p) \/ StoreItem(p)
    \/ AdvanceWrite(p) \/ PostWrite(p) \/ PostFill(p)

ConsumerNext(c) ==
    \/ WaitFill(c) \/ WaitRead(c) \/ LoadItem(c) \/ StoreDeposit(c)
    \/ AdvanceRead(c) \/ PostRead(c) \/ PostEmpty(c)

MainNext == CreateThread \/ JoinThread \/ PrintDeposit \/ DestroySems

Next ==
    \/ MainNext
    \/ Exited
    \/ \E p \in Producers : ProducerNext(p)
    \/ \E c \in Consumers : ConsumerNext(c)

\* The scheduler runs every thread that can run.
Fairness ==
    /\ WF_vars(MainNext)
    /\ \A p \in Producers : WF_vars(ProducerNext(p))
    /\ \A c \in Consumers : WF_vars(ConsumerNext(c))

Spec == Init /\ [][Next]_vars

FairSpec == Spec /\ Fairness

-----------------------------------------------------------------------------
(* What the programs rely on *)

\* The threads that are at one of the given steps.
At(steps) == {t \in Threads : pc[t] \in steps}

ProducerSteps ==
    {"draw", "waitEmpty", "waitWrite", "store", "advanceWrite", "postWrite",
     "postFill"}
ConsumerSteps ==
    {"waitFill", "waitRead", "load", "addDeposit", "advanceRead", "postRead",
     "postEmpty"}

\* Inside the critical sections of write_sem and read_sem.
Writing == {"store", "advanceWrite", "postWrite"}
              \cup IF DrawsInLock THEN {"draw"} ELSE {}
Reading == {"load", "addDeposit", "advanceRead", "postRead"}

\* Every thread is at a step of its own kind.
PcOK ==
    /\ pc \in [Threads -> ProducerSteps \cup ConsumerSteps \cup {"unborn", "done"}]
    /\ \A p \in Producers : pc[p] \notin ConsumerSteps
    /\ \A c \in Consumers : pc[c] \notin ProducerSteps

\* The shared data, the locals and the history keep their types: in particular
\* both indexes stay inside the buffer, and no more numbers are drawn than the
\* operations ask for (the programs' BUFFER_SIZE and NUM_OPERATIONS).
TypeOK ==
    /\ transactions \in [0 .. BufferSize - 1 -> Items]
    /\ read_index \in 0 .. BufferSize - 1 /\ write_index \in 0 .. BufferSize - 1
    /\ deposit \in Int
    /\ empty_sem \in Nat /\ fill_sem \in Nat
    /\ read_sem \in {0, 1} /\ write_sem \in {0, 1}
    /\ semsAlive \in BOOLEAN
    /\ drawn \in Items
    /\ PcOK
    /\ numOps \in [Threads -> Nat]
    /\ item \in [Threads -> Items]
    /\ balance \in [Consumers -> Int]
    /\ created \in 0 .. NumThreads /\ joined \in 0 .. NumThreads
    /\ printed \in Seq(Int) /\ Len(printed) <= 1
    /\ sent \in Seq(Items) /\ received \in Seq(Items)

\* The two locks: at most one producer is between the two operations on
\* write_sem and at most one consumer between those on read_sem, so neither an
\* index nor deposit is ever updated by two threads at once, also in the
\* variants that leave a lock out because they have one thread of that kind.
MutualExclusion ==
    /\ \A t, u \in At(Writing) : t = u
    /\ \A t, u \in At(Reading) : t = u

\* The counting semaphores: no cell is stored by a producer while a consumer
\* loads it, although no lock is shared between the two kinds of thread.
NoCellRace ==
    \A p \in Producers, c \in Consumers :
        pc[p] = "store" /\ pc[c] = "load" => write_index # read_index

\* A thread holds a cell between its two counting semaphores; the index tells
\* the cells reserved from those filled, and those claimed from those emptied.
ReservedSteps == {"waitWrite"} \cup (Writing \ {"postWrite"})
FilledSteps == {"postWrite", "postFill"}
ClaimedSteps == {"waitRead"} \cup (Reading \ {"postRead"})
EmptiedSteps == {"postRead", "postEmpty"}

Reserved == Cardinality(At(ReservedSteps))
Filled == Cardinality(At(FilledSteps))
Claimed == Cardinality(At(ClaimedSteps))
Emptied == Cardinality(At(EmptiedSteps))

\* Every cell is accounted for once: it is free (empty_sem), full (fill_sem), or
\* in the hands of exactly one thread between the two semaphores.
CellsConserved ==
    empty_sem + fill_sem + Reserved + Filled + Claimed + Emptied = BufferSize

\* The sum of the values of a sequence of items.
SumOf(items) ==
    LET sum[n \in 0 .. Len(items)] ==
            IF n = 0 THEN 0 ELSE sum[n - 1] + Value(items[n])
    IN  sum[Len(items)]

\* "Yield the same result across different runs": whatever the interleaving,
\* what main prints is the sum of the numbers of the seeded sequence.
FinalDeposit ==
    printed # << >> => printed[1] = SumOf([k \in 1 .. NumOperations |-> k])

\* No thread still has a semaphore to use when main destroys them.
SemsOutliveThreads ==
    ~semsAlive => \A t \in Threads : pc[t] = "done"

\* Producing inside the lock, as _global does, consumes the seeded sequence in
\* its own order, so that the progress lines too are the same in every run.
ConsumedAsDrawn == \A i \in 1 .. Len(received) : received[i] = i

\* The buffer is a first-in first-out channel of BUFFER_SIZE items: nothing is
\* lost, repeated, reordered or overwritten on its way through the cells.
Fifo == INSTANCE BoundedFifo WITH Capacity <- BufferSize
FifoRefinement == Fifo!FifoSpec

\* Every thread does all its operations and main exits: the waits never end in a
\* deadlock, which is what the preprocessor's check of the operations is for.
Termination == <>(printed # << >> /\ ~semsAlive)

-----------------------------------------------------------------------------
(* The inductive invariant *)

\* The steps of a producer that has drawn the item of this round.
HoldsItem ==
    {"store", "advanceWrite", "postWrite", "postFill"}
      \cup IF DrawsInLock THEN {} ELSE {"waitEmpty", "waitWrite"}

\* The draws the producers have still to make.
ToDraw ==
    {d \in Producers \X (1 .. OpsPerProducer) :
        d[2] <= numOps[d[1]] - IF pc[d[1]] \in HoldsItem THEN 1 ELSE 0}

\* No number is drawn for nothing.
DrawInv ==
    /\ drawn + Cardinality(ToDraw) = NumOperations
    /\ \A p \in Producers : numOps[p] <= OpsPerProducer
    /\ \A t \in Threads : pc[t] # "done" => numOps[t] > 0

\* A lock is free exactly when nobody is inside.
LockInv ==
    /\ UsesWriteSem => (write_sem = 1 <=> At(Writing) = {})
    /\ UsesReadSem => (read_sem = 1 <=> At(Reading) = {})

\* Each counting semaphore lags behind the indexes by the threads in between.
CountInv ==
    /\ empty_sem + Reserved + Emptied = BufferSize - (Len(sent) - Len(received))
    /\ fill_sem + Filled + Claimed = Len(sent) - Len(received)

\* The cells between the two indexes hold what was sent and not yet received.
WindowInv ==
    /\ write_index = Len(sent) % BufferSize
    /\ read_index = Len(received) % BufferSize
    /\ \A i \in Len(received) + 1 .. Len(sent) :
          transactions[(i - 1) % BufferSize] = sent[i]

\* What a thread holds is what the cell at its index holds.
HandInv ==
    /\ \A p \in At({"advanceWrite"}) : transactions[write_index] = item[p]
    /\ \A c \in At({"addDeposit", "advanceRead"}) :
          item[c] = transactions[read_index]

\* The strengthening of the safety properties that every step preserves.
IndInv ==
    /\ TypeOK /\ MutualExclusion /\ LockInv /\ DrawInv
    /\ CountInv /\ WindowInv /\ HandInv
=============================================================================
