------------------------------- MODULE ShmRing -------------------------------
(* labs/E04 - Shared Memory/sol/sol/03: a producer and a consumer process, run *)
(* by hand one after the other, that share a circular buffer in a POSIX shared *)
(* memory object and synchronise by nothing but its two indexes, which they    *)
(* poll.  The name may still be that of an object left by a run that was       *)
(* killed, and the consumer may be started at any time.                        *)
EXTENDS Integers, Sequences

CONSTANTS
    BufferSize,         \* BUFFER_SIZE
    NumOperations,      \* NUM_OPERATIONS, of the producer and of the consumer
    Amount,             \* Amount[k] is the k-th number the seeded rand() yields
    Leftover,           \* an earlier run may have left its object behind
    Garbage             \* what the producer's uninitialised localSum may hold

ASSUME RingAssumption ==
    /\ BufferSize \in Nat \ {0}
    /\ NumOperations \in Nat \ {0}
    /\ Amount \in [1 .. NumOperations -> Int]
    /\ Leftover \in BOOLEAN
    /\ Garbage \subseteq Int /\ Garbage # {}

\* Item k is the k-th number drawn, and 0 what ftruncate and memset leave.
Items == 0 .. NumOperations
Value(item) == IF item = 0 THEN 0 ELSE Amount[item]

Cells == 0 .. BufferSize - 1

\* The object of an earlier run and the one that initMemory creates.
Objects == {"old", "new"}

VARIABLES
    name,               \* the object SH_MEM_NAME stands for, or "none"
    sized,              \* the objects that have been given their size
    buf, read_index, write_index,   \* the memory, by object
    producerPc, mine, producerOps, drawn, producerSum,
    consumerPc, attached, consumerOps, value, consumerSum,
    garbage,            \* history: the producer's localSum at the start
    sent, received      \* history: the items, as the indexes of mine pass them

memory == <<buf, read_index, write_index>>
object == <<name, sized>>
producer == <<producerPc, mine, producerOps, drawn, producerSum>>
consumer == <<consumerPc, attached, consumerOps, value, consumerSum>>
history == <<garbage, sent, received>>
vars == <<object, memory, producer, consumer, history>>

Init ==
    /\ name \in IF Leftover THEN {"old", "none"} ELSE {"none"}
    /\ sized = {"old"}
    /\ buf = [o \in Objects |-> [i \in Cells |-> 0]]
    /\ \E r, w \in Cells :
          /\ read_index = [o \in Objects |-> IF o = "old" THEN r ELSE 0]
          /\ write_index = [o \in Objects |-> IF o = "old" THEN w ELSE 0]
    /\ producerPc = "unlink" /\ mine = "none" /\ producerOps = NumOperations
    /\ drawn = 0 /\ producerSum \in Garbage /\ garbage = producerSum
    /\ consumerPc = "open" /\ attached = "none" /\ consumerOps = NumOperations
    /\ value = 0 /\ consumerSum = 0
    /\ sent = << >> /\ received = << >>

ProducerStep(from, to) == producerPc = from /\ producerPc' = to
ConsumerStep(from, to) == consumerPc = from /\ consumerPc' = to

-----------------------------------------------------------------------------
(* Plausible mistakes, which the properties below are shown to catch *)

\* The object of an earlier run is not unlinked.
UnlinkMissing ==
    /\ ProducerStep("unlink", "create")
    /\ UNCHANGED <<object, memory, mine, producerOps, drawn, producerSum, consumer,
                   history>>

\* A buffer of BUFFER_SIZE items is taken to hold BUFFER_SIZE of them.
WaitSpaceOffByOne ==
    /\ ProducerStep("waitSpace", "store")
    /\ Len(sent) - Len(received) < BufferSize
    /\ UNCHANGED <<object, memory, mine, producerOps, drawn, producerSum, consumer,
                   history>>

\* The producer does not wait for room.
WaitSpaceMissing ==
    /\ ProducerStep("waitSpace", "store")
    /\ UNCHANGED <<object, memory, mine, producerOps, drawn, producerSum, consumer,
                   history>>

\* The consumer looks at the wrong index.
LoadAtWriteIndex ==
    /\ ConsumerStep("load", "advance")
    /\ value' = buf[attached][write_index[attached]]
    /\ UNCHANGED <<object, memory, producer, attached, consumerOps, consumerSum,
                   history>>

-----------------------------------------------------------------------------
(* The producer *)

\* shm_unlink, whose result is not looked at.
Unlink ==
    /\ ProducerStep("unlink", "create")
    /\ name' = "none"
    /\ UNCHANGED <<sized, memory, mine, producerOps, drawn, producerSum, consumer,
                   history>>

\* shm_open with O_CREAT but not O_EXCL takes an object that is there.
Create ==
    /\ ProducerStep("create", "truncate")
    /\ mine' = IF name = "none" THEN "new" ELSE name
    /\ name' = mine'
    /\ UNCHANGED <<sized, memory, producerOps, drawn, producerSum, consumer, history>>

\* ftruncate and mmap; the new pages are zero.
Truncate ==
    /\ ProducerStep("truncate", "clear")
    /\ sized' = sized \cup {mine}
    /\ UNCHANGED <<name, memory, mine, producerOps, drawn, producerSum, consumer,
                   history>>

\* memset
Clear ==
    /\ ProducerStep("clear", "draw")
    /\ buf' = [buf EXCEPT ![mine] = [i \in Cells |-> 0]]
    /\ read_index' = [read_index EXCEPT ![mine] = 0]
    /\ write_index' = [write_index EXCEPT ![mine] = 0]
    /\ UNCHANGED <<object, mine, producerOps, drawn, producerSum, consumer, history>>

\* performRandomTransaction(): the next number of the seeded sequence.
Draw ==
    /\ ProducerStep("draw", "waitSpace")
    /\ drawn' = drawn + 1
    /\ UNCHANGED <<object, memory, mine, producerOps, producerSum, consumer, history>>

\* The busy waiting ends when the cell after the next one is not the reader's.
WaitSpace ==
    /\ ProducerStep("waitSpace", "store")
    /\ (write_index[mine] + 1) % BufferSize # read_index[mine]
    /\ UNCHANGED <<object, memory, mine, producerOps, drawn, producerSum, consumer,
                   history>>

Store ==
    /\ ProducerStep("store", "advance")
    /\ buf' = [buf EXCEPT ![mine][write_index[mine]] = drawn]
    /\ UNCHANGED <<object, read_index, write_index, mine, producerOps, drawn,
                   producerSum, consumer, history>>

\* The index moves on, and the loop goes round while numOps is positive.
AdvanceWrite ==
    /\ ProducerStep("advance", IF producerOps > 1 THEN "draw" ELSE "close")
    /\ write_index' = [write_index EXCEPT ![mine] = (@ + 1) % BufferSize]
    /\ sent' = Append(sent, drawn)
    /\ producerSum' = producerSum + Value(drawn)
    /\ producerOps' = producerOps - 1
    /\ UNCHANGED <<object, buf, read_index, mine, drawn, consumer, garbage, received>>

\* closeMemory: munmap, close and shm_unlink.
CloseProducer ==
    /\ ProducerStep("close", "exited")
    /\ name' = "none"
    /\ UNCHANGED <<sized, memory, mine, producerOps, drawn, producerSum, consumer,
                   history>>

-----------------------------------------------------------------------------
(* The consumer *)

\* shm_open fails if there is no such name; mmap succeeds whatever the size.
Open ==
    /\ ConsumerStep("open", IF name = "none" THEN "failed" ELSE "waitItem")
    /\ attached' = name
    /\ UNCHANGED <<object, memory, producer, consumerOps, value, consumerSum, history>>

\* An access to an object that has no size yet is a bus error.
BusError ==
    /\ ConsumerStep("waitItem", "killed")
    /\ attached \notin sized
    /\ UNCHANGED <<object, memory, producer, attached, consumerOps, value,
                   consumerSum, history>>

\* The busy waiting ends when the indexes differ.
WaitItem ==
    /\ ConsumerStep("waitItem", "load")
    /\ attached \in sized
    /\ read_index[attached] # write_index[attached]
    /\ UNCHANGED <<object, memory, producer, attached, consumerOps, value,
                   consumerSum, history>>

Load ==
    /\ ConsumerStep("load", "advance")
    /\ value' = buf[attached][read_index[attached]]
    /\ UNCHANGED <<object, memory, producer, attached, consumerOps, consumerSum,
                   history>>

\* The index moves on, and the loop goes round while numOps is positive.
AdvanceRead ==
    /\ ConsumerStep("advance", IF consumerOps > 1 THEN "waitItem" ELSE "close")
    /\ read_index' = [read_index EXCEPT ![attached] = (@ + 1) % BufferSize]
    /\ received' = IF attached = mine THEN Append(received, value) ELSE received
    /\ consumerSum' = consumerSum + Value(value)
    /\ consumerOps' = consumerOps - 1
    /\ UNCHANGED <<object, buf, write_index, producer, attached, value, garbage, sent>>

CloseConsumer ==
    /\ ConsumerStep("close", "exited")
    /\ UNCHANGED <<object, memory, producer, attached, consumerOps, value,
                   consumerSum, history>>

ProducerNext ==
    \/ Unlink \/ Create \/ Truncate \/ Clear
    \/ Draw \/ WaitSpace \/ Store \/ AdvanceWrite \/ CloseProducer

ConsumerNext ==
    Open \/ BusError \/ WaitItem \/ Load \/ AdvanceRead \/ CloseConsumer

ConsumerEnded == consumerPc \in {"exited", "failed", "killed"}

\* A process that polls in vain goes on for ever, and one that ended stays so.
PollOrEnded ==
    /\ producerPc \in {"waitSpace", "exited"}
    /\ ConsumerEnded \/ consumerPc = "waitItem"
    /\ UNCHANGED vars

Next == ProducerNext \/ ConsumerNext \/ PollOrEnded

\* The two processes are both scheduled.
Fairness == WF_vars(ProducerNext) /\ WF_vars(ConsumerNext)

Spec == Init /\ [][Next]_vars

FairSpec == Spec /\ Fairness

-----------------------------------------------------------------------------
(* What the programs rely on *)

\* The memory, the locals and the history keep their types: in particular the
\* indexes of both objects stay inside the buffer.
TypeOK ==
    /\ name \in Objects \cup {"none"}
    /\ sized \subseteq Objects
    /\ buf \in [Objects -> [Cells -> Items]]
    /\ read_index \in [Objects -> Cells] /\ write_index \in [Objects -> Cells]
    /\ producerPc \in {"unlink", "create", "truncate", "clear", "draw", "waitSpace",
                       "store", "advance", "close", "exited"}
    /\ mine \in {"none", "new"}
    /\ producerOps \in Nat /\ drawn \in Items /\ producerSum \in Int
    /\ consumerPc \in {"open", "waitItem", "load", "advance", "close", "exited",
                       "failed", "killed"}
    /\ attached \in Objects \cup {"none"}
    /\ consumerOps \in Int /\ value \in Items /\ consumerSum \in Int
    /\ garbage \in Int
    /\ sent \in Seq(Items) /\ received \in Seq(Items)

\* The producer never writes the cell that the consumer is reading, although
\* nothing but the two indexes keeps them apart.
NoCellRace ==
    producerPc = "store" /\ consumerPc = "load" /\ attached = mine
        => write_index[mine] # read_index[mine]

\* The memset, which comes after the consumer may have mapped the object, wipes
\* out nothing that anybody has written or read.
ClearChangesNothing ==
    [][producerPc = "clear" /\ producerPc' # "clear" => UNCHANGED memory]_vars

\* The two local sums differ by what the producer's held before it was first
\* added to, whatever that is.
SumsAgree ==
    producerPc = "exited" /\ consumerPc = "exited" /\ attached = mine
        => producerSum - consumerSum = garbage

\* A consumer that maps the producer's object once it has its size gets every
\* item, and then both processes end; and a consumer never waits for ever unless it
\* mapped the object of an earlier run: otherwise it fails at once, dies of a bus
\* error, or ends.
RunEnds ==
    /\ consumerPc = "waitItem" /\ attached = mine /\ mine \in sized
           ~> producerPc = "exited" /\ consumerPc = "exited"
    /\ <>(ConsumerEnded \/ attached = "old")

\* The buffer is a first-in first-out channel that holds one item less than it
\* has cells.
Fifo == INSTANCE BoundedFifo WITH Capacity <- BufferSize - 1
FifoRefinement == Fifo!FifoSpec

-----------------------------------------------------------------------------
(* The inductive invariant *)

\* Only initMemory makes the object that the name, or the consumer, may refer to.
ObjectInv ==
    /\ mine = "none" <=> producerPc \in {"unlink", "create"}
    /\ producerPc = "create" => name = "none"
    /\ name = "new" \/ attached = "new" => mine = "new"
    /\ consumerPc \in {"load", "advance"} => attached # "none"

\* Until the loop starts the new object holds what ftruncate left.
FreshInv ==
    producerPc \in {"unlink", "create", "truncate", "clear"} =>
        /\ sent = << >> /\ received = << >>
        /\ buf["new"] = [i \in Cells |-> 0]

\* A number is drawn in every round, and no round is left over.
DrawInv ==
    /\ producerPc \in {"unlink", "create", "truncate", "clear", "draw"} =>
          drawn + producerOps = NumOperations
    /\ producerPc \in {"waitSpace", "store", "advance"} =>
          drawn + producerOps = NumOperations + 1
    /\ producerPc \notin {"close", "exited"} => producerOps > 0

\* The indexes count the items modulo the cells, and a side that has looked at
\* them knows that there is room, or an item, until it moves its own.
RoomInv ==
    /\ write_index["new"] = Len(sent) % BufferSize
    /\ read_index["new"] = Len(received) % BufferSize
    /\ Len(received) <= Len(sent) /\ Len(sent) - Len(received) < BufferSize
    /\ producerPc \in {"store", "advance"} =>
          Len(sent) - Len(received) < BufferSize - 1
    /\ consumerPc \in {"load", "advance"} /\ attached = "new" =>
          Len(sent) > Len(received)

\* The cells between the two indexes hold what was sent and not yet received.
WindowInv ==
    \A i \in Len(received) + 1 .. Len(sent) :
        buf["new"][(i - 1) % BufferSize] = sent[i]

\* What a process holds is what the cell at its index holds.
HandInv ==
    /\ producerPc = "advance" => buf["new"][write_index["new"]] = drawn
    /\ consumerPc = "advance" /\ attached = "new" =>
          value = buf["new"][read_index["new"]]

\* The strengthening of the safety properties that every step preserves.
IndInv ==
    /\ TypeOK /\ ObjectInv /\ FreshInv /\ DrawInv
    /\ RoomInv /\ WindowInv /\ HandInv
=============================================================================
