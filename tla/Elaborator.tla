------------------------------ MODULE Elaborator ------------------------------
(* The exam papers with an elaborator, which makes a buffer in shared memory   *)
(* with three unnamed semaphores in it, and producers that put their input     *)
(* there until their balance is spent: "gennaio",                              *)
(* old_exams/2022_gennaio_attempt_1/src, and "giugno",                         *)
(* old_exams/2021_giugno_attempt_1/src, whose elaborator does not get past     *)
(* initMemory.  The elaborator stops at CTRL+C, and may be started again.      *)
EXTENDS Integers, Sequences

CONSTANTS
    Programs,           \* which of the two
    BUFFER_SIZE,
    NumProducers,       \* bound: producers, each started once
    MaxInputs,          \* bound: inputs that the balance of a producer pays for
    MaxStarts,          \* bound: starts of the elaborator
    MayFail             \* the elaborator may be killed

ASSUME ElaboratorAssumption ==
    /\ Programs \subseteq {"gennaio", "giugno"}
    /\ {BUFFER_SIZE, NumProducers, MaxInputs, MaxStarts} \subseteq Nat \ {0}
    /\ MayFail \in BOOLEAN

Producers == 1 .. NumProducers
\* Each start makes at most one memory, which is told apart from the others; the
\* last one is what somebody else has left under the same name.
Memories == 1 .. MaxStarts + 1
Leftover == MaxStarts + 1
Cells == 0 .. BUFFER_SIZE - 1
Sems == {"empty_sem", "full_sem", "cs_sem"}

\* The zeros of a semaphore before its sem_init, and a cell nobody has written.
Unset == -1
NoInput == <<0, 0>>

\* The semaphores of a memory before any sem_init, and after the three of them.
NotInit == [s \in Sems |-> Unset]
AllInit == [s \in Sems |-> CASE s = "empty_sem" -> BUFFER_SIZE
                             [] s = "full_sem" -> 0 [] s = "cs_sem" -> 1]

VARIABLES
    program,
    elabPc, starts,     \* the elaborator: next step, how often it was started
    name,               \* the memory that SH_MEM_NAME stands for, 0 for none
    sized,              \* the memories that ftruncate has given their size
    sems,               \* the semaphores of each memory
    buf, read_index, write_index,
    input,              \* what the elaborator has read
    prodPc, memory,     \* each producer: next step, the memory it has opened
    inputs,             \* how many inputs it has generated
    sent, received,     \* history: inputs put in each memory, and taken from it
    early,              \* history: producers that opened a memory not yet set up
    unclean             \* history: an elaborator ended without its unlink

elaborator == <<elabPc, starts, input>>
names == <<name, sized>>
buffer == <<buf, read_index, write_index>>
producers == <<prodPc, memory, inputs>>
history == <<sent, received, early, unclean>>
vars == <<program, elaborator, names, sems, buffer, producers, history>>

Init ==
    /\ program \in Programs
    /\ elabPc = "down" /\ starts = 0 /\ input = NoInput
    \* "giugno" gets to its second call only where a memory is left: by "gennaio" say,
    \* which has the same cells and semaphores in it, set up or not yet.
    /\ name \in IF program = "giugno" THEN {0, Leftover} ELSE {0}
    /\ sized = {Leftover}
    /\ \E left \in {NotInit, AllInit} :
          sems = [o \in Memories |-> IF o = name THEN left ELSE NotInit]
    /\ buf = [o \in Memories |-> [k \in Cells |-> NoInput]]
    /\ read_index = [o \in Memories |-> 0] /\ write_index = [o \in Memories |-> 0]
    /\ prodPc = [p \in Producers |-> "down"]
    /\ memory = [p \in Producers |-> 0] /\ inputs = [p \in Producers |-> 0]
    /\ sent = [o \in Memories |-> << >>] /\ received = [o \in Memories |-> << >>]
    /\ early = {} /\ unclean = (name # 0)

ElabStep(from, to) == elabPc = from /\ elabPc' = to
ProdStep(p, from, to) == prodPc[p] = from /\ prodPc' = [prodPc EXCEPT ![p] = to]

\* sem_wait and sem_post; zeros that are not yet a semaphore let nobody through.
Wait(o, s) == sems[o][s] > 0 /\ sems' = [sems EXCEPT ![o][s] = @ - 1]
Post(o, s) == sems' = [sems EXCEPT ![o][s] = @ + 1]

-----------------------------------------------------------------------------
(* Plausible mistakes, which the properties below are shown to catch *)

\* The producer does not wait for a free cell.
WaitSpaceMissing(p) ==
    /\ ProdStep(p, "waitSpace", "waitLock")
    /\ UNCHANGED <<program, elaborator, names, sems, buffer, memory, inputs,
                   history>>

\* The elaborator does not say that the cell is free again.
PostSpaceMissing ==
    /\ ElabStep("postSpace", "waitItem")
    /\ UNCHANGED <<program, starts, input, names, sems, buffer, producers,
                   history>>

\* The handler of the signal leaves the name.
UnlinkMissing ==
    /\ ElabStep("unlink", "stopped")
    /\ UNCHANGED <<program, starts, input, names, sems, buffer, producers,
                   history>>

-----------------------------------------------------------------------------
(* initMemory and openSemaphores of the elaborator *)

Ended == {"down", "refused", "failed", "stopped", "ungraceful", "killed"}

Start ==
    /\ elabPc \in Ended /\ starts < MaxStarts
    /\ starts' = starts + 1
    /\ elabPc' = IF program = "giugno" THEN "unlinkOld" ELSE "create"
    /\ UNCHANGED <<program, input, names, sems, buffer, producers, history>>

\* "giugno" takes it for an error that there is no old memory to unlink.
UnlinkOld ==
    /\ ElabStep("unlinkOld", IF name = 0 THEN "failed" ELSE "create")
    /\ name' = 0
    /\ UNCHANGED <<program, starts, input, sized, sems, buffer, producers,
                   history>>

\* shm_open with O_CREAT | O_EXCL, or with O_CREAT on a name that is free.
CreateMemory ==
    /\ ElabStep("create", IF name = 0 THEN "truncate" ELSE "refused")
    /\ name' = IF name = 0 THEN starts ELSE name
    /\ UNCHANGED <<program, starts, input, sized, sems, buffer, producers,
                   history>>

\* "giugno" has opened the memory for reading only, so that ftruncate fails.
Truncate ==
    /\ ElabStep("truncate", IF program = "giugno" THEN "failed" ELSE "clear")
    /\ sized' = IF program = "giugno" THEN sized ELSE sized \cup {name}
    /\ unclean' = (unclean \/ program = "giugno")
    /\ UNCHANGED <<program, starts, input, name, sems, buffer, producers,
                   sent, received, early>>

\* mmap and memset.
ClearMemory ==
    /\ ElabStep("clear", "initEmpty")
    /\ sems' = [sems EXCEPT ![name] = NotInit]
    /\ buf' = [buf EXCEPT ![name] = [k \in Cells |-> NoInput]]
    /\ read_index' = [read_index EXCEPT ![name] = 0]
    /\ write_index' = [write_index EXCEPT ![name] = 0]
    /\ UNCHANGED <<program, starts, input, names, producers, history>>

InitSem(from, to, s, units) ==
    /\ ElabStep(from, to)
    /\ sems' = [sems EXCEPT ![starts][s] = units]
    /\ UNCHANGED <<program, starts, input, names, buffer, producers, history>>

OpenSemaphores ==
    \/ InitSem("initEmpty", "initFull", "empty_sem", BUFFER_SIZE)
    \/ InitSem("initFull", "initCs", "full_sem", 0)
    \/ InitSem("initCs", "waitItem", "cs_sem", 1)

-----------------------------------------------------------------------------
(* consume *)

WaitItem ==
    /\ ElabStep("waitItem", "waitLock")
    /\ Wait(starts, "full_sem")
    /\ UNCHANGED <<program, starts, input, names, buffer, producers, history>>

ElabWaitLock ==
    /\ ElabStep("waitLock", "read")
    /\ Wait(starts, "cs_sem")
    /\ UNCHANGED <<program, starts, input, names, buffer, producers, history>>

ReadCell ==
    /\ ElabStep("read", "advance")
    /\ input' = buf[starts][read_index[starts]]
    /\ UNCHANGED <<program, starts, names, sems, buffer, producers, history>>

AdvanceRead ==
    /\ ElabStep("advance", "postLock")
    /\ read_index' = [read_index EXCEPT ![starts] =
                         IF @ = BUFFER_SIZE - 1 THEN 0 ELSE @ + 1]
    /\ received' = [received EXCEPT ![starts] = Append(@, input)]
    /\ UNCHANGED <<program, starts, input, names, sems, buf, write_index, producers,
                   sent, early, unclean>>

ElabPostLock ==
    /\ ElabStep("postLock", "postSpace")
    /\ Post(starts, "cs_sem")
    /\ UNCHANGED <<program, starts, input, names, buffer, producers, history>>

PostSpace ==
    /\ ElabStep("postSpace", "waitItem")
    /\ Post(starts, "empty_sem")
    /\ UNCHANGED <<program, starts, input, names, buffer, producers, history>>

-----------------------------------------------------------------------------
(* The end of the elaborator *)

Looping == {"waitItem", "waitLock", "read", "advance", "postLock", "postSpace"}

\* sigintHandler interrupts main wherever it is.  close_everything destroys the
\* semaphores, if there are any yet, and unmaps the memory: producers go on, as the
\* sem_destroy of the C library leaves a semaphore as it is.
Interrupt ==
    /\ elabPc \notin Ended \cup {"unlink"}
    /\ elabPc' = "unlink"
    /\ UNCHANGED <<program, starts, input, names, sems, buffer, producers, history>>

\* shm_unlink, whose failure ends the process by handle_error.
UnlinkMemory ==
    /\ ElabStep("unlink", IF name = 0 THEN "ungraceful" ELSE "stopped")
    /\ name' = 0
    /\ UNCHANGED <<program, starts, input, sized, sems, buffer, producers,
                   history>>

ElabKilled ==
    /\ MayFail /\ elabPc \notin Ended
    /\ elabPc' = "killed" /\ unclean' = TRUE
    /\ UNCHANGED <<program, starts, input, names, sems, buffer, producers,
                   sent, received, early>>

-----------------------------------------------------------------------------
(* The producers *)

\* openMemory fails if there is no such name; that the memory is set up it does not
\* ask.  A wait on zeros that are no semaphore yet does not return before sem_init,
\* which wakes nobody.  Producers are alike: they come in the order of their numbers.
OpenMemory(p) ==
    /\ \A q \in Producers : q < p => prodPc[q] # "down"
    /\ ProdStep(p, "down", IF name = 0 THEN "noMemory" ELSE "request")
    /\ memory' = [memory EXCEPT ![p] = name]
    /\ early' = IF name # 0 /\ sems[name]["cs_sem"] = Unset THEN early \cup {p} ELSE early
    /\ UNCHANGED <<program, elaborator, names, sems, buffer, inputs, sent,
                   received, unclean>>

\* request generates one more input that the balance pays for.
Generate(p) ==
    /\ inputs[p] < MaxInputs
    /\ ProdStep(p, "request", "waitSpace")
    /\ inputs' = [inputs EXCEPT ![p] = @ + 1]
    /\ UNCHANGED <<program, elaborator, names, sems, buffer, memory, history>>

WaitSpace(p) ==
    /\ ProdStep(p, "waitSpace", "waitLock")
    /\ Wait(memory[p], "empty_sem")
    /\ UNCHANGED <<program, elaborator, names, buffer, memory, inputs, history>>

WaitLock(p) ==
    /\ ProdStep(p, "waitLock", "write")
    /\ Wait(memory[p], "cs_sem")
    /\ UNCHANGED <<program, elaborator, names, buffer, memory, inputs, history>>

WriteCell(p) ==
    LET o == memory[p]
    IN  /\ ProdStep(p, "write", "advance")
        /\ buf' = [buf EXCEPT ![o][write_index[o]] = <<p, inputs[p]>>]
        /\ UNCHANGED <<program, elaborator, names, sems, read_index, write_index, memory,
                       inputs, history>>

AdvanceWrite(p) ==
    LET o == memory[p]
    IN  /\ ProdStep(p, "advance", "postLock")
        /\ write_index' = [write_index EXCEPT ![o] =
                              IF @ + 1 = BUFFER_SIZE THEN 0 ELSE @ + 1]
        /\ sent' = [sent EXCEPT ![o] = Append(@, <<p, inputs[p]>>)]
        /\ UNCHANGED <<program, elaborator, names, sems, buf, read_index, memory, inputs,
                       received, early, unclean>>

PostLock(p) ==
    /\ ProdStep(p, "postLock", "postItem")
    /\ Post(memory[p], "cs_sem")
    /\ UNCHANGED <<program, elaborator, names, buffer, memory, inputs, history>>

PostItem(p) ==
    /\ ProdStep(p, "postItem", "request")
    /\ Post(memory[p], "full_sem")
    /\ UNCHANGED <<program, elaborator, names, buffer, memory, inputs, history>>

\* The balance is spent: closeSemaphores destroys what all the others use, which stays
\* as it is, and closeMemory leaves the name.  "giugno" calls sem_close on what
\* sem_open has not made, and fails.
CloseSemaphores(p) ==
    /\ ProdStep(p, "request", IF program = "giugno" THEN "failed" ELSE "done")
    /\ UNCHANGED <<program, elaborator, names, sems, buffer, memory, inputs, history>>

UsesSem(p) == prodPc[p] \in {"waitSpace", "waitLock", "postLock", "postItem"}

\* Memory that has no size yet raises SIGBUS.
UseTooEarly(p) ==
    /\ UsesSem(p) /\ memory[p] \notin sized
    /\ prodPc' = [prodPc EXCEPT ![p] = "killed"]
    /\ UNCHANGED <<program, elaborator, names, sems, buffer, memory, inputs,
                   history>>

-----------------------------------------------------------------------------

InitMemory == UnlinkOld \/ CreateMemory \/ Truncate \/ ClearMemory
Consume ==
    WaitItem \/ ElabWaitLock \/ ReadCell \/ AdvanceRead \/ ElabPostLock \/ PostSpace

ElabNext == InitMemory \/ OpenSemaphores \/ Consume \/ UnlinkMemory

Request(p) ==
    \/ Generate(p) \/ WaitSpace(p) \/ WaitLock(p) \/ WriteCell(p) \/ AdvanceWrite(p)
    \/ PostLock(p) \/ PostItem(p)

ProdNext(p) == Request(p) \/ CloseSemaphores(p)

Next ==
    \/ Start \/ ElabNext \/ Interrupt \/ ElabKilled
    \/ \E p \in Producers :
          OpenMemory(p) \/ ProdNext(p) \/ UseTooEarly(p)

\* The scheduler runs every process that can run.
Fairness ==
    /\ WF_vars(ElabNext)
    /\ \A p \in Producers : WF_vars(ProdNext(p))

Spec == Init /\ [][Next]_vars

FairSpec == Spec /\ Fairness

-----------------------------------------------------------------------------
(* What the programs promise *)

\* The variables keep their types; a semaphore that is set up is within its bound,
\* the lock within 1.
TypeOK ==
    /\ program \in Programs
    /\ elabPc \in Ended \cup Looping \cup {"unlinkOld", "create", "truncate", "clear",
                                          "initEmpty", "initFull", "initCs", "unlink"}
    /\ starts \in 0 .. MaxStarts /\ name \in {0} \cup Memories /\ sized \subseteq Memories
    /\ sems \in [Memories -> [Sems -> Unset .. BUFFER_SIZE]]
    /\ \A o \in Memories : sems[o]["cs_sem"] <= 1
    /\ read_index \in [Memories -> Cells] /\ write_index \in [Memories -> Cells]
    /\ early \subseteq Producers
    /\ prodPc \in [Producers -> {"down", "noMemory", "request", "waitSpace", "waitLock",
                                 "write", "advance", "postLock", "postItem", "done",
                                 "failed", "killed"}]

\* The elaborator takes from its memory what the producers put there, in that order
\* and each once, also when some of them came before the semaphores or go on after
\* the first that ended has destroyed them.
InOrder ==
    \A o \in Memories :
        /\ Len(received[o]) <= Len(sent[o])
        /\ \A k \in 1 .. Len(received[o]) : received[o][k] = sent[o][k]

\* An elaborator is refused its name only when an earlier one was killed or ended by
\* an error: CTRL+C leaves no name behind wherever it strikes.
RestartSucceeds == elabPc = "refused" => unclean

\* As long as the elaborator runs on and nobody comes before it has set up its
\* semaphores, every producer that has opened its memory gets all its inputs in and
\* ends, those too that go on when the first that ended has destroyed the semaphores.
Undisturbed(p) == elabPc \in Looping /\ memory[p] = starts /\ early = {}

AllServed ==
    \A p \in Producers :
        prodPc[p] = "request" ~> prodPc[p] = "done" \/ ~Undisturbed(p)

=============================================================================
