--------------------------- MODULE ElaboratorProofs ---------------------------
(* What Elaborator promises for every number of producers, cells, inputs and   *)
(* starts: the elaborator takes the inputs of a memory in the order in which   *)
(* they were put there, its name is free again after CTRL+C, and it never waits *)
(* for producers that all wait for it.                                         *)
EXTENDS Elaborator, FiniteSetTheorems, TLAPS

-----------------------------------------------------------------------------
(* Indexes that wrap around a buffer of B cells *)

\* A number is a multiple of B and a remainder.
LEMMA DivMod ==
  ASSUME NEW B \in Nat \ {0}, NEW a \in Nat
  PROVE  \E q \in Int, r \in 0 .. B - 1 : a = B * q + r /\ r = a % B
  OBVIOUS

\* The remainder is the only number of 0 .. B - 1 that leaves a multiple of B.
LEMMA ModUnique ==
  ASSUME NEW B \in Nat \ {0}, NEW a \in Nat, NEW q \in Int, NEW r \in 0 .. B - 1,
         a = B * q + r
  PROVE  a % B = r
  <1>1. PICK k \in Int, s \in 0 .. B - 1 : a = B * k + s /\ s = a % B
    BY DivMod
  <1>2. B * (q - k) = s - r
    BY <1>1
  <1>3. q - k < 1
    <2>1. SUFFICES ASSUME q - k >= 1 PROVE FALSE
      BY <1>1
    <2>2. B * (q - k) >= B
      BY <2>1, <1>1
    <2>. QED
      BY <2>2, <1>2, <1>1
  <1>4. q - k > -1
    <2>1. SUFFICES ASSUME q - k <= -1 PROVE FALSE
      BY <1>1
    <2>2. B * (q - k) <= -B
      BY <2>1, <1>1
    <2>. QED
      BY <2>2, <1>2, <1>1
  <1>5. q = k
    BY <1>1, <1>3, <1>4
  <1>6. B * (q - k) = 0
    BY <1>1, <1>5
  <1>7. s = r
    BY <1>2, <1>6
  <1>8. a % B = s
    BY <1>1, Zenon
  <1>. QED
    BY <1>7, <1>8, Zenon

\* An index that is advanced modulo B counts modulo B.
LEMMA ModSucc ==
  ASSUME NEW B \in Nat \ {0}, NEW a \in Nat
  PROVE  ((a % B) + 1) % B = (a + 1) % B
  <1>1. PICK q \in Int, r \in 0 .. B - 1 : a = B * q + r /\ r = a % B
    BY DivMod
  <1>. DEFINE m == a + 1
  <1>2. m \in Nat /\ m = B * q + r + 1
    BY <1>1
  <1>3. CASE r + 1 < B
    <2>1. r + 1 \in 0 .. B - 1 /\ m = B * q + (r + 1)
      BY <1>2, <1>3
    <2>. HIDE DEF m
    <2>2. m % B = r + 1
      BY <1>2, <2>1, ModUnique
    <2>3. (r + 1) % B = r + 1
      BY <1>3, <1>1
    <2>. QED
      BY <2>2, <2>3, <1>1 DEF m
  <1>4. CASE r + 1 = B
    <2>1. B * (q + 1) = B * q + B
      OBVIOUS
    <2>2. m = B * (q + 1) + 0 /\ q + 1 \in Int /\ 0 \in 0 .. B - 1
      <3>. HIDE DEF m
      <3>. QED
        BY <1>2, <1>4, <2>1
    <2>. HIDE DEF m
    <2>3. m % B = 0
      BY <1>2, <2>2, ModUnique
    <2>4. B % B = 0
      BY ModUnique, B = B * 1 + 0
    <2>. QED
      BY <2>3, <2>4, <1>1, <1>4 DEF m
  <1>. QED
    BY <1>1, <1>3, <1>4

\* Fewer than B successive counts fall on distinct cells.
LEMMA ModDistinct ==
  ASSUME NEW B \in Nat \ {0}, NEW a \in Nat, NEW b \in Nat, a < b, b < a + B
  PROVE  a % B # b % B
  <1>1. PICK q \in Int, r \in 0 .. B - 1 : a = B * q + r /\ r = a % B
    BY DivMod
  <1>2. PICK k \in Int, s \in 0 .. B - 1 : b = B * k + s /\ s = b % B
    BY DivMod
  <1>3. SUFFICES ASSUME r = s PROVE FALSE
    BY <1>1, <1>2
  <1>4. b - a = B * (k - q)
    <2>1. /\ B * k \in Int /\ B * q \in Int
          /\ B * (k - q) = B * k - B * q
      BY <1>1, <1>2
    <2>2. a = B * q + r
      BY <1>1, Zenon
    <2>3. b = B * k + r
      BY <1>2, <1>3, Zenon
    <2>4. r \in Int
      OBVIOUS
    <2>. QED
      BY <2>1, <2>2, <2>3, <2>4
  <1>5. k - q > 0
    <2>1. SUFFICES ASSUME k - q <= 0 PROVE FALSE
      BY <1>1, <1>2
    <2>2. B * (k - q) <= 0
      BY <2>1
    <2>. QED
      BY <2>2, <1>4
  <1>6. B * (k - q) >= B
    BY <1>5
  <1>. QED
    BY <1>4, <1>6

\* A remainder is an index of the buffer.
LEMMA ModRange ==
  ASSUME NEW B \in Nat \ {0}, NEW a \in Nat
  PROVE  a % B \in 0 .. B - 1
  OBVIOUS

-----------------------------------------------------------------------------
(* The inductive invariant *)

Inputs == (0 .. NumProducers) \X Nat
ElabSteps == Ended \cup Looping
               \cup {"unlinkOld", "create", "truncate", "clear", "initEmpty", "initFull",
                     "initCs", "unlink"}
ProdSteps == {"down", "noMemory", "request", "waitSpace", "waitLock", "write", "advance",
              "postLock", "postItem", "done", "failed", "killed"}

\* The types of the variables; a producer that goes on has a memory.
Types ==
  /\ elabPc \in ElabSteps /\ starts \in 0 .. MaxStarts
  /\ elabPc # "down" => starts # 0
  /\ name \in {0} \cup Memories /\ input \in Inputs
  /\ sems \in [Memories -> [Sems -> Int]]
  /\ buf \in [Memories -> [Cells -> Inputs]]
  /\ read_index \in [Memories -> Cells] /\ write_index \in [Memories -> Cells]
  /\ prodPc \in [Producers -> ProdSteps] /\ memory \in [Producers -> {0} \cup Memories]
  /\ \A p \in Producers : prodPc[p] \notin {"down", "noMemory"} => memory[p] \in Memories
  /\ inputs \in [Producers -> Nat]
  /\ sent \in [Memories -> Seq(Inputs)] /\ received \in [Memories -> Seq(Inputs)]

\* A memory without an end of its set-up, and one whose set-up has not begun.
NotReady(o) == sems[o]["cs_sem"] = Unset
Fresh(o) == \A s \in Sems : sems[o][s] = Unset

\* The elaborator sets up the memory of its start and no other, cs_sem last; until then
\* a producer gets no further than that semaphore.  What somebody else left may be set
\* up from the beginning.
SetUpInv ==
  /\ \A o \in Memories :
        /\ o > starts /\ o # Leftover => Fresh(o)
        /\ \A s \in Sems : sems[o][s] >= Unset
        /\ ~ NotReady(o) => \A s \in Sems : sems[o][s] >= 0
        /\ NotReady(o) => /\ sent[o] = << >> /\ received[o] = << >>
                          /\ read_index[o] = 0 /\ write_index[o] = 0
  /\ \A p \in Producers :
        /\ prodPc[p] \in {"waitLock", "write", "advance", "postLock", "postItem"} =>
              sems[memory[p]]["empty_sem"] # Unset
        /\ prodPc[p] \in {"write", "advance", "postLock", "postItem"} =>
              ~ NotReady(memory[p])
  /\ elabPc \in {"truncate", "clear"} => name = starts
  /\ elabPc \in {"unlinkOld", "create", "truncate", "clear", "initEmpty"} => Fresh(starts)
  /\ elabPc \in {"initFull", "initCs"} => NotReady(starts) /\ sems[starts]["empty_sem"] >= 0
  /\ elabPc = "initCs" => sems[starts]["full_sem"] >= 0
  /\ elabPc \in Looping => ~ NotReady(starts)

\* The producers of a memory at given steps, and whether the elaborator is.
At(o, steps) == {p \in Producers : memory[p] = o /\ prodPc[p] \in steps}
Elab(o, steps) == starts = o /\ elabPc \in steps

\* The producer has a cell and puts its input there, has filled it, has the lock ...
Filling == {"waitLock", "write", "advance"}
Filled == {"postLock", "postItem"}
Locking == {"write", "advance", "postLock"}
\* ... and so does the elaborator.
Fetching == {"waitLock", "read", "advance"}
Fetched == {"postLock", "postSpace"}
Locked == {"read", "advance", "postLock"}

\* One process at most has the lock of a memory.
LockAt(o) ==
  /\ sems[o]["cs_sem"] <= 1
  /\ \A p, q \in At(o, Locking) :
        p = q /\ sems[o]["cs_sem"] = 0 /\ ~ Elab(o, Locked)
  /\ Elab(o, Locked) => sems[o]["cs_sem"] = 0
LockInv == \A o \in Memories : LockAt(o)

\* The units of full_sem, with those on their way to it and from it, are inputs in the
\* buffer; the units of empty_sem are cells without one.  An elaborator that ends in
\* the middle takes its units with it.
Held(o) == Len(sent[o]) - Len(received[o])
CountAt(o) ==
  /\ Held(o) >= 0
  /\ sems[o]["full_sem"] + Cardinality(At(o, Filled))
       + (IF Elab(o, Fetching) THEN 1 ELSE 0) <= Held(o)
  /\ sems[o]["empty_sem"] + Cardinality(At(o, Filling))
       + (IF Elab(o, Fetched) THEN 1 ELSE 0) + Held(o) <= BUFFER_SIZE
CountInv == \A o \in Memories : CountAt(o)

\* The indexes count what was put and taken, and the cells between them hold what was
\* put there and not yet taken.
WindowAt(o) ==
  /\ write_index[o] = Len(sent[o]) % BUFFER_SIZE
  /\ read_index[o] = Len(received[o]) % BUFFER_SIZE
  /\ \A i \in Len(received[o]) + 1 .. Len(sent[o]) :
        buf[o][(i - 1) % BUFFER_SIZE] = sent[o][i]
HandInv ==
  /\ \A p \in Producers : prodPc[p] = "advance" =>
        buf[memory[p]][write_index[memory[p]]] = <<p, inputs[p]>>
  /\ elabPc = "advance" => input = buf[starts][read_index[starts]]
CellInv == (\A o \in Memories : WindowAt(o)) /\ HandInv

Inv == Types /\ SetUpInv /\ LockInv /\ CountInv /\ CellInv /\ InOrder

\* The name stands for a memory only as long as its elaborator runs, unless one
\* ended without its unlink.
NameInv ==
  /\ name # 0 /\ elabPc \in Ended \cup {"unlinkOld", "create"} => unclean
  /\ RestartSucceeds
-----------------------------------------------------------------------------
(* Semaphores and producers one at a time *)

LEMMA SomeMemories ==
  /\ 0 \notin Memories /\ BUFFER_SIZE \in Nat \ {0} /\ NoInput \in Inputs
  /\ {"empty_sem", "full_sem", "cs_sem"} = Sems /\ MaxStarts \in Nat
  /\ \A p \in Producers : \A n \in Nat : <<p, n>> \in Inputs
  BY ElaboratorAssumption DEF Memories, Sems, NoInput, Inputs, Producers

\* One semaphore of one memory takes a value.
LEMMA SemSet ==
  ASSUME Types, NEW o \in Memories, NEW s \in Sems, NEW v \in Int,
         sems' = [sems EXCEPT ![o][s] = v]
  PROVE  /\ sems' \in [Memories -> [Sems -> Int]]
         /\ \A m \in Memories, t \in Sems :
               sems'[m][t] = IF m = o /\ t = s THEN v ELSE sems[m][t]
         /\ \A m \in Memories \ {o} : sems'[m] = sems[m]
  BY DEF Types

\* sem_wait and sem_post do.
LEMMA WaitPost ==
  ASSUME Types, NEW o \in Memories, NEW s \in Sems
  PROVE  /\ sems[o][s] \in Int
         /\ Wait(o, s) => sems[o][s] > 0 /\ sems' = [sems EXCEPT ![o][s] = sems[o][s] - 1]
         /\ Post(o, s) => sems' = [sems EXCEPT ![o][s] = sems[o][s] + 1]
  BY DEF Types, Wait, Post

LEMMA AtFinite ==
  ASSUME NEW o, NEW steps
  PROVE  IsFiniteSet(At(o, steps)) /\ Cardinality(At(o, steps)) \in Nat
  <1>1. IsFiniteSet(Producers)
    BY ElaboratorAssumption, FS_Interval DEF Producers
  <1>2. At(o, steps) \subseteq Producers
    BY DEF At
  <1>. QED
    BY <1>1, <1>2, FS_Subset, FS_CardinalityType

\* Both ways to advance an index count modulo BUFFER_SIZE.
LEMMA NextCell ==
  ASSUME NEW k \in 0 .. BUFFER_SIZE - 1
  PROVE  /\ (k + 1) % BUFFER_SIZE = IF k = BUFFER_SIZE - 1 THEN 0 ELSE k + 1
         /\ (k + 1) % BUFFER_SIZE = IF k + 1 = BUFFER_SIZE THEN 0 ELSE k + 1
  <1>1. CASE k + 1 = BUFFER_SIZE
    <2>1. (k + 1) % BUFFER_SIZE = 0
      BY <1>1, SomeMemories, ModUnique, k + 1 = BUFFER_SIZE * 1 + 0, k + 1 \in Nat
    <2>. QED
      BY <1>1, <2>1
  <1>2. CASE k + 1 # BUFFER_SIZE
    <2>1. k + 1 \in 0 .. BUFFER_SIZE - 1
      BY <1>2, SomeMemories
    <2>2. (k + 1) % BUFFER_SIZE = k + 1
      BY <2>1, SomeMemories, ModUnique, k + 1 = BUFFER_SIZE * 0 + (k + 1), k + 1 \in Nat
    <2>. QED
      BY <1>2, <2>1, <2>2
  <1>. QED
    BY <1>1, <1>2

\* A producer that goes on enters, leaves or keeps to the steps that are counted.
LEMMA AtSame ==
  ASSUME Types, NEW p \in Producers, NEW from, NEW to, NEW o, NEW S,
         ProdStep(p, from, to), memory' = memory,
         memory[p] # o \/ (from \in S <=> to \in S)
  PROVE  At(o, S)' = At(o, S)
  BY DEF At, Types, ProdStep

LEMMA AtEnters ==
  ASSUME Types, NEW p \in Producers, NEW from, NEW to, NEW o, NEW S,
         ProdStep(p, from, to), memory' = memory,
         memory[p] = o, from \notin S, to \in S
  PROVE  /\ At(o, S)' = At(o, S) \cup {p}
         /\ Cardinality(At(o, S)') = Cardinality(At(o, S)) + 1
  <1>1. At(o, S)' = At(o, S) \cup {p} /\ p \notin At(o, S)
    BY DEF At, Types, ProdStep
  <1>. QED
    BY <1>1, AtFinite, FS_AddElement

LEMMA AtLeaves ==
  ASSUME Types, NEW p \in Producers, NEW from, NEW to, NEW o, NEW S,
         ProdStep(p, from, to), memory' = memory,
         memory[p] = o, from \in S, to \notin S
  PROVE  /\ At(o, S)' = At(o, S) \ {p}
         /\ Cardinality(At(o, S)') = Cardinality(At(o, S)) - 1
  <1>1. At(o, S)' = At(o, S) \ {p} /\ p \in At(o, S)
    BY DEF At, Types, ProdStep
  <1>. QED
    <2>1. IsFiniteSet(At(o, S))
      BY AtFinite
    <2>. QED
      BY <1>1, <2>1, FS_RemoveElement

\* A memory that a step leaves alone, with its producers.
SameMemory(m) ==
  /\ sems'[m] = sems[m] /\ sent'[m] = sent[m] /\ received'[m] = received[m]
  /\ buf'[m] = buf[m] /\ read_index'[m] = read_index[m] /\ write_index'[m] = write_index[m]

LEMMA OtherMemory ==
  ASSUME NEW m \in Memories, SameMemory(m),
         \A S : At(m, S)' = At(m, S),
         \A S : Elab(m, S)' => Elab(m, S)
  PROVE  /\ LockAt(m) => LockAt(m)'
         /\ CountAt(m) /\ Types => CountAt(m)'
         /\ WindowAt(m) => WindowAt(m)'
  <1>1. LockAt(m) => LockAt(m)'
    BY DEF SameMemory, LockAt
  <1>2. ASSUME CountAt(m), Types
        PROVE  CountAt(m)'
    <2>1. Held(m)' = Held(m) /\ Held(m) \in Int
      BY <1>2 DEF Held, SameMemory, Types
    <2>2. sems[m]["full_sem"] \in Int /\ sems[m]["empty_sem"] \in Int
      BY <1>2 DEF Types, Sems
    <2>3. Cardinality(At(m, Filled)) \in Nat /\ Cardinality(At(m, Filling)) \in Nat
      BY AtFinite
    <2>. QED
      BY <1>2, <2>1, <2>2, <2>3, SomeMemories DEF CountAt, SameMemory
  <1>3. WindowAt(m) => WindowAt(m)'
    BY DEF SameMemory, WindowAt
  <1>. QED
    BY <1>1, <1>2, <1>3

-----------------------------------------------------------------------------
(* The types are kept *)

LEMMA TypesInit == Init => Types
  <1>1. SUFFICES ASSUME Init PROVE Types
    OBVIOUS
  <1>2. name \in {0} \cup Memories
    BY <1>1, ElaboratorAssumption DEF Init, Leftover, Memories
  <1>3. sems \in [Memories -> [Sems -> Int]]
    BY <1>1, SomeMemories DEF Init, Unset, NotInit, AllInit, Sems
  <1>4. 0 \in Cells
    BY ElaboratorAssumption DEF Cells
  <1>5. buf \in [Memories -> [Cells -> Inputs]] /\ input \in Inputs
    BY <1>1, SomeMemories DEF Init
  <1>. QED
    BY <1>1, <1>2, <1>3, <1>4, <1>5, SomeMemories DEF Init, Types, ElabSteps, ProdSteps, Ended

\* A running elaborator has a memory of its own.
LEMMA StartsMemory ==
  ASSUME Types, elabPc # "down"
  PROVE  starts \in Memories
  BY SomeMemories DEF Types, Memories

LEMMA TypesElab ==
  ASSUME Types, SetUpInv, Start \/ ElabNext \/ Interrupt \/ ElabKilled
  PROVE  Types'
  <1>1. CASE Start
    BY <1>1, SomeMemories
       DEF Start, Types, ElabSteps, Ended, names, buffer, producers, history
  <1>2. CASE UnlinkOld
    BY <1>2 DEF UnlinkOld, ElabStep, Types, ElabSteps, Ended, buffer, producers, history
  <1>3. CASE CreateMemory
    BY <1>3, StartsMemory
       DEF CreateMemory, ElabStep, Types, ElabSteps, Ended, buffer, producers, history
  <1>4. CASE Truncate
    BY <1>4 DEF Truncate, ElabStep, Types, ElabSteps, Ended, buffer, producers
  <1>5. CASE ClearMemory
    <2>1. name \in Memories
      BY <1>5, StartsMemory DEF ClearMemory, ElabStep, SetUpInv
    <2>2. sems' \in [Memories -> [Sems -> Int]]
      BY <1>5, <2>1 DEF ClearMemory, Types, Unset, NotInit
    <2>3. buf' \in [Memories -> [Cells -> Inputs]]
      BY <1>5, <2>1, SomeMemories DEF ClearMemory, Types
    <2>4. 0 \in Cells
      BY ElaboratorAssumption DEF Cells
    <2>5. read_index' \in [Memories -> Cells] /\ write_index' \in [Memories -> Cells]
      BY <1>5, <2>1, <2>4 DEF ClearMemory, Types
    <2>. QED
      BY <1>5, <2>2, <2>3, <2>5
         DEF ClearMemory, ElabStep, Types, ElabSteps, names, producers, history
  <1>6. ASSUME NEW from \in ElabSteps, NEW to \in ElabSteps, NEW s \in Sems, NEW n \in Int,
               InitSem(from, to, s, n), from # "down"
        PROVE  Types'
    <2>1. starts \in Memories
      BY <1>6, StartsMemory DEF InitSem, ElabStep
    <2>2. sems' \in [Memories -> [Sems -> Int]]
      BY <1>6, <2>1, SemSet DEF InitSem
    <2>. QED
      BY <1>6, <2>2 DEF InitSem, ElabStep, Types, names, buffer, producers, history
  <1>7. CASE OpenSemaphores
    <2>1. {"initEmpty", "initFull", "initCs", "waitItem"} \subseteq ElabSteps
      BY DEF ElabSteps, Looping
    <2>2. BUFFER_SIZE \in Int /\ 0 \in Int /\ 1 \in Int
      BY SomeMemories
    <2>. QED
      BY <1>6, <1>7, <2>1, <2>2, SomeMemories DEF OpenSemaphores
  <1>8. CASE WaitItem \/ ElabWaitLock \/ ElabPostLock \/ PostSpace
    <2>1. starts \in Memories
      BY <1>8, StartsMemory DEF WaitItem, ElabWaitLock, ElabPostLock, PostSpace, ElabStep
    <2>2. PICK s \in Sems : Wait(starts, s) \/ Post(starts, s)
      BY <1>8, SomeMemories DEF WaitItem, ElabWaitLock, ElabPostLock, PostSpace
    <2>3. sems[starts][s] - 1 \in Int /\ sems[starts][s] + 1 \in Int
      BY <2>1, WaitPost
    <2>4. sems' \in [Memories -> [Sems -> Int]]
      BY <2>1, <2>2, <2>3, WaitPost, SemSet
    <2>. QED
      BY <1>8, <2>4
         DEF WaitItem, ElabWaitLock, ElabPostLock, PostSpace, ElabStep, Types, ElabSteps,
             Looping, names, buffer, producers, history
  <1>9. CASE ReadCell
    <2>1. starts \in Memories
      BY <1>9, StartsMemory DEF ReadCell, ElabStep
    <2>2. input' \in Inputs
      BY <1>9, <2>1 DEF ReadCell, Types
    <2>. QED
      BY <1>9, <2>2
         DEF ReadCell, ElabStep, Types, ElabSteps, Looping, names, buffer, producers, history
  <1>10. CASE AdvanceRead
    <2>1. starts \in Memories
      BY <1>10, StartsMemory DEF AdvanceRead, ElabStep
    <2>2. read_index' \in [Memories -> Cells]
      <3>1. read_index \in [Memories -> Cells] /\ read_index[starts] \in Cells
        BY <2>1 DEF Types
      <3>2. (IF read_index[starts] = BUFFER_SIZE - 1 THEN 0 ELSE read_index[starts] + 1) \in Cells
        BY <3>1, SomeMemories DEF Cells
      <3>. QED
        BY <1>10, <3>1, <3>2 DEF AdvanceRead
    <2>3. received' \in [Memories -> Seq(Inputs)]
      BY <1>10, <2>1 DEF AdvanceRead, Types
    <2>. QED
      BY <1>10, <2>2, <2>3
         DEF AdvanceRead, ElabStep, Types, ElabSteps, Looping, names, producers
  <1>11. CASE UnlinkMemory
    BY <1>11 DEF UnlinkMemory, ElabStep, Types, ElabSteps, Ended, buffer, producers, history
  <1>12. CASE Interrupt
    BY <1>12
       DEF Interrupt, Types, ElabSteps, Ended, names, buffer, producers, history
  <1>13. CASE ElabKilled
    BY <1>13 DEF ElabKilled, Types, ElabSteps, Ended, names, buffer, producers
  <1>. QED
    BY <1>1, <1>2, <1>3, <1>4, <1>5, <1>7, <1>8, <1>9, <1>10, <1>11, <1>12, <1>13
       DEF ElabNext, InitMemory, Consume

LEMMA TypesProd ==
  ASSUME Types, NEW p \in Producers, OpenMemory(p) \/ ProdNext(p) \/ UseTooEarly(p)
  PROVE  Types'
  <1>1. CASE OpenMemory(p)
    <2>1. memory' \in [Producers -> {0} \cup Memories]
      BY <1>1 DEF OpenMemory, Types
    <2>2. \A q \in Producers : prodPc'[q] \notin {"down", "noMemory"} => memory'[q] \in Memories
      BY <1>1 DEF OpenMemory, ProdStep, Types, ProdSteps
    <2>. QED
      BY <1>1, <2>1, <2>2
         DEF OpenMemory, ProdStep, Types, ProdSteps, elaborator, names, buffer
  <1>2. ASSUME NEW from \in ProdSteps \ {"down", "noMemory"}, NEW to \in ProdSteps,
               ProdStep(p, from, to), memory' = memory
        PROVE  /\ prodPc' \in [Producers -> ProdSteps]
               /\ \A q \in Producers :
                     prodPc'[q] \notin {"down", "noMemory"} => memory'[q] \in Memories
               /\ memory[p] \in Memories
    BY <1>2 DEF ProdStep, Types
  <1>3. CASE Generate(p)
    <2>1. inputs' \in [Producers -> Nat]
      BY <1>3 DEF Generate, Types
    <2>2. ProdStep(p, "request", "waitSpace") /\ memory' = memory
      BY <1>3 DEF Generate
    <2>3. "request" \in ProdSteps \ {"down", "noMemory"} /\ "waitSpace" \in ProdSteps
      BY DEF ProdSteps
    <2>. QED
      BY <1>2, <1>3, <2>1, <2>2, <2>3 DEF Generate, Types, elaborator, names, buffer, history
  <1>4. ASSUME NEW from \in ProdSteps \ {"down", "noMemory"}, NEW to \in ProdSteps,
               ProdStep(p, from, to), NEW s \in Sems, Wait(memory[p], s) \/ Post(memory[p], s),
               UNCHANGED <<program, elaborator, names, buffer, memory, inputs, history>>
        PROVE  Types'
    <2>1. memory[p] \in Memories
      BY <1>2, <1>4
    <2>2. sems[memory[p]][s] - 1 \in Int /\ sems[memory[p]][s] + 1 \in Int
      BY <2>1, WaitPost
    <2>3. sems' \in [Memories -> [Sems -> Int]]
      BY <1>4, <2>1, <2>2, WaitPost, SemSet
    <2>. QED
      BY <1>2, <1>4, <2>3 DEF Types, elaborator, names, buffer, history
  <1>5. CASE WaitSpace(p) \/ WaitLock(p) \/ PostLock(p) \/ PostItem(p)
    <2>1. {"waitSpace", "waitLock", "postLock", "postItem"} \subseteq
             ProdSteps \ {"down", "noMemory"}
          /\ {"waitLock", "write", "postItem", "request"} \subseteq ProdSteps
      BY DEF ProdSteps
    <2>. QED
      BY <1>4, <1>5, <2>1, SomeMemories DEF WaitSpace, WaitLock, PostLock, PostItem
  <1>6. CASE WriteCell(p)
    <2>1. ProdStep(p, "write", "advance") /\ memory' = memory
      BY <1>6 DEF WriteCell
    <2>2. "write" \in ProdSteps \ {"down", "noMemory"} /\ "advance" \in ProdSteps
      BY DEF ProdSteps
    <2>3. memory[p] \in Memories /\ <<p, inputs[p]>> \in Inputs
      BY <1>2, <2>1, <2>2, SomeMemories DEF Types
    <2>4. buf' \in [Memories -> [Cells -> Inputs]]
      BY <1>6, <2>3 DEF WriteCell, Types
    <2>. QED
      BY <1>2, <1>6, <2>1, <2>2, <2>4 DEF WriteCell, Types, elaborator, names, history
  <1>7. CASE AdvanceWrite(p)
    <2>1. ProdStep(p, "advance", "postLock") /\ memory' = memory
      BY <1>7 DEF AdvanceWrite
    <2>2. "advance" \in ProdSteps \ {"down", "noMemory"} /\ "postLock" \in ProdSteps
      BY DEF ProdSteps
    <2>3. memory[p] \in Memories /\ <<p, inputs[p]>> \in Inputs
      BY <1>2, <2>1, <2>2, SomeMemories DEF Types
    <2>4. write_index' \in [Memories -> Cells]
      <3>1. write_index \in [Memories -> Cells] /\ write_index[memory[p]] \in Cells
        BY <2>3 DEF Types
      <3>2. (IF write_index[memory[p]] + 1 = BUFFER_SIZE THEN 0
             ELSE write_index[memory[p]] + 1) \in Cells
        BY <3>1, SomeMemories DEF Cells
      <3>. QED
        BY <1>7, <3>1, <3>2 DEF AdvanceWrite
    <2>5. sent' \in [Memories -> Seq(Inputs)]
      BY <1>7, <2>3 DEF AdvanceWrite, Types
    <2>. QED
      BY <1>2, <1>7, <2>1, <2>2, <2>4, <2>5 DEF AdvanceWrite, Types, elaborator, names
  <1>8. CASE CloseSemaphores(p)
    BY <1>8 DEF CloseSemaphores, ProdStep, Types, ProdSteps, elaborator, names, buffer, history
  <1>9. CASE UseTooEarly(p)
    BY <1>9
       DEF UseTooEarly, UsesSem, Types, ProdSteps, elaborator, names, buffer, history
  <1>. QED
    BY <1>1, <1>3, <1>5, <1>6, <1>7, <1>8, <1>9 DEF ProdNext, Request

-----------------------------------------------------------------------------
(* The set-up, the lock, the counts and the cells under the elaborator's steps *)

LEMMA InvInit == Init => Inv
  <1>1. SUFFICES ASSUME Init PROVE Inv
    OBVIOUS
  <1>2. Types
    BY <1>1, TypesInit
  <1>3. \A o \in Memories :
           \/ sems[o] = NotInit
           \/ o = Leftover /\ sems[o] = AllInit
    BY <1>1, SomeMemories DEF Init
  <1>4. \A o \in Memories :
            \/ /\ sems[o]["empty_sem"] = -1 /\ sems[o]["full_sem"] = -1
               /\ sems[o]["cs_sem"] = -1
            \/ /\ sems[o]["empty_sem"] = BUFFER_SIZE /\ sems[o]["full_sem"] = 0
               /\ sems[o]["cs_sem"] = 1 /\ o = Leftover
    <2>1. NotInit["empty_sem"] = -1 /\ NotInit["full_sem"] = -1 /\ NotInit["cs_sem"] = -1
      BY DEF NotInit, Sems, Unset
    <2>2. /\ AllInit["empty_sem"] = BUFFER_SIZE /\ AllInit["full_sem"] = 0
          /\ AllInit["cs_sem"] = 1
      BY DEF AllInit, Sems
    <2>. QED
      BY <1>3, <2>1, <2>2
  <1>5. SetUpInv
    <2>1. \A o \in Memories : o # Leftover => Fresh(o)
      BY <1>3 DEF Fresh, NotInit
    <2>2. \A o \in Memories : \A s \in Sems : sems[o][s] >= Unset
      BY <1>4, SomeMemories DEF Sems, Unset
    <2>3. \A o \in Memories : ~ NotReady(o) => \A s \in Sems : sems[o][s] >= 0
      BY <1>4, SomeMemories DEF Sems, NotReady, Unset
    <2>. QED
      BY <1>1, <2>1, <2>2, <2>3 DEF Init, SetUpInv, Looping
  <1>6. \A o, S : At(o, S) = IF "down" \in S THEN At(o, S) ELSE {}
    BY <1>1 DEF Init, At
  <1>7. \A o \in Memories : LockAt(o)
    <2>1. \A o \in Memories : sems[o]["cs_sem"] <= 1
      BY <1>4
    <2>. QED
      BY <1>1, <1>6, <2>1 DEF LockAt, Locking, Elab, Locked, Init
  <1>8. \A o \in Memories : CountAt(o)
    <2>1. TAKE o \in Memories
    <2>2. Held(o) = 0
      BY <1>1 DEF Held, Init
    <2>3. Cardinality(At(o, Filled)) = 0 /\ Cardinality(At(o, Filling)) = 0
      BY <1>6, FS_EmptySet DEF Filled, Filling
    <2>4. ~ Elab(o, Fetching) /\ ~ Elab(o, Fetched)
      BY <1>1 DEF Elab, Fetching, Fetched, Init
    <2>5. sems[o]["full_sem"] \in {-1, 0} /\ sems[o]["empty_sem"] \in {-1, BUFFER_SIZE}
      BY <1>4
    <2>. QED
      BY <2>2, <2>3, <2>4, <2>5, SomeMemories DEF CountAt
  <1>9. \A o \in Memories : WindowAt(o)
    BY <1>1, SomeMemories DEF Init, WindowAt
  <1>10. HandInv /\ InOrder
    BY <1>1 DEF Init, HandInv, InOrder
  <1>. QED
    BY <1>2, <1>5, <1>7, <1>8, <1>9, <1>10 DEF Inv, LockInv, CountInv, CellInv

\* The elaborator outside its loop, with the semaphores as they are.
LEMMA ElabAlone ==
  ASSUME Inv, Types', UNCHANGED <<sems, buffer, producers, sent, received>>,
         starts' >= starts, elabPc' \notin Looping \cup {"initFull", "initCs"},
         elabPc' \in {"truncate", "clear"} => name' = starts',
         elabPc' \in {"unlinkOld", "create", "truncate", "clear", "initEmpty"} =>
            \A s \in Sems : sems[starts'][s] = Unset
  PROVE  Inv'
  <1>. USE DEF buffer, producers
  <1>1. SetUpInv'
    <2>1. \A o \in Memories : o > starts' => o > starts
      BY SomeMemories DEF Inv, Types, Memories
    <2>. QED
      BY <2>1 DEF Inv, SetUpInv, Fresh, NotReady
  <1>2. \A o, S : At(o, S)' = At(o, S)
    BY DEF At
  <1>3. \A o \in Memories : ~ Elab(o, Locked)' /\ ~ Elab(o, Fetching)' /\ ~ Elab(o, Fetched)'
    BY DEF Elab, Locked, Fetching, Fetched, Looping
  <1>4. LockInv'
    BY <1>2, <1>3 DEF Inv, LockInv, LockAt
  <1>5. CountInv'
    <2>1. SUFFICES ASSUME NEW o \in Memories PROVE CountAt(o)'
      BY DEF CountInv
    <2>2. Held(o)' = Held(o) /\ Held(o) \in Int
      BY DEF Held, Inv, Types
    <2>3. sems[o]["full_sem"] \in Int /\ sems[o]["empty_sem"] \in Int
      BY DEF Inv, Types, Sems
    <2>4. Cardinality(At(o, Filled)) \in Nat /\ Cardinality(At(o, Filling)) \in Nat
      BY AtFinite
    <2>5. CountAt(o)
      BY DEF Inv, CountInv
    <2>. QED
      BY <1>2, <1>3, <2>2, <2>3, <2>4, <2>5, SomeMemories DEF CountAt
  <1>6. CellInv'
    BY DEF Inv, CellInv, WindowAt, HandInv, Looping
  <1>7. InOrder'
    BY DEF Inv, InOrder
  <1>. QED
    BY <1>1, <1>4, <1>5, <1>6, <1>7 DEF Inv

\* A step that sets up no semaphore.
LEMMA ReadyKept ==
  ASSUME Types, Types', SetUpInv, starts' = starts, name' = name,
         elabPc' = elabPc \/ (elabPc \in Looping /\ elabPc' \in Looping),
         \A m \in Memories, s \in Sems :
            sems'[m][s] = sems[m][s] \/ (sems[m][s] # Unset /\ sems'[m][s] >= 0),
         \A m \in Memories : NotReady(m) =>
            /\ sent'[m] = sent[m] /\ received'[m] = received[m]
            /\ read_index'[m] = read_index[m] /\ write_index'[m] = write_index[m],
         \A p \in Producers :
            /\ prodPc'[p] \in {"waitLock", "write", "advance", "postLock", "postItem"} =>
                  sems[memory'[p]]["empty_sem"] # Unset
            /\ prodPc'[p] \in {"write", "advance", "postLock", "postItem"} =>
                  ~ NotReady(memory'[p])
  PROVE  SetUpInv'
  <1>1. \A m \in Memories, s \in Sems :
           /\ sems[m][s] \in Int /\ sems'[m][s] \in Int
           /\ sems[m][s] >= Unset => sems'[m][s] >= Unset
           /\ sems[m][s] >= 0 => sems'[m][s] >= 0
           /\ sems'[m][s] = Unset <=> sems[m][s] = Unset
    BY DEF Types, Unset
  <1>2. \A m \in Memories : (NotReady(m)' <=> NotReady(m)) /\ (Fresh(m)' <=> Fresh(m))
    BY <1>1, SomeMemories DEF NotReady, Fresh
  <1>3. \A m \in Memories :
           /\ m > starts' /\ m # Leftover => Fresh(m)'
           /\ \A s \in Sems : sems'[m][s] >= Unset
           /\ ~ NotReady(m)' => \A s \in Sems : sems'[m][s] >= 0
           /\ NotReady(m)' => /\ sent'[m] = << >> /\ received'[m] = << >>
                              /\ read_index'[m] = 0 /\ write_index'[m] = 0
    BY <1>1, <1>2 DEF SetUpInv
  <1>4. ASSUME NEW p \in Producers
        PROVE  /\ prodPc'[p] \in {"waitLock", "write", "advance", "postLock", "postItem"} =>
                     sems'[memory'[p]]["empty_sem"] # Unset
               /\ prodPc'[p] \in {"write", "advance", "postLock", "postItem"} =>
                     ~ NotReady(memory[p])'
    <2>1. prodPc'[p] \notin {"down", "noMemory"} => memory'[p] \in Memories
      BY DEF Types
    <2>. QED
      BY <1>1, <1>2, <2>1, SomeMemories DEF NotReady
  <1>5. elabPc # "down" => starts \in Memories
    BY StartsMemory
  <1>6. /\ elabPc' \in {"truncate", "clear"} => name' = starts'
        /\ elabPc' \in {"unlinkOld", "create", "truncate", "clear", "initEmpty"} =>
              Fresh(starts)'
        /\ elabPc' \in {"initFull", "initCs"} =>
              NotReady(starts)' /\ sems'[starts']["empty_sem"] >= 0
        /\ elabPc' = "initCs" => sems'[starts']["full_sem"] >= 0
        /\ elabPc' \in Looping => ~ NotReady(starts)'
    BY <1>1, <1>2, <1>5, SomeMemories DEF SetUpInv, Looping
  <1>. QED
    BY <1>3, <1>4, <1>6 DEF SetUpInv

LEMMA InvElabOutside ==
  ASSUME Inv, Types',
         \/ Start \/ UnlinkOld \/ CreateMemory \/ Truncate \/ UnlinkMemory
         \/ Interrupt \/ ElabKilled
  PROVE  Inv'
  <1>. USE DEF history
  <1>1. starts \in Nat /\ SetUpInv /\ MaxStarts \in Nat
    BY SomeMemories DEF Inv, Types
  <1>2. CASE Start
    <2>1. starts' = starts + 1 /\ starts' \in Memories /\ starts' # Leftover
      BY <1>1, <1>2 DEF Start, Memories, Leftover
    <2>2. \A s \in Sems : sems[starts'][s] = Unset
      BY <1>1, <2>1 DEF SetUpInv, Fresh
    <2>3. elabPc' \in {"unlinkOld", "create"}
      BY <1>2 DEF Start
    <2>. QED
      BY <1>1, <1>2, <2>1, <2>2, <2>3, ElabAlone DEF Start, Looping
  <1>3. CASE UnlinkOld
    <2>1. elabPc = "unlinkOld" /\ elabPc' \in {"failed", "create"} /\ starts' = starts
      BY <1>3 DEF UnlinkOld, ElabStep
    <2>2. \A s \in Sems : sems[starts'][s] = Unset
      BY <1>1, <2>1 DEF SetUpInv, Fresh
    <2>. QED
      BY <1>1, <1>3, <2>1, <2>2, ElabAlone DEF UnlinkOld, Looping
  <1>4. CASE CreateMemory
    <2>1. elabPc = "create" /\ elabPc' \in {"truncate", "refused"} /\ starts' = starts
          /\ (elabPc' = "truncate" => name' = starts)
      BY <1>4 DEF CreateMemory, ElabStep
    <2>2. \A s \in Sems : sems[starts'][s] = Unset
      BY <1>1, <2>1 DEF SetUpInv, Fresh
    <2>. QED
      BY <1>1, <1>4, <2>1, <2>2, ElabAlone DEF CreateMemory, Looping
  <1>5. CASE Truncate
    <2>1. elabPc = "truncate" /\ elabPc' \in {"failed", "clear"} /\ starts' = starts
          /\ name' = name
      BY <1>5 DEF Truncate, ElabStep
    <2>2. name = starts /\ \A s \in Sems : sems[starts'][s] = Unset
      BY <1>1, <2>1 DEF SetUpInv, Fresh
    <2>. QED
      BY <1>1, <1>5, <2>1, <2>2, ElabAlone DEF Truncate, Looping
  <1>6. CASE UnlinkMemory
    BY <1>1, <1>6, ElabAlone DEF UnlinkMemory, ElabStep, Looping
  <1>7. CASE Interrupt
    BY <1>1, <1>7, ElabAlone DEF Interrupt, Looping
  <1>8. CASE ElabKilled
    BY <1>1, <1>8, ElabAlone DEF ElabKilled, Looping
  <1>. QED
    BY <1>2, <1>3, <1>4, <1>5, <1>6, <1>7, <1>8

\* A memory whose set-up has not begun is all zeros but for what came before.
LEMMA InvClear ==
  ASSUME Inv, Types', ClearMemory
  PROVE  Inv'
  <1>1. name = starts /\ starts \in Memories /\ Fresh(starts) /\ Types
    BY StartsMemory DEF ClearMemory, ElabStep, Inv, SetUpInv
  <1>2. /\ elabPc' = "initEmpty" /\ UNCHANGED <<starts, input, name, producers, sent, received>>
        /\ NotReady(starts)
    BY <1>1, SomeMemories DEF ClearMemory, ElabStep, names, history, NotReady, Fresh
  <1>3. sems' = sems
    <2>1. sems' \in [Memories -> [Sems -> Int]] /\ sems \in [Memories -> [Sems -> Int]]
      BY <1>1 DEF Types
    <2>2. \A m \in Memories, s \in Sems : sems'[m][s] = sems[m][s]
      BY <1>1, <2>1 DEF ClearMemory, Fresh, NotInit
    <2>3. \A m \in Memories : sems'[m] = sems[m]
      BY <2>1, <2>2
    <2>. QED
      BY <2>1, <2>3
  <1>4. sent[starts] = << >> /\ received[starts] = << >>
        /\ read_index[starts] = 0 /\ write_index[starts] = 0
    BY <1>1, <1>2 DEF Inv, SetUpInv
  <1>5. read_index' = read_index /\ write_index' = write_index
    <2>1. \A m \in Memories : read_index'[m] = read_index[m] /\ write_index'[m] = write_index[m]
      BY <1>1, <1>4 DEF ClearMemory, Types
    <2>2. /\ read_index \in [Memories -> Cells] /\ read_index' \in [Memories -> Cells]
          /\ write_index \in [Memories -> Cells] /\ write_index' \in [Memories -> Cells]
      BY <1>1 DEF Types
    <2>. QED
      BY <2>1, <2>2
  <1>6. SetUpInv'
    <2>1. Fresh(starts)'
      BY <1>1, <1>2, <1>3 DEF Fresh
    <2>2. /\ \A m \in Memories : (Fresh(m)' <=> Fresh(m)) /\ (NotReady(m)' <=> NotReady(m))
      BY <1>3 DEF Fresh, NotReady
    <2>. QED
      BY <1>2, <1>3, <1>5, <2>1, <2>2 DEF Inv, SetUpInv, producers, Looping, NotReady
  <1>7. \A o, S : At(o, S)' = At(o, S)
    BY <1>2 DEF At, producers
  <1>8. \A o \in Memories :
           /\ ~ Elab(o, Locked)' /\ ~ Elab(o, Fetching)' /\ ~ Elab(o, Fetched)'
           /\ ~ Elab(o, Locked) /\ ~ Elab(o, Fetching) /\ ~ Elab(o, Fetched)
    BY <1>2 DEF Elab, Locked, Fetching, Fetched, ClearMemory, ElabStep
  <1>9. LockInv'
    BY <1>3, <1>7, <1>8 DEF Inv, LockInv, LockAt
  <1>10. CountInv'
    <2>1. \A o \in Memories : Held(o)' = Held(o)
      BY <1>2 DEF Held
    <2>. QED
      BY <1>3, <1>7, <1>8, <2>1 DEF Inv, CountInv, CountAt
  <1>11. \A m \in Memories : WindowAt(m)'
    <2>1. ASSUME NEW m \in Memories
          PROVE  WindowAt(m)'
      <3>1. WindowAt(m)
        BY DEF Inv, CellInv
      <3>2. CASE m = starts
        <4>1. Len(sent'[m]) = 0 /\ Len(received'[m]) = 0
          BY <1>2, <1>4, <3>2
        <4>. QED
          BY <1>4, <1>5, <3>2, <4>1, SomeMemories DEF WindowAt
      <3>3. CASE m # starts
        <4>1. buf'[m] = buf[m]
          BY <1>1, <3>3 DEF ClearMemory, Types
        <4>. QED
          BY <1>2, <1>5, <3>1, <4>1 DEF WindowAt
      <3>. QED
        BY <3>2, <3>3
    <2>. QED
      BY <2>1
  <1>12. HandInv'
    <2>1. ASSUME NEW p \in Producers, prodPc'[p] = "advance"
          PROVE  buf'[memory'[p]][write_index'[memory'[p]]] = <<p, inputs'[p]>>
      <3>1. prodPc[p] = "advance" /\ memory[p] \in Memories
        BY <1>1, <1>2, <2>1 DEF producers, Types
      <3>2. memory[p] # starts
        BY <1>2, <3>1 DEF Inv, SetUpInv
      <3>3. buf'[memory[p]] = buf[memory[p]]
        BY <1>1, <3>1, <3>2 DEF ClearMemory, Types
      <3>. QED
        BY <1>2, <1>5, <3>1, <3>3 DEF Inv, CellInv, HandInv, producers
    <2>. QED
      BY <1>2, <2>1 DEF HandInv
  <1>13. InOrder'
    BY <1>2 DEF Inv, InOrder
  <1>. QED
    BY <1>6, <1>9, <1>10, <1>11, <1>12, <1>13 DEF Inv, CellInv

\* The three sem_init: nobody has used the semaphore before.
LEMMA InvOpenSemaphores ==
  ASSUME Inv, Types', OpenSemaphores
  PROVE  Inv'
  <1>. DEFINE o == starts
  <1>1. PICK s \in Sems, units \in Nat, from \in ElabSteps, to \in ElabSteps :
           /\ InitSem(from, to, s, units) /\ units <= BUFFER_SIZE
           /\ <<from, to, s, units>> \in {<<"initEmpty", "initFull", "empty_sem", BUFFER_SIZE>>,
                                         <<"initFull", "initCs", "full_sem", 0>>,
                                         <<"initCs", "waitItem", "cs_sem", 1>>}
    BY SomeMemories DEF OpenSemaphores, ElabSteps, Looping
  <1>2. /\ elabPc = from /\ elabPc' = to
        /\ UNCHANGED <<starts, input, name, buffer, producers, sent, received>>
        /\ sems' = [sems EXCEPT ![o][s] = units]
    BY <1>1 DEF InitSem, ElabStep, names, history
  <1>3. /\ Types /\ SetUpInv /\ o \in Memories
        /\ from \in {"initEmpty", "initFull", "initCs"}
        /\ to \in {"initFull", "initCs", "waitItem"}
    BY <1>1, <1>2, StartsMemory DEF Inv
  <1>4. /\ \A m \in Memories, t \in Sems :
              sems'[m][t] = IF m = o /\ t = s THEN units ELSE sems[m][t]
        /\ \A m \in Memories \ {o} : sems'[m] = sems[m]
    <2>1. units \in Int
      BY <1>1
    <2>2. Types /\ o \in Memories /\ sems' = [sems EXCEPT ![o][s] = units]
      BY <1>2, <1>3
    <2>3. \A m \in Memories \ {o} : sems'[m] = sems[m]
      BY <2>2 DEF Types
    <2>4. \A m \in Memories, t \in Sems :
             sems'[m][t] = IF m = o /\ t = s THEN units ELSE sems[m][t]
      BY <2>2 DEF Types
    <2>. QED
      BY <2>3, <2>4
  <1>5. NotReady(o) /\ (from = "initEmpty" => sems[o]["empty_sem"] = Unset)
    BY <1>2, <1>3, SomeMemories DEF SetUpInv, Fresh, NotReady
  <1>6. sent[o] = << >> /\ received[o] = << >>
    BY <1>3, <1>5 DEF SetUpInv
  <1>7. \A m, S : At(m, S)' = At(m, S)
    BY <1>2 DEF At, producers
  <1>8. \A m \in Memories :
           /\ ~ Elab(m, Locked)' /\ ~ Elab(m, Fetching)' /\ ~ Elab(m, Fetched)'
           /\ ~ Elab(m, Locked) /\ ~ Elab(m, Fetching) /\ ~ Elab(m, Fetched)
    BY <1>2, <1>3 DEF Elab, Locked, Fetching, Fetched
  <1>9. SetUpInv'
    <2>1. ASSUME NEW m \in Memories
          PROVE  /\ m > starts' /\ m # Leftover => Fresh(m)'
                 /\ \A t \in Sems : sems'[m][t] >= Unset
                 /\ ~ NotReady(m)' => \A t \in Sems : sems'[m][t] >= 0
                 /\ NotReady(m)' => /\ sent'[m] = << >> /\ received'[m] = << >>
                                    /\ read_index'[m] = 0 /\ write_index'[m] = 0
      <3>1. CASE m # o
        BY <1>2, <1>3, <1>4, <3>1 DEF SetUpInv, Fresh, NotReady, buffer
      <3>2. CASE m = o
        <4>1. \A t \in Sems : sems'[o][t] >= Unset
          BY <1>3, <1>4 DEF SetUpInv, Unset
        <4>2. ~ NotReady(o)' => from = "initCs" /\ s = "cs_sem"
          <5>1. ~ NotReady(o)' => s = "cs_sem"
            BY <1>2, <1>3, <1>4, <1>5, SomeMemories DEF NotReady
          <5>. QED
            BY <1>1, <5>1
        <4>3. from = "initCs" => sems[o]["empty_sem"] >= 0 /\ sems[o]["full_sem"] >= 0
          BY <1>2, <1>3 DEF SetUpInv
        <4>4. ~ NotReady(o)' => \A t \in Sems : sems'[o][t] >= 0
          BY <1>3, <1>4, <4>2, <4>3, SomeMemories DEF Sems
        <4>5. read_index[o] = 0 /\ write_index[o] = 0
          BY <1>3, <1>5 DEF SetUpInv
        <4>6. ~ (o > starts')
          BY <1>2, <1>3 DEF Types
        <4>. QED
          BY <1>2, <1>6, <3>2, <4>1, <4>4, <4>5, <4>6 DEF buffer
      <3>. QED
        BY <3>1, <3>2
    <2>2. ASSUME NEW p \in Producers
          PROVE  /\ prodPc'[p] \in {"waitLock", "write", "advance", "postLock", "postItem"} =>
                       sems'[memory[p]]["empty_sem"] # Unset
                 /\ prodPc'[p] \in {"write", "advance", "postLock", "postItem"} =>
                       ~ NotReady(memory[p])'
                 /\ memory'[p] = memory[p]
      <3>1. prodPc'[p] = prodPc[p] /\ memory'[p] = memory[p]
        BY <1>2 DEF producers
      <3>2. prodPc[p] \in {"waitLock", "write", "advance", "postLock", "postItem"} =>
               memory[p] \in Memories
        BY <1>3 DEF Types
      <3>3. \A m \in Memories, t \in Sems : sems[m][t] # Unset => sems'[m][t] # Unset
        BY <1>4 DEF Unset
      <3>. QED
        BY <1>3, <3>1, <3>2, <3>3, SomeMemories DEF SetUpInv, NotReady
    <2>3. elabPc' \notin {"unlinkOld", "create", "truncate", "clear", "initEmpty"}
      BY <1>2, <1>3
    <2>4. elabPc' \in {"initFull", "initCs"} =>
             NotReady(starts)' /\ sems'[starts']["empty_sem"] >= 0
      <3>1. to \in {"initFull", "initCs"} => s # "cs_sem"
        BY <1>1
      <3>2. to = "initFull" => s = "empty_sem"
        BY <1>1
      <3>3. to = "initCs" => sems[o]["empty_sem"] >= 0
        BY <1>1, <1>2, <1>3 DEF SetUpInv
      <3>. QED
        BY <1>2, <1>3, <1>4, <1>5, <3>1, <3>2, <3>3, SomeMemories DEF NotReady
    <2>5. elabPc' = "initCs" => sems'[starts']["full_sem"] >= 0
      <3>1. to = "initCs" => s = "full_sem"
        BY <1>1
      <3>. QED
        BY <1>2, <1>3, <1>4, <3>1, SomeMemories
    <2>6. elabPc' \in Looping => ~ NotReady(starts)'
      <3>1. to \in Looping => s = "cs_sem" /\ units = 1
        BY <1>1 DEF Looping
      <3>. QED
        BY <1>2, <1>3, <1>4, <3>1, SomeMemories DEF NotReady, Unset
    <2>. QED
      BY <2>1, <2>2, <2>3, <2>4, <2>5, <2>6 DEF SetUpInv
  <1>10. LockInv'
    <2>1. ASSUME NEW m \in Memories
          PROVE  LockAt(m)'
      <3>1. LockAt(m)
        BY DEF Inv, LockInv
      <3>2. CASE m = o /\ s = "cs_sem"
        <4>1. At(m, Locking) = {}
          BY <1>3, <1>5, <3>2 DEF At, Locking, SetUpInv
        <4>2. sems'[m]["cs_sem"] = 1
          BY <1>1, <1>3, <1>4, <3>2
        <4>. QED
          BY <1>7, <1>8, <4>1, <4>2 DEF LockAt
      <3>3. CASE m # o \/ s # "cs_sem"
        <4>1. sems'[m]["cs_sem"] = sems[m]["cs_sem"]
          BY <1>4, <3>3, SomeMemories
        <4>. QED
          BY <1>7, <1>8, <3>1, <4>1 DEF LockAt
      <3>. QED
        BY <3>2, <3>3
    <2>. QED
      BY <2>1 DEF LockInv
  <1>11. CountInv'
    <2>1. ASSUME NEW m \in Memories
          PROVE  CountAt(m)'
      <3>1. CountAt(m)
        BY DEF Inv, CountInv
      <3>2. Held(m)' = Held(m) /\ Held(m) \in Int
        BY <1>2, <1>3 DEF Held, Types
      <3>3. sems[m]["full_sem"] \in Int /\ sems[m]["empty_sem"] \in Int
        <4>1. sems[m] \in [Sems -> Int] /\ "full_sem" \in Sems /\ "empty_sem" \in Sems
          BY <1>3 DEF Types, Sems
        <4>. QED
          BY <4>1
      <3>4. Cardinality(At(m, Filled)) \in Nat /\ Cardinality(At(m, Filling)) \in Nat
        BY AtFinite
      <3>5. /\ Held(m) >= 0
            /\ sems[m]["full_sem"] + Cardinality(At(m, Filled)) <= Held(m)
            /\ sems[m]["empty_sem"] + Cardinality(At(m, Filling)) + Held(m) <= BUFFER_SIZE
        BY <1>8, <3>1, <3>2, <3>3, <3>4, SomeMemories DEF CountAt
      <3>6. m = o => /\ Held(m) = 0 /\ At(m, Filled) = {}
                     /\ s = "empty_sem" => At(m, Filling) = {}
        <4>1. m = o => At(m, Filled) = {}
          BY <1>3, <1>5 DEF At, Filled, SetUpInv
        <4>2. m = o /\ s = "empty_sem" => At(m, Filling) = {}
          <5>1. s = "empty_sem" => from = "initEmpty"
            BY <1>1
          <5>. QED
            BY <1>3, <1>5, <5>1 DEF At, Filling, SetUpInv
        <4>. QED
          BY <1>6, <4>1, <4>2 DEF Held
      <3>7. Cardinality({}) = 0
        BY FS_EmptySet
      <3>8. sems'[m]["full_sem"] + Cardinality(At(m, Filled)) <= Held(m)
        <4>1. CASE m = o /\ s = "full_sem"
          <5>1. units = 0
            BY <1>1, <4>1
          <5>2. sems'[m]["full_sem"] = 0
            BY <1>4, <4>1, <5>1, SomeMemories
          <5>. QED
            BY <3>6, <3>7, <4>1, <5>2
        <4>2. CASE ~ (m = o /\ s = "full_sem")
          <5>1. sems'[m]["full_sem"] = sems[m]["full_sem"]
            BY <1>4, <4>2, SomeMemories
          <5>. QED
            BY <3>5, <5>1
        <4>. QED
          BY <4>1, <4>2
      <3>9. sems'[m]["empty_sem"] + Cardinality(At(m, Filling)) + Held(m) <= BUFFER_SIZE
        <4>1. CASE m = o /\ s = "empty_sem"
          <5>1. sems'[m]["empty_sem"] = units
            BY <1>4, <4>1, SomeMemories
          <5>. QED
            BY <1>1, <3>6, <3>7, <4>1, <5>1, SomeMemories
        <4>2. CASE ~ (m = o /\ s = "empty_sem")
          <5>1. sems'[m]["empty_sem"] = sems[m]["empty_sem"]
            BY <1>4, <4>2, SomeMemories
          <5>. QED
            BY <3>5, <5>1
        <4>. QED
          BY <4>1, <4>2
      <3>10. sems'[m]["full_sem"] \in Int /\ sems'[m]["empty_sem"] \in Int
        BY DEF Types, Sems
      <3>. QED
        BY <1>7, <1>8, <3>2, <3>4, <3>5, <3>8, <3>9, <3>10, SomeMemories DEF CountAt
    <2>. QED
      BY <2>1 DEF CountInv
  <1>12. CellInv'
    BY <1>2, <1>3 DEF Inv, CellInv, WindowAt, HandInv, buffer, producers
  <1>13. InOrder'
    BY <1>2 DEF Inv, InOrder
  <1>. QED
    BY <1>9, <1>10, <1>11, <1>12, <1>13 DEF Inv

-----------------------------------------------------------------------------
(* The loop of the elaborator *)

\* What is true of the elaborator in its loop.
LEMMA InLoop ==
  ASSUME Inv, elabPc \in Looping
  PROVE  /\ starts \in Memories /\ Types /\ SetUpInv /\ ~ NotReady(starts)
         /\ \A s \in Sems : sems[starts][s] \in Nat
         /\ LockAt(starts) /\ CountAt(starts) /\ WindowAt(starts)
         /\ Held(starts) \in Nat
         /\ \A S : Cardinality(At(starts, S)) \in Nat
  <1>1. starts \in Memories /\ Types /\ SetUpInv /\ ~ NotReady(starts)
    BY StartsMemory DEF Inv, SetUpInv, Looping
  <1>2. \A s \in Sems : sems[starts][s] \in Int /\ sems[starts][s] >= 0
    BY <1>1 DEF SetUpInv, Types
  <1>3. LockAt(starts) /\ CountAt(starts) /\ WindowAt(starts)
    BY <1>1 DEF Inv, LockInv, CountInv, CellInv
  <1>4. Held(starts) \in Int /\ Held(starts) >= 0
    BY <1>1, <1>3 DEF CountAt, Held, Types
  <1>. QED
    BY <1>1, <1>2, <1>3, <1>4, AtFinite

\* The other memories do not see its steps.
LEMMA ElabOthers ==
  ASSUME Inv, UNCHANGED <<producers, starts>>,
         \A m \in Memories \ {starts} : SameMemory(m)
  PROVE  /\ \A m \in Memories \ {starts} : LockAt(m)' /\ CountAt(m)' /\ WindowAt(m)'
         /\ \A m, S : At(m, S)' = At(m, S)
  <1>1. \A m, S : At(m, S)' = At(m, S)
    BY DEF At, producers
  <1>2. ASSUME NEW m \in Memories \ {starts}
        PROVE  LockAt(m)' /\ CountAt(m)' /\ WindowAt(m)'
    <2>1. \A S : Elab(m, S)' => Elab(m, S)
      BY DEF Elab
    <2>2. LockAt(m) /\ CountAt(m) /\ WindowAt(m) /\ Types
      BY DEF Inv, LockInv, CountInv, CellInv
    <2>. QED
      BY <1>1, <2>1, <2>2, OtherMemory
  <1>. QED
    BY <1>1, <1>2

\* A step of its loop at a semaphore: only the lock and the counts of its memory matter.
LEMMA ElabSemStep ==
  ASSUME Inv, Types', elabPc \in Looping, elabPc' \in Looping \ {"advance"},
         NEW s \in Sems, NEW v \in Nat, NEW o, o = starts,
         sems' = [sems EXCEPT ![starts][s] = v],
         UNCHANGED <<starts, name, buffer, producers, sent, received>>,
         LockAt(o)', CountAt(o)'
  PROVE  Inv'
  <1>1. starts \in Memories /\ Types /\ SetUpInv /\ ~ NotReady(starts)
        /\ \A t \in Sems : sems[starts][t] \in Nat
    BY InLoop
  <1>2. /\ \A m \in Memories, t \in Sems :
              sems'[m][t] = IF m = starts /\ t = s THEN v ELSE sems[m][t]
        /\ \A m \in Memories \ {starts} : sems'[m] = sems[m]
    <2>1. v \in Int
      OBVIOUS
    <2>2. Types /\ starts \in Memories
      BY <1>1
    <2>3. \A m \in Memories \ {starts} : sems'[m] = sems[m]
      BY <2>2 DEF Types
    <2>4. \A m \in Memories, t \in Sems :
             sems'[m][t] = IF m = starts /\ t = s THEN v ELSE sems[m][t]
      BY <2>2 DEF Types
    <2>. QED
      BY <2>3, <2>4
  <1>3. \A m \in Memories \ {starts} : SameMemory(m)
    BY <1>2 DEF SameMemory, buffer
  <1>4. \A m \in Memories : LockAt(m)' /\ CountAt(m)'
    BY <1>3, ElabOthers
  <1>5. SetUpInv'
    <2>1. \A m \in Memories, t \in Sems :
             sems'[m][t] = sems[m][t] \/ (sems[m][t] # Unset /\ sems'[m][t] >= 0)
      BY <1>1, <1>2 DEF Unset
    <2>2. ASSUME NEW p \in Producers
          PROVE  prodPc'[p] = prodPc[p] /\ memory'[p] = memory[p]
      BY DEF producers
    <2>3. \A m \in Memories : /\ sent'[m] = sent[m] /\ received'[m] = received[m]
                              /\ read_index'[m] = read_index[m]
                              /\ write_index'[m] = write_index[m]
      BY DEF buffer
    <2>4. \A p \in Producers :
             /\ prodPc'[p] \in {"waitLock", "write", "advance", "postLock", "postItem"} =>
                   sems[memory'[p]]["empty_sem"] # Unset
             /\ prodPc'[p] \in {"write", "advance", "postLock", "postItem"} =>
                   ~ NotReady(memory'[p])
      BY <1>1, <2>2 DEF SetUpInv
    <2>. QED
      BY <1>1, <2>1, <2>3, <2>4, ReadyKept
  <1>6. CellInv'
    BY DEF Inv, CellInv, WindowAt, HandInv, buffer, producers
  <1>7. InOrder'
    BY DEF Inv, InOrder
  <1>. QED
    BY <1>4, <1>5, <1>6, <1>7 DEF Inv, LockInv, CountInv

LEMMA InvElabSems ==
  ASSUME Inv, Types', WaitItem \/ ElabWaitLock \/ ElabPostLock \/ PostSpace
  PROVE  Inv'
  <1>1. UNCHANGED <<starts, name, buffer, producers, sent, received>>
    BY DEF WaitItem, ElabWaitLock, ElabPostLock, PostSpace, names, history
  <1>2. elabPc \in Looping /\ elabPc' \in Looping \ {"advance"}
    BY DEF WaitItem, ElabWaitLock, ElabPostLock, PostSpace, ElabStep, Looping
  <1>3. /\ starts \in Memories /\ Types /\ ~ NotReady(starts)
        /\ \A s \in Sems : sems[starts][s] \in Nat
        /\ LockAt(starts) /\ CountAt(starts) /\ Held(starts) \in Nat
        /\ \A S : Cardinality(At(starts, S)) \in Nat
    BY <1>2, InLoop
  <1>4. \A m, S : At(m, S)' = At(m, S)
    BY <1>1 DEF At, producers
  <1>5. PICK o : o = starts
    OBVIOUS
  <1>6. Held(o)' = Held(o)
    BY <1>1 DEF Held
  <1>7. ASSUME NEW s \in Sems, NEW v \in Int, sems' = [sems EXCEPT ![starts][s] = v]
        PROVE  \A t \in Sems : sems'[o][t] = IF t = s THEN v ELSE sems[o][t]
    <2>1. \A m \in Memories, t \in Sems :
             sems'[m][t] = IF m = starts /\ t = s THEN v ELSE sems[m][t]
      BY <1>3, <1>7, SemSet
    <2>. QED
      BY <1>3, <1>5, <2>1
  <1>8. CASE WaitItem
    <2>. DEFINE v == sems[starts]["full_sem"] - 1
    <2>1. sems[starts]["full_sem"] > 0 /\ sems' = [sems EXCEPT ![starts]["full_sem"] = v]
      BY <1>3, <1>8, WaitPost, SomeMemories DEF WaitItem
    <2>2. v \in Nat /\ v \in Int
      BY <1>3, <2>1, SomeMemories
    <2>3. /\ ~ Elab(o, Locked) /\ ~ Elab(o, Locked)'
          /\ ~ Elab(o, Fetching) /\ Elab(o, Fetching)'
          /\ ~ Elab(o, Fetched) /\ ~ Elab(o, Fetched)'
      BY <1>1, <1>5, <1>8 DEF WaitItem, ElabStep, Elab, Locked, Fetching, Fetched
    <2>4. /\ sems'[o]["full_sem"] = sems[o]["full_sem"] - 1
          /\ sems'[o]["empty_sem"] = sems[o]["empty_sem"]
          /\ sems'[o]["cs_sem"] = sems[o]["cs_sem"]
      <3>1. \A t \in Sems : sems'[o][t] = IF t = "full_sem" THEN v ELSE sems[o][t]
        BY <1>7, <2>1, <2>2, SomeMemories
      <3>. QED
        BY <1>5, <3>1, SomeMemories
    <2>5. LockAt(o)'
      BY <1>3, <1>4, <1>5, <2>3, <2>4 DEF LockAt
    <2>6. CountAt(o)'
      BY <1>3, <1>4, <1>5, <1>6, <2>3, <2>4, SomeMemories DEF CountAt
    <2>. HIDE DEF v
    <2>. QED
      BY <1>1, <1>2, <1>5, <2>1, <2>2, <2>5, <2>6, ElabSemStep, SomeMemories
  <1>9. CASE ElabWaitLock
    <2>. DEFINE v == sems[starts]["cs_sem"] - 1
    <2>1. sems[starts]["cs_sem"] > 0 /\ sems' = [sems EXCEPT ![starts]["cs_sem"] = v]
      BY <1>3, <1>9, WaitPost, SomeMemories DEF ElabWaitLock
    <2>2. v \in Nat /\ v \in Int
      BY <1>3, <2>1, SomeMemories
    <2>3. /\ ~ Elab(o, Locked) /\ Elab(o, Locked)'
          /\ Elab(o, Fetching) /\ Elab(o, Fetching)'
          /\ ~ Elab(o, Fetched) /\ ~ Elab(o, Fetched)'
      BY <1>1, <1>5, <1>9 DEF ElabWaitLock, ElabStep, Elab, Locked, Fetching, Fetched
    <2>4. /\ sems'[o]["full_sem"] = sems[o]["full_sem"]
          /\ sems'[o]["empty_sem"] = sems[o]["empty_sem"]
          /\ sems'[o]["cs_sem"] = sems[o]["cs_sem"] - 1
      <3>1. \A t \in Sems : sems'[o][t] = IF t = "cs_sem" THEN v ELSE sems[o][t]
        BY <1>7, <2>1, <2>2, SomeMemories
      <3>. QED
        BY <1>5, <3>1, SomeMemories
    <2>5. LockAt(o)'
      <3>1. sems[o]["cs_sem"] = 1
        BY <1>3, <1>5, <2>1, SomeMemories DEF LockAt
      <3>2. At(o, Locking) = {}
        BY <1>3, <1>5, <3>1 DEF LockAt
      <3>. QED
        BY <1>4, <2>4, <3>1, <3>2 DEF LockAt
    <2>6. CountAt(o)'
      BY <1>3, <1>4, <1>5, <1>6, <2>3, <2>4, SomeMemories DEF CountAt
    <2>. HIDE DEF v
    <2>. QED
      BY <1>1, <1>2, <1>5, <2>1, <2>2, <2>5, <2>6, ElabSemStep, SomeMemories
  <1>10. CASE ElabPostLock
    <2>. DEFINE v == sems[starts]["cs_sem"] + 1
    <2>1. sems' = [sems EXCEPT ![starts]["cs_sem"] = v]
      BY <1>3, <1>10, WaitPost, SomeMemories DEF ElabPostLock
    <2>2. v \in Nat /\ v \in Int
      BY <1>3, <2>1, SomeMemories
    <2>3. /\ Elab(o, Locked) /\ ~ Elab(o, Locked)'
          /\ ~ Elab(o, Fetching) /\ ~ Elab(o, Fetching)'
          /\ Elab(o, Fetched) /\ Elab(o, Fetched)'
      BY <1>1, <1>5, <1>10 DEF ElabPostLock, ElabStep, Elab, Locked, Fetching, Fetched
    <2>4. /\ sems'[o]["full_sem"] = sems[o]["full_sem"]
          /\ sems'[o]["empty_sem"] = sems[o]["empty_sem"]
          /\ sems'[o]["cs_sem"] = sems[o]["cs_sem"] + 1
      <3>1. \A t \in Sems : sems'[o][t] = IF t = "cs_sem" THEN v ELSE sems[o][t]
        BY <1>7, <2>1, <2>2, SomeMemories
      <3>. QED
        BY <1>5, <3>1, SomeMemories
    <2>5. LockAt(o)'
      <3>1. sems[o]["cs_sem"] = 0
        BY <1>3, <1>5, <2>3 DEF LockAt
      <3>2. At(o, Locking) = {}
        BY <1>3, <1>5, <2>3 DEF LockAt
      <3>. QED
        BY <1>4, <2>3, <2>4, <3>1, <3>2 DEF LockAt
    <2>6. CountAt(o)'
      BY <1>3, <1>4, <1>5, <1>6, <2>3, <2>4, SomeMemories DEF CountAt
    <2>. HIDE DEF v
    <2>. QED
      BY <1>1, <1>2, <1>5, <2>1, <2>2, <2>5, <2>6, ElabSemStep, SomeMemories
  <1>11. CASE PostSpace
    <2>. DEFINE v == sems[starts]["empty_sem"] + 1
    <2>1. sems' = [sems EXCEPT ![starts]["empty_sem"] = v]
      BY <1>3, <1>11, WaitPost, SomeMemories DEF PostSpace
    <2>2. v \in Nat /\ v \in Int
      BY <1>3, <2>1, SomeMemories
    <2>3. /\ ~ Elab(o, Locked) /\ ~ Elab(o, Locked)'
          /\ ~ Elab(o, Fetching) /\ ~ Elab(o, Fetching)'
          /\ Elab(o, Fetched) /\ ~ Elab(o, Fetched)'
      BY <1>1, <1>5, <1>11 DEF PostSpace, ElabStep, Elab, Locked, Fetching, Fetched
    <2>4. /\ sems'[o]["full_sem"] = sems[o]["full_sem"]
          /\ sems'[o]["empty_sem"] = sems[o]["empty_sem"] + 1
          /\ sems'[o]["cs_sem"] = sems[o]["cs_sem"]
      <3>1. \A t \in Sems : sems'[o][t] = IF t = "empty_sem" THEN v ELSE sems[o][t]
        BY <1>7, <2>1, <2>2, SomeMemories
      <3>. QED
        BY <1>5, <3>1, SomeMemories
    <2>5. LockAt(o)'
      BY <1>3, <1>4, <1>5, <2>3, <2>4 DEF LockAt
    <2>6. CountAt(o)'
      BY <1>3, <1>4, <1>5, <1>6, <2>3, <2>4, SomeMemories DEF CountAt
    <2>. HIDE DEF v
    <2>. QED
      BY <1>1, <1>2, <1>5, <2>1, <2>2, <2>5, <2>6, ElabSemStep, SomeMemories
  <1>. QED
    BY <1>8, <1>9, <1>10, <1>11

LEMMA InvReadCell ==
  ASSUME Inv, Types', ReadCell
  PROVE  Inv'
  <1>1. /\ elabPc = "read" /\ elabPc' = "advance" /\ input' = buf[starts][read_index[starts]]
        /\ UNCHANGED <<starts, name, sems, buffer, producers, sent, received>>
    BY DEF ReadCell, ElabStep, names, history
  <1>2. Types /\ SetUpInv
    BY DEF Inv
  <1>3. SetUpInv'
    BY <1>1, <1>2 DEF SetUpInv, NotReady, Fresh, buffer, producers, Looping
  <1>4. \A m, S : At(m, S)' = At(m, S)
    BY <1>1 DEF At, producers
  <1>5. \A m : /\ Elab(m, Locked)' <=> Elab(m, Locked)
               /\ Elab(m, Fetching)' <=> Elab(m, Fetching)
               /\ Elab(m, Fetched)' <=> Elab(m, Fetched)
    BY <1>1 DEF Elab, Locked, Fetching, Fetched
  <1>6. LockInv'
    BY <1>1, <1>4, <1>5 DEF Inv, LockInv, LockAt
  <1>7. CountInv'
    <2>1. \A m : Held(m)' = Held(m)
      BY <1>1 DEF Held
    <2>. QED
      BY <1>1, <1>4, <1>5, <2>1 DEF Inv, CountInv, CountAt
  <1>8. CellInv'
    BY <1>1 DEF Inv, CellInv, WindowAt, HandInv, buffer, producers
  <1>9. InOrder'
    BY <1>1 DEF Inv, InOrder
  <1>. QED
    BY <1>3, <1>6, <1>7, <1>8, <1>9 DEF Inv

\* The input that leaves the buffer is the oldest of those in it.
LEMMA InvAdvanceRead ==
  ASSUME Inv, Types', AdvanceRead
  PROVE  Inv'
  <1>. DEFINE r == Len(received[starts])
  <1>1. /\ elabPc = "advance" /\ elabPc' = "postLock" /\ elabPc \in Looping
        /\ UNCHANGED <<starts, name, sems, buf, write_index, producers, sent>>
        /\ received' = [received EXCEPT ![starts] = Append(received[starts], input)]
        /\ read_index' = [read_index EXCEPT ![starts] =
              IF read_index[starts] = BUFFER_SIZE - 1 THEN 0 ELSE read_index[starts] + 1]
    BY DEF AdvanceRead, ElabStep, names, Looping, Types, Inv
  <1>2. /\ starts \in Memories /\ Types /\ SetUpInv /\ ~ NotReady(starts)
        /\ \A s \in Sems : sems[starts][s] \in Nat
        /\ LockAt(starts) /\ CountAt(starts) /\ WindowAt(starts) /\ Held(starts) \in Nat
        /\ \A S : Cardinality(At(starts, S)) \in Nat
    BY <1>1, InLoop
  <1>3. /\ sent[starts] \in Seq(Inputs) /\ received[starts] \in Seq(Inputs) /\ input \in Inputs
        /\ r \in Nat /\ Len(sent[starts]) \in Nat
    BY <1>2 DEF Types
  <1>4. /\ received'[starts] = Append(received[starts], input) /\ Len(received'[starts]) = r + 1
        /\ \A m \in Memories \ {starts} : received'[m] = received[m]
                                          /\ read_index'[m] = read_index[m]
    BY <1>1, <1>2, <1>3 DEF Types
  <1>5. \A m \in Memories \ {starts} : SameMemory(m)
    BY <1>1, <1>4 DEF SameMemory
  <1>6. \A m, S : At(m, S)' = At(m, S)
    BY <1>1 DEF At, producers
  <1>7. \A m \in Memories \ {starts} : LockAt(m)' /\ CountAt(m)' /\ WindowAt(m)'
    BY <1>1, <1>5, ElabOthers
  <1>8. PICK o : o = starts
    OBVIOUS
  <1>9. /\ Elab(o, Locked) /\ Elab(o, Locked)'
        /\ Elab(o, Fetching) /\ ~ Elab(o, Fetching)'
        /\ ~ Elab(o, Fetched) /\ Elab(o, Fetched)'
    BY <1>1, <1>8 DEF Elab, Locked, Fetching, Fetched
  <1>10. LockAt(o)'
    BY <1>1, <1>2, <1>6, <1>8, <1>9 DEF LockAt
  <1>11. Held(o)' = Held(o) - 1
    <2>1. Len(sent'[o]) = Len(sent[o]) /\ Len(received'[o]) = Len(received[o]) + 1
      BY <1>1, <1>4, <1>8
    <2>2. Len(sent[o]) \in Nat /\ Len(received[o]) \in Nat
      BY <1>3, <1>8
    <2>. QED
      BY <2>1, <2>2 DEF Held
  <1>12. Held(o) >= 1 /\ r + 1 <= Len(sent[starts])
    <2>1. sems[o]["full_sem"] + Cardinality(At(o, Filled)) + 1 <= Held(o)
      BY <1>2, <1>8, <1>9 DEF CountAt
    <2>2. sems[o]["full_sem"] \in Nat /\ Cardinality(At(o, Filled)) \in Nat /\ Held(o) \in Nat
      BY <1>2, <1>8, SomeMemories
    <2>3. Held(o) >= 1
      BY <2>1, <2>2
    <2>. QED
      BY <1>3, <1>8, <2>3 DEF Held
  <1>13. CountAt(o)'
    <2>1. /\ sems[o]["full_sem"] \in Nat /\ sems[o]["empty_sem"] \in Nat
          /\ Cardinality(At(o, Filled)) \in Nat /\ Cardinality(At(o, Filling)) \in Nat
          /\ CountAt(o) /\ Held(o) \in Nat
      BY <1>2, <1>8, SomeMemories
    <2>2. /\ sems[o]["full_sem"] + Cardinality(At(o, Filled)) + 1 <= Held(o)
          /\ sems[o]["empty_sem"] + Cardinality(At(o, Filling)) + 0 + Held(o) <= BUFFER_SIZE
      BY <1>9, <2>1 DEF CountAt
    <2>3. /\ sems[o]["full_sem"] + Cardinality(At(o, Filled)) + 0 <= Held(o) - 1
          /\ sems[o]["empty_sem"] + Cardinality(At(o, Filling)) + 1 + (Held(o) - 1) <= BUFFER_SIZE
          /\ Held(o) - 1 >= 0
      <3>1. Held(o) >= 1
        BY <1>12
      <3>2. ASSUME NEW f \in Nat, NEW e \in Nat, NEW a \in Nat, NEW b \in Nat, NEW h \in Nat,
                   f + a + 1 <= h, e + b + 0 + h <= BUFFER_SIZE, h >= 1
            PROVE  f + a + 0 <= h - 1 /\ e + b + 1 + (h - 1) <= BUFFER_SIZE /\ h - 1 >= 0
        BY <3>2, SomeMemories
      <3>. QED
        BY <2>1, <2>2, <3>1, <3>2
    <2>4. /\ sems' = sems /\ At(o, Filled)' = At(o, Filled)
          /\ At(o, Filling)' = At(o, Filling)
      BY <1>1, <1>6
    <2>. QED
      BY <1>9, <1>11, <2>3, <2>4 DEF CountAt
  <1>14. read_index'[starts] = (r + 1) % BUFFER_SIZE
    <2>1. read_index[starts] = r % BUFFER_SIZE /\ read_index[starts] \in 0 .. BUFFER_SIZE - 1
      BY <1>2 DEF WindowAt, Types, Cells
    <2>2. read_index'[starts] = (read_index[starts] + 1) % BUFFER_SIZE
      <3>1. read_index'[starts] =
               IF read_index[starts] = BUFFER_SIZE - 1 THEN 0 ELSE read_index[starts] + 1
        BY <1>1, <1>2 DEF Types
      <3>. QED
        BY <2>1, <3>1, NextCell
    <2>. QED
      BY <1>3, <2>1, <2>2, ModSucc, SomeMemories
  <1>15. WindowAt(o)'
    BY <1>1, <1>2, <1>3, <1>4, <1>8, <1>14 DEF WindowAt
  <1>16. SetUpInv'
    <2>1. \A m \in Memories : NotReady(m) =>
             /\ sent'[m] = sent[m] /\ received'[m] = received[m]
             /\ read_index'[m] = read_index[m] /\ write_index'[m] = write_index[m]
      BY <1>1, <1>2, <1>4
    <2>2. \A p \in Producers : prodPc'[p] = prodPc[p] /\ memory'[p] = memory[p]
      BY <1>1 DEF producers
    <2>3. elabPc' \in Looping
      BY <1>1 DEF Looping
    <2>4. \A p \in Producers :
             /\ prodPc'[p] \in {"waitLock", "write", "advance", "postLock", "postItem"} =>
                   sems[memory'[p]]["empty_sem"] # Unset
             /\ prodPc'[p] \in {"write", "advance", "postLock", "postItem"} =>
                   ~ NotReady(memory'[p])
      BY <1>2, <2>2 DEF SetUpInv
    <2>. QED
      BY <1>1, <1>2, <2>1, <2>3, <2>4, ReadyKept
  <1>17. HandInv'
    BY <1>1 DEF Inv, CellInv, HandInv, producers
  <1>18. InOrder'
    <2>1. input = sent[starts][r + 1]
      <3>1. input = buf[starts][read_index[starts]]
        BY <1>1 DEF Inv, CellInv, HandInv
      <3>2. r + 1 \in r + 1 .. Len(sent[starts]) /\ (r + 1) - 1 = r
        BY <1>3, <1>12
      <3>3. buf[starts][((r + 1) - 1) % BUFFER_SIZE] = sent[starts][r + 1]
        BY <1>2, <3>2 DEF WindowAt
      <3>. QED
        BY <1>2, <3>1, <3>2, <3>3 DEF WindowAt
    <2>2. ASSUME NEW m \in Memories
          PROVE  /\ Len(received'[m]) <= Len(sent'[m])
                 /\ \A k \in 1 .. Len(received'[m]) : received'[m][k] = sent'[m][k]
      <3>1. CASE m # starts
        BY <1>1, <1>4, <3>1 DEF Inv, InOrder
      <3>2. CASE m = starts
        <4>1. ASSUME NEW k \in 1 .. r + 1
              PROVE  received'[starts][k] = sent[starts][k]
          <5>1. k \in 1 .. r => received'[starts][k] = received[starts][k]
            BY <1>3, <1>4
          <5>2. received'[starts][r + 1] = input
            BY <1>3, <1>4
          <5>3. k \in 1 .. r \/ k = r + 1
            BY <1>3
          <5>. QED
            BY <1>2, <2>1, <5>1, <5>2, <5>3 DEF Inv, InOrder
        <4>. QED
          BY <1>1, <1>4, <1>12, <3>2, <4>1
      <3>. QED
        BY <3>1, <3>2
    <2>. QED
      BY <2>2 DEF InOrder
  <1>. QED
    BY <1>7, <1>8, <1>10, <1>13, <1>15, <1>16, <1>17, <1>18 DEF Inv, LockInv, CountInv, CellInv

-----------------------------------------------------------------------------
(* The steps of a producer *)

\* A producer that neither gets, uses nor gives back a cell or the lock.
LEMMA ProdAlone ==
  ASSUME Inv, Types', NEW p \in Producers,
         UNCHANGED <<elabPc, starts, name, input, sems, buffer, sent, received>>,
         \A q \in Producers \ {p} : /\ prodPc'[q] = prodPc[q] /\ memory'[q] = memory[q]
                                    /\ inputs'[q] = inputs[q],
         prodPc'[p] \notin {"waitLock", "write", "advance", "postLock", "postItem"}
  PROVE  Inv'
  <1>1. Types /\ SetUpInv
    BY DEF Inv
  <1>2. SetUpInv'
    <2>1. ASSUME NEW q \in Producers
          PROVE  /\ prodPc'[q] \in {"waitLock", "write", "advance", "postLock", "postItem"} =>
                       sems[memory'[q]]["empty_sem"] # Unset
                 /\ prodPc'[q] \in {"write", "advance", "postLock", "postItem"} =>
                       ~ NotReady(memory'[q])
      BY <1>1 DEF SetUpInv
    <2>2. elabPc' = elabPc
      OBVIOUS
    <2>3. sems' = sems /\ sent' = sent /\ received' = received
          /\ read_index' = read_index /\ write_index' = write_index
      BY DEF buffer
    <2>. QED
      BY <1>1, <2>1, <2>2, <2>3, ReadyKept
  <1>3. \A o : /\ At(o, Filling)' \subseteq At(o, Filling)
               /\ At(o, Filled)' \subseteq At(o, Filled)
               /\ At(o, Locking)' \subseteq At(o, Locking)
    BY DEF At, Filling, Filled, Locking
  <1>4. \A o, S : Elab(o, S)' <=> Elab(o, S)
    BY DEF Elab
  <1>5. LockInv'
    BY <1>3, <1>4 DEF Inv, LockInv, LockAt
  <1>6. CountInv'
    <2>1. SUFFICES ASSUME NEW o \in Memories PROVE CountAt(o)'
      BY DEF CountInv
    <2>2. CountAt(o) /\ Held(o)' = Held(o) /\ Held(o) \in Int
      BY <1>1 DEF Inv, CountInv, Held, Types
    <2>3. /\ Cardinality(At(o, Filling)') \in Nat
          /\ Cardinality(At(o, Filling)') <= Cardinality(At(o, Filling))
          /\ Cardinality(At(o, Filled)') \in Nat
          /\ Cardinality(At(o, Filled)') <= Cardinality(At(o, Filled))
      BY <1>3, AtFinite, FS_Subset, FS_CardinalityType
    <2>4. Cardinality(At(o, Filling)) \in Nat /\ Cardinality(At(o, Filled)) \in Nat
      BY AtFinite
    <2>5. sems[o]["full_sem"] \in Int /\ sems[o]["empty_sem"] \in Int
      BY <1>1, SomeMemories DEF Types
    <2>. QED
      BY <1>4, <2>2, <2>3, <2>4, <2>5, SomeMemories DEF CountAt
  <1>7. CellInv'
    BY DEF Inv, CellInv, WindowAt, HandInv, buffer
  <1>8. InOrder'
    BY DEF Inv, InOrder
  <1>. QED
    BY <1>2, <1>5, <1>6, <1>7, <1>8 DEF Inv

LEMMA InvProdAlone ==
  ASSUME Inv, Types', NEW p \in Producers,
         OpenMemory(p) \/ Generate(p) \/ CloseSemaphores(p) \/ UseTooEarly(p)
  PROVE  Inv'
  <1>1. UNCHANGED <<elabPc, starts, name, input, sems, buffer, sent, received>>
    BY DEF OpenMemory, Generate, CloseSemaphores, UseTooEarly, elaborator, names, history
  <1>2. \A q \in Producers \ {p} : /\ prodPc'[q] = prodPc[q] /\ memory'[q] = memory[q]
                                   /\ inputs'[q] = inputs[q]
    BY DEF OpenMemory, Generate, CloseSemaphores, UseTooEarly, ProdStep, Inv, Types
  <1>3. prodPc'[p] \notin {"waitLock", "write", "advance", "postLock", "postItem"}
    BY DEF OpenMemory, Generate, CloseSemaphores, UseTooEarly, ProdStep, Inv, Types
  <1>. QED
    BY <1>1, <1>2, <1>3, ProdAlone

\* What is true of a producer that uses its memory.
LEMMA InMemory ==
  ASSUME Inv, NEW p \in Producers,
         prodPc[p] \in {"waitSpace", "waitLock", "write", "advance", "postLock", "postItem"}
  PROVE  /\ memory[p] \in Memories /\ Types /\ SetUpInv
         /\ LockAt(memory[p]) /\ CountAt(memory[p]) /\ WindowAt(memory[p])
         /\ Held(memory[p]) \in Nat
         /\ \A s \in Sems : sems[memory[p]][s] \in Int
         /\ ~ NotReady(memory[p]) => \A s \in Sems : sems[memory[p]][s] \in Nat
         /\ prodPc[p] \in {"write", "advance", "postLock", "postItem"} => ~ NotReady(memory[p])
         /\ \A S : Cardinality(At(memory[p], S)) \in Nat
  <1>1. memory[p] \in Memories /\ Types /\ SetUpInv
    BY DEF Inv, Types
  <1>2. \A s \in Sems : sems[memory[p]][s] \in Int
    BY <1>1 DEF Types
  <1>3. LockAt(memory[p]) /\ CountAt(memory[p]) /\ WindowAt(memory[p])
    BY <1>1 DEF Inv, LockInv, CountInv, CellInv
  <1>4. Held(memory[p]) \in Int /\ Held(memory[p]) >= 0
    BY <1>1, <1>3 DEF CountAt, Held, Types
  <1>5. prodPc[p] \in {"write", "advance", "postLock", "postItem"} => ~ NotReady(memory[p])
    BY <1>1 DEF SetUpInv
  <1>6. ~ NotReady(memory[p]) => \A s \in Sems : sems[memory[p]][s] \in Nat
    BY <1>1, <1>2 DEF SetUpInv
  <1>. QED
    BY <1>1, <1>2, <1>3, <1>4, <1>5, <1>6, AtFinite

\* The other memories do not see its steps.
LEMMA ProdOthers ==
  ASSUME Inv, NEW p \in Producers, NEW to, prodPc' = [prodPc EXCEPT ![p] = to],
         UNCHANGED <<memory, starts, elabPc>>,
         \A m \in Memories \ {memory[p]} : SameMemory(m)
  PROVE  \A m \in Memories \ {memory[p]} : LockAt(m)' /\ CountAt(m)' /\ WindowAt(m)'
  <1>1. SUFFICES ASSUME NEW m \in Memories \ {memory[p]}
                 PROVE  LockAt(m)' /\ CountAt(m)' /\ WindowAt(m)'
    OBVIOUS
  <1>2. LockAt(m) /\ CountAt(m) /\ WindowAt(m) /\ Types
    BY DEF Inv, LockInv, CountInv, CellInv
  <1>3. \A S : At(m, S)' = At(m, S)
    <2>1. memory' = memory /\ memory[p] # m
      OBVIOUS
    <2>2. \A q \in Producers : memory[q] = m => prodPc'[q] = prodPc[q]
      BY <1>2, <2>1 DEF Types
    <2>. QED
      BY <2>1, <2>2 DEF At
  <1>4. \A S : Elab(m, S)' => Elab(m, S)
    BY DEF Elab
  <1>. QED
    BY <1>2, <1>3, <1>4, OtherMemory

\* A step at a semaphore: only the lock and the counts of its memory matter.
LEMMA ProdSemStep ==
  ASSUME Inv, Types', NEW p \in Producers, NEW to, to # "advance",
         prodPc[p] \in {"waitSpace", "waitLock", "postLock", "postItem"},
         prodPc' = [prodPc EXCEPT ![p] = to],
         NEW s \in Sems, NEW v \in Nat, NEW o, o = memory[p],
         sems' = [sems EXCEPT ![memory[p]][s] = v], sems[memory[p]][s] # Unset,
         UNCHANGED <<program, elaborator, names, buffer, memory, inputs, history>>,
         to \in {"waitLock", "write", "advance", "postLock", "postItem"} =>
            sems[memory[p]]["empty_sem"] # Unset,
         to \in {"write", "advance", "postLock", "postItem"} => ~ NotReady(memory[p]),
         LockAt(o)', CountAt(o)'
  PROVE  Inv'
  <1>1. memory[p] \in Memories /\ Types /\ SetUpInv
    BY InMemory
  <1>2. /\ \A m \in Memories, t \in Sems :
              sems'[m][t] = IF m = memory[p] /\ t = s THEN v ELSE sems[m][t]
        /\ \A m \in Memories \ {memory[p]} : sems'[m] = sems[m]
    <2>1. memory[p] \in Memories /\ sems \in [Memories -> [Sems -> Int]]
      BY <1>1 DEF Types
    <2>. QED
      BY <2>1
  <1>3. \A m \in Memories \ {memory[p]} : SameMemory(m)
    BY <1>2 DEF SameMemory, buffer, history
  <1>4. UNCHANGED <<memory, starts, elabPc>>
    BY DEF elaborator
  <1>5. \A m \in Memories : LockAt(m)' /\ CountAt(m)'
    BY <1>3, <1>4, ProdOthers
  <1>6. SetUpInv'
    <2>1. \A m \in Memories, t \in Sems :
             sems'[m][t] = sems[m][t] \/ (sems[m][t] # Unset /\ sems'[m][t] >= 0)
      BY <1>1, <1>2 DEF Unset
    <2>2. \A q \in Producers : prodPc'[q] = (IF q = p THEN to ELSE prodPc[q])
                               /\ memory'[q] = memory[q]
      BY <1>1 DEF Types
    <2>3. \A q \in Producers :
             /\ prodPc'[q] \in {"waitLock", "write", "advance", "postLock", "postItem"} =>
                   sems[memory'[q]]["empty_sem"] # Unset
             /\ prodPc'[q] \in {"write", "advance", "postLock", "postItem"} =>
                   ~ NotReady(memory'[q])
      BY <1>1, <2>2 DEF SetUpInv
    <2>4. sent' = sent /\ received' = received /\ read_index' = read_index
          /\ write_index' = write_index /\ name' = name
      BY DEF buffer, history, names
    <2>. QED
      BY <1>1, <1>4, <2>1, <2>3, <2>4, ReadyKept
  <1>7. CellInv'
    <2>1. \A m \in Memories : WindowAt(m)'
      BY DEF Inv, CellInv, WindowAt, buffer, history
    <2>2. ASSUME NEW q \in Producers, prodPc'[q] = "advance"
          PROVE  buf'[memory'[q]][write_index'[memory'[q]]] = <<q, inputs'[q]>>
      <3>1. prodPc[q] = "advance"
        BY <1>1, <2>2 DEF Types
      <3>. QED
        BY <3>1 DEF Inv, CellInv, HandInv, buffer
    <2>3. elabPc' = "advance" => input' = buf'[starts'][read_index'[starts']]
      BY DEF Inv, CellInv, HandInv, buffer, elaborator
    <2>. QED
      BY <2>1, <2>2, <2>3 DEF CellInv, HandInv
  <1>8. InOrder'
    BY DEF Inv, InOrder, history
  <1>. QED
    BY <1>5, <1>6, <1>7, <1>8 DEF Inv, LockInv, CountInv

\* The counts of a memory, with what the elaborator has in hand as two numbers that a
\* producer's step leaves alone.
LEMMA CountShape ==
  ASSUME NEW o, UNCHANGED <<starts, elabPc>>
  PROVE  \E x, y \in {0, 1} :
            /\ CountAt(o) =>
                  /\ sems[o]["full_sem"] + Cardinality(At(o, Filled)) + x <= Held(o)
                  /\ sems[o]["empty_sem"] + Cardinality(At(o, Filling)) + y + Held(o)
                        <= BUFFER_SIZE
            /\ /\ Held(o)' >= 0
               /\ sems'[o]["full_sem"] + Cardinality(At(o, Filled)') + x <= Held(o)'
               /\ sems'[o]["empty_sem"] + Cardinality(At(o, Filling)') + y + Held(o)'
                     <= BUFFER_SIZE
               => CountAt(o)'
  <1>1. \A S : Elab(o, S)' <=> Elab(o, S)
    BY DEF Elab
  <1>2. \E x, y \in {0, 1} : /\ x = IF Elab(o, Fetching) THEN 1 ELSE 0
                             /\ y = IF Elab(o, Fetched) THEN 1 ELSE 0
    OBVIOUS
  <1>3. PICK x \in {0, 1}, y \in {0, 1} : /\ x = IF Elab(o, Fetching) THEN 1 ELSE 0
                                         /\ y = IF Elab(o, Fetched) THEN 1 ELSE 0
    BY <1>2
  <1>4. CountAt(o) <=> /\ Held(o) >= 0
                       /\ sems[o]["full_sem"] + Cardinality(At(o, Filled)) + x <= Held(o)
                       /\ sems[o]["empty_sem"] + Cardinality(At(o, Filling)) + y + Held(o)
                             <= BUFFER_SIZE
    BY <1>3 DEF CountAt
  <1>5. CountAt(o)' <=>
           /\ Held(o)' >= 0
           /\ sems'[o]["full_sem"] + Cardinality(At(o, Filled)') + x <= Held(o)'
           /\ sems'[o]["empty_sem"] + Cardinality(At(o, Filling)') + y + Held(o)' <= BUFFER_SIZE
    BY <1>1, <1>3 DEF CountAt
  <1>. QED
    BY <1>4, <1>5

LEMMA InvProdSems ==
  ASSUME Inv, Types', NEW p \in Producers,
         WaitSpace(p) \/ WaitLock(p) \/ PostLock(p) \/ PostItem(p)
  PROVE  Inv'
  <1>1. /\ UNCHANGED <<program, elaborator, names, buffer, memory, inputs, history>>
        /\ prodPc[p] \in {"waitSpace", "waitLock", "postLock", "postItem"}
    BY DEF WaitSpace, WaitLock, PostLock, PostItem, ProdStep
  <1>2. PICK o : o = memory[p]
    OBVIOUS
  <1>3. /\ o \in Memories /\ Types /\ SetUpInv /\ LockAt(o) /\ CountAt(o) /\ Held(o) \in Nat
        /\ \A s \in Sems : sems[o][s] \in Int
        /\ ~ NotReady(o) => \A s \in Sems : sems[o][s] \in Nat
        /\ prodPc[p] \in {"postLock", "postItem"} => ~ NotReady(o)
    BY <1>1, <1>2, InMemory
  <1>4. Held(o)' = Held(o) /\ UNCHANGED <<starts, elabPc>> /\ memory' = memory
    BY <1>1 DEF Held, elaborator, history
  <1>5. PICK x \in {0, 1}, y \in {0, 1} :
           /\ sems[o]["full_sem"] + Cardinality(At(o, Filled)) + x <= Held(o)
           /\ sems[o]["empty_sem"] + Cardinality(At(o, Filling)) + y + Held(o) <= BUFFER_SIZE
           /\ /\ sems'[o]["full_sem"] + Cardinality(At(o, Filled)') + x <= Held(o)
              /\ sems'[o]["empty_sem"] + Cardinality(At(o, Filling)') + y + Held(o)
                    <= BUFFER_SIZE
              => CountAt(o)'
    BY <1>3, <1>4, CountShape
  <1>6. Cardinality(At(o, Filled)) \in Nat /\ Cardinality(At(o, Filling)) \in Nat
    BY AtFinite
  <1>7. ASSUME NEW s \in Sems, NEW v \in Int, sems' = [sems EXCEPT ![memory[p]][s] = v]
        PROVE  \A t \in Sems : sems'[o][t] = IF t = s THEN v ELSE sems[o][t]
    BY <1>2, <1>3, <1>7 DEF Types
  <1>8. \A S : Elab(o, S)' <=> Elab(o, S)
    BY <1>4 DEF Elab
  <1>9. CASE WaitSpace(p)
    <2>. DEFINE v == sems[memory[p]]["empty_sem"] - 1
    <2>1. /\ prodPc[p] = "waitSpace" /\ prodPc' = [prodPc EXCEPT ![p] = "waitLock"]
          /\ sems[o]["empty_sem"] > 0
          /\ sems' = [sems EXCEPT ![memory[p]]["empty_sem"] = v]
      BY <1>2, <1>3, <1>9, WaitPost, SomeMemories DEF WaitSpace, ProdStep
    <2>2. v \in Nat /\ v \in Int
      BY <1>2, <1>3, <2>1, SomeMemories
    <2>3. \A t \in Sems : sems'[o][t] = IF t = "empty_sem" THEN v ELSE sems[o][t]
      BY <1>7, <2>1, <2>2, SomeMemories
    <2>4. /\ sems'[o]["full_sem"] = sems[o]["full_sem"]
          /\ sems'[o]["empty_sem"] = sems[o]["empty_sem"] - 1
          /\ sems'[o]["cs_sem"] = sems[o]["cs_sem"]
      BY <1>2, <2>3, SomeMemories
    <2>0. /\ ProdStep(p, "waitSpace", "waitLock")
          /\ "waitSpace" \notin Locking /\ "waitLock" \notin Locking
          /\ "waitSpace" \notin Filled /\ "waitLock" \notin Filled
          /\ "waitSpace" \notin Filling /\ "waitLock" \in Filling
      BY <1>9 DEF WaitSpace, Locking, Filled, Filling
    <2>5. At(o, Locking)' = At(o, Locking) /\ At(o, Filled)' = At(o, Filled)
      BY <1>3, <1>4, <2>0, AtSame
    <2>6. Cardinality(At(o, Filling)') = Cardinality(At(o, Filling)) + 1
      BY <1>2, <1>3, <1>4, <2>0, AtEnters
    <2>7. LockAt(o)'
      BY <1>3, <1>8, <2>4, <2>5 DEF LockAt
    <2>8. CountAt(o)'
      BY <1>3, <1>5, <1>6, <2>4, <2>5, <2>6, SomeMemories
    <2>9. /\ sems[memory[p]]["empty_sem"] # Unset
          /\ "waitLock" \notin {"write", "advance", "postLock", "postItem"}
      BY <1>2, <2>1 DEF Unset
    <2>. HIDE DEF v
    <2>. QED
      BY <1>1, <1>2, <2>1, <2>2, <2>7, <2>8, <2>9, ProdSemStep, SomeMemories
  <1>10. CASE WaitLock(p)
    <2>. DEFINE v == sems[memory[p]]["cs_sem"] - 1
    <2>1. /\ prodPc[p] = "waitLock" /\ prodPc' = [prodPc EXCEPT ![p] = "write"]
          /\ sems[o]["cs_sem"] > 0
          /\ sems' = [sems EXCEPT ![memory[p]]["cs_sem"] = v]
      BY <1>2, <1>3, <1>10, WaitPost, SomeMemories DEF WaitLock, ProdStep
    <2>2. v \in Nat /\ v \in Int
      BY <1>2, <1>3, <2>1, SomeMemories
    <2>3. \A t \in Sems : sems'[o][t] = IF t = "cs_sem" THEN v ELSE sems[o][t]
      BY <1>7, <2>1, <2>2, SomeMemories
    <2>4. /\ sems'[o]["full_sem"] = sems[o]["full_sem"]
          /\ sems'[o]["empty_sem"] = sems[o]["empty_sem"]
          /\ sems'[o]["cs_sem"] = sems[o]["cs_sem"] - 1
      BY <1>2, <2>3, SomeMemories
    <2>0. /\ ProdStep(p, "waitLock", "write")
          /\ "waitLock" \notin Locking /\ "write" \in Locking
          /\ "waitLock" \notin Filled /\ "write" \notin Filled
          /\ "waitLock" \in Filling /\ "write" \in Filling
      BY <1>10 DEF WaitLock, Locking, Filled, Filling
    <2>5. At(o, Filling)' = At(o, Filling) /\ At(o, Filled)' = At(o, Filled)
      BY <1>3, <1>4, <2>0, AtSame
    <2>6. At(o, Locking)' = At(o, Locking) \cup {p}
      BY <1>2, <1>3, <1>4, <2>0, AtEnters
    <2>7. LockAt(o)'
      <3>1. sems[o]["cs_sem"] = 1
        BY <1>3, <2>1, SomeMemories DEF LockAt
      <3>2. At(o, Locking) = {} /\ ~ Elab(o, Locked)
        BY <1>3, <3>1 DEF LockAt
      <3>. QED
        BY <1>8, <2>4, <2>6, <3>1, <3>2 DEF LockAt
    <2>8. CountAt(o)'
      BY <1>5, <2>4, <2>5
    <2>9. /\ sems[memory[p]]["cs_sem"] # Unset /\ ~ NotReady(memory[p])
          /\ sems[memory[p]]["empty_sem"] # Unset
      <3>1. sems[memory[p]]["cs_sem"] # Unset
        BY <1>2, <2>1 DEF Unset
      <3>. QED
        BY <1>3, <2>1, <3>1 DEF NotReady, SetUpInv
    <2>. HIDE DEF v
    <2>. QED
      BY <1>1, <1>2, <2>1, <2>2, <2>7, <2>8, <2>9, ProdSemStep, SomeMemories
  <1>11. CASE PostLock(p)
    <2>. DEFINE v == sems[memory[p]]["cs_sem"] + 1
    <2>1. /\ prodPc[p] = "postLock" /\ prodPc' = [prodPc EXCEPT ![p] = "postItem"]
          /\ sems' = [sems EXCEPT ![memory[p]]["cs_sem"] = v]
      BY <1>2, <1>3, <1>11, WaitPost, SomeMemories DEF PostLock, ProdStep
    <2>2. v \in Nat /\ v \in Int
      BY <1>2, <1>3, <2>1, SomeMemories
    <2>3. \A t \in Sems : sems'[o][t] = IF t = "cs_sem" THEN v ELSE sems[o][t]
      BY <1>7, <2>1, <2>2, SomeMemories
    <2>4. /\ sems'[o]["full_sem"] = sems[o]["full_sem"]
          /\ sems'[o]["empty_sem"] = sems[o]["empty_sem"]
          /\ sems'[o]["cs_sem"] = sems[o]["cs_sem"] + 1
      BY <1>2, <2>3, SomeMemories
    <2>0. /\ ProdStep(p, "postLock", "postItem")
          /\ "postLock" \in Locking /\ "postItem" \notin Locking
          /\ "postLock" \in Filled /\ "postItem" \in Filled
          /\ "postLock" \notin Filling /\ "postItem" \notin Filling
      BY <1>11 DEF PostLock, Locking, Filled, Filling
    <2>5. At(o, Filling)' = At(o, Filling) /\ At(o, Filled)' = At(o, Filled)
      BY <1>3, <1>4, <2>0, AtSame
    <2>6. At(o, Locking)' = At(o, Locking) \ {p}
      BY <1>2, <1>3, <1>4, <2>0, AtLeaves
    <2>7. LockAt(o)'
      <3>1. p \in At(o, Locking)
        BY <1>2, <2>1 DEF At, Locking
      <3>2. sems[o]["cs_sem"] = 0 /\ ~ Elab(o, Locked) /\ At(o, Locking) \ {p} = {}
        BY <1>3, <3>1 DEF LockAt
      <3>. QED
        BY <1>8, <2>4, <2>6, <3>2 DEF LockAt
    <2>8. CountAt(o)'
      BY <1>5, <2>4, <2>5
    <2>9. /\ sems[memory[p]]["cs_sem"] # Unset /\ ~ NotReady(memory[p])
          /\ sems[memory[p]]["empty_sem"] # Unset
      BY <1>2, <1>3, <2>1 DEF NotReady, SetUpInv
    <2>. HIDE DEF v
    <2>. QED
      BY <1>1, <1>2, <2>1, <2>2, <2>7, <2>8, <2>9, ProdSemStep, SomeMemories
  <1>12. CASE PostItem(p)
    <2>. DEFINE v == sems[memory[p]]["full_sem"] + 1
    <2>1. /\ prodPc[p] = "postItem" /\ prodPc' = [prodPc EXCEPT ![p] = "request"]
          /\ sems' = [sems EXCEPT ![memory[p]]["full_sem"] = v]
      BY <1>2, <1>3, <1>12, WaitPost, SomeMemories DEF PostItem, ProdStep
    <2>2. v \in Nat /\ v \in Int /\ sems[memory[p]]["full_sem"] # Unset
      BY <1>2, <1>3, <2>1, SomeMemories DEF Unset
    <2>3. \A t \in Sems : sems'[o][t] = IF t = "full_sem" THEN v ELSE sems[o][t]
      BY <1>7, <2>1, <2>2, SomeMemories
    <2>4. /\ sems'[o]["full_sem"] = sems[o]["full_sem"] + 1
          /\ sems'[o]["empty_sem"] = sems[o]["empty_sem"]
          /\ sems'[o]["cs_sem"] = sems[o]["cs_sem"]
      BY <1>2, <2>3, SomeMemories
    <2>0. /\ ProdStep(p, "postItem", "request")
          /\ "postItem" \notin Locking /\ "request" \notin Locking
          /\ "postItem" \in Filled /\ "request" \notin Filled
          /\ "postItem" \notin Filling /\ "request" \notin Filling
      BY <1>12 DEF PostItem, Locking, Filled, Filling
    <2>5. At(o, Filling)' = At(o, Filling) /\ At(o, Locking)' = At(o, Locking)
      BY <1>3, <1>4, <2>0, AtSame
    <2>6. Cardinality(At(o, Filled)') = Cardinality(At(o, Filled)) - 1
      BY <1>2, <1>3, <1>4, <2>0, AtLeaves
    <2>7. LockAt(o)'
      BY <1>3, <1>8, <2>4, <2>5 DEF LockAt
    <2>8. CountAt(o)'
      BY <1>3, <1>5, <1>6, <2>4, <2>5, <2>6, SomeMemories
    <2>9. "request" \notin {"waitLock", "write", "advance", "postLock", "postItem"}
      OBVIOUS
    <2>. HIDE DEF v
    <2>. QED
      BY <1>1, <1>2, <2>1, <2>2, <2>7, <2>8, <2>9, ProdSemStep, SomeMemories
  <1>. QED
    BY <1>9, <1>10, <1>11, <1>12

\* The cell that is written holds no input that is still to be taken.
LEMMA InvWriteCell ==
  ASSUME Inv, Types', NEW p \in Producers, WriteCell(p)
  PROVE  Inv'
  <1>1. /\ prodPc[p] = "write" /\ prodPc' = [prodPc EXCEPT ![p] = "advance"]
        /\ ProdStep(p, "write", "advance")
        /\ UNCHANGED <<elabPc, starts, input, name, sems, read_index, write_index, memory,
                       inputs, sent, received>>
        /\ memory' = memory
    BY DEF WriteCell, ProdStep, elaborator, names, history
  <1>2. PICK o : o = memory[p]
    OBVIOUS
  <1>3. /\ o \in Memories /\ Types /\ SetUpInv /\ LockAt(o) /\ CountAt(o) /\ WindowAt(o)
        /\ Held(o) \in Nat /\ ~ NotReady(o) /\ \A s \in Sems : sems[o][s] \in Nat
    BY <1>1, <1>2, InMemory
  <1>4. /\ buf' = [buf EXCEPT ![o][write_index[o]] = <<p, inputs[p]>>]
        /\ write_index[o] \in Cells
    BY <1>2, <1>3 DEF WriteCell, Types
  <1>5. /\ \A k \in Cells : buf'[o][k] = IF k = write_index[o] THEN <<p, inputs[p]>>
                                         ELSE buf[o][k]
        /\ \A m \in Memories \ {o} : buf'[m] = buf[m]
    BY <1>3, <1>4 DEF Types
  <1>6. \A q \in Producers : prodPc'[q] = IF q = p THEN "advance" ELSE prodPc[q]
    BY <1>1, <1>3 DEF Types
  <1>7. \A m \in Memories \ {o} : LockAt(m)' /\ CountAt(m)' /\ WindowAt(m)'
    <2>1. \A m \in Memories \ {memory[p]} : SameMemory(m)
      BY <1>1, <1>2, <1>5 DEF SameMemory
    <2>. QED
      BY <1>1, <1>2, <2>1, ProdOthers
  <1>8. At(o, Locking)' = At(o, Locking) /\ At(o, Filling)' = At(o, Filling)
        /\ At(o, Filled)' = At(o, Filled)
    BY <1>1, <1>6 DEF At, Locking, Filling, Filled
  <1>9. \A m, S : Elab(m, S)' <=> Elab(m, S)
    BY <1>1 DEF Elab
  <1>10. LockAt(o)'
    BY <1>1, <1>3, <1>8, <1>9 DEF LockAt
  <1>11. CountAt(o)'
    <2>1. Held(o)' = Held(o)
      BY <1>1 DEF Held
    <2>. QED
      BY <1>1, <1>3, <1>8, <1>9, <2>1 DEF CountAt
  <1>12. WindowAt(o)'
    <2>. DEFINE r == Len(received[o])  w == Len(sent[o])
    <2>1. r \in Nat /\ w \in Nat /\ r <= w
      BY <1>3 DEF Types, Held
    <2>2. w - r < BUFFER_SIZE
      <3>1. p \in At(o, Filling)
        BY <1>1, <1>2 DEF At, Filling
      <3>2. Cardinality(At(o, Filling)) >= 1
        <4>1. Cardinality(At(o, Filling)) \in Nat /\ IsFiniteSet(At(o, Filling))
          BY AtFinite
        <4>2. Cardinality(At(o, Filling)) # 0
          BY <3>1, <4>1, FS_EmptySet
        <4>. QED
          BY <4>1, <4>2
      <3>3. PICK x \in {0, 1}, y \in {0, 1} :
               sems[o]["empty_sem"] + Cardinality(At(o, Filling)) + y + Held(o) <= BUFFER_SIZE
        BY <1>1, <1>3, CountShape
      <3>4. Held(o) < BUFFER_SIZE
        BY <1>3, <3>2, <3>3, AtFinite, SomeMemories
      <3>. QED
        BY <3>4 DEF Held
    <2>3. ASSUME NEW i \in r + 1 .. w
          PROVE  buf'[o][(i - 1) % BUFFER_SIZE] = sent[o][i]
      <3>1. i - 1 \in Nat /\ i - 1 < w /\ w < (i - 1) + BUFFER_SIZE
        <4>. HIDE DEF r, w
        <4>. QED
          BY <2>1, <2>2, SomeMemories
      <3>2. (i - 1) % BUFFER_SIZE # w % BUFFER_SIZE
        BY <2>1, <3>1, ModDistinct, SomeMemories
      <3>3. (i - 1) % BUFFER_SIZE \in Cells
        BY <3>1, ModRange, SomeMemories DEF Cells
      <3>4. buf'[o][(i - 1) % BUFFER_SIZE] = buf[o][(i - 1) % BUFFER_SIZE]
        BY <1>3, <1>5, <3>2, <3>3 DEF WindowAt
      <3>. QED
        BY <1>3, <3>4 DEF WindowAt
    <2>. QED
      BY <1>1, <1>3, <2>3 DEF WindowAt
  <1>13. HandInv'
    <2>1. p \in At(o, Locking) /\ \A q \in At(o, Locking) : q = p
      BY <1>1, <1>2, <1>3 DEF LockAt, At, Locking
    <2>2. ASSUME NEW q \in Producers, prodPc'[q] = "advance"
          PROVE  buf'[memory'[q]][write_index'[memory'[q]]] = <<q, inputs'[q]>>
      <3>1. CASE q = p
        BY <1>1, <1>2, <1>4, <1>5, <3>1
      <3>2. CASE q # p
        <4>1. prodPc[q] = "advance" /\ memory[q] \in Memories
          BY <1>3, <1>6, <2>2, <3>2 DEF Types
        <4>2. memory[q] # o
          BY <2>1, <3>2, <4>1 DEF At, Locking
        <4>3. buf[memory[q]][write_index[memory[q]]] = <<q, inputs[q]>>
          BY <4>1 DEF Inv, CellInv, HandInv
        <4>4. buf'[memory[q]] = buf[memory[q]]
          BY <1>5, <4>1, <4>2
        <4>5. memory' = memory /\ write_index' = write_index /\ inputs' = inputs
          BY <1>1
        <4>. QED
          BY <4>3, <4>4, <4>5
      <3>. QED
        BY <3>1, <3>2
    <2>3. ASSUME elabPc' = "advance"
          PROVE  input' = buf'[starts'][read_index'[starts']]
      <3>1. elabPc = "advance"
        BY <1>1, <2>3
      <3>2. starts \in Memories /\ starts # o
        <4>1. starts = o => Elab(o, Locked)
          BY <3>1 DEF Elab, Locked
        <4>. QED
          BY <1>3, <2>1, <3>1, <4>1, StartsMemory DEF LockAt
      <3>. QED
        BY <1>1, <1>5, <3>1, <3>2 DEF Inv, CellInv, HandInv
    <2>. QED
      BY <2>2, <2>3 DEF HandInv
  <1>14. SetUpInv'
    <2>1. \A q \in Producers :
             /\ prodPc'[q] \in {"waitLock", "write", "advance", "postLock", "postItem"} =>
                   sems[memory'[q]]["empty_sem"] # Unset
             /\ prodPc'[q] \in {"write", "advance", "postLock", "postItem"} =>
                   ~ NotReady(memory'[q])
      BY <1>1, <1>3, <1>6 DEF SetUpInv
    <2>. QED
      BY <1>1, <1>3, <2>1, ReadyKept
  <1>15. InOrder'
    BY <1>1 DEF Inv, InOrder
  <1>. QED
    BY <1>7, <1>10, <1>11, <1>12, <1>13, <1>14, <1>15 DEF Inv, LockInv, CountInv, CellInv

\* The input counts as put there: it is the newest of those in the buffer.
LEMMA InvAdvanceWrite ==
  ASSUME Inv, Types', NEW p \in Producers, AdvanceWrite(p)
  PROVE  Inv'
  <1>1. /\ prodPc[p] = "advance" /\ prodPc' = [prodPc EXCEPT ![p] = "postLock"]
        /\ ProdStep(p, "advance", "postLock")
        /\ UNCHANGED <<elabPc, starts, input, name, sems, buf, read_index, memory, inputs,
                       received>>
        /\ memory' = memory
    BY DEF AdvanceWrite, ProdStep, elaborator, names
  <1>2. PICK o : o = memory[p]
    OBVIOUS
  <1>3. /\ o \in Memories /\ Types /\ SetUpInv /\ LockAt(o) /\ CountAt(o) /\ WindowAt(o)
        /\ Held(o) \in Nat /\ ~ NotReady(o) /\ \A s \in Sems : sems[o][s] \in Nat
    BY <1>1, <1>2, InMemory
  <1>. DEFINE w == Len(sent[o])  new == <<p, inputs[p]>>
  <1>4. new \in Inputs /\ sent[o] \in Seq(Inputs) /\ w \in Nat /\ Len(received[o]) \in Nat
        /\ write_index[o] \in 0 .. BUFFER_SIZE - 1 /\ received[o] \in Seq(Inputs)
    BY <1>3, SomeMemories DEF Types, Cells
  <1>5. /\ sent'[o] = Append(sent[o], new)
        /\ write_index'[o] = IF write_index[o] + 1 = BUFFER_SIZE THEN 0 ELSE write_index[o] + 1
        /\ \A m \in Memories \ {o} : sent'[m] = sent[m] /\ write_index'[m] = write_index[m]
    BY <1>2, <1>3 DEF AdvanceWrite, Types
  <1>6. Len(sent'[o]) = w + 1 /\ sent'[o][w + 1] = new
        /\ \A i \in 1 .. w : sent'[o][i] = sent[o][i]
    BY <1>4, <1>5
  <1>7. \A q \in Producers : prodPc'[q] = IF q = p THEN "postLock" ELSE prodPc[q]
    BY <1>1, <1>3 DEF Types
  <1>8. \A m \in Memories \ {o} : LockAt(m)' /\ CountAt(m)' /\ WindowAt(m)'
    <2>1. \A m \in Memories \ {memory[p]} : SameMemory(m)
      BY <1>1, <1>2, <1>5 DEF SameMemory
    <2>. QED
      BY <1>1, <1>2, <2>1, ProdOthers
  <1>9. At(o, Locking)' = At(o, Locking)
    BY <1>1, <1>7 DEF At, Locking
  <1>10. \A m, S : Elab(m, S)' <=> Elab(m, S)
    BY <1>1 DEF Elab
  <1>11. LockAt(o)'
    BY <1>1, <1>3, <1>9, <1>10 DEF LockAt
  <1>12. CountAt(o)'
    <2>1. "advance" \in Filling /\ "postLock" \notin Filling
          /\ "advance" \notin Filled /\ "postLock" \in Filled
      BY DEF Filling, Filled
    <2>2. /\ Cardinality(At(o, Filling)') = Cardinality(At(o, Filling)) - 1
          /\ Cardinality(At(o, Filled)') = Cardinality(At(o, Filled)) + 1
      BY <1>1, <1>2, <1>3, <2>1, AtLeaves, AtEnters
    <2>3. Held(o)' = Held(o) + 1
      <3>1. Len(sent'[o]) = Len(sent[o]) + 1 /\ received' = received
        BY <1>1, <1>6
      <3>. QED
        BY <1>4, <3>1 DEF Held
    <2>4. UNCHANGED <<starts, elabPc>> /\ sems' = sems
      BY <1>1
    <2>5. PICK x \in {0, 1}, y \in {0, 1} :
             /\ sems[o]["full_sem"] + Cardinality(At(o, Filled)) + x <= Held(o)
             /\ sems[o]["empty_sem"] + Cardinality(At(o, Filling)) + y + Held(o) <= BUFFER_SIZE
             /\ /\ Held(o)' >= 0
                /\ sems'[o]["full_sem"] + Cardinality(At(o, Filled)') + x <= Held(o)'
                /\ sems'[o]["empty_sem"] + Cardinality(At(o, Filling)') + y + Held(o)'
                      <= BUFFER_SIZE
                => CountAt(o)'
      BY <1>3, <2>4, CountShape
    <2>6. Cardinality(At(o, Filled)) \in Nat /\ Cardinality(At(o, Filling)) \in Nat
      BY AtFinite
    <2>7. sems[o]["full_sem"] \in Nat /\ sems[o]["empty_sem"] \in Nat /\ Held(o) \in Nat
      BY <1>3, SomeMemories
    <2>. QED
      BY <2>2, <2>3, <2>4, <2>5, <2>6, <2>7, SomeMemories
  <1>13. WindowAt(o)'
    <2>1. write_index'[o] = (w + 1) % BUFFER_SIZE
      <3>1. write_index[o] = w % BUFFER_SIZE
        BY <1>3 DEF WindowAt
      <3>2. write_index'[o] = (write_index[o] + 1) % BUFFER_SIZE
        BY <1>4, <1>5, NextCell
      <3>. QED
        BY <1>4, <3>1, <3>2, ModSucc, SomeMemories
    <2>2. ASSUME NEW i \in Len(received[o]) + 1 .. w + 1
          PROVE  buf[o][(i - 1) % BUFFER_SIZE] = sent'[o][i]
      <3>1. CASE i = w + 1
        <4>1. buf[o][write_index[o]] = new
          BY <1>1, <1>2 DEF Inv, CellInv, HandInv
        <4>2. (i - 1) = w
          BY <1>4, <3>1
        <4>. QED
          BY <1>3, <1>6, <3>1, <4>1, <4>2 DEF WindowAt
      <3>2. CASE i # w + 1
        <4>1. i \in Len(received[o]) + 1 .. w /\ i \in 1 .. w
          <5>1. w \in Nat /\ Len(received[o]) \in Nat
            BY <1>4
          <5>. HIDE DEF w
          <5>. QED
            BY <3>2, <5>1
        <4>. QED
          BY <1>3, <1>6, <4>1 DEF WindowAt
      <3>. QED
        BY <3>1, <3>2
    <2>. QED
      BY <1>1, <1>3, <1>6, <2>1, <2>2 DEF WindowAt
  <1>14. HandInv'
    <2>1. p \in At(o, Locking) /\ \A q \in At(o, Locking) : q = p
      BY <1>1, <1>2, <1>3 DEF LockAt, At, Locking
    <2>2. ASSUME NEW q \in Producers, prodPc'[q] = "advance"
          PROVE  buf'[memory'[q]][write_index'[memory'[q]]] = <<q, inputs'[q]>>
      <3>1. q # p /\ prodPc[q] = "advance" /\ memory[q] \in Memories
        BY <1>3, <1>7, <2>2 DEF Types
      <3>2. memory[q] # o
        BY <2>1, <3>1 DEF At, Locking
      <3>. QED
        BY <1>1, <1>5, <3>1, <3>2 DEF Inv, CellInv, HandInv
    <2>3. elabPc' = "advance" => input' = buf'[starts'][read_index'[starts']]
      BY <1>1 DEF Inv, CellInv, HandInv
    <2>. QED
      BY <2>2, <2>3 DEF HandInv
  <1>15. SetUpInv'
    <2>1. \A q \in Producers :
             /\ prodPc'[q] \in {"waitLock", "write", "advance", "postLock", "postItem"} =>
                   sems[memory'[q]]["empty_sem"] # Unset
             /\ prodPc'[q] \in {"write", "advance", "postLock", "postItem"} =>
                   ~ NotReady(memory'[q])
      BY <1>1, <1>3, <1>7 DEF SetUpInv
    <2>2. \A m \in Memories : NotReady(m) =>
             /\ sent'[m] = sent[m] /\ received'[m] = received[m]
             /\ read_index'[m] = read_index[m] /\ write_index'[m] = write_index[m]
      BY <1>1, <1>3, <1>5
    <2>. QED
      BY <1>1, <1>3, <2>1, <2>2, ReadyKept
  <1>16. InOrder'
    <2>1. ASSUME NEW m \in Memories
          PROVE  /\ Len(received'[m]) <= Len(sent'[m])
                 /\ \A k \in 1 .. Len(received'[m]) : received'[m][k] = sent'[m][k]
      <3>1. CASE m # o
        BY <1>1, <1>5, <3>1 DEF Inv, InOrder
      <3>2. CASE m = o
        <4>1. Len(received[o]) <= w
              /\ \A k \in 1 .. Len(received[o]) : received[o][k] = sent[o][k]
          BY <1>3 DEF Inv, InOrder
        <4>2. \A k \in 1 .. Len(received[o]) : sent'[o][k] = sent[o][k]
          BY <1>4, <1>6, <4>1
        <4>. QED
          BY <1>1, <1>4, <1>6, <3>2, <4>1, <4>2
      <3>. QED
        BY <3>1, <3>2
    <2>. QED
      BY <2>1 DEF InOrder
  <1>. QED
    BY <1>8, <1>11, <1>12, <1>13, <1>14, <1>15, <1>16 DEF Inv, LockInv, CountInv, CellInv

-----------------------------------------------------------------------------
(* The theorems *)

LEMMA InvStep == Inv /\ [Next]_vars => Inv'
  <1>1. SUFFICES ASSUME Inv, [Next]_vars PROVE Inv'
    OBVIOUS
  <1>2. Types /\ SetUpInv
    BY <1>1 DEF Inv
  <1>3. CASE Start \/ ElabNext \/ Interrupt \/ ElabKilled
    <2>1. Types'
      BY <1>2, <1>3, TypesElab
    <2>. QED
      BY <1>1, <1>3, <2>1, InvElabOutside, InvClear, InvOpenSemaphores, InvElabSems,
         InvReadCell, InvAdvanceRead DEF ElabNext, InitMemory, Consume
  <1>4. ASSUME NEW p \in Producers, OpenMemory(p) \/ ProdNext(p) \/ UseTooEarly(p)
        PROVE  Inv'
    <2>1. Types'
      BY <1>2, <1>4, TypesProd
    <2>. QED
      BY <1>1, <1>4, <2>1, InvProdAlone, InvProdSems, InvWriteCell, InvAdvanceWrite
         DEF ProdNext, Request
  <1>5. CASE UNCHANGED vars
    <2>. USE DEF vars, elaborator, names, buffer, producers, history
    <2>1. Types' /\ SetUpInv'
      BY <1>2, <1>5 DEF Types, SetUpInv, NotReady, Fresh
    <2>2. (\A o, S : At(o, S)' = At(o, S)) /\ (\A o, S : Elab(o, S)' <=> Elab(o, S))
      BY <1>5 DEF At, Elab
    <2>3. LockInv' /\ CountInv'
      <3>1. \A o : Held(o)' = Held(o)
        BY <1>5 DEF Held
      <3>2. LockInv'
        BY <1>1, <1>5, <2>2 DEF Inv, LockInv, LockAt
      <3>3. CountInv'
        BY <1>1, <1>5, <2>2, <3>1 DEF Inv, CountInv, CountAt
      <3>. QED
        BY <3>2, <3>3
    <2>4. CellInv' /\ InOrder'
      BY <1>1, <1>5 DEF Inv, CellInv, WindowAt, HandInv, InOrder
    <2>. QED
      BY <2>1, <2>3, <2>4 DEF Inv
  <1>. QED
    BY <1>1, <1>3, <1>4, <1>5 DEF Next

\* consume takes the inputs of a memory in the order in which the producers put them
\* there and each once: no cell is written that has not been read, none is read that has
\* not been written, for every number of producers, cells and starts, and wherever the
\* elaborator is interrupted or killed.
THEOREM InputsInOrder == Spec => []InOrder
  <1>1. Inv => InOrder
    BY DEF Inv
  <1>. QED
    BY <1>1, InvInit, InvStep, PTL DEF Spec

LEMMA NameInit == Init => NameInv
  BY ElaboratorAssumption DEF Init, NameInv, RestartSucceeds

LEMMA NameStep == NameInv /\ Types /\ [Next]_vars => NameInv'
  <1>1. SUFFICES ASSUME NameInv, Types, [Next]_vars PROVE NameInv'
    OBVIOUS
  <1>. USE DEF NameInv, RestartSucceeds
  <1>2. CASE Start
    BY <1>1, <1>2 DEF Start, names, history
  <1>3. CASE UnlinkOld
    BY <1>1, <1>3 DEF UnlinkOld, ElabStep, history, Ended
  <1>4. CASE CreateMemory
    BY <1>1, <1>4 DEF CreateMemory, ElabStep, history, Ended
  <1>5. CASE Truncate
    BY <1>1, <1>5 DEF Truncate, ElabStep, Ended
  <1>6. CASE ClearMemory
    BY <1>1, <1>6 DEF ClearMemory, ElabStep, names, history, Ended
  <1>7. CASE OpenSemaphores
    BY <1>1, <1>7 DEF OpenSemaphores, InitSem, ElabStep, names, history, Ended
  <1>8. CASE Consume
    BY <1>1, <1>8
       DEF Consume, WaitItem, ElabWaitLock, ReadCell, AdvanceRead, ElabPostLock, PostSpace,
           ElabStep, names, history, Ended
  <1>9. CASE UnlinkMemory
    BY <1>1, <1>9 DEF UnlinkMemory, ElabStep, history, Ended
  <1>10. CASE Interrupt
    BY <1>1, <1>10 DEF Interrupt, names, history, Ended
  <1>11. CASE ElabKilled
    BY <1>1, <1>11 DEF ElabKilled, names, Ended
  <1>12. ASSUME NEW p \in Producers, OpenMemory(p) \/ ProdNext(p) \/ UseTooEarly(p)
         PROVE  NameInv'
    <2>1. UNCHANGED <<elabPc, name, unclean>>
      BY <1>12
         DEF OpenMemory, ProdNext, Request, Generate, WaitSpace, WaitLock, WriteCell,
             AdvanceWrite, PostLock, PostItem, CloseSemaphores, UseTooEarly, elaborator,
             names, history
    <2>. QED
      BY <1>1, <2>1
  <1>13. CASE UNCHANGED vars
    BY <1>1, <1>13 DEF vars, elaborator, names, history
  <1>. QED
    BY <1>1, <1>2, <1>3, <1>4, <1>5, <1>6, <1>7, <1>8, <1>9, <1>10, <1>11, <1>12, <1>13
       DEF Next, ElabNext, InitMemory

\* shm_open with O_EXCL refuses the name to an elaborator only where an earlier one was
\* killed or has ended by an error: sigintHandler leaves no name wherever it strikes.
THEOREM NameFree == Spec => []RestartSucceeds
  <1>1. NameInv => RestartSucceeds
    BY DEF NameInv
  <1>2. Inv => Types
    BY DEF Inv
  <1>. QED
    BY <1>1, <1>2, InvInit, InvStep, NameInit, NameStep, PTL DEF Spec

-----------------------------------------------------------------------------
(* Nobody waits for ever: the invariant.  With nobody early, the units of the   *)
(* semaphores are all there.                                                    *)

\* A memory that is set up has its size, and a producer that has opened none goes no
\* further.
SizedInv ==
  /\ \A o \in Memories : ~ NotReady(o) => o \in sized
  /\ elabPc \in {"clear", "initEmpty", "initFull", "initCs"} => starts \in sized
  /\ \A p \in Producers : prodPc[p] \in {"down", "noMemory"} => memory[p] = 0

\* Who has a unit of the two semaphores that count cells.
HasCell == {"waitLock", "write", "advance", "postLock", "postItem"}
HasUnit == {"waitLock", "read", "advance", "postLock", "postSpace"}

\* Every unit is in a semaphore or in somebody's hand, and so is the lock.
AllThere(o) ==
  /\ sems[o]["empty_sem"] + sems[o]["full_sem"] + Cardinality(At(o, HasCell))
       + (IF Elab(o, HasUnit) THEN 1 ELSE 0) = BUFFER_SIZE
  /\ sems[o]["cs_sem"] = 0 => At(o, Locking) # {} \/ Elab(o, Locked)

\* While nobody has come early, all memories that are open are set up, and the
\* elaborator's has lost no unit.
OnTimeInv ==
  early = {} =>
     /\ \A p \in Producers : memory[p] # 0 => ~ NotReady(memory[p])
     /\ \A p \in Producers : prodPc[p] # "killed"
     /\ elabPc \in {"initFull", "initCs"} => sems[starts]["empty_sem"] = BUFFER_SIZE
     /\ elabPc = "initCs" => sems[starts]["full_sem"] = 0
     /\ elabPc \in Looping => AllThere(starts)

LEMMA OnTimeInit == Init => SizedInv /\ OnTimeInv
  BY SomeMemories DEF Init, SizedInv, OnTimeInv, NotReady, NotInit, Unset, Looping

\* mmap and memset find the zeros of a memory that is new.
LEMMA ClearKeeps ==
  ASSUME Inv, Types', ClearMemory
  PROVE  sems' = sems
  <1>1. name = starts /\ starts \in Memories /\ Fresh(starts)
    BY StartsMemory DEF ClearMemory, ElabStep, Inv, SetUpInv
  <1>2. sems' \in [Memories -> [Sems -> Int]] /\ sems \in [Memories -> [Sems -> Int]]
    BY DEF Inv, Types
  <1>3. \A m \in Memories, s \in Sems : sems'[m][s] = sems[m][s]
    BY <1>1, <1>2 DEF ClearMemory, Fresh, NotInit
  <1>4. \A m \in Memories : sems'[m] = sems[m]
    BY <1>2, <1>3
  <1>. QED
    BY <1>2, <1>4

\* Waits and posts of semaphores that are set up leave them set up.
LEMMA SemKeepsReady ==
  ASSUME Types, NEW o \in Memories, NEW s \in Sems,
         Wait(o, s) \/ (Post(o, s) /\ sems[o][s] >= 0)
  PROVE  \A m \in Memories : NotReady(m)' <=> NotReady(m)
  <1>1. PICK v \in Int : sems' = [sems EXCEPT ![o][s] = v] /\ v >= 0 /\ sems[o][s] >= 0
    <2>1. sems[o][s] \in Int
      BY WaitPost
    <2>2. CASE Wait(o, s)
      BY <2>1, <2>2, WaitPost, sems[o][s] - 1 \in Int
    <2>3. CASE Post(o, s) /\ sems[o][s] >= 0
      BY <2>1, <2>3, WaitPost, sems[o][s] + 1 \in Int
    <2>. QED
      BY <2>2, <2>3
  <1>2. \A m \in Memories, t \in Sems :
           sems'[m][t] = IF m = o /\ t = s THEN v ELSE sems[m][t]
    BY <1>1, SemSet
  <1>. QED
    BY <1>1, <1>2, SomeMemories DEF NotReady, Unset

\* Only sem_init makes a memory ready, and nothing takes that back.
LEMMA OnlyInit ==
  ASSUME Inv, Types', [Next]_vars, ~ OpenSemaphores
  PROVE  \A m \in Memories : NotReady(m)' <=> NotReady(m)
  <1>1. CASE sems' = sems
    BY <1>1 DEF NotReady
  <1>2. CASE WaitItem \/ ElabWaitLock \/ ElabPostLock \/ PostSpace
    <2>1. elabPc \in Looping
      BY <1>2 DEF WaitItem, ElabWaitLock, ElabPostLock, PostSpace, ElabStep, Looping
    <2>2. starts \in Memories /\ Types /\ \A s \in Sems : sems[starts][s] \in Nat
      BY <2>1, InLoop
    <2>3. PICK s \in Sems : Wait(starts, s) \/ Post(starts, s)
      BY <1>2, SomeMemories DEF WaitItem, ElabWaitLock, ElabPostLock, PostSpace
    <2>4. sems[starts][s] >= 0
      BY <2>2
    <2>. QED
      BY <2>2, <2>3, <2>4, SemKeepsReady
  <1>3. ASSUME NEW p \in Producers, WaitSpace(p) \/ WaitLock(p) \/ PostLock(p) \/ PostItem(p)
        PROVE  \A m \in Memories : NotReady(m)' <=> NotReady(m)
    <2>1. prodPc[p] \in {"waitSpace", "waitLock", "postLock", "postItem"}
      BY <1>3 DEF WaitSpace, WaitLock, PostLock, PostItem, ProdStep
    <2>2. memory[p] \in Memories /\ Types
      BY <2>1, InMemory
    <2>3. CASE WaitSpace(p) \/ WaitLock(p)
      <3>1. PICK s \in Sems : Wait(memory[p], s)
        BY <2>3, SomeMemories DEF WaitSpace, WaitLock
      <3>. QED
        BY <2>2, <3>1, SemKeepsReady
    <2>4. CASE PostLock(p) \/ PostItem(p)
      <3>1. PICK s \in Sems : Post(memory[p], s)
        BY <2>4, SomeMemories DEF PostLock, PostItem
      <3>2. prodPc[p] \in {"postLock", "postItem"}
        BY <2>4 DEF PostLock, PostItem, ProdStep
      <3>3. sems[memory[p]][s] \in Nat
        BY <2>1, <3>2, InMemory
      <3>. QED
        BY <2>2, <3>1, <3>3, SemKeepsReady
    <2>. QED
      BY <1>3, <2>3, <2>4
  <1>4. CASE ClearMemory
    BY <1>1, <1>4, ClearKeeps
  <1>5. CASE \/ Start \/ UnlinkOld \/ CreateMemory \/ Truncate \/ UnlinkMemory \/ Interrupt
             \/ ElabKilled \/ ReadCell \/ AdvanceRead \/ UNCHANGED vars
    BY <1>1, <1>5
       DEF Start, UnlinkOld, CreateMemory, Truncate, UnlinkMemory, Interrupt, ElabKilled,
           ReadCell, AdvanceRead, vars
  <1>6. ASSUME NEW p \in Producers,
               \/ OpenMemory(p) \/ Generate(p) \/ WriteCell(p) \/ AdvanceWrite(p)
               \/ CloseSemaphores(p) \/ UseTooEarly(p)
        PROVE  sems' = sems
    BY <1>6 DEF OpenMemory, Generate, WriteCell, AdvanceWrite, CloseSemaphores, UseTooEarly
  <1>. QED
    BY <1>1, <1>2, <1>3, <1>4, <1>5, <1>6
       DEF Next, ElabNext, InitMemory, Consume, ProdNext, Request

LEMMA SizedStep == Inv /\ Types' /\ SizedInv /\ [Next]_vars => SizedInv'
  <1>1. SUFFICES ASSUME Inv, Types', SizedInv, [Next]_vars PROVE SizedInv'
    OBVIOUS
  <1>2. SetUpInv /\ Types
    BY <1>1 DEF Inv
  <1>3. sized \subseteq sized'
    BY <1>1
       DEF Next, Start, ElabNext, InitMemory, UnlinkOld, CreateMemory, Truncate, ClearMemory,
           OpenSemaphores, InitSem, Consume, WaitItem, ElabWaitLock, ReadCell, AdvanceRead,
           ElabPostLock, PostSpace, UnlinkMemory, Interrupt, ElabKilled, OpenMemory, ProdNext,
           Request, Generate, WaitSpace, WaitLock, WriteCell, AdvanceWrite, PostLock, PostItem,
           CloseSemaphores, UseTooEarly, names, vars
  <1>4. \A o \in Memories : ~ NotReady(o)' => o \in sized'
    <2>1. CASE OpenSemaphores
      <3>1. PICK s \in Sems, n \in Int, from \in {"initEmpty", "initFull", "initCs"},
                 to \in {"initFull", "initCs", "waitItem"} : InitSem(from, to, s, n)
        BY <2>1, SomeMemories DEF OpenSemaphores
      <3>2. starts \in Memories /\ starts \in sized
        BY <1>1, <1>2, <3>1, StartsMemory DEF InitSem, ElabStep, SizedInv
      <3>3. \A o \in Memories \ {starts} : sems'[o] = sems[o]
        BY <1>2, <3>1, <3>2, SemSet DEF InitSem
      <3>. QED
        BY <1>1, <1>3, <3>2, <3>3 DEF SizedInv, NotReady
    <2>2. CASE ~ OpenSemaphores
      BY <1>1, <1>3, <2>2, OnlyInit DEF SizedInv
    <2>. QED
      BY <2>1, <2>2
  <1>5. elabPc' \in {"clear", "initEmpty", "initFull", "initCs"} => starts' \in sized'
    <2>1. SUFFICES ASSUME elabPc' \in {"clear", "initEmpty", "initFull", "initCs"}
                   PROVE  starts' \in sized'
      OBVIOUS
    <2>2. CASE Truncate
      BY <1>2, <2>1, <2>2 DEF Truncate, ElabStep, SetUpInv
    <2>3. ASSUME ~ Truncate
          PROVE  elabPc \in {"clear", "initEmpty", "initFull", "initCs"} /\ starts' = starts
      BY <1>1, <2>1, <2>3
         DEF Next, Start, ElabNext, InitMemory, UnlinkOld, CreateMemory, ClearMemory,
             OpenSemaphores, InitSem, Consume, WaitItem, ElabWaitLock, ReadCell, AdvanceRead,
             ElabPostLock, PostSpace, UnlinkMemory, Interrupt, ElabKilled, OpenMemory,
             ProdNext, Request, Generate, WaitSpace, WaitLock, WriteCell, AdvanceWrite,
             PostLock, PostItem, CloseSemaphores, UseTooEarly, ElabStep, elaborator, vars
    <2>. QED
      BY <1>1, <1>3, <2>2, <2>3 DEF SizedInv
  <1>6. \A q \in Producers : prodPc'[q] \in {"down", "noMemory"} => memory'[q] = 0
    <2>1. CASE Start \/ ElabNext \/ Interrupt \/ ElabKilled \/ UNCHANGED vars
      <3>1. prodPc' = prodPc /\ memory' = memory
        BY <2>1
           DEF Start, ElabNext, InitMemory, UnlinkOld, CreateMemory, Truncate, ClearMemory,
               OpenSemaphores, InitSem, Consume, WaitItem, ElabWaitLock, ReadCell,
               AdvanceRead, ElabPostLock, PostSpace, UnlinkMemory, Interrupt, ElabKilled,
               producers, vars
      <3>. QED
        BY <1>1, <3>1 DEF SizedInv
    <2>2. ASSUME NEW p \in Producers, OpenMemory(p)
          PROVE  \A q \in Producers : prodPc'[q] \in {"down", "noMemory"} => memory'[q] = 0
      <3>1. \A q \in Producers \ {p} : prodPc'[q] = prodPc[q] /\ memory'[q] = memory[q]
        BY <1>2, <2>2 DEF OpenMemory, ProdStep, Types
      <3>2. prodPc'[p] \in {"down", "noMemory"} => memory'[p] = 0
        BY <1>2, <2>2 DEF OpenMemory, ProdStep, Types
      <3>. QED
        BY <1>1, <3>1, <3>2 DEF SizedInv
    <2>3. ASSUME NEW p \in Producers, ProdNext(p) \/ UseTooEarly(p)
          PROVE  \A q \in Producers : prodPc'[q] \in {"down", "noMemory"} => memory'[q] = 0
      <3>1. PICK to : prodPc' = [prodPc EXCEPT ![p] = to] /\ memory' = memory
                      /\ to \notin {"down", "noMemory"}
        <4>1. CASE CloseSemaphores(p)
          BY <4>1, "failed" \notin {"down", "noMemory"}, "done" \notin {"down", "noMemory"}
             DEF CloseSemaphores, ProdStep
        <4>2. CASE UseTooEarly(p)
          BY <4>2, "killed" \notin {"down", "noMemory"} DEF UseTooEarly
        <4>3. CASE Request(p)
          <5>1. PICK from, to \in {"waitSpace", "waitLock", "write", "advance", "postLock",
                                   "postItem", "request"} :
                   ProdStep(p, from, to) /\ memory' = memory
            BY <4>3
               DEF Request, Generate, WaitSpace, WaitLock, WriteCell, AdvanceWrite,
                   PostLock, PostItem
          <5>2. to \notin {"down", "noMemory"}
            OBVIOUS
          <5>. QED
            BY <5>1, <5>2 DEF ProdStep
        <4>. QED
          BY <2>3, <4>1, <4>2, <4>3 DEF ProdNext
      <3>2. \A q \in Producers : prodPc'[q] = IF q = p THEN to ELSE prodPc[q]
        BY <1>2, <3>1 DEF Types
      <3>. QED
        BY <1>1, <3>1, <3>2 DEF SizedInv
    <2>. QED
      BY <1>1, <2>1, <2>2, <2>3 DEF Next
  <1>. QED
    BY <1>4, <1>5, <1>6 DEF SizedInv

-----------------------------------------------------------------------------
(* The units are all there after every step *)

\* A step that leaves the semaphores, the producers that are counted and the elaborator's
\* hand alone.
LEMMA OnTimeSame ==
  ASSUME OnTimeInv, early' = {} => early = {}, sems' = sems, starts' = starts,
         \A q \in Producers : memory'[q] # 0 => ~ NotReady(memory'[q]) \/ early' # {},
         \A q \in Producers : prodPc'[q] # "killed" \/ early' # {},
         At(starts, HasCell)' = At(starts, HasCell), At(starts, Locking)' = At(starts, Locking),
         elabPc' \in {"initFull", "initCs"} => elabPc' = elabPc,
         elabPc' \in Looping =>
            elabPc \in Looping /\ (Elab(starts, HasUnit)' <=> Elab(starts, HasUnit))
              /\ (Elab(starts, Locked)' <=> Elab(starts, Locked))
  PROVE  OnTimeInv'
  <1>1. SUFFICES ASSUME early' = {} PROVE OnTimeInv'
    BY DEF OnTimeInv
  <1>2. \A q \in Producers : memory'[q] # 0 => ~ NotReady(memory[q])'
    BY <1>1 DEF NotReady
  <1>3. elabPc' \in Looping => AllThere(starts)'
    BY <1>1 DEF OnTimeInv, AllThere
  <1>. QED
    BY <1>1, <1>2, <1>3 DEF OnTimeInv

\* The elaborator outside its loop.
LEMMA OnTimeOutside ==
  ASSUME OnTimeInv, UNCHANGED <<sems, memory, prodPc, early>>,
         elabPc' \notin Looping \cup {"initFull", "initCs"}
  PROVE  OnTimeInv'
  BY DEF OnTimeInv, NotReady

LEMMA OnTimeOpenSemaphores ==
  ASSUME Inv, Types', OnTimeInv, OpenSemaphores
  PROVE  OnTimeInv'
  <1>1. SUFFICES ASSUME early' = {} PROVE OnTimeInv'
    BY DEF OnTimeInv
  <1>2. UNCHANGED <<starts, memory, prodPc, early>> /\ Types /\ SetUpInv
    BY DEF OpenSemaphores, InitSem, producers, history, Inv
  <1>3. PICK o : o = starts
    OBVIOUS
  <1>4. elabPc \in {"initEmpty", "initFull", "initCs"} /\ o \in Memories
    BY <1>2, <1>3, StartsMemory DEF OpenSemaphores, InitSem, ElabStep
  <1>5. NotReady(o)
    BY <1>2, <1>3, <1>4, SomeMemories DEF SetUpInv, Fresh, NotReady
  <1>6. \A p \in Producers : memory[p] # 0 => memory[p] # o /\ ~ NotReady(memory[p])
    BY <1>1, <1>2, <1>5 DEF OnTimeInv
  <1>7. PICK s \in Sems, n \in Int : sems' = [sems EXCEPT ![o][s] = n]
    BY <1>3, SomeMemories DEF OpenSemaphores, InitSem
  <1>8. /\ \A m \in Memories, t \in Sems :
              sems'[m][t] = IF m = o /\ t = s THEN n ELSE sems[m][t]
        /\ \A m \in Memories \ {o} : sems'[m] = sems[m]
    BY <1>2, <1>4, <1>7, SemSet
  <1>9. \A p \in Producers : memory'[p] # 0 => ~ NotReady(memory[p])'
    <2>1. \A p \in Producers : memory[p] \in {0} \cup Memories
      BY <1>2 DEF Types
    <2>2. \A p \in Producers : memory[p] # 0 => sems'[memory[p]] = sems[memory[p]]
      BY <1>6, <1>8, <2>1
    <2>. QED
      BY <1>2, <1>6, <2>2 DEF NotReady
  <1>10. \A p \in Producers : prodPc'[p] # "killed"
    BY <1>1, <1>2 DEF OnTimeInv
  <1>11. CASE InitSem("initEmpty", "initFull", "empty_sem", BUFFER_SIZE)
    <2>1. sems'[o]["empty_sem"] = BUFFER_SIZE
      BY <1>2, <1>3, <1>4, <1>11, SomeMemories DEF InitSem, Types
    <2>. QED
      BY <1>2, <1>3, <1>9, <1>10, <1>11, <2>1 DEF InitSem, ElabStep, OnTimeInv, Looping
  <1>12. CASE InitSem("initFull", "initCs", "full_sem", 0)
    <2>1. sems'[o]["full_sem"] = 0 /\ sems'[o]["empty_sem"] = sems[o]["empty_sem"]
      BY <1>2, <1>3, <1>4, <1>12, SomeMemories DEF InitSem, Types
    <2>2. sems[o]["empty_sem"] = BUFFER_SIZE
      BY <1>1, <1>2, <1>3, <1>12 DEF InitSem, ElabStep, OnTimeInv
    <2>. QED
      BY <1>2, <1>3, <1>9, <1>10, <1>12, <2>1, <2>2 DEF InitSem, ElabStep, OnTimeInv, Looping
  <1>13. CASE InitSem("initCs", "waitItem", "cs_sem", 1)
    <2>1. /\ sems'[o]["cs_sem"] = 1 /\ sems'[o]["full_sem"] = sems[o]["full_sem"]
          /\ sems'[o]["empty_sem"] = sems[o]["empty_sem"]
      BY <1>2, <1>3, <1>4, <1>13, SomeMemories DEF InitSem, Types
    <2>2. sems[o]["empty_sem"] = BUFFER_SIZE /\ sems[o]["full_sem"] = 0
      BY <1>1, <1>2, <1>3, <1>13 DEF InitSem, ElabStep, OnTimeInv
    <2>3. At(o, HasCell)' = {}
      BY <1>2, <1>4, <1>6, SomeMemories DEF At
    <2>4. Cardinality(At(o, HasCell)') = 0
      BY <2>3, FS_EmptySet
    <2>5. elabPc' = "waitItem" /\ ~ Elab(o, HasUnit)'
      BY <1>13 DEF InitSem, ElabStep, Elab, HasUnit
    <2>6. AllThere(o)'
      BY <2>1, <2>2, <2>4, <2>5, SomeMemories DEF AllThere
    <2>7. AllThere(starts)'
      BY <1>2, <1>3, <2>6 DEF AllThere, At, Elab
    <2>. QED
      BY <1>9, <1>10, <2>5, <2>7 DEF OnTimeInv
  <1>. QED
    BY <1>11, <1>12, <1>13 DEF OpenSemaphores

\* consume passes the units on from one semaphore to the other.
LEMMA OnTimeConsume ==
  ASSUME Inv, Types', OnTimeInv, Consume
  PROVE  OnTimeInv'
  <1>1. SUFFICES ASSUME early' = {} PROVE OnTimeInv'
    BY DEF OnTimeInv
  <1>2. UNCHANGED <<starts, memory, prodPc, early>> /\ elabPc \in Looping /\ elabPc' \in Looping
    BY DEF Consume, WaitItem, ElabWaitLock, ReadCell, AdvanceRead, ElabPostLock, PostSpace,
           ElabStep, producers, history, Looping
  <1>3. PICK o : o = starts
    OBVIOUS
  <1>4. /\ o \in Memories /\ Types /\ \A s \in Sems : sems[o][s] \in Nat
        /\ Cardinality(At(o, HasCell)) \in Nat
    BY <1>2, <1>3, InLoop
  <1>5. AllThere(o) /\ (\A p \in Producers : memory[p] # 0 => ~ NotReady(memory[p]))
        /\ \A p \in Producers : prodPc[p] # "killed"
    BY <1>1, <1>2, <1>3 DEF OnTimeInv
  <1>6. At(o, HasCell)' = At(o, HasCell) /\ At(o, Locking)' = At(o, Locking)
    BY <1>2, <1>3 DEF At
  <1>7. ASSUME NEW s \in Sems, NEW v \in Int, sems' = [sems EXCEPT ![o][s] = v]
        PROVE  \A t \in Sems : sems'[o][t] = IF t = s THEN v ELSE sems[o][t]
    BY <1>4, <1>7, SemSet
  <1>8. AllThere(o)'
    <2>1. CASE WaitItem
      <3>. DEFINE v == sems[o]["full_sem"] - 1
      <3>1. v \in Int /\ sems' = [sems EXCEPT ![o]["full_sem"] = v]
        BY <1>3, <1>4, <2>1, WaitPost, SomeMemories DEF WaitItem
      <3>2. /\ sems'[o]["full_sem"] = sems[o]["full_sem"] - 1
            /\ sems'[o]["empty_sem"] = sems[o]["empty_sem"]
            /\ sems'[o]["cs_sem"] = sems[o]["cs_sem"]
        <4>1. \A t \in Sems : sems'[o][t] = IF t = "full_sem" THEN v ELSE sems[o][t]
          BY <1>7, <3>1, SomeMemories
        <4>. QED
          BY <4>1, SomeMemories
      <3>3. /\ ~ Elab(o, HasUnit) /\ Elab(o, HasUnit)'
            /\ ~ Elab(o, Locked) /\ ~ Elab(o, Locked)'
        BY <1>2, <1>3, <2>1 DEF WaitItem, ElabStep, Elab, HasUnit, Locked
      <3>. QED
        BY <1>4, <1>5, <1>6, <3>2, <3>3, SomeMemories DEF AllThere
    <2>2. CASE ElabWaitLock
      <3>. DEFINE v == sems[o]["cs_sem"] - 1
      <3>1. v \in Int /\ sems' = [sems EXCEPT ![o]["cs_sem"] = v]
        BY <1>3, <1>4, <2>2, WaitPost, SomeMemories DEF ElabWaitLock
      <3>2. /\ sems'[o]["full_sem"] = sems[o]["full_sem"]
            /\ sems'[o]["empty_sem"] = sems[o]["empty_sem"]
        <4>1. \A t \in Sems : sems'[o][t] = IF t = "cs_sem" THEN v ELSE sems[o][t]
          BY <1>7, <3>1, SomeMemories
        <4>. QED
          BY <4>1, SomeMemories
      <3>3. Elab(o, HasUnit) /\ Elab(o, HasUnit)' /\ Elab(o, Locked)'
        BY <1>2, <1>3, <2>2 DEF ElabWaitLock, ElabStep, Elab, HasUnit, Locked
      <3>. QED
        BY <1>4, <1>5, <1>6, <3>2, <3>3, SomeMemories DEF AllThere
    <2>3. CASE ReadCell \/ AdvanceRead
      <3>1. sems' = sems
        BY <2>3 DEF ReadCell, AdvanceRead
      <3>2. Elab(o, HasUnit) /\ Elab(o, HasUnit)' /\ Elab(o, Locked)'
        BY <1>2, <1>3, <2>3 DEF ReadCell, AdvanceRead, ElabStep, Elab, HasUnit, Locked
      <3>. QED
        BY <1>5, <1>6, <3>1, <3>2 DEF AllThere
    <2>4. CASE ElabPostLock
      <3>. DEFINE v == sems[o]["cs_sem"] + 1
      <3>1. v \in Int /\ v # 0 /\ sems' = [sems EXCEPT ![o]["cs_sem"] = v]
        BY <1>3, <1>4, <2>4, WaitPost, SomeMemories DEF ElabPostLock
      <3>2. /\ sems'[o]["full_sem"] = sems[o]["full_sem"]
            /\ sems'[o]["empty_sem"] = sems[o]["empty_sem"]
            /\ sems'[o]["cs_sem"] # 0
        <4>1. \A t \in Sems : sems'[o][t] = IF t = "cs_sem" THEN v ELSE sems[o][t]
          BY <1>7, <3>1, SomeMemories
        <4>. HIDE DEF v
        <4>. QED
          BY <3>1, <4>1, SomeMemories
      <3>3. Elab(o, HasUnit) /\ Elab(o, HasUnit)'
        BY <1>2, <1>3, <2>4 DEF ElabPostLock, ElabStep, Elab, HasUnit
      <3>. QED
        BY <1>4, <1>5, <1>6, <3>2, <3>3, SomeMemories DEF AllThere
    <2>5. CASE PostSpace
      <3>. DEFINE v == sems[o]["empty_sem"] + 1
      <3>1. v \in Int /\ sems' = [sems EXCEPT ![o]["empty_sem"] = v]
        BY <1>3, <1>4, <2>5, WaitPost, SomeMemories DEF PostSpace
      <3>2. /\ sems'[o]["full_sem"] = sems[o]["full_sem"]
            /\ sems'[o]["empty_sem"] = sems[o]["empty_sem"] + 1
            /\ sems'[o]["cs_sem"] = sems[o]["cs_sem"]
        <4>1. \A t \in Sems : sems'[o][t] = IF t = "empty_sem" THEN v ELSE sems[o][t]
          BY <1>7, <3>1, SomeMemories
        <4>. QED
          BY <4>1, SomeMemories
      <3>3. /\ Elab(o, HasUnit) /\ ~ Elab(o, HasUnit)'
            /\ ~ Elab(o, Locked) /\ ~ Elab(o, Locked)'
        BY <1>2, <1>3, <2>5 DEF PostSpace, ElabStep, Elab, HasUnit, Locked
      <3>. QED
        BY <1>4, <1>5, <1>6, <3>2, <3>3, SomeMemories DEF AllThere
    <2>. QED
      BY <2>1, <2>2, <2>3, <2>4, <2>5 DEF Consume
  <1>9. \A p \in Producers : memory'[p] # 0 => ~ NotReady(memory[p])'
    <2>1. ~ OpenSemaphores
      BY <1>2 DEF OpenSemaphores, InitSem, ElabStep, Looping
    <2>2. \A m \in Memories : NotReady(m)' <=> NotReady(m)
      BY <2>1, OnlyInit DEF Next, ElabNext
    <2>3. \A p \in Producers : memory[p] \in {0} \cup Memories
      BY <1>4 DEF Types
    <2>. QED
      BY <1>2, <1>5, <2>2, <2>3 DEF NotReady
  <1>10. AllThere(starts)'
    BY <1>2, <1>3, <1>8 DEF AllThere, At, Elab
  <1>. QED
    BY <1>2, <1>5, <1>9, <1>10 DEF OnTimeInv, Looping

\* A producer that neither gets nor gives back a unit.
LEMMA OnTimeAlone ==
  ASSUME Inv, Types', SizedInv, OnTimeInv, NEW p \in Producers,
         \/ OpenMemory(p) \/ Generate(p) \/ WriteCell(p) \/ AdvanceWrite(p)
         \/ CloseSemaphores(p) \/ UseTooEarly(p)
  PROVE  OnTimeInv'
  <1>1. Types /\ UNCHANGED <<sems, starts, elabPc>>
    BY DEF OpenMemory, Generate, WriteCell, AdvanceWrite, CloseSemaphores, UseTooEarly,
           elaborator, Inv
  <1>2. \A S : Elab(starts, S)' <=> Elab(starts, S)
    BY <1>1 DEF Elab
  <1>3. CASE OpenMemory(p)
    <2>1. /\ prodPc[p] = "down" /\ prodPc'[p] \in {"noMemory", "request"}
          /\ memory'[p] = name
          /\ \A q \in Producers \ {p} : prodPc'[q] = prodPc[q] /\ memory'[q] = memory[q]
      BY <1>1, <1>3 DEF OpenMemory, ProdStep, Types
    <2>2. /\ early' = {} => early = {}
          /\ early' = {} /\ name # 0 => ~ NotReady(name)
      BY <1>3 DEF OpenMemory, NotReady
    <2>3. \A q \in Producers : memory'[q] # 0 => ~ NotReady(memory'[q]) \/ early' # {}
      BY <2>1, <2>2 DEF OnTimeInv
    <2>4. \A q \in Producers : prodPc'[q] # "killed" \/ early' # {}
      BY <2>1, <2>2 DEF OnTimeInv
    <2>5. /\ At(starts, HasCell)' = At(starts, HasCell)
          /\ At(starts, Locking)' = At(starts, Locking)
      BY <1>1, <2>1 DEF At, HasCell, Locking
    <2>. QED
      BY <1>1, <1>2, <2>2, <2>3, <2>4, <2>5, OnTimeSame
  <1>4. CASE Generate(p) \/ WriteCell(p) \/ AdvanceWrite(p) \/ CloseSemaphores(p)
    <2>1. memory' = memory /\ early' = early
      BY <1>4 DEF Generate, WriteCell, AdvanceWrite, CloseSemaphores, history
    <2>2. PICK from, to :
             /\ ProdStep(p, from, to) /\ to # "killed"
             /\ from \in HasCell <=> to \in HasCell
             /\ from \in Locking <=> to \in Locking
      <3>1. CASE CloseSemaphores(p)
        BY <3>1 DEF CloseSemaphores, HasCell, Locking
      <3>2. CASE Generate(p) \/ WriteCell(p) \/ AdvanceWrite(p)
        <4>1. PICK from, to :
                 /\ ProdStep(p, from, to)
                 /\ <<from, to>> \in {<<"request", "waitSpace">>, <<"write", "advance">>,
                                     <<"advance", "postLock">>}
          BY <3>2 DEF Generate, WriteCell, AdvanceWrite
        <4>. QED
          BY <4>1 DEF HasCell, Locking
      <3>. QED
        BY <1>4, <3>1, <3>2
    <2>3. \A q \in Producers : prodPc'[q] # "killed" \/ early' # {}
      BY <1>1, <2>1, <2>2 DEF OnTimeInv, ProdStep, Types
    <2>4. /\ At(starts, HasCell)' = At(starts, HasCell)
          /\ At(starts, Locking)' = At(starts, Locking)
      BY <1>1, <2>1, <2>2 DEF At, ProdStep, Types
    <2>5. \A q \in Producers : memory'[q] # 0 => ~ NotReady(memory'[q]) \/ early' # {}
      BY <2>1 DEF OnTimeInv
    <2>. QED
      BY <1>1, <1>2, <2>1, <2>3, <2>4, <2>5, OnTimeSame
  <1>5. CASE UseTooEarly(p)
    <2>1. early' = early /\ memory[p] \in Memories /\ memory[p] \notin sized
      BY <1>1, <1>5 DEF UseTooEarly, UsesSem, history, Types
    <2>2. NotReady(memory[p]) /\ memory[p] # 0
      BY <2>1, SomeMemories DEF SizedInv
    <2>3. early # {}
      BY <2>2 DEF OnTimeInv
    <2>. QED
      BY <2>1, <2>3 DEF OnTimeInv
  <1>. QED
    BY <1>3, <1>4, <1>5

\* The counts of a memory, with the unit in the elaborator's hand as a number that a
\* producer's step leaves alone.
LEMMA ThereShape ==
  ASSUME NEW o, UNCHANGED <<starts, elabPc>>
  PROVE  \E x \in {0, 1} :
            /\ AllThere(o) =>
                  /\ sems[o]["empty_sem"] + sems[o]["full_sem"] + Cardinality(At(o, HasCell)) + x
                        = BUFFER_SIZE
                  /\ sems[o]["cs_sem"] = 0 => At(o, Locking) # {} \/ Elab(o, Locked)
            /\ /\ sems'[o]["empty_sem"] + sems'[o]["full_sem"]
                     + Cardinality(At(o, HasCell)') + x = BUFFER_SIZE
               /\ sems'[o]["cs_sem"] = 0 => At(o, Locking)' # {} \/ Elab(o, Locked)
               => AllThere(o)'
  <1>1. \A S : Elab(o, S)' <=> Elab(o, S)
    BY DEF Elab
  <1>2. PICK x \in {0, 1} : x = IF Elab(o, HasUnit) THEN 1 ELSE 0
    OBVIOUS
  <1>. QED
    BY <1>1, <1>2 DEF AllThere

LEMMA OnTimeProdSems ==
  ASSUME Inv, Types', OnTimeInv, NEW p \in Producers,
         WaitSpace(p) \/ WaitLock(p) \/ PostLock(p) \/ PostItem(p)
  PROVE  OnTimeInv'
  <1>1. SUFFICES ASSUME early' = {} PROVE OnTimeInv'
    BY DEF OnTimeInv
  <1>2. UNCHANGED <<starts, elabPc, early>> /\ memory' = memory
        /\ prodPc[p] \in {"waitSpace", "waitLock", "postLock", "postItem"}
    BY DEF WaitSpace, WaitLock, PostLock, PostItem, ProdStep, elaborator, history
  <1>3. PICK m : m = memory[p]
    OBVIOUS
  <1>4. /\ m \in Memories /\ Types /\ \A S : Cardinality(At(m, S)) \in Nat
        /\ ~ NotReady(m) => \A s \in Sems : sems[m][s] \in Nat
    BY <1>2, <1>3, InMemory
  <1>5. (\A q \in Producers : memory[q] # 0 => ~ NotReady(memory[q]))
        /\ \A q \in Producers : prodPc[q] # "killed"
    BY <1>1, <1>2 DEF OnTimeInv
  <1>6. \A s \in Sems : sems[m][s] \in Nat
    BY <1>3, <1>4, <1>5, SomeMemories
  <1>7. ASSUME NEW s \in Sems, NEW v \in Int, sems' = [sems EXCEPT ![memory[p]][s] = v]
        PROVE  /\ \A t \in Sems : sems'[m][t] = IF t = s THEN v ELSE sems[m][t]
               /\ \A o \in Memories \ {m} : sems'[o] = sems[o]
    BY <1>3, <1>4, <1>7, SemSet
  <1>8. PICK to : prodPc' = [prodPc EXCEPT ![p] = to] /\ to # "killed"
    <2>1. PICK from, to \in {"waitSpace", "waitLock", "write", "postLock", "postItem",
                             "request"} : ProdStep(p, from, to)
      BY DEF WaitSpace, WaitLock, PostLock, PostItem
    <2>. QED
      BY <2>1 DEF ProdStep
  <1>9. PICK s \in Sems, v \in Nat : sems' = [sems EXCEPT ![memory[p]][s] = v]
    <2>1. CASE WaitSpace(p) \/ WaitLock(p)
      <3>1. PICK s \in Sems : Wait(memory[p], s)
        BY <2>1, SomeMemories DEF WaitSpace, WaitLock
      <3>2. PICK v \in Nat : sems' = [sems EXCEPT ![memory[p]][s] = v]
        <4>1. PICK v : v = sems[memory[p]][s] - 1
          OBVIOUS
        <4>2. v \in Nat /\ sems' = [sems EXCEPT ![memory[p]][s] = v]
          BY <1>3, <1>4, <1>6, <3>1, <4>1, WaitPost
        <4>. QED
          BY <4>2
      <3>. QED
        BY <3>2
    <2>2. CASE PostLock(p) \/ PostItem(p)
      <3>1. PICK s \in Sems : Post(memory[p], s)
        BY <2>2, SomeMemories DEF PostLock, PostItem
      <3>2. PICK v \in Nat : sems' = [sems EXCEPT ![memory[p]][s] = v]
        <4>1. PICK v : v = sems[memory[p]][s] + 1
          OBVIOUS
        <4>2. v \in Nat /\ sems' = [sems EXCEPT ![memory[p]][s] = v]
          BY <1>3, <1>4, <1>6, <3>1, <4>1, WaitPost
        <4>. QED
          BY <4>2
      <3>. QED
        BY <3>2
    <2>. QED
      BY <2>1, <2>2
  <1>10. \A o \in Memories \ {m} : sems'[o] = sems[o]
    <2>1. v \in Int
      OBVIOUS
    <2>. QED
      BY <1>7, <1>9, <2>1
  <1>11. \A q \in Producers : memory'[q] # 0 => ~ NotReady(memory[q])'
    <2>1. ~ OpenSemaphores
      BY <1>2 DEF OpenSemaphores, InitSem, ElabStep
    <2>2. \A o \in Memories : NotReady(o)' <=> NotReady(o)
      BY <2>1, OnlyInit DEF Next, ProdNext, Request
    <2>3. \A q \in Producers : memory[q] \in {0} \cup Memories
      BY <1>4 DEF Types
    <2>. QED
      BY <1>2, <1>5, <2>2, <2>3 DEF NotReady
  <1>12. \A q \in Producers : prodPc'[q] # "killed"
    <2>1. \A q \in Producers : prodPc'[q] = IF q = p THEN to ELSE prodPc[q]
      BY <1>8, <1>4 DEF Types
    <2>. QED
      BY <1>8, <1>5, <2>1
  <1>13. /\ elabPc' \in {"initFull", "initCs"} => sems'[starts']["empty_sem"] = BUFFER_SIZE
         /\ elabPc' = "initCs" => sems'[starts']["full_sem"] = 0
    <2>1. ASSUME elabPc \in {"initFull", "initCs"}
          PROVE  sems'[starts] = sems[starts]
      <3>1. NotReady(starts) /\ starts \in Memories
        BY <1>4, <2>1, StartsMemory DEF Inv, SetUpInv
      <3>2. ~ NotReady(m)
        BY <1>3, <1>4, <1>5, SomeMemories
      <3>3. starts # m
        BY <3>1, <3>2
      <3>. QED
        BY <1>9, <3>1, <3>3, <1>10
    <2>. QED
      BY <1>1, <1>2, <2>1 DEF OnTimeInv
  <1>14. elabPc' \in Looping => AllThere(starts)'
    <2>1. SUFFICES ASSUME elabPc \in Looping PROVE AllThere(starts)'
      BY <1>2
    <2>2. PICK o : o = starts
      OBVIOUS
    <2>3. AllThere(o) /\ o \in Memories
      BY <1>1, <1>2, <2>1, <2>2, InLoop DEF OnTimeInv
    <2>4. PICK x \in {0, 1} :
             /\ sems[o]["empty_sem"] + sems[o]["full_sem"] + Cardinality(At(o, HasCell)) + x
                   = BUFFER_SIZE
             /\ sems[o]["cs_sem"] = 0 => At(o, Locking) # {} \/ Elab(o, Locked)
             /\ /\ sems'[o]["empty_sem"] + sems'[o]["full_sem"]
                      + Cardinality(At(o, HasCell)') + x = BUFFER_SIZE
                /\ sems'[o]["cs_sem"] = 0 => At(o, Locking)' # {} \/ Elab(o, Locked)
                => AllThere(o)'
      BY <1>2, <2>3, ThereShape
    <2>5. CASE o # m
      <3>1. sems'[o] = sems[o]
        BY <1>10, <2>3, <2>5
      <3>2. At(o, HasCell)' = At(o, HasCell) /\ At(o, Locking)' = At(o, Locking)
        <4>1. \A q \in Producers : memory[q] = o => prodPc'[q] = prodPc[q]
          BY <1>8, <1>3, <1>4, <2>5 DEF Types
        <4>. QED
          BY <1>2, <4>1 DEF At
      <3>3. AllThere(o)'
        BY <2>4, <3>1, <3>2
      <3>. QED
        BY <1>2, <2>2, <3>3 DEF AllThere, At, Elab
    <2>6. CASE o = m
      <3>1. CASE WaitSpace(p)
        <4>1. PICK w \in Int : w = sems[m]["empty_sem"] - 1
          BY <1>6, SomeMemories
        <4>2. sems' = [sems EXCEPT ![memory[p]]["empty_sem"] = w]
          BY <1>3, <1>4, <3>1, <4>1, WaitPost, SomeMemories DEF WaitSpace
        <4>3. /\ sems'[o]["full_sem"] = sems[o]["full_sem"] /\ sems'[o]["empty_sem"] = w
              /\ sems'[o]["cs_sem"] = sems[o]["cs_sem"]
          <5>1. \A t \in Sems : sems'[m][t] = IF t = "empty_sem" THEN w ELSE sems[m][t]
            BY <1>7, <4>2, SomeMemories
          <5>. QED
            BY <2>6, <5>1, SomeMemories
        <4>4. ProdStep(p, "waitSpace", "waitLock")
          BY <3>1 DEF WaitSpace
        <4>5. "waitSpace" \notin HasCell /\ "waitLock" \in HasCell
              /\ "waitSpace" \notin Locking /\ "waitLock" \notin Locking
          BY DEF HasCell, Locking
        <4>6. Cardinality(At(o, HasCell)') = Cardinality(At(o, HasCell)) + 1
          BY <1>2, <1>3, <1>4, <2>6, <4>4, <4>5, AtEnters
        <4>7. At(o, Locking)' = At(o, Locking)
          BY <1>2, <1>4, <4>4, <4>5, AtSame
        <4>8. sems'[o]["empty_sem"] + sems'[o]["full_sem"] + Cardinality(At(o, HasCell)') + x
                 = BUFFER_SIZE
          BY <1>4, <1>6, <2>4, <2>6, <4>1, <4>3, <4>6, SomeMemories
        <4>9. AllThere(o)'
          BY <2>4, <4>3, <4>7, <4>8
        <4>. QED
          BY <1>2, <2>2, <4>9 DEF AllThere, At, Elab
      <3>2. CASE WaitLock(p)
        <4>1. PICK w \in Int : w = sems[m]["cs_sem"] - 1
          BY <1>6, SomeMemories
        <4>2. sems' = [sems EXCEPT ![memory[p]]["cs_sem"] = w]
          BY <1>3, <1>4, <3>2, <4>1, WaitPost, SomeMemories DEF WaitLock
        <4>3. sems'[o]["full_sem"] = sems[o]["full_sem"]
              /\ sems'[o]["empty_sem"] = sems[o]["empty_sem"]
          <5>1. \A t \in Sems : sems'[m][t] = IF t = "cs_sem" THEN w ELSE sems[m][t]
            BY <1>7, <4>2, SomeMemories
          <5>. QED
            BY <2>6, <5>1, SomeMemories
        <4>4. ProdStep(p, "waitLock", "write")
          BY <3>2 DEF WaitLock
        <4>5. "waitLock" \in HasCell /\ "write" \in HasCell
              /\ "waitLock" \notin Locking /\ "write" \in Locking
          BY DEF HasCell, Locking
        <4>6. At(o, HasCell)' = At(o, HasCell)
          BY <1>2, <1>4, <4>4, <4>5, AtSame
        <4>7. At(o, Locking)' = At(o, Locking) \cup {p}
          BY <1>2, <1>3, <1>4, <2>6, <4>4, <4>5, AtEnters
        <4>8. At(o, Locking)' # {}
          BY <4>7
        <4>9. AllThere(o)'
          BY <2>4, <4>3, <4>6, <4>8
        <4>. QED
          BY <1>2, <2>2, <4>9 DEF AllThere, At, Elab
      <3>3. CASE PostLock(p)
        <4>1. PICK w \in Int : w = sems[m]["cs_sem"] + 1 /\ w # 0
          BY <1>6, SomeMemories
        <4>2. sems' = [sems EXCEPT ![memory[p]]["cs_sem"] = w]
          BY <1>3, <1>4, <3>3, <4>1, WaitPost, SomeMemories DEF PostLock
        <4>3. /\ sems'[o]["full_sem"] = sems[o]["full_sem"] /\ sems'[o]["cs_sem"] # 0
              /\ sems'[o]["empty_sem"] = sems[o]["empty_sem"]
          <5>1. w \in Int /\ w # 0 /\ "cs_sem" \in Sems
            BY <4>1, SomeMemories
          <5>2. \A t \in Sems : sems'[m][t] = IF t = "cs_sem" THEN w ELSE sems[m][t]
            BY <1>7, <4>2, <5>1
          <5>. QED
            BY <2>6, <5>1, <5>2, SomeMemories
        <4>4. ProdStep(p, "postLock", "postItem")
          BY <3>3 DEF PostLock
        <4>5. "postLock" \in HasCell /\ "postItem" \in HasCell
          BY DEF HasCell
        <4>6. At(o, HasCell)' = At(o, HasCell)
          BY <1>2, <1>4, <4>4, <4>5, AtSame
        <4>7. AllThere(o)'
          BY <2>4, <4>3, <4>6
        <4>. QED
          BY <1>2, <2>2, <4>7 DEF AllThere, At, Elab
      <3>4. CASE PostItem(p)
        <4>1. PICK w \in Int : w = sems[m]["full_sem"] + 1
          BY <1>6, SomeMemories
        <4>2. sems' = [sems EXCEPT ![memory[p]]["full_sem"] = w]
          BY <1>3, <1>4, <3>4, <4>1, WaitPost, SomeMemories DEF PostItem
        <4>3. /\ sems'[o]["empty_sem"] = sems[o]["empty_sem"] /\ sems'[o]["full_sem"] = w
              /\ sems'[o]["cs_sem"] = sems[o]["cs_sem"]
          <5>1. \A t \in Sems : sems'[m][t] = IF t = "full_sem" THEN w ELSE sems[m][t]
            BY <1>7, <4>2, SomeMemories
          <5>. QED
            BY <2>6, <5>1, SomeMemories
        <4>4. ProdStep(p, "postItem", "request")
          BY <3>4 DEF PostItem
        <4>5. "postItem" \in HasCell /\ "request" \notin HasCell
              /\ "postItem" \notin Locking /\ "request" \notin Locking
          BY DEF HasCell, Locking
        <4>6. Cardinality(At(o, HasCell)') = Cardinality(At(o, HasCell)) - 1
          BY <1>2, <1>3, <1>4, <2>6, <4>4, <4>5, AtLeaves
        <4>7. At(o, Locking)' = At(o, Locking)
          BY <1>2, <1>4, <4>4, <4>5, AtSame
        <4>8. sems'[o]["empty_sem"] + sems'[o]["full_sem"] + Cardinality(At(o, HasCell)') + x
                 = BUFFER_SIZE
          BY <1>4, <1>6, <2>4, <2>6, <4>1, <4>3, <4>6, SomeMemories
        <4>9. AllThere(o)'
          BY <2>4, <4>3, <4>7, <4>8
        <4>. QED
          BY <1>2, <2>2, <4>9 DEF AllThere, At, Elab
      <3>. QED
        BY <3>1, <3>2, <3>3, <3>4
    <2>. QED
      BY <2>5, <2>6
  <1>. QED
    BY <1>11, <1>12, <1>13, <1>14 DEF OnTimeInv

LEMMA OnTimeStep == Inv /\ Types' /\ SizedInv /\ OnTimeInv /\ [Next]_vars => OnTimeInv'
  <1>1. SUFFICES ASSUME Inv, Types', SizedInv, OnTimeInv, [Next]_vars PROVE OnTimeInv'
    OBVIOUS
  <1>2. CASE Start \/ UnlinkOld \/ CreateMemory \/ Truncate \/ UnlinkMemory \/ Interrupt
             \/ ElabKilled
    <2>1. UNCHANGED <<sems, memory, prodPc, early>>
      BY <1>2
         DEF Start, UnlinkOld, CreateMemory, Truncate, UnlinkMemory, Interrupt, ElabKilled,
             producers, history
    <2>2. elabPc' \notin Looping \cup {"initFull", "initCs"}
      BY <1>2
         DEF Start, UnlinkOld, CreateMemory, Truncate, UnlinkMemory, Interrupt, ElabKilled,
             ElabStep, Looping
    <2>. QED
      BY <1>1, <2>1, <2>2, OnTimeOutside
  <1>3. CASE ClearMemory
    <2>1. UNCHANGED <<sems, memory, prodPc, early>>
      BY <1>1, <1>3, ClearKeeps DEF ClearMemory, producers, history
    <2>2. elabPc' \notin Looping \cup {"initFull", "initCs"}
      BY <1>3 DEF ClearMemory, ElabStep, Looping
    <2>. QED
      BY <1>1, <2>1, <2>2, OnTimeOutside
  <1>4. ASSUME NEW p \in Producers, OpenMemory(p) \/ ProdNext(p) \/ UseTooEarly(p)
        PROVE  OnTimeInv'
    BY <1>1, <1>4, OnTimeAlone, OnTimeProdSems DEF ProdNext, Request
  <1>5. CASE UNCHANGED vars
    BY <1>1, <1>5
       DEF OnTimeInv, NotReady, AllThere, At, Elab, vars, elaborator, producers, history
  <1>. QED
    BY <1>1, <1>2, <1>3, <1>4, <1>5, OnTimeOpenSemaphores, OnTimeConsume
       DEF Next, ElabNext, InitMemory

-----------------------------------------------------------------------------
(* Nobody waits for ever: the theorem *)

\* The elaborator can go on in its loop, and a producer can go on: the calls that wait
\* are those of semaphores.
ElabCanStep ==
  \/ elabPc \in {"read", "advance", "postLock", "postSpace"}
  \/ elabPc = "waitItem" /\ sems[starts]["full_sem"] > 0
  \/ elabPc = "waitLock" /\ sems[starts]["cs_sem"] > 0

ProdCanStep(p) ==
  \/ prodPc[p] \in {"request", "write", "advance", "postLock", "postItem"}
  \/ prodPc[p] = "waitSpace" /\ sems[memory[p]]["empty_sem"] > 0
  \/ prodPc[p] = "waitLock" /\ sems[memory[p]]["cs_sem"] > 0

\* As long as the elaborator loops and nobody was early, it can go on or a producer of its
\* memory can, unless all of these have ended.
SomeoneCanStep ==
  elabPc \in Looping /\ early = {} =>
    \/ ElabCanStep
    \/ \E p \in Producers : memory[p] = starts /\ ProdCanStep(p)
    \/ \A p \in Producers : memory[p] = starts => prodPc[p] \in {"done", "failed"}

LEMMA NobodyStuck == Inv /\ SizedInv /\ OnTimeInv => SomeoneCanStep
  <1>1. SUFFICES ASSUME Inv, SizedInv, OnTimeInv, elabPc \in Looping, early = {},
                        ~ ElabCanStep,
                        \A p \in Producers : memory[p] = starts => ~ ProdCanStep(p),
                        NEW p \in Producers, memory[p] = starts,
                        prodPc[p] \notin {"done", "failed"}
                 PROVE  FALSE
    BY DEF SomeoneCanStep
  <1>2. PICK o : o = starts
    OBVIOUS
  <1>3. o \in Memories /\ Types /\ (\A s \in Sems : sems[o][s] \in Nat) /\ LockAt(o)
    BY <1>1, <1>2, InLoop
  <1>4. AllThere(o)
    BY <1>1, <1>2 DEF OnTimeInv
  <1>5. At(o, Locking) = {} /\ ~ Elab(o, Locked)
    BY <1>1, <1>2 DEF At, Locking, Elab, Locked, ProdCanStep, ElabCanStep
  <1>6. sems[o]["cs_sem"] > 0
    BY <1>3, <1>4, <1>5, SomeMemories DEF AllThere
  <1>7. At(o, HasCell) = {} /\ ~ Elab(o, HasUnit)
    BY <1>1, <1>2, <1>6 DEF At, HasCell, Elab, HasUnit, ProdCanStep, ElabCanStep
  <1>8. sems[o]["full_sem"] = 0
    <2>1. elabPc = "waitItem"
      BY <1>1, <1>2, <1>6 DEF ElabCanStep, Looping
    <2>. QED
      BY <1>1, <1>2, <1>3, <2>1, SomeMemories DEF ElabCanStep
  <1>9. sems[o]["empty_sem"] = 0
    <2>1. prodPc[p] \notin {"down", "noMemory", "killed"}
      BY <1>1, <1>2, <1>3, SomeMemories DEF SizedInv, OnTimeInv
    <2>2. prodPc[p] = "waitSpace"
      BY <1>1, <1>2, <1>3, <1>6, <2>1 DEF Types, ProdSteps, ProdCanStep
    <2>. QED
      BY <1>1, <1>2, <1>3, <2>2, SomeMemories DEF ProdCanStep
  <1>10. Cardinality(At(o, HasCell)) = 0
    BY <1>7, FS_EmptySet
  <1>. QED
    BY <1>4, <1>7, <1>8, <1>9, <1>10, SomeMemories DEF AllThere

\* Elaborator and producers never all wait for one another at the semaphores, those
\* producers included that go on when the first that ended has destroyed them: no unit is
\* lost as long as the elaborator loops and its semaphores were there first.
THEOREM DeadlockFree == Spec => []SomeoneCanStep
  <1>1. Init => Inv /\ SizedInv /\ OnTimeInv
    BY InvInit, OnTimeInit
  <1>2. Inv /\ SizedInv /\ OnTimeInv /\ [Next]_vars => (Inv /\ SizedInv /\ OnTimeInv)'
    <2>1. Inv' => Types'
      BY DEF Inv
    <2>. QED
      BY <2>1, InvStep, SizedStep, OnTimeStep
  <1>. QED
    BY <1>1, <1>2, NobodyStuck, PTL DEF Spec
=============================================================================
