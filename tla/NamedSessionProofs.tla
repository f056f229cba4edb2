-------------------------- MODULE NamedSessionProofs --------------------------
(* What NamedSession promises for every number of processes, operations, cells *)
(* and sessions: the restart where the buffer is a file, exclusion, the order  *)
(* of the items, and that no name is left.                                     *)
EXTENDS NamedSession, FiniteSetTheorems, TLAPS

-----------------------------------------------------------------------------
(* Indexes that wrap around a buffer of B cells *)

\* A number is a multiple of B and a remainder.
LEMMA DivMod ==
  ASSUME NEW B \in Nat \ {0}, NEW a \in Nat
  PROVE  \E q \in Int, r \in 0 .. B - 1 : a = B * q + r /\ r = a % B
  OBVIOUS

\* The remainder is the only number of 0 .. B - 1 that leaves a multiple of B.
LEMMA ModUnique ==
  ASSUME NEW B \in Nat \ {0}, NEW a \in Nat, NEW q \in Int, NEW r \in 0 .. B - 1,
         a = B * q + r
  PROVE  a % B = r
  <1>1. PICK k \in Int, s \in 0 .. B - 1 : a = B * k + s /\ s = a % B
    BY DivMod
  <1>2. B * (q - k) = s - r
    BY <1>1
  <1>3. q - k < 1
    <2>1. SUFFICES ASSUME q - k >= 1 PROVE FALSE
      BY <1>1
    <2>2. B * (q - k) >= B
      BY <2>1, <1>1
    <2>. QED
      BY <2>2, <1>2, <1>1
  <1>4. q - k > -1
    <2>1. SUFFICES ASSUME q - k <= -1 PROVE FALSE
      BY <1>1
    <2>2. B * (q - k) <= -B
      BY <2>1, <1>1
    <2>. QED
      BY <2>2, <1>2, <1>1
  <1>5. q = k
    BY <1>1, <1>3, <1>4
  <1>6. B * (q - k) = 0
    BY <1>1, <1>5
  <1>7. s = r
    BY <1>2, <1>6
  <1>8. a % B = s
    BY <1>1, Zenon
  <1>. QED
    BY <1>7, <1>8, Zenon

\* An index that is advanced modulo B counts modulo B.
LEMMA ModSucc ==
  ASSUME NEW B \in Nat \ {0}, NEW a \in Nat
  PROVE  ((a % B) + 1) % B = (a + 1) % B
  <1>1. PICK q \in Int, r \in 0 .. B - 1 : a = B * q + r /\ r = a % B
    BY DivMod
  <1>. DEFINE m == a + 1
  <1>2. m \in Nat /\ m = B * q + r + 1
    BY <1>1
  <1>3. CASE r + 1 < B
    <2>1. r + 1 \in 0 .. B - 1 /\ m = B * q + (r + 1)
      BY <1>2, <1>3
    <2>. HIDE DEF m
    <2>2. m % B = r + 1
      BY <1>2, <2>1, ModUnique
    <2>3. (r + 1) % B = r + 1
      BY <1>3, <1>1
    <2>. QED
      BY <2>2, <2>3, <1>1 DEF m
  <1>4. CASE r + 1 = B
    <2>1. B * (q + 1) = B * q + B
      OBVIOUS
    <2>2. m = B * (q + 1) + 0 /\ q + 1 \in Int /\ 0 \in 0 .. B - 1
      <3>. HIDE DEF m
      <3>. QED
        BY <1>2, <1>4, <2>1
    <2>. HIDE DEF m
    <2>3. m % B = 0
      BY <1>2, <2>2, ModUnique
    <2>4. B % B = 0
      BY ModUnique, B = B * 1 + 0
    <2>. QED
      BY <2>3, <2>4, <1>1, <1>4 DEF m
  <1>. QED
    BY <1>1, <1>3, <1>4

\* Fewer than B successive counts fall on distinct cells.
LEMMA ModDistinct ==
  ASSUME NEW B \in Nat \ {0}, NEW a \in Nat, NEW b \in Nat, a < b, b < a + B
  PROVE  a % B # b % B
  <1>1. PICK q \in Int, r \in 0 .. B - 1 : a = B * q + r /\ r = a % B
    BY DivMod
  <1>2. PICK k \in Int, s \in 0 .. B - 1 : b = B * k + s /\ s = b % B
    BY DivMod
  <1>3. SUFFICES ASSUME r = s PROVE FALSE
    BY <1>1, <1>2
  <1>4. b - a = B * (k - q)
    <2>1. /\ B * k \in Int /\ B * q \in Int
          /\ B * (k - q) = B * k - B * q
      BY <1>1, <1>2
    <2>2. a = B * q + r
      BY <1>1, Zenon
    <2>3. b = B * k + r
      BY <1>2, <1>3, Zenon
    <2>4. r \in Int
      OBVIOUS
    <2>. QED
      BY <2>1, <2>2, <2>3, <2>4
  <1>5. k - q > 0
    <2>1. SUFFICES ASSUME k - q <= 0 PROVE FALSE
      BY <1>1, <1>2
    <2>2. B * (k - q) <= 0
      BY <2>1
    <2>. QED
      BY <2>2, <1>4
  <1>6. B * (k - q) >= B
    BY <1>5
  <1>. QED
    BY <1>4, <1>6

\* A remainder is an index of the buffer.
LEMMA ModRange ==
  ASSUME NEW B \in Nat \ {0}, NEW a \in Nat
  PROVE  a % B \in 0 .. B - 1
  OBVIOUS

-----------------------------------------------------------------------------
(* The inductive invariant *)

Names == Sems \cup {"buffer"}
Cells == 0 .. BufferSize - 1
MainSteps == {"idle", "setUp", "wait", "tearDown", "exited", "failed"}
ChildSteps == {"none", "waitCount", "waitLock", "access", "advance", "postLock",
               "postCount", "done"}
Forked == {"wait", "tearDown", "exited"}
Working == ChildSteps \ {"none", "done"}

Types ==
  /\ shm \in BOOLEAN /\ stale \in BOOLEAN /\ session \in Sessions
  /\ names \in [Names -> Owners] /\ value \in [Sems -> [Sessions -> Nat]]
  /\ buf \in [Sessions -> [Cells -> Nat]]
  /\ read_index \in [Sessions -> Cells] /\ write_index \in [Sessions -> Cells]
  /\ mainPc \in [Programs -> MainSteps] /\ next \in [Programs -> Nat \ {0}]
  /\ handle \in [Programs -> [Names -> Owners]]
  /\ childPc \in [Children -> ChildSteps] /\ item \in [Children -> Nat]
  /\ sent \in Seq(Nat) /\ received \in Seq(Nat)

\* The names that a program opens, and the place of the call that opens one.
Uses(p) == {"filled", "empty", Lock(p), "buffer"}
Place(p, n) ==
  IF p = "producer"
  THEN IF n = "filled" THEN 5 ELSE IF n = "empty" THEN 6
       ELSE IF n # "buffer" THEN 7 ELSE IF shm THEN 8 ELSE 1
  ELSE IF shm
       THEN IF n = "filled" THEN 1 ELSE IF n = "empty" THEN 2
            ELSE IF n # "buffer" THEN 3 ELSE 4
       ELSE IF n = "buffer" THEN 1 ELSE IF n = "filled" THEN 2
            ELSE IF n = "empty" THEN 3 ELSE 4

\* The calls of the set-up come one after the other, and children work only while
\* their main process waits for them.
CallInv ==
  /\ \A p \in Programs :
        /\ mainPc[p] = "setUp" =>
              \A n \in Uses(p) : next[p] > Place(p, n) <=> handle[p][n] # 0
        /\ mainPc[p] \in Forked => \A n \in Uses(p) : handle[p][n] # 0
        /\ mainPc[p] = "idle" => handle[p] = NoHandles
  /\ \A c \in Children : childPc[c] \in Working => mainPc[c[1]] = "wait"
  /\ mainPc["producer"] \in {"idle", "setUp"} =>
        sent = << >> /\ \A c \in Producers : childPc[c] = "none"

\* The names that the producers make, and the ones that they alone make.
Made == {"filled", "empty", ProducerLock} \cup (IF shm THEN {"buffer"} ELSE {})

\* Objects of this session are those that its producers have made, but for the lock of
\* the consumers of E04/02.
OwnerInv ==
  /\ \A n \in Sems : names[n] <= session
  /\ shm => names["buffer"] <= session
  /\ ~ shm => /\ names["buffer"] \in {0, 1}
              /\ \A p \in Programs : handle[p]["buffer"] \in {0, 1}
              /\ handle["producer"]["filled"] # 0 => handle["producer"]["buffer"] = 1
  /\ \A n \in Made : /\ handle["producer"][n] \in {0, session}
                     /\ names[n] = session => handle["producer"][n] = session
                     /\ handle["consumer"][n] = session => handle["producer"][n] = session
                     /\ handle["consumer"][n] <= session
  /\ shm => handle["consumer"]["csCons"] \in {0, session}
  /\ ~ stale /\ mainPc["consumer"] \in Forked => HoldsAll("consumer")

\* One child at most has a lock of this session.
Has(c) ==
  /\ childPc[c] \in {"access", "advance", "postLock"}
  /\ handle[c[1]][Lock(c[1])] = session
LockInv ==
  /\ \A p \in Programs : handle[p][Lock(p)] = session => value[Lock(p)][session] <= 1
  /\ \A c, d \in Children :
        Has(c) /\ Has(d) /\ Lock(c[1]) = Lock(d[1]) =>
           c = d /\ value[Lock(c[1])][session] = 0

\* The children of a program at given steps.
ProducersAt(steps) == {c \in Producers : childPc[c] \in steps}
ConsumersAt(steps) == {c \in Consumers : childPc[c] \in steps}
Moving == {"waitLock", "access", "advance"}
Moved == {"postLock", "postCount"}

\* The units of filled, with those on their way to it and from it, are items in the
\* buffer; the units of empty are cells without one.
Held == Len(sent) - Len(received)
FilledInv ==
  handle["producer"]["filled"] = session =>
     value["filled"][session] + Cardinality(ProducersAt(Moved))
        + Cardinality(ConsumersAt(Moving)) <= Held
EmptyInv ==
  handle["producer"]["empty"] = session =>
     value["empty"][session] + Cardinality(ProducersAt(Moving))
        + Cardinality(ConsumersAt(Moved)) + Held <= BufferSize
CountInv == ~ stale => Held >= 0 /\ FilledInv /\ EmptyInv

\* The buffer of this session.  A memory of a later one is all zeros.
FreshInv ==
  shm => \A o \in Sessions :
            o > session \/ (o = session /\ handle["producer"]["buffer"] = 0) =>
               read_index[o] = 0 /\ write_index[o] = 0
WindowAt(o) ==
  /\ write_index[o] = Len(sent) % BufferSize
  /\ read_index[o] = Len(received) % BufferSize
  /\ \A i \in Len(received) + 1 .. Len(sent) : buf[o][(i - 1) % BufferSize] = sent[i]
WindowInv ==
  ~ stale /\ handle["producer"]["buffer"] # 0 => WindowAt(BufferOf(session))
HandInv ==
  ~ stale =>
     /\ \A c \in Producers : childPc[c] = "advance" =>
           item[c] = buf[BufferOf(session)][write_index[BufferOf(session)]]
     /\ \A c \in Consumers : childPc[c] = "advance" => item[c] = sent[Len(received) + 1]

DataInv == OwnerInv /\ LockInv /\ CountInv /\ FreshInv /\ WindowInv /\ HandInv /\ InOrder

Inv == Types /\ CallInv /\ DataInv

\* The names between their drop and their creation, and after they are unlinked.
DropInv ==
  ~ shm =>
     /\ mainPc["producer"] # "failed"
     /\ mainPc["producer"] = "setUp" =>
           \A n \in {"filled", "empty", "cs"} :
              next["producer"] > Place("producer", n) - 3
                 /\ next["producer"] <= Place("producer", n) => names[n] = 0
LastUnlink(n) ==
  IF n = "filled" THEN 1 ELSE IF n = "empty" THEN 2 ELSE IF n # "csCons" THEN 3 ELSE 4
GoneInv ==
  /\ ~ stale => \A n \in Sems :
        \/ mainPc["consumer"] = "exited"
        \/ mainPc["consumer"] = "tearDown" /\ next["consumer"] > LastUnlink(n)
        => names[n] = 0
  /\ shm => /\ mainPc["producer"] = "exited" => names["buffer"] = 0
            /\ mainPc["producer"] = "tearDown" /\ next["producer"] > 1 => names["buffer"] = 0

\* What holds at the start and what every step keeps.
NamesInv == Inv /\ DropInv /\ GoneInv

-----------------------------------------------------------------------------
(* The constants, and the calls of the main processes *)

LEMMA SomeConstants ==
  /\ BufferSize \in Nat \ {0} /\ MaxSessions \in Nat \ {0} /\ Variants \subseteq BOOLEAN
  /\ 1 \in Sessions /\ 0 \in Cells /\ 0 \in Owners /\ Sessions \subseteq Owners
  /\ Programs = {"producer", "consumer"}
  /\ Children = Producers \cup Consumers
  /\ \A s \in Sessions : s \in Nat \ {0}
  /\ \A c \in Producers : c[1] = "producer"
  /\ \A c \in Consumers : c[1] = "consumer"
  BY SessionAssumption
     DEF Sessions, Cells, Owners, Programs, Children, Producers, Consumers

\* Which names there are.
LEMMA TwoVariants ==
  /\ Lock("producer") = ProducerLock /\ Lock("consumer") = ConsumerLock
  /\ shm => /\ ProducerLock = "csProd" /\ ConsumerLock = "csCons"
            /\ Sems = {"filled", "empty", "csProd", "csCons"}
            /\ Made = {"filled", "empty", "csProd", "buffer"}
            /\ \A s : BufferOf(s) = s
  /\ ~ shm => /\ ProducerLock = "cs" /\ ConsumerLock = "cs"
              /\ Sems = {"filled", "empty", "cs"}
              /\ Made = {"filled", "empty", "cs"}
              /\ \A s : BufferOf(s) = 1
  /\ Names = Sems \cup {"buffer"} /\ Made \subseteq Names
  /\ {"filled", "empty", ProducerLock, ConsumerLock} \subseteq Sems /\ "buffer" \notin Sems
  /\ \A p : Uses(p) = {"filled", "empty", Lock(p), "buffer"}
  /\ \A p \in Programs : Uses(p) \subseteq Names
  BY DEF Lock, ProducerLock, ConsumerLock, Sems, Made, Names, BufferOf, Uses, Programs

\* No step exchanges the programs.
LEMMA VariantStays ==
  ASSUME shm' = shm
  PROVE  /\ Sems' = Sems /\ Names' = Names /\ Made' = Made
         /\ ProducerLock' = ProducerLock /\ ConsumerLock' = ConsumerLock
         /\ \A p : Lock(p)' = Lock(p)
         /\ \A p : Uses(p)' = Uses(p)
         /\ \A p, n : Place(p, n)' = Place(p, n)
         /\ \A s : BufferOf(s)' = BufferOf(s)
  BY DEF Sems, Names, Made, ProducerLock, ConsumerLock, Lock, Uses, Place, BufferOf

\* The calls that open a name come one by one at their places.
LEMMA SetUpLength ==
  /\ shm => Len(SetUp("producer")) = 8 /\ Len(SetUp("consumer")) = 4
  /\ ~ shm => Len(SetUp("producer")) = 7 /\ Len(SetUp("consumer")) = 4
  /\ shm => Len(TearDown("producer")) = 1 /\ Len(TearDown("consumer")) = 4
  /\ ~ shm => Len(TearDown("producer")) = 0 /\ Len(TearDown("consumer")) = 3
  BY DEF SetUp, TearDown

LEMMA DropCalls ==
  ASSUME NEW p \in Programs, NEW n, next[p] \in Nat \ {0}, Calls(p, "setUp", "drop", n)
  PROVE  /\ p = "producer" /\ n \in Sems /\ mainPc[p] = "setUp"
         /\ \A m \in Uses(p) : next[p] # Place(p, m)
         /\ ~ shm => n \in {"filled", "empty", "cs"} /\ next[p] = Place(p, n) - 3
  <1>1. p = "producer" /\ mainPc[p] = "setUp"
    <2>1. /\ mainPc[p] = "setUp" /\ next[p] <= Len(SetUp(p))
          /\ SetUp(p)[next[p]] = <<"drop", n>>
      BY DEF Calls
    <2>2. CASE p = "consumer"
      <3>1. next[p] \in 1 .. 4
        BY <2>1, <2>2, SetUpLength
      <3>2. \A k \in 1 .. 4 : SetUp("consumer")[k][1] # "drop"
        BY DEF SetUp
      <3>. QED
        BY <2>1, <2>2, <3>1, <3>2
    <2>. QED
      BY <2>1, <2>2 DEF Programs
  <1>2. CASE shm
    <2>1. /\ next[p] \in 1 .. 4
          /\ next[p] = 1 => n = "filled"
          /\ next[p] = 2 => n = "empty"
          /\ next[p] = 3 => n = "csProd"
          /\ next[p] = 4 => n = "csCons"
      <3>1. /\ next[p] \in 1 .. 8
            /\ SetUp("producer")[next[p]][1] = "drop"
            /\ SetUp("producer")[next[p]][2] = n
        BY <1>1, <1>2, SetUpLength DEF Calls
      <3>2. /\ SetUp("producer")[1][1] = "drop" /\ SetUp("producer")[1][2] = "filled"
            /\ SetUp("producer")[2][1] = "drop" /\ SetUp("producer")[2][2] = "empty"
            /\ SetUp("producer")[3][1] = "drop" /\ SetUp("producer")[3][2] = "csProd"
            /\ SetUp("producer")[4][1] = "drop" /\ SetUp("producer")[4][2] = "csCons"
            /\ \A k \in 5 .. 8 : SetUp("producer")[k][1] = "create"
        BY <1>2 DEF SetUp
      <3>3. next[p] \notin 5 .. 8
        BY <3>1, <3>2
      <3>. QED
        BY <3>1, <3>2, <3>3
    <2>2. \A m \in Uses(p) : Place(p, m) > 4
      BY <1>1, <1>2 DEF Place
    <2>. QED
      BY <1>1, <1>2, <2>1, <2>2, TwoVariants
  <1>3. CASE ~ shm
    <2>1. /\ next[p] \in 2 .. 4
          /\ next[p] = 2 => n = "filled"
          /\ next[p] = 3 => n = "empty"
          /\ next[p] = 4 => n = "cs"
      <3>1. /\ next[p] \in 1 .. 7
            /\ SetUp("producer")[next[p]][1] = "drop"
            /\ SetUp("producer")[next[p]][2] = n
        BY <1>1, <1>3, SetUpLength DEF Calls
      <3>2. /\ SetUp("producer")[1][1] = "init" /\ SetUp("producer")[1][2] = "buffer"
            /\ SetUp("producer")[2][1] = "drop" /\ SetUp("producer")[2][2] = "filled"
            /\ SetUp("producer")[3][1] = "drop" /\ SetUp("producer")[3][2] = "empty"
            /\ SetUp("producer")[4][1] = "drop" /\ SetUp("producer")[4][2] = "cs"
            /\ \A k \in 5 .. 7 : SetUp("producer")[k][1] = "create"
        BY <1>3 DEF SetUp
      <3>3. next[p] \notin 5 .. 7
        BY <3>1, <3>2
      <3>. QED
        BY <3>1, <3>2, <3>3
    <2>2. \A m \in Uses(p) : Place(p, m) > 4 \/ Place(p, m) = 1
      BY <1>1, <1>3 DEF Place
    <2>3. next[p] = Place(p, n) - 3
      BY <1>1, <1>3, <2>1 DEF Place
    <2>. QED
      BY <1>1, <1>3, <2>1, <2>2, <2>3, TwoVariants
  <1>. QED
    BY <1>2, <1>3

LEMMA CreateCalls ==
  ASSUME NEW p \in Programs, NEW n, next[p] \in Nat \ {0}, Calls(p, "setUp", "create", n)
  PROVE  /\ n \in Uses(p) /\ mainPc[p] = "setUp" /\ next[p] = Place(p, n)
         /\ p = "producer" => n \in Made
         /\ p = "consumer" => shm /\ n = "csCons"
  <1>1. /\ mainPc[p] = "setUp" /\ next[p] <= Len(SetUp(p))
        /\ SetUp(p)[next[p]] = <<"create", n>>
    BY DEF Calls
  <1>2. CASE p = "producer" /\ shm
    <2>1. next[p] \in 1 .. 8
      BY <1>1, <1>2, SetUpLength
    <2>. QED
      BY <1>1, <1>2, <2>1 DEF SetUp, Uses, Place, Made, Lock, ProducerLock, ConsumerLock
  <1>3. CASE p = "producer" /\ ~ shm
    <2>1. next[p] \in 1 .. 7
      BY <1>1, <1>3, SetUpLength
    <2>. QED
      BY <1>1, <1>3, <2>1 DEF SetUp, Uses, Place, Made, Lock, ProducerLock, ConsumerLock
  <1>4. CASE p = "consumer" /\ shm
    <2>1. next[p] \in 1 .. 4
      BY <1>1, <1>4, SetUpLength
    <2>. QED
      BY <1>1, <1>4, <2>1 DEF SetUp, Uses, Place, Made, Lock, ProducerLock, ConsumerLock
  <1>5. CASE p = "consumer" /\ ~ shm
    <2>1. next[p] \in 1 .. 4
      BY <1>1, <1>5, SetUpLength
    <2>. QED
      BY <1>1, <1>5, <2>1 DEF SetUp, Uses, Place, Made, Lock, ProducerLock, ConsumerLock
  <1>. QED
    BY <1>2, <1>3, <1>4, <1>5 DEF Programs

LEMMA OpenCalls ==
  ASSUME NEW p \in Programs, NEW n, next[p] \in Nat \ {0}, Calls(p, "setUp", "open", n)
  PROVE  /\ p = "consumer" /\ n \in Uses(p) /\ mainPc[p] = "setUp"
         /\ next[p] = Place(p, n) /\ n \in Made \cup {"buffer"}
  <1>1. /\ mainPc[p] = "setUp" /\ next[p] <= Len(SetUp(p))
        /\ SetUp(p)[next[p]] = <<"open", n>>
    BY DEF Calls
  <1>2. CASE p = "producer" /\ shm
    <2>1. next[p] \in 1 .. 8
      BY <1>1, <1>2, SetUpLength
    <2>. QED
      BY <1>1, <1>2, <2>1 DEF SetUp, Uses, Place, Made, Lock, ProducerLock, ConsumerLock
  <1>3. CASE p = "producer" /\ ~ shm
    <2>1. next[p] \in 1 .. 7
      BY <1>1, <1>3, SetUpLength
    <2>. QED
      BY <1>1, <1>3, <2>1 DEF SetUp, Uses, Place, Made, Lock, ProducerLock, ConsumerLock
  <1>4. CASE p = "consumer" /\ shm
    <2>1. next[p] \in 1 .. 4
      BY <1>1, <1>4, SetUpLength
    <2>. QED
      BY <1>1, <1>4, <2>1 DEF SetUp, Uses, Place, Made, Lock, ProducerLock, ConsumerLock
  <1>5. CASE p = "consumer" /\ ~ shm
    <2>1. next[p] \in 1 .. 4
      BY <1>1, <1>5, SetUpLength
    <2>. QED
      BY <1>1, <1>5, <2>1 DEF SetUp, Uses, Place, Made, Lock, ProducerLock, ConsumerLock
  <1>. QED
    BY <1>2, <1>3, <1>4, <1>5 DEF Programs

LEMMA InitCalls ==
  ASSUME NEW p \in Programs, NEW n, next[p] \in Nat \ {0}, Calls(p, "setUp", "init", n)
  PROVE  /\ ~ shm /\ p = "producer" /\ n = "buffer" /\ mainPc[p] = "setUp"
         /\ next[p] = Place(p, n) /\ next[p] = 1
  <1>1. /\ mainPc[p] = "setUp" /\ next[p] <= Len(SetUp(p))
        /\ SetUp(p)[next[p]] = <<"init", n>>
    BY DEF Calls
  <1>2. CASE p = "producer" /\ shm
    <2>1. next[p] \in 1 .. 8
      BY <1>1, <1>2, SetUpLength
    <2>. QED
      BY <1>1, <1>2, <2>1 DEF SetUp, Place
  <1>3. CASE p = "producer" /\ ~ shm
    <2>1. next[p] \in 1 .. 7
      BY <1>1, <1>3, SetUpLength
    <2>. QED
      BY <1>1, <1>3, <2>1 DEF SetUp, Place
  <1>4. CASE p = "consumer" /\ shm
    <2>1. next[p] \in 1 .. 4
      BY <1>1, <1>4, SetUpLength
    <2>. QED
      BY <1>1, <1>4, <2>1 DEF SetUp, Place
  <1>5. CASE p = "consumer" /\ ~ shm
    <2>1. next[p] \in 1 .. 4
      BY <1>1, <1>5, SetUpLength
    <2>. QED
      BY <1>1, <1>5, <2>1 DEF SetUp, Place
  <1>. QED
    BY <1>2, <1>3, <1>4, <1>5 DEF Programs

LEMMA UnlinkCalls ==
  ASSUME NEW p \in Programs, NEW n, next[p] \in Nat \ {0}, Calls(p, "tearDown", "unlink", n)
  PROVE  /\ mainPc[p] = "tearDown"
         /\ p = "producer" => shm /\ n = "buffer"
         /\ p = "consumer" => n \in Sems /\ next[p] = LastUnlink(n)
         /\ n \in Names
  BY DEF Calls, TearDown, Programs, LastUnlink, Sems, Names, ProducerLock, ConsumerLock

\* Each name of a program has a place of its own.
LEMMA Places ==
  ASSUME NEW p \in Programs, NEW m \in Uses(p), NEW n \in Uses(p)
  PROVE  /\ Place(p, n) \in Nat \ {0} /\ Place(p, n) <= Len(SetUp(p))
         /\ Place(p, m) = Place(p, n) => m = n
  <1>1. CASE p = "producer" /\ shm
    <2>1. Uses(p) = {"filled", "empty", "csProd", "buffer"} /\ Len(SetUp(p)) = 8
      BY <1>1, SetUpLength DEF Uses, Lock, ProducerLock
    <2>2. /\ Place(p, "filled") = 5 /\ Place(p, "empty") = 6
          /\ Place(p, "csProd") = 7 /\ Place(p, "buffer") = 8
      BY <1>1 DEF Place
    <2>. QED
      BY <2>1, <2>2
  <1>2. CASE p = "producer" /\ ~ shm
    <2>1. Uses(p) = {"filled", "empty", "cs", "buffer"} /\ Len(SetUp(p)) = 7
      BY <1>2, SetUpLength DEF Uses, Lock, ProducerLock
    <2>2. /\ Place(p, "filled") = 5 /\ Place(p, "empty") = 6
          /\ Place(p, "cs") = 7 /\ Place(p, "buffer") = 1
      BY <1>2 DEF Place
    <2>. QED
      BY <2>1, <2>2
  <1>3. CASE p = "consumer" /\ shm
    <2>1. Uses(p) = {"filled", "empty", "csCons", "buffer"} /\ Len(SetUp(p)) = 4
      BY <1>3, SetUpLength DEF Uses, Lock, ConsumerLock
    <2>2. /\ Place(p, "filled") = 1 /\ Place(p, "empty") = 2
          /\ Place(p, "csCons") = 3 /\ Place(p, "buffer") = 4
      BY <1>3 DEF Place
    <2>. QED
      BY <2>1, <2>2
  <1>4. CASE p = "consumer" /\ ~ shm
    <2>1. Uses(p) = {"filled", "empty", "cs", "buffer"} /\ Len(SetUp(p)) = 4
      BY <1>4, SetUpLength DEF Uses, Lock, ConsumerLock
    <2>2. /\ Place(p, "filled") = 2 /\ Place(p, "empty") = 3
          /\ Place(p, "cs") = 4 /\ Place(p, "buffer") = 1
      BY <1>4 DEF Place
    <2>. QED
      BY <2>1, <2>2
  <1>. QED
    BY <1>1, <1>2, <1>3, <1>4 DEF Programs

-----------------------------------------------------------------------------
(* The types, and the order of the calls *)

LEMMA TypesInit == Init => Types /\ CallInv
  <1>1. SUFFICES ASSUME Init PROVE Types /\ CallInv
    OBVIOUS
  <1>. USE SomeConstants
  <1>2. shm \in BOOLEAN /\ stale \in BOOLEAN /\ session \in Sessions
    BY <1>1 DEF Init
  <1>3. NoHandles \in [Names -> Owners] /\ \A n \in Names : NoHandles[n] = 0
    BY DEF NoHandles, Names
  <1>4. names \in [Names -> Owners] /\ handle \in [Programs -> [Names -> Owners]]
    BY <1>1, <1>3 DEF Init
  <1>5. value \in [Sems -> [Sessions -> Nat]]
    BY <1>1 DEF Init
  <1>6. buf \in [Sessions -> [Cells -> Nat]]
    BY <1>1 DEF Init, Cells
  <1>7. /\ mainPc \in [Programs -> MainSteps] /\ childPc \in [Children -> ChildSteps]
        /\ next \in [Programs -> Nat \ {0}] /\ item \in [Children -> Nat]
        /\ read_index \in [Sessions -> Cells] /\ write_index \in [Sessions -> Cells]
        /\ sent \in Seq(Nat) /\ received \in Seq(Nat)
    BY <1>1 DEF Init, MainSteps, ChildSteps
  <1>8. CallInv
    BY <1>1, <1>7 DEF Init, CallInv, Forked, Working
  <1>. QED
    BY <1>2, <1>4, <1>5, <1>6, <1>7, <1>8 DEF Types

\* A program opens one name: its other handles stay.
LEMMA HandleSet ==
  ASSUME Types, NEW p \in Programs, NEW n \in Names, NEW o \in Owners, Holds(p, n, o)
  PROVE  /\ handle' \in [Programs -> [Names -> Owners]]
         /\ \A q \in Programs, m \in Names :
               handle'[q][m] = IF q = p /\ m = n THEN o ELSE handle[q][m]
  BY DEF Types, Holds

\* Proceed and Fail move one main process.
LEMMA MainMoves ==
  ASSUME Types, NEW p \in Programs
  PROVE  /\ Proceed(p) => /\ mainPc' = mainPc /\ next' \in [Programs -> Nat \ {0}]
                          /\ \A q \in Programs : next'[q] = IF q = p THEN next[p] + 1 ELSE next[q]
         /\ Fail(p) => /\ next' = next /\ mainPc' \in [Programs -> MainSteps]
                       /\ \A q \in Programs :
                             mainPc'[q] = IF q = p THEN "failed" ELSE mainPc[q]
  <1>1. /\ mainPc \in [Programs -> MainSteps] /\ next \in [Programs -> Nat \ {0}]
        /\ "failed" \in MainSteps
    BY DEF Types, MainSteps
  <1>2. Proceed(p) => /\ mainPc' = mainPc /\ next' \in [Programs -> Nat \ {0}]
                      /\ \A q \in Programs : next'[q] = IF q = p THEN next[p] + 1 ELSE next[q]
    BY <1>1 DEF Proceed
  <1>3. Fail(p) => /\ next' = next /\ mainPc' \in [Programs -> MainSteps]
                   /\ \A q \in Programs : mainPc'[q] = IF q = p THEN "failed" ELSE mainPc[q]
    BY <1>1 DEF Fail
  <1>. QED
    BY <1>2, <1>3

\* The next call of the set-up has been made, and it opened the name at its place, if any.
LEMMA CallMade ==
  ASSUME Types, CallInv, NEW p \in Programs, mainPc[p] = "setUp", Proceed(p), shm' = shm,
         UNCHANGED <<children, sent>>,
         \A q \in Programs \ {p} : handle'[q] = handle[q],
         \A m \in Uses(p) : handle'[p][m] # 0 <=> handle[p][m] # 0 \/ next[p] = Place(p, m)
  PROVE  CallInv'
  <1>1. /\ mainPc' = mainPc /\ next[p] \in Nat
        /\ \A q \in Programs : next'[q] = IF q = p THEN next[p] + 1 ELSE next[q]
    BY MainMoves DEF Types
  <1>2. \A m \in Uses(p) : next[p] + 1 > Place(p, m) <=> handle'[p][m] # 0
    BY <1>1, Places DEF CallInv
  <1>3. \A q : Uses(q)' = Uses(q) /\ \A m : Place(q, m)' = Place(q, m)
    BY VariantStays
  <1>4. ASSUME NEW q \in Programs
        PROVE  /\ mainPc'[q] = "setUp" =>
                     \A n \in Uses(q) : next'[q] > Place(q, n) <=> handle'[q][n] # 0
               /\ mainPc'[q] \in Forked => \A n \in Uses(q) : handle'[q][n] # 0
               /\ mainPc'[q] = "idle" => handle'[q] = NoHandles
    BY <1>1, <1>2 DEF CallInv, Forked
  <1>5. NoHandles' = NoHandles
    BY VariantStays DEF NoHandles
  <1>. QED
    BY <1>1, <1>3, <1>4, <1>5 DEF CallInv, children

\* A failed program has no children at work.
LEMMA CallFailed ==
  ASSUME Types, CallInv, NEW p \in Programs, mainPc[p] \in {"setUp", "tearDown"}, Fail(p),
         shm' = shm, UNCHANGED <<children, sent, handle>>
  PROVE  CallInv'
  <1>1. /\ next' = next
        /\ \A q \in Programs : mainPc'[q] = IF q = p THEN "failed" ELSE mainPc[q]
    BY MainMoves
  <1>2. \A q : Uses(q)' = Uses(q) /\ \A m : Place(q, m)' = Place(q, m)
    BY VariantStays
  <1>3. NoHandles' = NoHandles
    BY VariantStays DEF NoHandles
  <1>4. \A c \in Children : c[1] \in Programs
    BY SomeConstants
  <1>. QED
    BY <1>1, <1>2, <1>3, <1>4, SomeConstants DEF CallInv, children, Forked

LEMMA InitialValues ==
  ASSUME NEW n
  PROVE  /\ n = "filled" => InitialValue(n) = 0
         /\ n = "empty" => InitialValue(n) = BufferSize
         /\ n \notin {"filled", "empty"} => InitialValue(n) = 1
         /\ InitialValue(n) \in Nat
  <1>1. n = "filled" => InitialValue(n) = 0
    BY Zenon DEF InitialValue
  <1>2. n = "empty" => InitialValue(n) = BufferSize
    BY ZenonT(30) DEF InitialValue
  <1>3. n \notin {"filled", "empty"} => InitialValue(n) = 1
    BY Zenon DEF InitialValue
  <1>. QED
    BY <1>1, <1>2, <1>3, SomeConstants

\* One semaphore of one session takes a value.
LEMMA ValueSet ==
  ASSUME Types, NEW n \in Sems, NEW o \in Sessions, NEW v \in Nat,
         value' = [value EXCEPT ![n][o] = v]
  PROVE  /\ value' \in [Sems -> [Sessions -> Nat]]
         /\ \A m \in Sems, s \in Sessions :
               value'[m][s] = IF m = n /\ s = o THEN v ELSE value[m][s]
  BY DEF Types

LEMMA KeptMain ==
  ASSUME Types, CallInv, NEW p \in Programs, MainNext(p)
  PROVE  Types' /\ CallInv' /\ shm' = shm /\ session' = session
  <1>1. shm' = shm /\ session' = session
    BY DEF MainNext, Start, ForkChildren, WaitChildren, Exit, CreateMemory, InitFile, Drop,
           CreateSem, Open, Unlink, era
  <1>2. Names' = Names /\ Sems' = Sems /\ (\A q : Uses(q)' = Uses(q))
        /\ (\A q, n : Place(q, n)' = Place(q, n)) /\ NoHandles' = NoHandles
    BY <1>1, VariantStays DEF NoHandles
  <1>3. /\ mainPc \in [Programs -> MainSteps] /\ next \in [Programs -> Nat \ {0}]
        /\ handle \in [Programs -> [Names -> Owners]] /\ childPc \in [Children -> ChildSteps]
        /\ next[p] \in Nat \ {0}
    BY DEF Types
  <1>4. NoHandles \in [Names -> Owners] /\ \A n \in Names : NoHandles[n] = 0
    BY SomeConstants DEF NoHandles, Names
  <1>5. CASE Start(p)
    <2>1. /\ handle' \in [Programs -> [Names -> Owners]]
          /\ \A q \in Programs : handle'[q] = IF q = p THEN NoHandles ELSE handle[q]
      BY <1>3, <1>4, <1>5 DEF Start
    <2>2. /\ mainPc' \in [Programs -> MainSteps]
          /\ \A q \in Programs : mainPc'[q] = IF q = p THEN "setUp" ELSE mainPc[q]
      BY <1>3, <1>5 DEF Start, MainSteps
    <2>3. /\ next' \in [Programs -> Nat \ {0}]
          /\ \A q \in Programs : next'[q] = IF q = p THEN 1 ELSE next[q]
      BY <1>3, <1>5 DEF Start
    <2>4. mainPc[p] \in {"idle", "failed"} /\ (mainPc[p] = "failed" => p = "consumer")
      BY <1>5 DEF Start
    <2>5. Types'
      BY <1>1, <1>2, <1>5, <2>1, <2>2, <2>3
         DEF Start, Types, buffers, children, history
    <2>6. \A m \in Uses(p) : ~ (1 > Place(p, m)) /\ NoHandles[m] = 0
      BY <1>4, Places, TwoVariants
    <2>7. \A c \in Children : c[1] \in Programs
      BY SomeConstants
    <2>8. CallInv'
      <3>1. ASSUME NEW q \in Programs
            PROVE  /\ mainPc'[q] = "setUp" =>
                         \A n \in Uses(q) : next'[q] > Place(q, n) <=> handle'[q][n] # 0
                   /\ mainPc'[q] \in Forked => \A n \in Uses(q) : handle'[q][n] # 0
                   /\ mainPc'[q] = "idle" => handle'[q] = NoHandles
        BY <2>1, <2>2, <2>3, <2>6 DEF CallInv, Forked
      <3>2. \A c \in Children : childPc'[c] \in Working => mainPc'[c[1]] = "wait"
        BY <1>5, <2>2, <2>4, <2>7 DEF CallInv, Start, children
      <3>3. mainPc'["producer"] \in {"idle", "setUp"} =>
               sent' = << >> /\ \A c \in Producers : childPc'[c] = "none"
        BY <1>5, <2>2, <2>4, SomeConstants DEF CallInv, Start, children, history
      <3>. QED
        BY <1>2, <3>1, <3>2, <3>3 DEF CallInv
    <2>. QED
      BY <1>1, <2>5, <2>8
  <1>6. ASSUME NEW n \in Names, Drop(p, n)
        PROVE  Types' /\ CallInv'
    <2>1. names' \in [Names -> Owners]
      BY <1>6, SomeConstants DEF Drop, Types
    <2>2. Types'
      BY <1>1, <1>2, <1>6, <2>1, MainMoves DEF Drop, Types, buffers, children, history
    <2>. QED
      BY <1>1, <1>3, <1>6, <2>2, DropCalls, CallMade DEF Drop, history
  <1>7. ASSUME NEW n \in Names, CreateSem(p, n)
        PROVE  Types' /\ CallInv'
    <2>1. n \in Uses(p) /\ mainPc[p] = "setUp" /\ next[p] = Place(p, n) /\ n \in Sems
      BY <1>3, <1>7, CreateCalls DEF CreateSem
    <2>2. CASE names[n] # 0
      <3>1. Fail(p) /\ UNCHANGED <<names, value, handle, buffers, children, history>>
        BY <1>7, <2>2 DEF CreateSem
      <3>2. Types'
        BY <1>1, <1>2, <3>1, MainMoves DEF Types, buffers, children, history
      <3>. QED
        BY <1>1, <2>1, <3>1, <3>2, CallFailed DEF history
    <2>3. CASE names[n] = 0
      <3>1. /\ Proceed(p) /\ UNCHANGED <<buffers, children, history>>
            /\ names' = [names EXCEPT ![n] = session]
            /\ value' = [value EXCEPT ![n][session] = InitialValue(n)]
            /\ Holds(p, n, session)
        BY <1>7, <2>3 DEF CreateSem
      <3>2. session \in Sessions /\ session \in Owners /\ session # 0
        BY SomeConstants DEF Types
      <3>3. names' \in [Names -> Owners]
        BY <3>1, <3>2 DEF Types
      <3>4. value' \in [Sems -> [Sessions -> Nat]]
        BY <2>1, <3>1, <3>2, InitialValues DEF Types
      <3>5. /\ handle' \in [Programs -> [Names -> Owners]]
            /\ \A q \in Programs, m \in Names :
                  handle'[q][m] = IF q = p /\ m = n THEN session ELSE handle[q][m]
        BY <3>1, <3>2, HandleSet
      <3>6. Types'
        BY <1>1, <1>2, <3>1, <3>3, <3>4, <3>5, MainMoves DEF Types, buffers, children, history
      <3>7. \A q \in Programs \ {p} : handle'[q] = handle[q]
        BY <3>1 DEF Holds, Types
      <3>8. \A m \in Uses(p) : handle'[p][m] # 0 <=> handle[p][m] # 0 \/ next[p] = Place(p, m)
        BY <2>1, <3>2, <3>5, Places, TwoVariants
      <3>. QED
        BY <1>1, <2>1, <3>1, <3>6, <3>7, <3>8, CallMade DEF history
    <2>. QED
      BY <2>2, <2>3
  <1>8. CASE p = "producer" /\ CreateMemory
    <2>1. "buffer" \in Uses(p) /\ mainPc[p] = "setUp" /\ next[p] = Place(p, "buffer")
      BY <1>3, <1>8, CreateCalls DEF CreateMemory
    <2>2. CASE names["buffer"] # 0
      <3>1. Fail(p) /\ UNCHANGED <<names, value, handle, buffers, children, history>>
        BY <1>8, <2>2 DEF CreateMemory
      <3>2. Types'
        BY <1>1, <1>2, <3>1, MainMoves DEF Types, buffers, children, history
      <3>. QED
        BY <1>1, <2>1, <3>1, <3>2, CallFailed DEF history
    <2>3. CASE names["buffer"] = 0
      <3>1. /\ Proceed(p) /\ UNCHANGED <<value, buffers, children, history>>
            /\ names' = [names EXCEPT !["buffer"] = session]
            /\ Holds(p, "buffer", session)
        BY <1>8, <2>3 DEF CreateMemory
      <3>2. session \in Sessions /\ session \in Owners /\ session # 0 /\ "buffer" \in Names
        BY SomeConstants, TwoVariants DEF Types
      <3>3. names' \in [Names -> Owners]
        BY <3>1, <3>2 DEF Types
      <3>5. /\ handle' \in [Programs -> [Names -> Owners]]
            /\ \A q \in Programs, m \in Names :
                  handle'[q][m] = IF q = p /\ m = "buffer" THEN session ELSE handle[q][m]
        BY <3>1, <3>2, HandleSet
      <3>6. Types'
        BY <1>1, <1>2, <3>1, <3>3, <3>5, MainMoves DEF Types, buffers, children, history
      <3>7. \A q \in Programs \ {p} : handle'[q] = handle[q]
        BY <3>1 DEF Holds, Types
      <3>8. \A m \in Uses(p) : handle'[p][m] # 0 <=> handle[p][m] # 0 \/ next[p] = Place(p, m)
        BY <2>1, <3>2, <3>5, Places, TwoVariants
      <3>. QED
        BY <1>1, <2>1, <3>1, <3>6, <3>7, <3>8, CallMade DEF history
    <2>. QED
      BY <2>2, <2>3
  <1>9. CASE p = "producer" /\ InitFile
    <2>1. "buffer" \in Uses(p) /\ mainPc[p] = "setUp" /\ next[p] = Place(p, "buffer")
      BY <1>3, <1>9, InitCalls, TwoVariants DEF InitFile
    <2>2. /\ Proceed(p) /\ UNCHANGED <<value, children, sent, stale>>
          /\ names' = [names EXCEPT !["buffer"] = 1] /\ Holds(p, "buffer", 1)
          /\ received' = << >>
      BY <1>9 DEF InitFile
    <2>3. 1 \in Sessions /\ 1 \in Owners /\ "buffer" \in Names
      BY SomeConstants, TwoVariants
    <2>4. names' \in [Names -> Owners]
      BY <2>2, <2>3 DEF Types
    <2>5. /\ handle' \in [Programs -> [Names -> Owners]]
          /\ \A q \in Programs, m \in Names :
                handle'[q][m] = IF q = p /\ m = "buffer" THEN 1 ELSE handle[q][m]
      BY <2>2, <2>3, HandleSet
    <2>6. /\ buf' \in [Sessions -> [Cells -> Nat]]
          /\ read_index' \in [Sessions -> Cells] /\ write_index' \in [Sessions -> Cells]
      BY <1>9, <2>3, SomeConstants DEF InitFile, Types, Cells
    <2>7. Types'
      <3>1. childPc' = childPc /\ item' = item /\ value' = value /\ received' \in Seq(Nat)
        BY <2>2 DEF children
      <3>2. mainPc' \in [Programs -> MainSteps] /\ next' \in [Programs -> Nat \ {0}]
        BY <1>3, <2>2, MainMoves
      <3>. QED
        BY <1>1, <1>2, <2>2, <2>4, <2>5, <2>6, <3>1, <3>2 DEF Types
    <2>8. \A q \in Programs \ {p} : handle'[q] = handle[q]
      BY <2>2 DEF Holds, Types
    <2>9. \A m \in Uses(p) : handle'[p][m] # 0 <=> handle[p][m] # 0 \/ next[p] = Place(p, m)
      BY <2>1, <2>3, <2>5, Places, TwoVariants
    <2>. QED
      BY <1>1, <2>1, <2>2, <2>7, <2>8, <2>9, CallMade
  <1>10. ASSUME NEW n \in Names, Open(p, n)
         PROVE  Types' /\ CallInv'
    <2>1. n \in Uses(p) /\ mainPc[p] = "setUp" /\ next[p] = Place(p, n)
      BY <1>3, <1>10, OpenCalls DEF Open
    <2>2. CASE names[n] = 0
      <3>1. Fail(p) /\ UNCHANGED <<names, value, handle, buffers, children, history>>
        BY <1>10, <2>2 DEF Open
      <3>2. Types'
        BY <1>1, <1>2, <3>1, MainMoves DEF Types, buffers, children, history
      <3>. QED
        BY <1>1, <2>1, <3>1, <3>2, CallFailed DEF history
    <2>3. CASE names[n] # 0
      <3>1. /\ Proceed(p) /\ UNCHANGED <<names, value, buffers, children, history>>
            /\ Holds(p, n, names[n])
        BY <1>10, <2>3 DEF Open
      <3>2. names[n] \in Owners
        BY DEF Types
      <3>5. /\ handle' \in [Programs -> [Names -> Owners]]
            /\ \A q \in Programs, m \in Names :
                  handle'[q][m] = IF q = p /\ m = n THEN names[n] ELSE handle[q][m]
        BY <3>1, <3>2, HandleSet
      <3>6. Types'
        BY <1>1, <1>2, <3>1, <3>5, MainMoves DEF Types, buffers, children, history
      <3>7. \A q \in Programs \ {p} : handle'[q] = handle[q]
        BY <3>1 DEF Holds, Types
      <3>8. \A m \in Uses(p) : handle'[p][m] # 0 <=> handle[p][m] # 0 \/ next[p] = Place(p, m)
        BY <2>1, <2>3, <3>5, Places, TwoVariants
      <3>. QED
        BY <1>1, <2>1, <3>1, <3>6, <3>7, <3>8, CallMade DEF history
    <2>. QED
      BY <2>2, <2>3
  <1>11. CASE ForkChildren(p)
    <2>1. /\ mainPc[p] = "setUp" /\ next[p] > Len(SetUp(p))
          /\ UNCHANGED <<names, value, buffers, next, handle, item, sent, received>>
          /\ childPc' = [c \in Children |-> IF c[1] = p THEN "waitCount" ELSE childPc[c]]
          /\ stale' \in BOOLEAN
      BY <1>11 DEF ForkChildren, Types
    <2>2. /\ mainPc' \in [Programs -> MainSteps]
          /\ \A q \in Programs : mainPc'[q] = IF q = p THEN "wait" ELSE mainPc[q]
      BY <1>3, <1>11 DEF ForkChildren, MainSteps
    <2>3. childPc' \in [Children -> ChildSteps]
      BY <1>3, <2>1 DEF ChildSteps
    <2>4. Types'
      BY <1>1, <1>2, <2>1, <2>2, <2>3 DEF Types, buffers
    <2>5. \A n \in Uses(p) : next[p] > Place(p, n)
      <3>1. Len(SetUp(p)) \in Nat
        BY SetUpLength DEF Programs
      <3>. QED
        BY <1>3, <2>1, <3>1, Places
    <2>6. CallInv'
      <3>1. ASSUME NEW q \in Programs
            PROVE  /\ mainPc'[q] = "setUp" =>
                         \A n \in Uses(q) : next'[q] > Place(q, n) <=> handle'[q][n] # 0
                   /\ mainPc'[q] \in Forked => \A n \in Uses(q) : handle'[q][n] # 0
                   /\ mainPc'[q] = "idle" => handle'[q] = NoHandles
        BY <2>1, <2>2, <2>5 DEF CallInv, Forked
      <3>2. \A c \in Children : childPc'[c] \in Working => mainPc'[c[1]] = "wait"
        BY <2>1, <2>2, SomeConstants DEF CallInv
      <3>3. mainPc'["producer"] \in {"idle", "setUp"} =>
               sent' = << >> /\ \A c \in Producers : childPc'[c] = "none"
        BY <2>1, <2>2, SomeConstants DEF CallInv
      <3>. QED
        BY <1>2, <3>1, <3>2, <3>3 DEF CallInv
    <2>. QED
      BY <1>1, <2>4, <2>6
  <1>12. CASE WaitChildren(p)
    <2>1. /\ mainPc[p] = "wait" /\ \A c \in Children : c[1] = p => childPc[c] = "done"
          /\ UNCHANGED <<names, value, buffers, handle, children, history>>
      BY <1>12 DEF WaitChildren
    <2>2. /\ mainPc' \in [Programs -> MainSteps]
          /\ \A q \in Programs : mainPc'[q] = IF q = p THEN "tearDown" ELSE mainPc[q]
      BY <1>3, <1>12 DEF WaitChildren, MainSteps
    <2>3. /\ next' \in [Programs -> Nat \ {0}]
          /\ \A q \in Programs \ {p} : next'[q] = next[q]
      BY <1>3, <1>12 DEF WaitChildren
    <2>4. Types'
      BY <1>1, <1>2, <2>1, <2>2, <2>3 DEF Types, buffers, children, history
    <2>5. CallInv'
      <3>1. ASSUME NEW q \in Programs
            PROVE  /\ mainPc'[q] = "setUp" =>
                         \A n \in Uses(q) : next'[q] > Place(q, n) <=> handle'[q][n] # 0
                   /\ mainPc'[q] \in Forked => \A n \in Uses(q) : handle'[q][n] # 0
                   /\ mainPc'[q] = "idle" => handle'[q] = NoHandles
        BY <2>1, <2>2, <2>3 DEF CallInv, Forked
      <3>2. \A c \in Children : childPc'[c] \in Working => mainPc'[c[1]] = "wait"
        BY <2>1, <2>2, SomeConstants DEF CallInv, Working, children
      <3>3. mainPc'["producer"] \in {"idle", "setUp"} =>
               sent' = << >> /\ \A c \in Producers : childPc'[c] = "none"
        BY <2>1, <2>2, SomeConstants DEF CallInv, children, history
      <3>. QED
        BY <1>2, <3>1, <3>2, <3>3 DEF CallInv
    <2>. QED
      BY <1>1, <2>4, <2>5
  <1>13. ASSUME NEW n \in Names, Unlink(p, n)
         PROVE  Types' /\ CallInv'
    <2>1. /\ mainPc[p] = "tearDown"
          /\ Fail(p) \/ Proceed(p)
          /\ UNCHANGED <<value, buffers, handle, children, history>>
      BY <1>3, <1>13, UnlinkCalls DEF Unlink
    <2>2. names' \in [Names -> Owners]
      BY <1>13, SomeConstants DEF Unlink, Types
    <2>3. Types'
      BY <1>1, <1>2, <2>1, <2>2, MainMoves DEF Types, buffers, children, history
    <2>4. CASE Fail(p)
      BY <1>1, <1>13, <2>1, <2>3, <2>4, CallFailed, UnlinkCalls, <1>3 DEF history, Unlink
    <2>5. CASE Proceed(p)
      <3>1. /\ mainPc' = mainPc /\ mainPc[p] = "tearDown"
            /\ \A q \in Programs : next'[q] = IF q = p THEN next[p] + 1 ELSE next[q]
        BY <1>3, <1>13, <2>5, MainMoves, UnlinkCalls DEF Unlink
      <3>. QED
        BY <1>2, <2>1, <2>3, <3>1 DEF CallInv, children, history, Forked
    <2>. QED
      BY <2>1, <2>4, <2>5
  <1>14. CASE Exit(p)
    <2>1. /\ mainPc[p] = "tearDown"
          /\ UNCHANGED <<names, value, buffers, next, handle, children, history>>
      BY <1>14 DEF Exit
    <2>2. /\ mainPc' \in [Programs -> MainSteps]
          /\ \A q \in Programs : mainPc'[q] = IF q = p THEN "exited" ELSE mainPc[q]
      BY <1>3, <1>14 DEF Exit, MainSteps
    <2>3. Types'
      BY <1>1, <1>2, <2>1, <2>2 DEF Types, buffers, children, history
    <2>4. CallInv'
      BY <1>2, <2>1, <2>2, SomeConstants DEF CallInv, Forked, children, history
    <2>. QED
      BY <1>1, <2>3, <2>4
  <1>. QED
    BY <1>1, <1>5, <1>6, <1>7, <1>8, <1>9, <1>10, <1>11, <1>12, <1>13, <1>14 DEF MainNext, Names

\* A child at work has the objects that its program has opened.
LEMMA ChildHandles ==
  ASSUME Types, CallInv, NEW c \in Children, childPc[c] \in Working
  PROVE  /\ c[1] \in Programs /\ mainPc[c[1]] = "wait"
         /\ \A n \in Uses(c[1]) : handle[c[1]][n] \in Sessions
         /\ Buffer(c) \in Sessions /\ read_index[Buffer(c)] \in Cells
         /\ write_index[Buffer(c)] \in Cells
  <1>1. c[1] \in Programs
    BY SomeConstants
  <1>2. mainPc[c[1]] = "wait"
    BY DEF CallInv
  <1>3. \A n \in Uses(c[1]) : handle[c[1]][n] \in Owners /\ handle[c[1]][n] # 0
    BY <1>1, <1>2, TwoVariants DEF CallInv, Types, Forked
  <1>4. \A n \in Uses(c[1]) : handle[c[1]][n] \in Sessions
    BY <1>3 DEF Owners
  <1>. QED
    BY <1>1, <1>2, <1>4, TwoVariants DEF Buffer, Types

\* What a child does at a semaphore.
LEMMA AdjustSets ==
  ASSUME Types, CallInv, NEW c \in Children, childPc[c] \in Working,
         NEW n \in {"filled", "empty", Lock(c[1])}, NEW change \in Int, Adjust(n, c, change)
  PROVE  /\ handle[c[1]][n] \in Sessions /\ n \in Sems
         /\ value[n][handle[c[1]][n]] \in Nat
         /\ value[n][handle[c[1]][n]] + change \in Nat
         /\ value' \in [Sems -> [Sessions -> Nat]]
         /\ \A m \in Sems, s \in Sessions :
               value'[m][s] = IF m = n /\ s = handle[c[1]][n] THEN value[m][s] + change
                              ELSE value[m][s]
  <1>1. handle[c[1]][n] \in Sessions
    BY ChildHandles, TwoVariants
  <1>2. n \in Sems
    BY ChildHandles, SomeConstants, TwoVariants
  <1>3. value[n][handle[c[1]][n]] \in Nat
    BY <1>1, <1>2 DEF Types
  <1>4. value[n][handle[c[1]][n]] + change \in Nat
    BY <1>3 DEF Adjust
  <1>5. value' = [value EXCEPT ![n][handle[c[1]][n]] = value[n][handle[c[1]][n]] + change]
    BY <1>1, <1>2 DEF Adjust, Types
  <1>. HIDE DEF Adjust
  <1>6. /\ value' \in [Sems -> [Sessions -> Nat]]
        /\ \A m \in Sems, s \in Sessions :
              value'[m][s] = IF m = n /\ s = handle[c[1]][n]
                             THEN value[n][handle[c[1]][n]] + change ELSE value[m][s]
    <2>. DEFINE v == value[n][handle[c[1]][n]] + change  o == handle[c[1]][n]
    <2>1. v \in Nat /\ o \in Sessions /\ value' = [value EXCEPT ![n][o] = v]
      BY <1>1, <1>4, <1>5
    <2>. HIDE DEF v, o
    <2>2. /\ value' \in [Sems -> [Sessions -> Nat]]
          /\ \A m \in Sems, s \in Sessions :
                value'[m][s] = IF m = n /\ s = o THEN v ELSE value[m][s]
      BY <1>2, <2>1 DEF Types
    <2>. QED
      BY <2>2 DEF v, o
  <1>. QED
    BY <1>1, <1>2, <1>3, <1>4, <1>6

\* A child's step: where it leads, and what it leaves alone.
LEMMA ChildMoves ==
  ASSUME Types, NEW c \in Children, ChildNext(c)
  PROVE  /\ childPc[c] \in Working
         /\ childPc' \in [Children -> ChildSteps]
         /\ \A d \in Children \ {c} : childPc'[d] = childPc[d] /\ item'[d] = item[d]
         /\ childPc' = [childPc EXCEPT ![c] = childPc'[c]]
         /\ shm' = shm /\ UNCHANGED <<session, names, mainPc, next, handle, stale>>
  <1>1. UNCHANGED <<era, names, mains, stale>>
    BY DEF ChildNext, WaitCount, WaitLock, StoreItem, LoadItem, AdvanceWrite, AdvanceRead,
           PostLock, PostCount, history
  <1>2. PICK from \in Working, to \in ChildSteps : ChildStep(c, from, to)
    <2>1. {"waitCount", "waitLock", "access", "advance", "postLock", "postCount"} = Working
          /\ {"waitCount", "waitLock", "access", "advance", "postLock", "postCount", "done"}
                \subseteq ChildSteps
      BY DEF Working, ChildSteps
    <2>. QED
      BY <2>1
         DEF ChildNext, WaitCount, WaitLock, StoreItem, LoadItem, AdvanceWrite, AdvanceRead,
             PostLock, PostCount
  <1>3. /\ childPc[c] \in Working /\ childPc' \in [Children -> ChildSteps]
        /\ \A d \in Children \ {c} : childPc'[d] = childPc[d]
        /\ childPc' = [childPc EXCEPT ![c] = childPc'[c]]
    BY <1>2 DEF ChildStep, Types
  <1>4. \A d \in Children \ {c} : item'[d] = item[d]
    BY DEF ChildNext, WaitCount, WaitLock, StoreItem, LoadItem, AdvanceWrite, AdvanceRead,
           PostLock, PostCount, history, Types
  <1>. QED
    BY <1>1, <1>3, <1>4 DEF era, mains

LEMMA KeptChild ==
  ASSUME Types, CallInv, NEW c \in Children, ChildNext(c)
  PROVE  Types' /\ CallInv'
  <1>1. /\ childPc[c] \in Working
        /\ childPc' \in [Children -> ChildSteps]
        /\ \A d \in Children \ {c} : childPc'[d] = childPc[d]
        /\ shm' = shm /\ UNCHANGED <<session, names, mainPc, next, handle, stale>>
    BY ChildMoves
  <1>2. /\ c[1] \in Programs /\ mainPc[c[1]] = "wait" /\ Buffer(c) \in Sessions
        /\ read_index[Buffer(c)] \in Cells /\ write_index[Buffer(c)] \in Cells
    BY <1>1, ChildHandles
  <1>3. Names' = Names /\ Sems' = Sems /\ (\A q : Uses(q)' = Uses(q))
        /\ (\A q, n : Place(q, n)' = Place(q, n)) /\ NoHandles' = NoHandles
    BY <1>1, VariantStays DEF NoHandles
  <1>4. CASE WaitCount(c) \/ WaitLock(c) \/ PostLock(c) \/ PostCount(c)
    <2>1. PICK n \in {"filled", "empty", Lock(c[1])}, change \in Int : Adjust(n, c, change)
      BY <1>4 DEF WaitCount, WaitLock, PostLock, PostCount
    <2>2. value' \in [Sems -> [Sessions -> Nat]]
      BY <1>1, <2>1, AdjustSets
    <2>3. UNCHANGED <<buffers, item, history>>
      BY <1>4 DEF WaitCount, WaitLock, PostLock, PostCount
    <2>4. Types'
      BY <1>1, <1>3, <2>2, <2>3 DEF Types, buffers, history
    <2>. QED
      BY <1>1, <1>2, <1>3, <2>3, <2>4, SomeConstants DEF CallInv, Forked, history
  <1>5. CASE StoreItem(c)
    <2>1. /\ item' \in [Children -> Nat] /\ item'[c] \in Nat
      BY <1>5 DEF StoreItem, Types
    <2>2. buf' \in [Sessions -> [Cells -> Nat]]
      BY <1>2, <1>5, <2>1 DEF StoreItem, Types
    <2>3. UNCHANGED <<value, read_index, write_index, history>>
      BY <1>5 DEF StoreItem
    <2>4. Types'
      BY <1>1, <1>3, <2>1, <2>2, <2>3 DEF Types, history
    <2>. QED
      BY <1>1, <1>2, <1>3, <2>3, <2>4, SomeConstants DEF CallInv, Forked, history
  <1>6. CASE LoadItem(c)
    <2>1. item' \in [Children -> Nat]
      BY <1>2, <1>6 DEF LoadItem, Types
    <2>2. UNCHANGED <<value, buffers, history>>
      BY <1>6 DEF LoadItem
    <2>3. Types'
      BY <1>1, <1>3, <2>1, <2>2 DEF Types, buffers, history
    <2>. QED
      BY <1>1, <1>2, <1>3, <2>2, <2>3, SomeConstants DEF CallInv, Forked, history
  <1>7. CASE AdvanceWrite(c)
    <2>1. write_index' \in [Sessions -> Cells]
      <3>1. (write_index[Buffer(c)] + 1) % BufferSize \in Cells
        <4>1. write_index[Buffer(c)] + 1 \in Nat
          BY <1>2, SomeConstants DEF Cells
        <4>. QED
          BY <4>1, SomeConstants, ModRange DEF Cells
      <3>. QED
        BY <1>2, <1>7, <3>1 DEF AdvanceWrite, Types
    <2>2. sent' \in Seq(Nat) /\ received' \in Seq(Nat)
      BY <1>7 DEF AdvanceWrite, Types
    <2>3. UNCHANGED <<value, buf, read_index, item>>
      BY <1>7 DEF AdvanceWrite
    <2>4. Types'
      BY <1>1, <1>3, <2>1, <2>2, <2>3 DEF Types
    <2>5. c[1] = "producer"
      BY <1>7, SomeConstants DEF AdvanceWrite
    <2>. QED
      BY <1>1, <1>2, <1>3, <2>4, <2>5, SomeConstants DEF CallInv, Forked
  <1>8. CASE AdvanceRead(c)
    <2>1. read_index' \in [Sessions -> Cells]
      <3>1. (read_index[Buffer(c)] + 1) % BufferSize \in Cells
        <4>1. read_index[Buffer(c)] + 1 \in Nat
          BY <1>2, SomeConstants DEF Cells
        <4>. QED
          BY <4>1, SomeConstants, ModRange DEF Cells
      <3>. QED
        BY <1>2, <1>8, <3>1 DEF AdvanceRead, Types
    <2>2. sent' = sent /\ received' \in Seq(Nat)
      BY <1>8 DEF AdvanceRead, Types
    <2>3. UNCHANGED <<value, buf, write_index, item>>
      BY <1>8 DEF AdvanceRead
    <2>4. Types'
      BY <1>1, <1>3, <2>1, <2>2, <2>3 DEF Types
    <2>. QED
      BY <1>1, <1>2, <1>3, <2>2, <2>4, SomeConstants DEF CallInv, Forked
  <1>. QED
    BY <1>4, <1>5, <1>6, <1>7, <1>8 DEF ChildNext

LEMMA KeptSession ==
  ASSUME Types, NextSession
  PROVE  Types' /\ CallInv' /\ shm' = shm
  <1>1. shm' = shm /\ session' \in Sessions
    <2>1. /\ session \in Nat \ {0} /\ MaxSessions \in Nat /\ session < MaxSessions
          /\ session' = session + 1 /\ shm' = shm
      BY SomeConstants DEF NextSession, Types
    <2>. QED
      BY <2>1 DEF Sessions
  <1>2. Names' = Names /\ Sems' = Sems /\ NoHandles' = NoHandles
    BY <1>1, VariantStays DEF NoHandles
  <1>3. NoHandles \in [Names -> Owners]
    BY SomeConstants DEF NoHandles, Names
  <1>4. /\ mainPc' \in [Programs -> MainSteps] /\ next' \in [Programs -> Nat \ {0}]
        /\ handle' \in [Programs -> [Names -> Owners]]
        /\ childPc' \in [Children -> ChildSteps] /\ item' \in [Children -> Nat]
    BY <1>3 DEF NextSession, MainSteps, ChildSteps
  <1>5. Types'
    <2>1. /\ sent' = << >> /\ received' = << >> /\ stale' = FALSE
          /\ names' = names /\ value' = value /\ buf' = buf
          /\ read_index' = read_index /\ write_index' = write_index
      BY DEF NextSession, buffers
    <2>2. sent' \in Seq(Nat) /\ received' \in Seq(Nat)
      BY <2>1
    <2>3. stale' \in BOOLEAN
      BY <2>1
    <2>. QED
      BY <1>1, <1>2, <1>4, <2>1, <2>2, <2>3 DEF Types
  <1>6. CallInv'
    <2>1. \A p \in Programs : mainPc'[p] = "idle" /\ handle'[p] = NoHandles
      BY DEF NextSession
    <2>2. \A c \in Children : childPc'[c] = "none"
      BY DEF NextSession
    <2>. QED
      BY <1>2, <2>1, <2>2, SomeConstants DEF CallInv, NextSession, Forked, Working
  <1>. QED
    BY <1>1, <1>5, <1>6

-----------------------------------------------------------------------------
(* The steps of the main processes keep the rest *)

\* Children that stand still, or were not and are not in the middle of an operation.
StillChildren ==
  \A c \in Children :
     \/ childPc'[c] = childPc[c]
     \/ childPc[c] \in {"none", "done"} /\ childPc'[c] \in {"none", "waitCount"}

\* What the counts, and what the buffer, depend on.
LEMMA SameCounts ==
  ASSUME session' = session, sent' = sent, received' = received, StillChildren
  PROVE  /\ Held' = Held
         /\ /\ handle'["producer"]["filled"] = handle["producer"]["filled"]
            /\ value'["filled"][session] = value["filled"][session]
            /\ FilledInv
            => FilledInv'
         /\ /\ handle'["producer"]["empty"] = handle["producer"]["empty"]
            /\ value'["empty"][session] = value["empty"][session]
            /\ EmptyInv
            => EmptyInv'
  <1>1. /\ ProducersAt(Moving)' = ProducersAt(Moving)
        /\ ProducersAt(Moved)' = ProducersAt(Moved)
        /\ ConsumersAt(Moving)' = ConsumersAt(Moving)
        /\ ConsumersAt(Moved)' = ConsumersAt(Moved)
    <2>1. \A c \in Children : /\ childPc'[c] \in Moving <=> childPc[c] \in Moving
                              /\ childPc'[c] \in Moved <=> childPc[c] \in Moved
      BY DEF StillChildren, Moving, Moved
    <2>. QED
      BY <2>1, SomeConstants DEF ProducersAt, ConsumersAt, Moving, Moved
  <1>2. Held' = Held
    BY DEF Held
  <1>. QED
    BY <1>1, <1>2 DEF FilledInv, EmptyInv

LEMMA SameBuffer ==
  ASSUME shm' = shm, session' = session, sent' = sent, received' = received,
         handle'["producer"]["buffer"] = handle["producer"]["buffer"],
         UNCHANGED <<buf, read_index, write_index, item>>, stale => stale', StillChildren
  PROVE  /\ FreshInv => FreshInv'
         /\ WindowInv => WindowInv'
         /\ HandInv => HandInv'
         /\ InOrder => InOrder'
  <1>1. BufferOf(session)' = BufferOf(session)
    BY DEF BufferOf
  <1>2. FreshInv => FreshInv'
    BY DEF FreshInv
  <1>3. WindowInv => WindowInv'
    <2>1. WindowAt(BufferOf(session)) => WindowAt(BufferOf(session))'
      BY <1>1 DEF WindowAt
    <2>. QED
      BY <2>1 DEF WindowInv
  <1>4. HandInv => HandInv'
    <2>1. \A c \in Children : childPc'[c] = "advance" => childPc[c] = "advance"
      BY DEF StillChildren
    <2>. QED
      BY <1>1, <2>1, SomeConstants DEF HandInv
  <1>5. InOrder => InOrder'
    BY DEF InOrder
  <1>. QED
    BY <1>2, <1>3, <1>4, <1>5

\* What the promises about the data keep when no object is opened or made.
LEMMA KeptQuiet ==
  ASSUME Types, CallInv, DataInv, shm' = shm, session' = session,
         UNCHANGED <<value, handle, buf, read_index, write_index, item, sent, received>>,
         StillChildren, stale => stale',
         \A n \in Names : names'[n] \in {0, names[n]},
         ~ stale' /\ mainPc'["consumer"] \in Forked => HoldsAll("consumer")
  PROVE  DataInv'
  <1>1. /\ OwnerInv /\ LockInv /\ CountInv /\ FreshInv /\ WindowInv /\ HandInv /\ InOrder
        /\ session \in Nat \ {0}
    BY SomeConstants DEF DataInv, Types
  <1>2. /\ Sems' = Sems /\ Made' = Made /\ \A p : Lock(p)' = Lock(p)
        /\ HoldsAll("consumer")' = HoldsAll("consumer")
    BY VariantStays DEF HoldsAll, BufferOf
  <1>3. OwnerInv'
    <2>1. \A n \in Names : names'[n] = 0 \/ names'[n] = names[n]
      OBVIOUS
    <2>. QED
      BY <1>1, <1>2, <2>1, TwoVariants DEF OwnerInv
  <1>4. LockInv'
    <2>1. \A c \in Children : Has(c)' => Has(c)
      BY <1>2 DEF Has, StillChildren
    <2>. QED
      BY <1>1, <1>2, <2>1 DEF LockInv
  <1>5. CountInv'
    BY <1>1, SameCounts DEF CountInv
  <1>6. FreshInv' /\ WindowInv' /\ HandInv' /\ InOrder'
    BY <1>1, SameBuffer
  <1>. QED
    BY <1>3, <1>4, <1>5, <1>6 DEF DataInv

\* The consumers open or make a name, or start again, before they fork.
LEMMA KeptConsumer ==
  ASSUME Types, CallInv, DataInv, shm' = shm, session' = session,
         mainPc["consumer"] # "wait", mainPc'["consumer"] \notin Forked,
         UNCHANGED <<buf, read_index, write_index, childPc, item, sent, received, stale>>,
         handle'["producer"] = handle["producer"],
         \A n \in Made \cup {"buffer"} :
            handle'["consumer"][n] \in {0, handle["consumer"][n], names[n]},
         \A n \in Names : names'[n] = names[n] \/ (shm /\ n = "csCons" /\ names'[n] = session),
         \A n \in Sems : value'[n][session] = value[n][session] \/ (shm /\ n = "csCons"),
         shm => \/ handle'["consumer"]["csCons"] = 0
                \/ /\ handle'["consumer"]["csCons"] = handle["consumer"]["csCons"]
                   /\ value'["csCons"][session] = value["csCons"][session]
                \/ handle'["consumer"]["csCons"] = session /\ value'["csCons"][session] = 1
  PROVE  DataInv'
  <1>1. /\ OwnerInv /\ LockInv /\ CountInv /\ FreshInv /\ WindowInv /\ HandInv /\ InOrder
        /\ session \in Nat \ {0} /\ StillChildren
    BY SomeConstants DEF DataInv, Types, StillChildren
  <1>2. /\ Sems' = Sems /\ Made' = Made /\ \A p : Lock(p)' = Lock(p)
    BY VariantStays
  <1>3. \A n \in Made : /\ n # "csCons" \/ ~ shm
                        /\ handle'["consumer"][n] = session =>
                              handle["producer"][n] = session
                        /\ handle'["consumer"][n] <= session
                        /\ n \in Names /\ names[n] <= session
    <2>1. \A n \in Made : names[n] <= session /\ n \in Names /\ (n # "csCons" \/ ~ shm)
      BY <1>1, TwoVariants DEF OwnerInv
    <2>. QED
      BY <1>1, <2>1 DEF OwnerInv
  <1>4. OwnerInv'
    <2>1. /\ \A n \in Sems : names'[n] <= session
          /\ shm => names'["buffer"] <= session
          /\ ~ shm => /\ names'["buffer"] \in {0, 1}
                      /\ \A p \in Programs : handle'[p]["buffer"] \in {0, 1}
                      /\ handle'["producer"]["filled"] # 0 => handle'["producer"]["buffer"] = 1
      <3>1. \A n \in Sems : n \in Names
        BY TwoVariants
      <3>2. "buffer" \in Names /\ "producer" \in Programs
        BY TwoVariants, SomeConstants
      <3>3. ~ shm => \A p \in Programs : handle'[p]["buffer"] \in {0, 1}
        BY <1>1, SomeConstants DEF OwnerInv
      <3>. QED
        BY <1>1, <3>1, <3>2, <3>3 DEF OwnerInv
    <2>2. \A n \in Made : /\ handle'["producer"][n] \in {0, session}
                          /\ names'[n] = session => handle'["producer"][n] = session
                          /\ handle'["consumer"][n] = session => handle'["producer"][n] = session
                          /\ handle'["consumer"][n] <= session
      BY <1>1, <1>3 DEF OwnerInv
    <2>3. shm => handle'["consumer"]["csCons"] \in {0, session}
      BY <1>1 DEF OwnerInv
    <2>. QED
      BY <1>1, <1>2, <2>1, <2>2, <2>3 DEF OwnerInv
  <1>5. \A c \in Consumers : childPc[c] \notin Working
    BY SomeConstants DEF CallInv
  <1>6. LockInv'
    <2>1. \A c \in Children : Has(c)' => Has(c) /\ c \in Producers
      BY <1>2, <1>5, SomeConstants DEF Has, Working, ChildSteps
    <2>2. \A c \in Producers : value'[Lock("producer")][session] = value[Lock("producer")][session]
      BY TwoVariants
    <2>3. value'[Lock("producer")][session] = value[Lock("producer")][session]
      BY TwoVariants
    <2>4. handle'["consumer"][Lock("consumer")] = session =>
             value'[Lock("consumer")][session] <= 1
      <3>1. CASE shm
        BY <1>1, <3>1, TwoVariants, SomeConstants DEF LockInv
      <3>2. CASE ~ shm
        <4>1. Lock("consumer") = Lock("producer") /\ Lock("producer") \in Made
          BY <3>2, TwoVariants
        <4>. QED
          BY <1>1, <1>3, <2>3, <4>1, SomeConstants DEF LockInv
      <3>. QED
        BY <3>1, <3>2
    <2>5. handle'["producer"][Lock("producer")] = session =>
             value'[Lock("producer")][session] <= 1
      BY <1>1, <2>3, SomeConstants DEF LockInv
    <2>6. \A p \in Programs : handle'[p][Lock(p)] = session => value'[Lock(p)][session] <= 1
      BY <2>4, <2>5, SomeConstants
    <2>7. \A c, d \in Children :
             Has(c)' /\ Has(d)' /\ Lock(c[1]) = Lock(d[1]) =>
                c = d /\ value'[Lock(c[1])][session] = 0
      BY <1>1, <2>1, <2>3, SomeConstants DEF LockInv
    <2>. QED
      BY <1>2, <2>6, <2>7 DEF LockInv
  <1>7. CountInv'
    BY <1>1, SameCounts, TwoVariants DEF CountInv
  <1>8. FreshInv' /\ WindowInv' /\ HandInv' /\ InOrder'
    BY <1>1, SameBuffer
  <1>. QED
    BY <1>4, <1>6, <1>7, <1>8 DEF DataInv

\* While the producers have not made a name, no consumer has it: none is at work, unless
\* it is on old objects.
LEMMA NotMade ==
  ASSUME Types, CallInv, DataInv, NEW n \in Made, handle["producer"][n] = 0
  PROVE  /\ handle["consumer"][n] # session /\ names[n] # session
         /\ ~ stale /\ n # ProducerLock =>
               /\ mainPc["consumer"] \notin Forked
               /\ \A c \in Consumers : childPc[c] \notin Working
  <1>1. OwnerInv /\ session # 0
    BY SomeConstants DEF DataInv, Types
  <1>2. handle["consumer"][n] # session /\ names[n] # session
    BY <1>1 DEF OwnerInv
  <1>3. ~ stale /\ n # ProducerLock => mainPc["consumer"] \notin Forked
    <2>1. SUFFICES ASSUME HoldsAll("consumer"), n # ProducerLock PROVE FALSE
      BY <1>1 DEF OwnerInv
    <2>2. \/ n \in {"filled", "empty"}
          \/ shm /\ n = "buffer"
      BY <2>1 DEF Made
    <2>. QED
      BY <1>2, <2>1, <2>2, TwoVariants DEF HoldsAll
  <1>4. mainPc["consumer"] \notin Forked => \A c \in Consumers : childPc[c] \notin Working
    BY SomeConstants DEF CallInv, Forked
  <1>. QED
    BY <1>2, <1>3, <1>4

\* While the producers set up, nothing has been sent or received.
LEMMA NothingSent ==
  ASSUME Types, CallInv, DataInv, mainPc["producer"] = "setUp"
  PROVE  /\ sent = << >> /\ \A c \in Producers : childPc[c] = "none"
         /\ ~ stale => received = << >> /\ Held = 0
  <1>1. sent = << >> /\ \A c \in Producers : childPc[c] = "none"
    BY DEF CallInv
  <1>2. ~ stale => received = << >>
    BY <1>1 DEF DataInv, CountInv, Held, Types
  <1>. QED
    BY <1>1, <1>2 DEF Held

LEMMA NoneAt ==
  ASSUME \A c \in Producers : childPc[c] = "none"
  PROVE  /\ Cardinality(ProducersAt(Moving)) = 0 /\ Cardinality(ProducersAt(Moved)) = 0
         /\ (\A c \in Consumers : childPc[c] \notin Working) =>
               /\ Cardinality(ConsumersAt(Moving)) = 0
               /\ Cardinality(ConsumersAt(Moved)) = 0
  <1>1. ProducersAt(Moving) = {} /\ ProducersAt(Moved) = {}
    BY DEF ProducersAt, Moving, Moved
  <1>2. (\A c \in Consumers : childPc[c] \notin Working) =>
           ConsumersAt(Moving) = {} /\ ConsumersAt(Moved) = {}
    BY DEF ConsumersAt, Moving, Moved, Working, ChildSteps
  <1>. QED
    BY <1>1, <1>2, FS_EmptySet

\* The producers make a semaphore of this session.
LEMMA KeptCreate ==
  ASSUME Types, CallInv, DataInv, shm' = shm, session' = session, NEW n \in Made \ {"buffer"},
         mainPc["producer"] = "setUp", next["producer"] = Place("producer", n),
         UNCHANGED <<mainPc, buf, read_index, write_index, childPc, item, sent, received, stale>>,
         Holds("producer", n, session), names' = [names EXCEPT ![n] = session],
         value' = [value EXCEPT ![n][session] = InitialValue(n)]
  PROVE  DataInv'
  <1>1. /\ OwnerInv /\ LockInv /\ CountInv /\ FreshInv /\ WindowInv /\ HandInv /\ InOrder
        /\ session \in Sessions /\ session \in Nat \ {0} /\ StillChildren
        /\ session \in Owners
    BY SomeConstants DEF DataInv, Types, StillChildren
  <1>2. /\ Sems' = Sems /\ Made' = Made /\ \A p : Lock(p)' = Lock(p)
        /\ HoldsAll("consumer")' = HoldsAll("consumer")
    <2>1. handle'["consumer"] = handle["consumer"]
      BY DEF Holds, Types
    <2>. QED
      BY <2>1, VariantStays DEF HoldsAll, BufferOf
  <1>3. n \in Sems /\ n \in Names /\ n \in Uses("producer") /\ "producer" \in Programs
    BY TwoVariants, SomeConstants
  <1>4. /\ handle["producer"][n] = 0
        /\ ~ shm => handle["producer"]["buffer"] = 1
    <2>1. ~ (next["producer"] > Place("producer", n))
      BY <1>3 DEF Types
    <2>2. ~ shm => next["producer"] > Place("producer", "buffer")
      BY TwoVariants DEF Place
    <2>3. "buffer" \in Uses("producer")
      BY TwoVariants
    <2>. QED
      BY <1>1, <1>3, <2>1, <2>2, <2>3 DEF CallInv, OwnerInv
  <1>5. \A q \in Programs, m \in Names :
           handle'[q][m] = IF q = "producer" /\ m = n THEN session ELSE handle[q][m]
    BY <1>1, <1>3, HandleSet
  <1>6. \A m \in Sems, s \in Sessions :
           value'[m][s] = IF m = n /\ s = session THEN InitialValue(n) ELSE value[m][s]
    <2>1. n \in Sems /\ session \in Sessions
      BY <1>1, <1>3
    <2>. QED
      BY <2>1 DEF Types
  <1>7. \A m \in Names : names'[m] = IF m = n THEN session ELSE names[m]
    BY DEF Types
  <1>8. /\ handle["consumer"][n] # session /\ names[n] # session
        /\ ~ stale /\ n # ProducerLock => \A c \in Consumers : childPc[c] \notin Working
    BY <1>4, NotMade
  <1>9. OwnerInv'
    <2>1. /\ \A m \in Sems : names'[m] <= session
          /\ shm => names'["buffer"] <= session
          /\ ~ shm => /\ names'["buffer"] \in {0, 1}
                      /\ \A p \in Programs : handle'[p]["buffer"] \in {0, 1}
                      /\ handle'["producer"]["buffer"] = 1
      <3>1. \A m \in Sems : m \in Names
        BY TwoVariants
      <3>2. "buffer" \in Names
        BY TwoVariants
      <3>. QED
        BY <1>1, <1>3, <1>4, <1>5, <1>7, <3>1, <3>2 DEF OwnerInv
    <2>2. \A m \in Made : /\ handle'["producer"][m] \in {0, session}
                          /\ names'[m] = session => handle'["producer"][m] = session
                          /\ handle'["consumer"][m] = session => handle'["producer"][m] = session
                          /\ handle'["consumer"][m] <= session
      <3>1. \A m \in Made : m \in Names
        BY TwoVariants
      <3>. QED
        BY <1>1, <1>3, <1>5, <1>7, <3>1, SomeConstants DEF OwnerInv
    <2>3. shm => handle'["consumer"]["csCons"] \in {0, session}
      <3>1. shm => "csCons" \in Names
        BY TwoVariants
      <3>. QED
        BY <1>1, <1>5, <3>1, SomeConstants DEF OwnerInv
    <2>. QED
      BY <1>1, <1>2, <2>1, <2>2, <2>3 DEF OwnerInv
  <1>10. LockInv'
    <2>1. \A p \in Programs : Lock(p) \in Sems /\ Lock(p) \in Names
      BY TwoVariants DEF Programs
    <2>2. \A p \in Programs : Lock(p) = n => value'[Lock(p)][session] = 1
      BY <1>1, <1>3, <1>6, InitialValues, TwoVariants DEF Programs
    <2>3. \A p \in Programs : Lock(p) # n =>
             /\ value'[Lock(p)][session] = value[Lock(p)][session]
             /\ handle'[p][Lock(p)] = handle[p][Lock(p)]
      BY <1>1, <1>5, <1>6, <2>1
    <2>4. \A c \in Children : Has(c)' => Has(c) /\ Lock(c[1]) # n
      <3>1. \A c \in Consumers : handle'[c[1]][Lock(c[1])] = handle[c[1]][Lock(c[1])]
        BY <1>5, <2>1, SomeConstants
      <3>. QED
        BY <1>2, <1>8, <3>1, SomeConstants DEF Has, CallInv
    <2>5. \A c \in Children : c[1] \in Programs
      BY SomeConstants
    <2>. QED
      BY <1>1, <1>2, <2>1, <2>2, <2>3, <2>4, <2>5 DEF LockInv
  <1>11. CountInv'
    <2>1. SUFFICES ASSUME ~ stale PROVE Held' >= 0 /\ FilledInv' /\ EmptyInv'
      BY DEF CountInv
    <2>2. /\ Held' = Held /\ Held = 0
      BY <1>1, <2>1, SameCounts, NothingSent
    <2>3. {"filled", "empty"} \subseteq Names /\ {"filled", "empty"} \subseteq Sems
      BY TwoVariants
    <2>4. \A m \in {"filled", "empty"} : m # n =>
             /\ handle'["producer"][m] = handle["producer"][m]
             /\ value'[m][session] = value[m][session]
      BY <1>1, <1>3, <1>5, <1>6, <2>3
    <2>5. /\ n # "filled" => FilledInv'
          /\ n # "empty" => EmptyInv'
      BY <1>1, <2>1, <2>4, SameCounts DEF CountInv
    <2>6. n \in {"filled", "empty"} =>
             /\ Cardinality(ProducersAt(Moving)') = 0 /\ Cardinality(ProducersAt(Moved)') = 0
             /\ Cardinality(ConsumersAt(Moving)') = 0 /\ Cardinality(ConsumersAt(Moved)') = 0
      <3>1. n \in {"filled", "empty"} => n # ProducerLock
        BY TwoVariants
      <3>2. /\ ProducersAt(Moving)' = ProducersAt(Moving) /\ ProducersAt(Moved)' = ProducersAt(Moved)
            /\ ConsumersAt(Moving)' = ConsumersAt(Moving) /\ ConsumersAt(Moved)' = ConsumersAt(Moved)
        BY DEF ProducersAt, ConsumersAt
      <3>. QED
        BY <1>8, <2>1, <3>1, <3>2, NothingSent, NoneAt
    <2>7. n = "filled" => value'["filled"][session] = 0
      BY <1>1, <1>3, <1>6, InitialValues
    <2>8. n = "empty" => value'["empty"][session] = BufferSize
      BY <1>1, <1>3, <1>6, InitialValues
    <2>9. n = "filled" => FilledInv'
      BY <2>2, <2>6, <2>7 DEF FilledInv
    <2>10. n = "empty" => EmptyInv'
      BY <2>2, <2>6, <2>8, SomeConstants DEF EmptyInv
    <2>. QED
      BY <2>2, <2>5, <2>9, <2>10
  <1>12. FreshInv' /\ WindowInv' /\ HandInv' /\ InOrder'
    <2>1. handle'["producer"]["buffer"] = handle["producer"]["buffer"]
      BY <1>3, <1>5, TwoVariants
    <2>. QED
      BY <1>1, <2>1, SameBuffer
  <1>. QED
    BY <1>9, <1>10, <1>11, <1>12 DEF DataInv

\* The producers make the memory of this session, all zeros.
LEMMA KeptMemory ==
  ASSUME Types, CallInv, DataInv, shm, shm' = shm, session' = session,
         mainPc["producer"] = "setUp", next["producer"] = Place("producer", "buffer"),
         UNCHANGED <<value, mainPc, buf, read_index, write_index, childPc, item, sent, received,
                     stale>>,
         Holds("producer", "buffer", session), names' = [names EXCEPT !["buffer"] = session]
  PROVE  DataInv'
  <1>1. /\ OwnerInv /\ LockInv /\ CountInv /\ FreshInv /\ WindowInv /\ HandInv /\ InOrder
        /\ session \in Sessions /\ session \in Nat \ {0} /\ StillChildren
        /\ session \in Owners
    BY SomeConstants DEF DataInv, Types, StillChildren
  <1>2. /\ Sems' = Sems /\ Made' = Made /\ \A p : Lock(p)' = Lock(p)
        /\ HoldsAll("consumer")' = HoldsAll("consumer")
        /\ BufferOf(session)' = session
    <2>1. handle'["consumer"] = handle["consumer"]
      BY DEF Holds, Types
    <2>. QED
      BY <2>1, VariantStays DEF HoldsAll, BufferOf
  <1>3. /\ "buffer" \in Made /\ "buffer" \notin Sems /\ "buffer" \in Uses("producer")
        /\ \A m \in Sems : m \in Names
        /\ "buffer" \in Names /\ "producer" \in Programs /\ "csCons" \in Names
        /\ \A m \in Made : m \in Names
    BY TwoVariants, SomeConstants
  <1>4. handle["producer"]["buffer"] = 0
    <2>1. ~ (next["producer"] > Place("producer", "buffer"))
      BY <1>3 DEF Types
    <2>. QED
      BY <1>3, <2>1 DEF CallInv
  <1>5. \A q \in Programs, m \in Names :
           handle'[q][m] = IF q = "producer" /\ m = "buffer" THEN session ELSE handle[q][m]
    BY <1>1, <1>3, HandleSet
  <1>6. \A m \in Names : names'[m] = IF m = "buffer" THEN session ELSE names[m]
    BY DEF Types
  <1>7. handle["consumer"]["buffer"] # session /\ names["buffer"] # session
    BY <1>3, <1>4, NotMade
  <1>8. OwnerInv'
    <2>1. /\ \A m \in Sems : names'[m] <= session
          /\ names'["buffer"] <= session
      BY <1>1, <1>3, <1>6 DEF OwnerInv
    <2>2. \A m \in Made : /\ handle'["producer"][m] \in {0, session}
                          /\ names'[m] = session => handle'["producer"][m] = session
                          /\ handle'["consumer"][m] = session => handle'["producer"][m] = session
                          /\ handle'["consumer"][m] <= session
      BY <1>1, <1>3, <1>5, <1>6, SomeConstants DEF OwnerInv
    <2>3. handle'["consumer"]["csCons"] \in {0, session}
      BY <1>1, <1>3, <1>5, SomeConstants DEF OwnerInv
    <2>. QED
      BY <1>1, <1>2, <2>1, <2>2, <2>3 DEF OwnerInv
  <1>9. LockInv'
    <2>1. \A p \in Programs : handle'[p][Lock(p)] = handle[p][Lock(p)]
      BY <1>3, <1>5, TwoVariants DEF Programs
    <2>2. \A c \in Children : Has(c)' => Has(c)
      BY <1>2, <2>1, SomeConstants DEF Has
    <2>. QED
      BY <1>1, <1>2, <2>1, <2>2 DEF LockInv
  <1>10. CountInv'
    <2>1. \A m \in {"filled", "empty"} : handle'["producer"][m] = handle["producer"][m]
      BY <1>3, <1>5, TwoVariants
    <2>. QED
      BY <1>1, <2>1, SameCounts DEF CountInv
  <1>11. FreshInv'
    BY <1>1, <1>3, <1>5 DEF FreshInv
  <1>12. WindowInv'
    <2>1. SUFFICES ASSUME ~ stale PROVE WindowAt(BufferOf(session))'
      BY DEF WindowInv
    <2>2. sent' = << >> /\ received' = << >>
      BY <2>1, NothingSent
    <2>3. /\ read_index'[session] = 0 /\ write_index'[session] = 0
      BY <1>1, <1>4 DEF FreshInv
    <2>4. Len(sent') = 0 /\ Len(received') = 0 /\ 0 % BufferSize = 0
      BY <2>2, SomeConstants, ModUnique, 0 = BufferSize * 0 + 0
    <2>. QED
      BY <1>2, <2>3, <2>4 DEF WindowAt
  <1>13. HandInv' /\ InOrder'
    <2>1. BufferOf(session)' = BufferOf(session)
      BY DEF BufferOf
    <2>. QED
      BY <1>1, <2>1 DEF HandInv, InOrder
  <1>. QED
    BY <1>8, <1>9, <1>10, <1>11, <1>12, <1>13 DEF DataInv

\* The producers make the file all zeros.
LEMMA KeptFile ==
  ASSUME Types, CallInv, DataInv, ~ shm, InitFile,
         mainPc["producer"] = "setUp", next["producer"] = 1
  PROVE  DataInv'
  <1>1. /\ OwnerInv /\ LockInv /\ CountInv /\ FreshInv /\ WindowInv /\ HandInv /\ InOrder
        /\ session \in Sessions /\ session \in Nat \ {0}
        /\ shm' = shm /\ session' = session /\ mainPc' = mainPc /\ value' = value
        /\ childPc' = childPc /\ item' = item /\ sent' = sent /\ stale' = stale
        /\ received' = << >> /\ names' = [names EXCEPT !["buffer"] = 1]
        /\ Holds("producer", "buffer", 1)
    BY SomeConstants DEF DataInv, Types, InitFile, era, children, Proceed
  <1>2. /\ Sems' = Sems /\ Made' = Made /\ \A p : Lock(p)' = Lock(p)
        /\ BufferOf(session)' = 1
    BY <1>1, VariantStays DEF BufferOf
  <1>3. /\ "buffer" \notin Made /\ "buffer" \notin Sems
        /\ \A m \in Sems : m \in Names
        /\ "buffer" \in Names /\ "producer" \in Programs /\ "consumer" \in Programs
        /\ \A m \in Made : m \in Names /\ m # "buffer"
        /\ 1 \in Owners /\ {"filled", "empty", ProducerLock, ConsumerLock} \subseteq Made
        /\ \A m \in Made : m \in Uses("producer")
    BY TwoVariants, SomeConstants
  <1>4. \A m \in Made : handle["producer"][m] = 0
    <2>1. \A m \in Made : ~ (next["producer"] > Place("producer", m))
      BY <1>3 DEF Place
    <2>. QED
      BY <1>3, <2>1 DEF CallInv
  <1>5. \A q \in Programs, m \in Names :
           handle'[q][m] = IF q = "producer" /\ m = "buffer" THEN 1 ELSE handle[q][m]
    BY <1>1, <1>3, HandleSet
  <1>6. \A m \in Names : names'[m] = IF m = "buffer" THEN 1 ELSE names[m]
    BY <1>1 DEF Types
  <1>7. \A m \in Made : \A q \in Programs : handle'[q][m] = handle[q][m] /\ names'[m] = names[m]
    BY <1>3, <1>5, <1>6
  <1>8. ~ stale => /\ mainPc["consumer"] \notin Forked
                   /\ \A c \in Consumers : childPc[c] \notin Working
    <2>1. "filled" \in Made /\ "filled" # ProducerLock
      BY TwoVariants
    <2>. QED
      BY <1>4, <2>1, NotMade
  <1>9. OwnerInv'
    <2>1. /\ \A m \in Sems : names'[m] <= session
          /\ names'["buffer"] \in {0, 1} /\ handle'["producer"]["buffer"] = 1
          /\ \A p \in Programs : handle'[p]["buffer"] \in {0, 1}
      BY <1>1, <1>3, <1>5, <1>6 DEF OwnerInv
    <2>2. \A m \in Made : /\ handle'["producer"][m] \in {0, session}
                          /\ names'[m] = session => handle'["producer"][m] = session
                          /\ handle'["consumer"][m] = session => handle'["producer"][m] = session
                          /\ handle'["consumer"][m] <= session
      BY <1>1, <1>3, <1>7 DEF OwnerInv
    <2>. QED
      BY <1>1, <1>2, <1>8, <2>1, <2>2 DEF OwnerInv
  <1>10. LockInv'
    <2>1. \A p \in Programs : handle'[p][Lock(p)] = handle[p][Lock(p)]
      BY <1>3, <1>7, TwoVariants DEF Programs
    <2>2. \A c \in Children : Has(c)' => Has(c)
      BY <1>1, <1>2, <2>1, SomeConstants DEF Has
    <2>. QED
      BY <1>1, <1>2, <2>1, <2>2 DEF LockInv
  <1>11. sent' = << >> /\ received' = << >> /\ Held' = 0
    BY <1>1, NothingSent DEF Held
  <1>12. CountInv'
    <2>1. handle'["producer"]["filled"] # session /\ handle'["producer"]["empty"] # session
      BY <1>1, <1>3, <1>4, <1>7
    <2>. QED
      BY <1>1, <1>11, <2>1 DEF CountInv, FilledInv, EmptyInv
  <1>13. FreshInv'
    BY <1>1 DEF FreshInv
  <1>14. WindowInv'
    <2>3. /\ read_index'[1] = 0 /\ write_index'[1] = 0
      BY SomeConstants DEF InitFile, Types
    <2>4. Len(sent') = 0 /\ Len(received') = 0 /\ 0 % BufferSize = 0
      BY <1>11, SomeConstants, ModUnique, 0 = BufferSize * 0 + 0
    <2>. QED
      BY <1>2, <2>3, <2>4 DEF WindowAt, WindowInv
  <1>15. HandInv' /\ InOrder'
    <2>1. \A c \in Producers : childPc'[c] # "advance"
      BY <1>1, NothingSent
    <2>2. ~ stale => \A c \in Consumers : childPc'[c] # "advance"
      BY <1>1, <1>8 DEF Working, ChildSteps
    <2>3. Len(received') = 0 /\ Len(sent') = 0
      BY <1>11
    <2>. QED
      BY <1>1, <2>1, <2>2, <2>3 DEF HandInv, InOrder
  <1>. QED
    BY <1>9, <1>10, <1>12, <1>13, <1>14, <1>15 DEF DataInv

LEMMA KeptMainData ==
  ASSUME Types, CallInv, DataInv, NEW p \in Programs, MainNext(p)
  PROVE  DataInv'
  <1>1. shm' = shm /\ session' = session
    BY KeptMain
  <1>2. /\ mainPc \in [Programs -> MainSteps] /\ next[p] \in Nat \ {0}
        /\ handle \in [Programs -> [Names -> Owners]] /\ names \in [Names -> Owners]
        /\ session \in Nat \ {0}
        /\ Programs = {"producer", "consumer"}
        /\ Made \subseteq Names /\ "buffer" \in Names /\ Sems \subseteq Names
        /\ shm => "csCons" \in Names
        /\ \A c \in Children : c[1] \in Programs
    BY SomeConstants, TwoVariants DEF Types
  <1>3. ~ stale /\ mainPc["consumer"] \in Forked => HoldsAll("consumer")
    BY DEF DataInv, OwnerInv
  <1>4. ASSUME UNCHANGED <<value, handle, buffers, children, history>>,
               \A n \in Names : names'[n] \in {0, names[n]},
               mainPc'["consumer"] \in Forked => mainPc["consumer"] \in Forked
        PROVE  DataInv'
    BY <1>1, <1>3, <1>4, KeptQuiet DEF buffers, children, history, StillChildren
  <1>5. CASE Start(p)
    <2>1. CASE p = "producer"
      <3>1. mainPc["producer"] = "idle" /\ handle' = [handle EXCEPT !["producer"] = NoHandles]
        BY <1>5, <2>1 DEF Start
      <3>2. handle["producer"] = NoHandles
        BY <1>2, <3>1 DEF CallInv
      <3>3. handle' = handle
        BY <1>2, <3>1, <3>2
      <3>4. mainPc'["consumer"] = mainPc["consumer"]
        BY <1>2, <1>5, <2>1 DEF Start
      <3>. QED
        BY <1>4, <1>5, <3>3, <3>4 DEF Start
    <2>2. CASE p = "consumer"
      <3>1. /\ handle'["producer"] = handle["producer"] /\ handle'["consumer"] = NoHandles
            /\ mainPc'["consumer"] = "setUp" /\ mainPc["consumer"] # "wait"
        BY <1>2, <1>5, <2>2 DEF Start
      <3>2. \A n \in Names : handle'["consumer"][n] = 0
        BY <3>1 DEF NoHandles, Names
      <3>3. UNCHANGED <<names, value, buffers, children, history>>
        BY <1>5 DEF Start
      <3>. QED
        BY <1>1, <1>2, <3>1, <3>2, <3>3, KeptConsumer DEF buffers, children, history, Forked
    <2>. QED
      BY <1>2, <2>1, <2>2
  <1>6. ASSUME NEW n \in Names, Drop(p, n)
        PROVE  DataInv'
    BY <1>2, <1>4, <1>6 DEF Drop, Proceed
  <1>7. ASSUME NEW n \in Names, CreateSem(p, n)
        PROVE  DataInv'
    <2>1. /\ n \in Sems /\ mainPc[p] = "setUp" /\ next[p] = Place(p, n)
          /\ p = "producer" => n \in Made
          /\ p = "consumer" => shm /\ n = "csCons"
      BY <1>2, <1>7, CreateCalls DEF CreateSem
    <2>2. CASE names[n] # 0
      <3>1. /\ UNCHANGED <<names, value, handle, buffers, children, history>> /\ Fail(p)
        BY <1>7, <2>2 DEF CreateSem
      <3>. QED
        BY <1>2, <1>4, <3>1, MainMoves DEF Forked
    <2>3. CASE names[n] = 0
      <3>1. /\ Proceed(p) /\ UNCHANGED <<buffers, children, history>>
            /\ names' = [names EXCEPT ![n] = session]
            /\ value' = [value EXCEPT ![n][session] = InitialValue(n)]
            /\ Holds(p, n, session)
        BY <1>7, <2>3 DEF CreateSem
      <3>2. mainPc' = mainPc /\ n # "buffer" /\ session \in Sessions /\ session \in Owners
        BY <2>1, <3>1, TwoVariants, SomeConstants DEF Proceed, Types
      <3>3. CASE p = "producer"
        BY <1>1, <2>1, <3>1, <3>2, <3>3, KeptCreate DEF buffers, children, history
      <3>4. CASE p = "consumer"
        <4>1. /\ shm /\ n = "csCons"
              /\ \A m \in Made : m # "csCons"
          BY <2>1, <3>4, TwoVariants
        <4>2. \A q \in Programs, m \in Names :
                 handle'[q][m] = IF q = p /\ m = n THEN session ELSE handle[q][m]
          BY <3>1, <3>2, HandleSet
        <4>3. /\ handle'["producer"] = handle["producer"]
              /\ handle'["consumer"]["csCons"] = session
              /\ \A m \in Names \ {"csCons"} : handle'["consumer"][m] = handle["consumer"][m]
          <5>1. handle'["producer"] = handle["producer"]
            BY <1>2, <3>1, <3>4 DEF Holds
          <5>. QED
            BY <1>2, <3>4, <4>1, <4>2, <5>1
        <4>4. /\ \A m \in Sems : value'[m][session] = value[m][session] \/ m = "csCons"
              /\ value'["csCons"][session] = 1
          <5>1. n \in Sems /\ session \in Sessions /\ InitialValue(n) = 1
            BY <2>1, <3>1, <3>2, <4>1, InitialValues
          <5>2. \A m \in Sems, s \in Sessions :
                   value'[m][s] = IF m = n /\ s = session THEN 1 ELSE value[m][s]
            <6>1. value' = [value EXCEPT ![n][session] = 1]
              BY <3>1, <5>1
            <6>. QED
              BY <5>1, <6>1 DEF Types
          <5>. QED
            BY <4>1, <5>1, <5>2
        <4>5. \A m \in Names : names'[m] = names[m] \/ (m = "csCons" /\ names'[m] = session)
          BY <1>2, <3>1, <4>1
        <4>6. /\ mainPc["consumer"] # "wait" /\ mainPc'["consumer"] \notin Forked
          BY <2>1, <3>2, <3>4 DEF Forked
        <4>7. \A m \in Made \cup {"buffer"} : handle'["consumer"][m] = handle["consumer"][m]
          BY <1>2, <4>1, <4>3
        <4>8. UNCHANGED <<buf, read_index, write_index, childPc, item, sent, received, stale>>
          BY <3>1 DEF buffers, children, history
        <4>. QED
          BY <1>1, <4>1, <4>3, <4>4, <4>5, <4>6, <4>7, <4>8, KeptConsumer
      <3>. QED
        BY <1>2, <3>3, <3>4
    <2>. QED
      BY <2>2, <2>3
  <1>8. CASE p = "producer" /\ CreateMemory
    <2>1. /\ shm /\ mainPc[p] = "setUp" /\ next[p] = Place(p, "buffer")
      <3>1. "buffer" \in Made /\ mainPc[p] = "setUp" /\ next[p] = Place(p, "buffer")
        BY <1>2, <1>8, CreateCalls DEF CreateMemory
      <3>. QED
        BY <3>1, TwoVariants
    <2>2. CASE names["buffer"] # 0
      <3>1. /\ UNCHANGED <<names, value, handle, buffers, children, history>> /\ Fail(p)
        BY <1>8, <2>2 DEF CreateMemory
      <3>. QED
        BY <1>2, <1>4, <3>1, MainMoves DEF Forked
    <2>3. CASE names["buffer"] = 0
      <3>1. /\ mainPc' = mainPc /\ UNCHANGED <<value, buffers, children, history>>
            /\ names' = [names EXCEPT !["buffer"] = session]
            /\ Holds("producer", "buffer", session)
        BY <1>8, <2>3 DEF CreateMemory, Proceed
      <3>. QED
        BY <1>1, <1>8, <2>1, <3>1, KeptMemory DEF buffers, children, history
    <2>. QED
      BY <2>2, <2>3
  <1>9. CASE p = "producer" /\ InitFile
    <2>1. ~ shm /\ mainPc["producer"] = "setUp" /\ next["producer"] = 1
      BY <1>2, <1>9, InitCalls DEF InitFile
    <2>. QED
      BY <1>9, <2>1, KeptFile
  <1>10. ASSUME NEW n \in Names, Open(p, n)
         PROVE  DataInv'
    <2>1. p = "consumer" /\ mainPc[p] = "setUp" /\ n \in Made \cup {"buffer"}
      BY <1>2, <1>10, OpenCalls DEF Open
    <2>2. CASE names[n] = 0
      <3>1. /\ UNCHANGED <<names, value, handle, buffers, children, history>> /\ Fail(p)
        BY <1>10, <2>2 DEF Open
      <3>. QED
        BY <1>2, <1>4, <3>1, MainMoves DEF Forked
    <2>3. CASE names[n] # 0
      <3>1. /\ mainPc' = mainPc /\ UNCHANGED <<names, value, buffers, children, history>>
            /\ Holds(p, n, names[n])
        BY <1>10, <2>3 DEF Open, Proceed
      <3>2. \A q \in Programs, m \in Names :
               handle'[q][m] = IF q = p /\ m = n THEN names[n] ELSE handle[q][m]
        BY <1>2, <3>1, HandleSet
      <3>3. handle'["producer"] = handle["producer"]
        BY <1>2, <2>1, <3>1 DEF Holds
      <3>4. shm => n # "csCons"
        BY <2>1, TwoVariants
      <3>5. shm => handle'["consumer"]["csCons"] = handle["consumer"]["csCons"]
        BY <1>2, <3>2, <3>4
      <3>6. \A m \in Made \cup {"buffer"} :
               handle'["consumer"][m] \in {0, handle["consumer"][m], names[m]}
        BY <1>2, <2>1, <3>2
      <3>. QED
        BY <1>1, <2>1, <3>1, <3>3, <3>5, <3>6, KeptConsumer
           DEF buffers, children, history, Forked
    <2>. QED
      BY <2>2, <2>3
  <1>11. CASE ForkChildren(p)
    <2>1. /\ mainPc[p] = "setUp" /\ UNCHANGED <<names, value, buffers, handle, item, sent, received>>
          /\ childPc' = [c \in Children |-> IF c[1] = p THEN "waitCount" ELSE childPc[c]]
          /\ stale' = (stale \/ (p = "consumer" /\ ~ HoldsAll(p)))
          /\ mainPc' = [mainPc EXCEPT ![p] = "wait"]
      BY <1>11 DEF ForkChildren
    <2>2. StillChildren
      <3>1. \A c \in Children : c[1] = p => childPc[c] \in {"none", "done"}
        BY <2>1 DEF CallInv, Working, Types
      <3>. QED
        BY <2>1, <3>1 DEF StillChildren
    <2>3. /\ stale => stale'
          /\ ~ stale' /\ mainPc'["consumer"] \in Forked => HoldsAll("consumer")
      <3>1. CASE p = "consumer"
        BY <2>1, <3>1
      <3>2. CASE p = "producer"
        BY <1>2, <1>3, <2>1, <3>2
      <3>. QED
        BY <1>2, <3>1, <3>2
    <2>4. \A n \in Names : names'[n] \in {0, names[n]}
      BY <2>1
    <2>. QED
      BY <1>1, <2>1, <2>2, <2>3, <2>4, KeptQuiet DEF buffers
  <1>12. CASE WaitChildren(p)
    BY <1>2, <1>4, <1>12 DEF WaitChildren, Forked
  <1>13. ASSUME NEW n \in Names, Unlink(p, n)
         PROVE  DataInv'
    <2>1. /\ Fail(p) \/ mainPc' = mainPc
          /\ UNCHANGED <<value, buffers, handle, children, history>>
          /\ names' = [names EXCEPT ![n] = 0]
      BY <1>13 DEF Unlink, Proceed
    <2>2. mainPc'["consumer"] \in Forked => mainPc["consumer"] \in Forked
      BY <1>2, <2>1, MainMoves DEF Forked
    <2>. QED
      BY <1>2, <1>4, <2>1, <2>2
  <1>14. CASE Exit(p)
    BY <1>2, <1>4, <1>14 DEF Exit, Forked
  <1>. QED
    BY <1>1, <1>5, <1>6, <1>7, <1>8, <1>9, <1>10, <1>11, <1>12, <1>13, <1>14 DEF MainNext, Names

-----------------------------------------------------------------------------
(* The steps of the children keep the rest *)

\* Where nothing is stale, the children work on the objects of this session.
LEMMA Objects ==
  ASSUME Types, CallInv, DataInv, NEW c \in Children, childPc[c] \in Working,
         c \in Consumers => ~ stale
  PROVE  /\ \A n \in {"filled", "empty"} : /\ handle["producer"][n] = session
                                           /\ handle[c[1]][n] = session
         /\ handle[c[1]][Lock(c[1])] = session
         /\ Buffer(c) = BufferOf(session)
         /\ BufferOf(session) \in Sessions
         /\ handle["producer"]["buffer"] # 0
  <1>1. /\ OwnerInv /\ session \in Nat \ {0} /\ session \in Sessions /\ 1 \in Sessions
    BY SomeConstants DEF DataInv, Types
  <1>2. /\ c[1] \in Programs /\ mainPc[c[1]] = "wait"
        /\ \A n \in Uses(c[1]) : handle[c[1]][n] # 0
    <2>1. c[1] \in Programs /\ mainPc[c[1]] = "wait"
      BY ChildHandles
    <2>. QED
      BY <2>1 DEF CallInv, Forked
  <1>3. BufferOf(session) \in Sessions
    BY <1>1 DEF BufferOf
  <1>4. CASE c \in Producers
    <2>1. c[1] = "producer" /\ {"filled", "empty", ProducerLock, "buffer"} \subseteq Uses(c[1])
      BY <1>4, SomeConstants, TwoVariants
    <2>2. \A n \in Made : n \in Uses(c[1]) /\ handle["producer"][n] = session
      BY <1>1, <1>2, <2>1 DEF OwnerInv, Made
    <2>3. handle["producer"]["buffer"] = BufferOf(session)
      BY <1>1, <1>2, <2>1, <2>2, TwoVariants DEF OwnerInv, BufferOf
    <2>. QED
      BY <1>1, <1>3, <2>1, <2>2, <2>3, TwoVariants DEF Buffer, Made
  <1>5. CASE c \in Consumers
    <2>1. c[1] = "consumer" /\ HoldsAll("consumer")
      BY <1>1, <1>2, <1>5, SomeConstants DEF OwnerInv, Forked
    <2>2. {"filled", "empty"} \subseteq Made
      BY TwoVariants
    <2>3. \A n \in {"filled", "empty"} : handle["producer"][n] = session
      BY <1>1, <2>1, <2>2 DEF OwnerInv, HoldsAll
    <2>4. handle["producer"]["buffer"] # 0
      <3>1. CASE shm
        BY <1>1, <2>1, <3>1, TwoVariants DEF OwnerInv, HoldsAll
      <3>2. CASE ~ shm
        BY <1>1, <2>3, <3>2 DEF OwnerInv
      <3>. QED
        BY <3>1, <3>2
    <2>. QED
      BY <1>3, <2>1, <2>3, <2>4 DEF Buffer, HoldsAll
  <1>. QED
    BY <1>4, <1>5, SomeConstants

LEMMA KeptOwner ==
  ASSUME OwnerInv, shm' = shm, UNCHANGED <<session, names, mainPc, handle, stale>>
  PROVE  OwnerInv'
  <1>1. /\ Sems' = Sems /\ Made' = Made /\ \A p : Lock(p)' = Lock(p)
        /\ HoldsAll("consumer")' = HoldsAll("consumer")
    BY VariantStays DEF HoldsAll, BufferOf
  <1>. QED
    BY <1>1 DEF OwnerInv

\* A child that goes on enters, leaves or keeps to the steps that are counted.
LEMMA ChildrenFinite ==
  ASSUME NEW S
  PROVE  /\ IsFiniteSet(ProducersAt(S)) /\ Cardinality(ProducersAt(S)) \in Nat
         /\ IsFiniteSet(ConsumersAt(S)) /\ Cardinality(ConsumersAt(S)) \in Nat
  <1>1. /\ IsFiniteSet({"producer"} \X (1 .. NumProducers))
        /\ IsFiniteSet({"consumer"} \X (1 .. NumConsumers))
    <2>1. IsFiniteSet(1 .. NumProducers) /\ IsFiniteSet(1 .. NumConsumers)
      BY SessionAssumption, FS_Interval
    <2>2. IsFiniteSet({"producer"}) /\ IsFiniteSet({"consumer"})
      BY FS_Singleton
    <2>. QED
      BY <2>1, <2>2, FS_Product
  <1>2. ProducersAt(S) \subseteq Producers /\ ConsumersAt(S) \subseteq Consumers
    BY DEF ProducersAt, ConsumersAt
  <1>. QED
    BY <1>1, <1>2, FS_Subset, FS_CardinalityType DEF Producers, Consumers

\* The producers and the consumers are not the same.
LEMMA Apart == Producers \cap Consumers = {}
  BY DEF Producers, Consumers

Goes(c, from, to) ==
  childPc[c] = from /\ childPc'[c] = to /\ \A d \in Children \ {c} : childPc'[d] = childPc[d]

ProducersNext(steps) == {d \in Producers : childPc'[d] \in steps}
ConsumersNext(steps) == {d \in Consumers : childPc'[d] \in steps}
Changes(before, after, by) == after = before + by

LEMMA ProducerGoes ==
  ASSUME NEW c \in Producers, NEW from, NEW to, NEW S, Goes(c, from, to)
  PROVE  /\ (from \in S <=> to \in S) =>
               Changes(Cardinality(ProducersAt(S)), Cardinality(ProducersNext(S)), 0)
         /\ from \notin S /\ to \in S =>
               Changes(Cardinality(ProducersAt(S)), Cardinality(ProducersNext(S)), 1)
         /\ from \in S /\ to \notin S =>
               Changes(Cardinality(ProducersAt(S)), Cardinality(ProducersNext(S)), -1)
         /\ Changes(Cardinality(ConsumersAt(S)), Cardinality(ConsumersNext(S)), 0)
  <1>1. /\ IsFiniteSet(ProducersAt(S)) /\ Cardinality(ProducersAt(S)) \in Nat
        /\ Cardinality(ConsumersAt(S)) \in Nat
    BY ChildrenFinite
  <1>2. ConsumersNext(S) = ConsumersAt(S)
    BY Apart, SomeConstants DEF ConsumersAt, ConsumersNext, Goes
  <1>3. (from \in S <=> to \in S) => ProducersNext(S) = ProducersAt(S)
    BY SomeConstants DEF ProducersAt, ProducersNext, Goes
  <1>4. from \notin S /\ to \in S => /\ ProducersNext(S) = ProducersAt(S) \cup {c}
                                     /\ c \notin ProducersAt(S)
    BY SomeConstants DEF ProducersAt, ProducersNext, Goes
  <1>5. from \in S /\ to \notin S => /\ ProducersNext(S) = ProducersAt(S) \ {c}
                                     /\ c \in ProducersAt(S)
    BY SomeConstants DEF ProducersAt, ProducersNext, Goes
  <1>6. from \notin S /\ to \in S =>
           Cardinality(ProducersNext(S)) = Cardinality(ProducersAt(S)) + 1
    BY <1>1, <1>4, FS_AddElement
  <1>7. from \in S /\ to \notin S =>
           Cardinality(ProducersNext(S)) = Cardinality(ProducersAt(S)) - 1
    BY <1>1, <1>5, FS_RemoveElement
  <1>. QED
    BY <1>1, <1>2, <1>3, <1>6, <1>7 DEF Changes

LEMMA ConsumerGoes ==
  ASSUME NEW c \in Consumers, NEW from, NEW to, NEW S, Goes(c, from, to)
  PROVE  /\ (from \in S <=> to \in S) =>
               Changes(Cardinality(ConsumersAt(S)), Cardinality(ConsumersNext(S)), 0)
         /\ from \notin S /\ to \in S =>
               Changes(Cardinality(ConsumersAt(S)), Cardinality(ConsumersNext(S)), 1)
         /\ from \in S /\ to \notin S =>
               Changes(Cardinality(ConsumersAt(S)), Cardinality(ConsumersNext(S)), -1)
         /\ Changes(Cardinality(ProducersAt(S)), Cardinality(ProducersNext(S)), 0)
  <1>1. /\ IsFiniteSet(ConsumersAt(S)) /\ Cardinality(ConsumersAt(S)) \in Nat
        /\ Cardinality(ProducersAt(S)) \in Nat
    BY ChildrenFinite
  <1>2. ProducersNext(S) = ProducersAt(S)
    BY Apart, SomeConstants DEF ProducersAt, ProducersNext, Goes
  <1>3. (from \in S <=> to \in S) => ConsumersNext(S) = ConsumersAt(S)
    BY SomeConstants DEF ConsumersAt, ConsumersNext, Goes
  <1>4. from \notin S /\ to \in S => /\ ConsumersNext(S) = ConsumersAt(S) \cup {c}
                                     /\ c \notin ConsumersAt(S)
    BY SomeConstants DEF ConsumersAt, ConsumersNext, Goes
  <1>5. from \in S /\ to \notin S => /\ ConsumersNext(S) = ConsumersAt(S) \ {c}
                                     /\ c \in ConsumersAt(S)
    BY SomeConstants DEF ConsumersAt, ConsumersNext, Goes
  <1>6. from \notin S /\ to \in S =>
           Cardinality(ConsumersNext(S)) = Cardinality(ConsumersAt(S)) + 1
    BY <1>1, <1>4, FS_AddElement
  <1>7. from \in S /\ to \notin S =>
           Cardinality(ConsumersNext(S)) = Cardinality(ConsumersAt(S)) - 1
    BY <1>1, <1>5, FS_RemoveElement
  <1>. QED
    BY <1>1, <1>2, <1>3, <1>6, <1>7 DEF Changes

LEMMA KeptLocks ==
  ASSUME Types, CallInv, DataInv, NEW c \in Children, ChildNext(c)
  PROVE  LockInv'
  <1>1. /\ childPc[c] \in Working /\ childPc' \in [Children -> ChildSteps]
        /\ \A d \in Children \ {c} : childPc'[d] = childPc[d]
        /\ shm' = shm /\ session' = session /\ handle' = handle
        /\ c[1] \in Programs /\ \A d \in Children : d[1] \in Programs
        /\ session \in Sessions /\ LockInv
        /\ \A p : Lock(p)' = Lock(p)
        /\ \A p \in Programs : Lock(p) \in Sems /\ Lock(p) \notin {"filled", "empty"}
    <2>1. shm' = shm
      BY ChildMoves
    <2>2. \A p \in Programs : Lock(p) \in Sems /\ Lock(p) \notin {"filled", "empty"}
      BY TwoVariants, SomeConstants DEF ProducerLock, ConsumerLock
    <2>. QED
      BY <2>1, <2>2, ChildMoves, SomeConstants, VariantStays DEF Types, DataInv
  <1>2. \A p \in Programs : value[Lock(p)][session] \in Nat
    BY <1>1 DEF Types
  <1>3. ASSUME \A p \in Programs : value'[Lock(p)][session] = value[Lock(p)][session],
               childPc[c] \in {"access", "advance", "postLock"} <=>
                  childPc'[c] \in {"access", "advance", "postLock"}
        PROVE  LockInv'
    <2>1. \A d \in Children : Has(d)' <=> Has(d)
      BY <1>1, <1>3 DEF Has
    <2>. QED
      BY <1>1, <1>3, <2>1 DEF LockInv
  <1>4. CASE WaitCount(c) \/ PostCount(c)
    <2>1. PICK n \in {"filled", "empty"}, change \in Int : Adjust(n, c, change)
      BY <1>4 DEF WaitCount, PostCount
    <2>2. \A m \in Sems \ {"filled", "empty"} : value'[m][session] = value[m][session]
      BY <1>1, <2>1, AdjustSets
    <2>3. /\ childPc[c] \notin {"access", "advance", "postLock"}
          /\ childPc'[c] \notin {"access", "advance", "postLock"}
      BY <1>1, <1>4 DEF WaitCount, PostCount, ChildStep, Types
    <2>. QED
      BY <1>1, <1>3, <2>2, <2>3
  <1>5. CASE StoreItem(c) \/ LoadItem(c) \/ AdvanceWrite(c) \/ AdvanceRead(c)
    <2>1. value' = value
      BY <1>5 DEF StoreItem, LoadItem, AdvanceWrite, AdvanceRead, buffers
    <2>2. /\ childPc[c] \in {"access", "advance", "postLock"}
          /\ childPc'[c] \in {"access", "advance", "postLock"}
      BY <1>5 DEF StoreItem, LoadItem, AdvanceWrite, AdvanceRead, ChildStep, Types
    <2>. QED
      BY <1>3, <2>1, <2>2
  <1>6. CASE WaitLock(c)
    <2>1. /\ childPc[c] = "waitLock" /\ childPc'[c] = "access"
          /\ Adjust(Lock(c[1]), c, -1)
      BY <1>6 DEF WaitLock, ChildStep, Types
    <2>2. /\ value[Lock(c[1])][handle[c[1]][Lock(c[1])]] + (-1) \in Nat
          /\ \A m \in Sems, s \in Sessions :
                value'[m][s] = IF m = Lock(c[1]) /\ s = handle[c[1]][Lock(c[1])]
                               THEN value[m][s] + (-1) ELSE value[m][s]
      BY <1>1, <2>1, AdjustSets
    <2>3. CASE handle[c[1]][Lock(c[1])] # session
      <3>1. \A p \in Programs : value'[Lock(p)][session] = value[Lock(p)][session]
        BY <1>1, <2>2, <2>3
      <3>2. \A d \in Children : Has(d)' <=> Has(d)
        BY <1>1, <2>1, <2>3 DEF Has
      <3>. QED
        BY <1>1, <3>1, <3>2 DEF LockInv
    <2>4. CASE handle[c[1]][Lock(c[1])] = session
      <3>1. value[Lock(c[1])][session] = 1
        <4>1. /\ value[Lock(c[1])][session] + (-1) \in Nat
              /\ value[Lock(c[1])][session] <= 1
              /\ value[Lock(c[1])][session] \in Nat
          BY <1>1, <1>2, <2>2, <2>4 DEF LockInv
        <4>. QED
          BY <4>1
      <3>2. \A m \in Sems :
               value'[m][session] = IF m = Lock(c[1]) THEN 0 ELSE value[m][session]
        BY <1>1, <2>2, <2>4, <3>1
      <3>3. \A d \in Children : Has(d) => Lock(d[1]) # Lock(c[1])
        BY <1>1, <3>1 DEF LockInv
      <3>4. \A d \in Children : Has(d)' <=> Has(d) \/ d = c
        BY <1>1, <2>1, <2>4 DEF Has
      <3>5. \A p \in Programs : handle'[p][Lock(p)] = session => value'[Lock(p)][session] <= 1
        BY <1>1, <3>2 DEF LockInv
      <3>6. ASSUME NEW d \in Children, NEW e \in Children, Has(d)', Has(e)',
                   Lock(d[1]) = Lock(e[1])
            PROVE  d = e /\ value'[Lock(d[1])][session] = 0
        <4>1. CASE Lock(d[1]) = Lock(c[1])
          BY <1>1, <3>2, <3>3, <3>4, <3>6, <4>1
        <4>2. CASE Lock(d[1]) # Lock(c[1])
          BY <1>1, <3>2, <3>4, <3>6, <4>2 DEF LockInv
        <4>. QED
          BY <4>1, <4>2
      <3>. QED
        BY <1>1, <3>5, <3>6 DEF LockInv
    <2>. QED
      BY <2>3, <2>4
  <1>7. CASE PostLock(c)
    <2>1. /\ childPc[c] = "postLock" /\ childPc'[c] = "postCount"
          /\ Adjust(Lock(c[1]), c, 1)
      BY <1>7 DEF PostLock, ChildStep, Types
    <2>2. \A m \in Sems, s \in Sessions :
             value'[m][s] = IF m = Lock(c[1]) /\ s = handle[c[1]][Lock(c[1])]
                            THEN value[m][s] + 1 ELSE value[m][s]
      BY <1>1, <2>1, AdjustSets
    <2>3. CASE handle[c[1]][Lock(c[1])] # session
      <3>1. \A p \in Programs : value'[Lock(p)][session] = value[Lock(p)][session]
        BY <1>1, <2>2, <2>3
      <3>2. \A d \in Children : Has(d)' <=> Has(d)
        BY <1>1, <2>1, <2>3 DEF Has
      <3>. QED
        BY <1>1, <3>1, <3>2 DEF LockInv
    <2>4. CASE handle[c[1]][Lock(c[1])] = session
      <3>1. Has(c)
        BY <2>1, <2>4 DEF Has
      <3>2. \A d \in Children : Has(d) /\ Lock(d[1]) = Lock(c[1]) => d = c
        BY <1>1, <3>1 DEF LockInv
      <3>3. value[Lock(c[1])][session] = 0
        BY <1>1, <3>1 DEF LockInv
      <3>4. \A m \in Sems :
               value'[m][session] = IF m = Lock(c[1]) THEN 1 ELSE value[m][session]
        BY <1>1, <2>2, <2>4, <3>3
      <3>5. \A d \in Children : Has(d)' => Has(d) /\ d # c
        BY <1>1, <2>1 DEF Has
      <3>6. \A p \in Programs : handle'[p][Lock(p)] = session => value'[Lock(p)][session] <= 1
        BY <1>1, <3>4 DEF LockInv
      <3>7. ASSUME NEW d \in Children, NEW e \in Children, Has(d)', Has(e)',
                   Lock(d[1]) = Lock(e[1])
            PROVE  d = e /\ value'[Lock(d[1])][session] = 0
        BY <1>1, <3>2, <3>4, <3>5, <3>7 DEF LockInv
      <3>. QED
        BY <1>1, <3>6, <3>7 DEF LockInv
    <2>. QED
      BY <2>3, <2>4
  <1>. QED
    BY <1>4, <1>5, <1>6, <1>7 DEF ChildNext

\* The sums of the counts, when each of their terms moves by a little.
LEMMA FilledMoves ==
  ASSUME session' = session, handle' = handle, FilledInv, Types,
         handle["producer"]["filled"] = session,
         NEW v \in Int, NEW p \in Int, NEW c \in Int, NEW h \in Int, v + p + c <= h,
         Changes(value["filled"][session], value'["filled"][session], v),
         Changes(Cardinality(ProducersAt(Moved)), Cardinality(ProducersNext(Moved)), p),
         Changes(Cardinality(ConsumersAt(Moving)), Cardinality(ConsumersNext(Moving)), c),
         Changes(Held, Held', h)
  PROVE  FilledInv'
  <1>1. /\ value["filled"][session] \in Nat /\ Held \in Int
    BY TwoVariants DEF Types, Held
  <1>2. Cardinality(ProducersAt(Moved)) \in Nat /\ Cardinality(ConsumersAt(Moving)) \in Nat
    BY ChildrenFinite
  <1>3. value["filled"][session] + Cardinality(ProducersAt(Moved))
           + Cardinality(ConsumersAt(Moving)) <= Held
    BY DEF FilledInv
  <1>4. /\ Cardinality(ProducersAt(Moved)') = Cardinality(ProducersAt(Moved)) + p
        /\ Cardinality(ConsumersAt(Moving)') = Cardinality(ConsumersAt(Moving)) + c
        /\ value'["filled"][session] = value["filled"][session] + v /\ Held' = Held + h
    BY DEF ProducersAt, ConsumersAt, ProducersNext, ConsumersNext, Changes
  <1>5. value'["filled"][session] + Cardinality(ProducersAt(Moved)')
           + Cardinality(ConsumersAt(Moving)') <= Held'
    BY <1>1, <1>2, <1>3, <1>4
  <1>. QED
    BY <1>5 DEF FilledInv

LEMMA EmptyMoves ==
  ASSUME session' = session, handle' = handle, EmptyInv, Types,
         handle["producer"]["empty"] = session,
         NEW v \in Int, NEW p \in Int, NEW c \in Int, NEW h \in Int, v + p + c + h <= 0,
         Changes(value["empty"][session], value'["empty"][session], v),
         Changes(Cardinality(ProducersAt(Moving)), Cardinality(ProducersNext(Moving)), p),
         Changes(Cardinality(ConsumersAt(Moved)), Cardinality(ConsumersNext(Moved)), c),
         Changes(Held, Held', h)
  PROVE  EmptyInv'
  <1>1. /\ value["empty"][session] \in Nat /\ Held \in Int /\ BufferSize \in Nat
    BY TwoVariants, SomeConstants DEF Types, Held
  <1>2. Cardinality(ProducersAt(Moving)) \in Nat /\ Cardinality(ConsumersAt(Moved)) \in Nat
    BY ChildrenFinite
  <1>3. value["empty"][session] + Cardinality(ProducersAt(Moving))
           + Cardinality(ConsumersAt(Moved)) + Held <= BufferSize
    BY DEF EmptyInv
  <1>4. /\ Cardinality(ProducersAt(Moving)') = Cardinality(ProducersAt(Moving)) + p
        /\ Cardinality(ConsumersAt(Moved)') = Cardinality(ConsumersAt(Moved)) + c
        /\ value'["empty"][session] = value["empty"][session] + v /\ Held' = Held + h
    BY DEF ProducersAt, ConsumersAt, ProducersNext, ConsumersNext, Changes
  <1>5. value'["empty"][session] + Cardinality(ProducersAt(Moving)')
           + Cardinality(ConsumersAt(Moved)') + Held' <= BufferSize
    BY <1>1, <1>2, <1>3, <1>4
  <1>. QED
    BY <1>5 DEF EmptyInv

\* An item or a place is there for a child in the middle of its operation.
LEMMA ItemThere ==
  ASSUME Types, CallInv, DataInv, ~ stale, NEW c \in Children, childPc[c] \in Moving
  PROVE  /\ c \in Consumers => Held >= 1
         /\ c \in Producers => Held < BufferSize
         /\ Held \in Nat
  <1>1. childPc[c] \in Working
    BY DEF Moving, Working, ChildSteps
  <1>2. /\ FilledInv /\ EmptyInv /\ Held >= 0 /\ Held \in Int
        /\ session \in Sessions /\ value["filled"][session] \in Nat
        /\ value["empty"][session] \in Nat /\ BufferSize \in Nat
    BY TwoVariants, SomeConstants DEF DataInv, CountInv, Types, Held
  <1>3. handle["producer"]["filled"] = session /\ handle["producer"]["empty"] = session
    BY <1>1, Objects
  <1>4. \A S : Cardinality(ProducersAt(S)) \in Nat /\ Cardinality(ConsumersAt(S)) \in Nat
    BY ChildrenFinite
  <1>5. c \in Consumers => Held >= 1
    <2>1. SUFFICES ASSUME c \in Consumers PROVE Cardinality(ConsumersAt(Moving)) >= 1
      BY <1>2, <1>3, <1>4 DEF FilledInv
    <2>2. c \in ConsumersAt(Moving)
      BY <2>1 DEF ConsumersAt
    <2>. QED
      BY <1>4, <2>2, ChildrenFinite, FS_EmptySet
  <1>6. c \in Producers => Held < BufferSize
    <2>1. SUFFICES ASSUME c \in Producers PROVE Cardinality(ProducersAt(Moving)) >= 1
      BY <1>2, <1>3, <1>4 DEF EmptyInv
    <2>2. c \in ProducersAt(Moving)
      BY <2>1 DEF ProducersAt
    <2>. QED
      BY <1>4, <2>2, ChildrenFinite, FS_EmptySet
  <1>. QED
    BY <1>2, <1>5, <1>6

\* What a wait or a post on a count does to the counts of this session.
LEMMA CountAdjusted ==
  ASSUME Types, CallInv, DataInv, ~ stale, NEW c \in Children, childPc[c] \in Working,
         NEW n \in {"filled", "empty"}, NEW change \in Int, Adjust(n, c, change)
  PROVE  \A m \in {"filled", "empty"} :
            value'[m][session] = value[m][session] + (IF m = n THEN change ELSE 0)
  <1>1. /\ handle[c[1]][n] = session
        /\ session \in Sessions /\ {"filled", "empty"} \subseteq Sems
    BY Objects, TwoVariants DEF Types
  <1>2. \A m \in Sems, s \in Sessions :
           value'[m][s] = IF m = n /\ s = handle[c[1]][n] THEN value[m][s] + change
                          ELSE value[m][s]
    BY AdjustSets
  <1>3. \A m \in {"filled", "empty"} : value[m][session] \in Nat
    BY <1>1 DEF Types
  <1>. QED
    BY <1>1, <1>2, <1>3

LEMMA KeptCounts ==
  ASSUME Types, CallInv, DataInv, NEW c \in Children, ChildNext(c)
  PROVE  CountInv'
  <1>1. SUFFICES ASSUME ~ stale PROVE Held' >= 0 /\ FilledInv' /\ EmptyInv'
    BY ChildMoves DEF CountInv
  <1>2. /\ childPc[c] \in Working /\ childPc \in [Children -> ChildSteps]
        /\ childPc' \in [Children -> ChildSteps]
        /\ \A d \in Children \ {c} : childPc'[d] = childPc[d]
        /\ session' = session /\ handle' = handle
        /\ FilledInv /\ EmptyInv /\ Held >= 0 /\ Held \in Int
        /\ \A m \in {"filled", "empty"} : handle["producer"][m] = session
        /\ \A m \in {"filled", "empty"} : value[m][session] \in Nat
        /\ \A S : Cardinality(ProducersAt(S)) \in Nat /\ Cardinality(ConsumersAt(S)) \in Nat
    <2>1. /\ childPc[c] \in Working /\ childPc' \in [Children -> ChildSteps]
          /\ \A d \in Children \ {c} : childPc'[d] = childPc[d]
          /\ session' = session /\ handle' = handle
      BY ChildMoves
    <2>2. \A m \in {"filled", "empty"} : handle["producer"][m] = session
      BY <1>1, <2>1, Objects
    <2>3. FilledInv /\ EmptyInv /\ Held >= 0 /\ Held \in Int
      BY <1>1 DEF DataInv, CountInv, Held, Types
    <2>. QED
      BY <2>1, <2>2, <2>3, TwoVariants, ChildrenFinite DEF Types
  <1>3. c \in Producers \/ c \in Consumers
    BY SomeConstants
  <1>4. CASE WaitCount(c)
    <2>1. Goes(c, "waitCount", "waitLock")
      BY <1>2, <1>4 DEF WaitCount, ChildStep, Goes
    <2>2. Changes(Held, Held', 0)
      BY <1>2, <1>4 DEF WaitCount, Held, history, Changes
    <2>3. /\ "waitCount" \notin Moving /\ "waitLock" \in Moving
          /\ "waitCount" \notin Moved /\ "waitLock" \notin Moved
      BY DEF Moving, Moved
    <2>4. CASE c \in Producers
      <3>1. Adjust("empty", c, -1)
        BY <1>4, <2>4 DEF WaitCount
      <3>2. /\ Changes(value["filled"][session], value'["filled"][session], 0)
            /\ Changes(value["empty"][session], value'["empty"][session], -1)
        BY <1>1, <1>2, <3>1, CountAdjusted DEF Changes
      <3>3. /\ Changes(Cardinality(ProducersAt(Moving)), Cardinality(ProducersNext(Moving)), 1)
            /\ Changes(Cardinality(ProducersAt(Moved)), Cardinality(ProducersNext(Moved)), 0)
            /\ Changes(Cardinality(ConsumersAt(Moving)), Cardinality(ConsumersNext(Moving)), 0)
            /\ Changes(Cardinality(ConsumersAt(Moved)), Cardinality(ConsumersNext(Moved)), 0)
        BY <1>2, <2>1, <2>3, <2>4, ProducerGoes
      <3>4. FilledInv'
        BY <1>2, <2>2, <3>2, <3>3, FilledMoves
      <3>5. EmptyInv'
        BY <1>2, <2>2, <3>2, <3>3, EmptyMoves
      <3>. QED
        BY <1>2, <2>2, <3>4, <3>5 DEF Changes
    <2>5. CASE c \in Consumers
      <3>1. Adjust("filled", c, -1)
        BY <1>4, <2>5, Apart DEF WaitCount
      <3>2. /\ Changes(value["filled"][session], value'["filled"][session], -1)
            /\ Changes(value["empty"][session], value'["empty"][session], 0)
        BY <1>1, <1>2, <3>1, CountAdjusted DEF Changes
      <3>3. /\ Changes(Cardinality(ConsumersAt(Moving)), Cardinality(ConsumersNext(Moving)), 1)
            /\ Changes(Cardinality(ProducersAt(Moved)), Cardinality(ProducersNext(Moved)), 0)
            /\ Changes(Cardinality(ProducersAt(Moving)), Cardinality(ProducersNext(Moving)), 0)
            /\ Changes(Cardinality(ConsumersAt(Moved)), Cardinality(ConsumersNext(Moved)), 0)
        BY <1>2, <2>1, <2>3, <2>5, ConsumerGoes
      <3>4. FilledInv'
        BY <1>2, <2>2, <3>2, <3>3, FilledMoves
      <3>5. EmptyInv'
        BY <1>2, <2>2, <3>2, <3>3, EmptyMoves
      <3>. QED
        BY <1>2, <2>2, <3>4, <3>5 DEF Changes
    <2>. QED
      BY <1>3, <2>4, <2>5
  <1>5. ASSUME NEW from \in {"waitLock", "access", "postLock"},
               NEW to \in {"access", "advance", "postCount"}, Goes(c, from, to),
               from = "postLock" <=> to = "postCount",
               \A m \in {"filled", "empty"} : value'[m][session] = value[m][session],
               sent' = sent, received' = received
        PROVE  Held' >= 0 /\ FilledInv' /\ EmptyInv'
    <2>1. Changes(Held, Held', 0)
      BY <1>2, <1>5 DEF Held, Changes
    <2>2. (from \in Moving <=> to \in Moving) /\ (from \in Moved <=> to \in Moved)
      BY <1>5 DEF Moving, Moved
    <2>3. /\ Changes(Cardinality(ConsumersAt(Moving)), Cardinality(ConsumersNext(Moving)), 0)
          /\ Changes(Cardinality(ProducersAt(Moved)), Cardinality(ProducersNext(Moved)), 0)
          /\ Changes(Cardinality(ProducersAt(Moving)), Cardinality(ProducersNext(Moving)), 0)
          /\ Changes(Cardinality(ConsumersAt(Moved)), Cardinality(ConsumersNext(Moved)), 0)
      BY <1>2, <1>5, <1>3, <2>2, ProducerGoes, ConsumerGoes
    <2>4. /\ Changes(value["filled"][session], value'["filled"][session], 0)
          /\ Changes(value["empty"][session], value'["empty"][session], 0)
      BY <1>2, <1>5 DEF Changes
    <2>5. FilledInv'
      BY <1>2, <2>1, <2>3, <2>4, FilledMoves
    <2>6. EmptyInv'
      BY <1>2, <2>1, <2>3, <2>4, EmptyMoves
    <2>. QED
      BY <1>2, <2>1, <2>5, <2>6 DEF Changes
  <1>6. CASE WaitLock(c) \/ PostLock(c)
    <2>1. PICK change \in Int : Adjust(Lock(c[1]), c, change)
      BY <1>6 DEF WaitLock, PostLock
    <2>2. \A m \in {"filled", "empty"} : value'[m][session] = value[m][session]
      <3>1. Lock(c[1]) \notin {"filled", "empty"} /\ {"filled", "empty"} \subseteq Sems
            /\ session \in Sessions
        BY TwoVariants, SomeConstants DEF ProducerLock, ConsumerLock, Types
      <3>. QED
        BY <1>2, <2>1, <3>1, AdjustSets
    <2>3. sent' = sent /\ received' = received
      BY <1>6 DEF WaitLock, PostLock, history
    <2>4. Goes(c, "waitLock", "access") \/ Goes(c, "postLock", "postCount")
      BY <1>2, <1>6 DEF WaitLock, PostLock, ChildStep, Goes
    <2>. QED
      BY <1>5, <2>2, <2>3, <2>4
  <1>7. CASE StoreItem(c) \/ LoadItem(c)
    <2>1. Goes(c, "access", "advance") /\ value' = value /\ sent' = sent /\ received' = received
      BY <1>2, <1>7 DEF StoreItem, LoadItem, ChildStep, Goes, history
    <2>. QED
      BY <1>5, <2>1
  <1>8. ASSUME Goes(c, "advance", "postLock"), value' = value
        PROVE  /\ c \in Producers /\ Changes(Held, Held', 1) => FilledInv' /\ EmptyInv'
               /\ c \in Consumers /\ Changes(Held, Held', -1) => FilledInv' /\ EmptyInv'
    <2>1. /\ "advance" \in Moving /\ "postLock" \notin Moving
          /\ "advance" \notin Moved /\ "postLock" \in Moved
      BY DEF Moving, Moved
    <2>2. /\ Changes(value["filled"][session], value'["filled"][session], 0)
          /\ Changes(value["empty"][session], value'["empty"][session], 0)
      BY <1>2, <1>8 DEF Changes
    <2>3. ASSUME c \in Producers, Changes(Held, Held', 1)
          PROVE  FilledInv' /\ EmptyInv'
      <3>1. /\ Changes(Cardinality(ProducersAt(Moving)), Cardinality(ProducersNext(Moving)), -1)
            /\ Changes(Cardinality(ProducersAt(Moved)), Cardinality(ProducersNext(Moved)), 1)
            /\ Changes(Cardinality(ConsumersAt(Moving)), Cardinality(ConsumersNext(Moving)), 0)
            /\ Changes(Cardinality(ConsumersAt(Moved)), Cardinality(ConsumersNext(Moved)), 0)
        BY <1>2, <1>8, <2>1, <2>3, ProducerGoes
      <3>2. FilledInv'
        BY <1>2, <2>2, <2>3, <3>1, FilledMoves
      <3>3. EmptyInv'
        BY <1>2, <2>2, <2>3, <3>1, EmptyMoves
      <3>. QED
        BY <3>2, <3>3
    <2>4. ASSUME c \in Consumers, Changes(Held, Held', -1)
          PROVE  FilledInv' /\ EmptyInv'
      <3>1. /\ Changes(Cardinality(ConsumersAt(Moving)), Cardinality(ConsumersNext(Moving)), -1)
            /\ Changes(Cardinality(ConsumersAt(Moved)), Cardinality(ConsumersNext(Moved)), 1)
            /\ Changes(Cardinality(ProducersAt(Moving)), Cardinality(ProducersNext(Moving)), 0)
            /\ Changes(Cardinality(ProducersAt(Moved)), Cardinality(ProducersNext(Moved)), 0)
        BY <1>2, <1>8, <2>1, <2>4, ConsumerGoes
      <3>2. FilledInv'
        BY <1>2, <2>2, <2>4, <3>1, FilledMoves
      <3>3. EmptyInv'
        BY <1>2, <2>2, <2>4, <3>1, EmptyMoves
      <3>. QED
        BY <3>2, <3>3
    <2>. QED
      BY <2>3, <2>4
  <1>9. CASE AdvanceWrite(c)
    <2>1. /\ c \in Producers /\ Goes(c, "advance", "postLock") /\ value' = value
          /\ sent' = Append(sent, item[c]) /\ received' = received
      BY <1>2, <1>9 DEF AdvanceWrite, ChildStep, Goes
    <2>2. Changes(Held, Held', 1)
      BY <2>1 DEF Held, Types, Changes
    <2>. QED
      BY <1>2, <1>8, <2>1, <2>2 DEF Changes
  <1>10. CASE AdvanceRead(c)
    <2>1. /\ c \in Consumers /\ Goes(c, "advance", "postLock") /\ value' = value
          /\ sent' = sent
      BY <1>2, <1>10 DEF AdvanceRead, ChildStep, Goes
    <2>2. received' = Append(received, item[c])
      <3>1. Buffer(c) = BufferOf(session)
        BY <1>1, <1>2, <2>1, Objects
      <3>. QED
        BY <1>10, <3>1 DEF AdvanceRead
    <2>3. Changes(Held, Held', -1)
      BY <2>1, <2>2 DEF Held, Types, Changes
    <2>4. Held >= 1
      <3>1. childPc[c] \in Moving
        BY <2>1 DEF Goes, Moving
      <3>. QED
        BY <1>1, <2>1, <3>1, ItemThere
    <2>. QED
      BY <1>2, <1>8, <2>1, <2>3, <2>4 DEF Changes
  <1>11. CASE PostCount(c)
    <2>1. PICK to \in {"waitCount", "done"} : Goes(c, "postCount", to)
      BY <1>2, <1>11 DEF PostCount, ChildStep, Goes
    <2>2. Changes(Held, Held', 0)
      BY <1>2, <1>11 DEF PostCount, Held, history, Changes
    <2>3. /\ "postCount" \notin Moving /\ to \notin Moving
          /\ "postCount" \in Moved /\ to \notin Moved
      BY DEF Moving, Moved
    <2>4. CASE c \in Producers
      <3>1. Adjust("filled", c, 1)
        BY <1>11, <2>4 DEF PostCount
      <3>2. /\ Changes(value["filled"][session], value'["filled"][session], 1)
            /\ Changes(value["empty"][session], value'["empty"][session], 0)
        BY <1>1, <1>2, <3>1, CountAdjusted DEF Changes
      <3>3. /\ Changes(Cardinality(ProducersAt(Moved)), Cardinality(ProducersNext(Moved)), -1)
            /\ Changes(Cardinality(ProducersAt(Moving)), Cardinality(ProducersNext(Moving)), 0)
            /\ Changes(Cardinality(ConsumersAt(Moving)), Cardinality(ConsumersNext(Moving)), 0)
            /\ Changes(Cardinality(ConsumersAt(Moved)), Cardinality(ConsumersNext(Moved)), 0)
        BY <1>2, <2>1, <2>3, <2>4, ProducerGoes
      <3>4. FilledInv'
        BY <1>2, <2>2, <3>2, <3>3, FilledMoves
      <3>5. EmptyInv'
        BY <1>2, <2>2, <3>2, <3>3, EmptyMoves
      <3>. QED
        BY <1>2, <2>2, <3>4, <3>5 DEF Changes
    <2>5. CASE c \in Consumers
      <3>1. Adjust("empty", c, 1)
        BY <1>11, <2>5, Apart DEF PostCount
      <3>2. /\ Changes(value["filled"][session], value'["filled"][session], 0)
            /\ Changes(value["empty"][session], value'["empty"][session], 1)
        BY <1>1, <1>2, <3>1, CountAdjusted DEF Changes
      <3>3. /\ Changes(Cardinality(ConsumersAt(Moved)), Cardinality(ConsumersNext(Moved)), -1)
            /\ Changes(Cardinality(ProducersAt(Moved)), Cardinality(ProducersNext(Moved)), 0)
            /\ Changes(Cardinality(ProducersAt(Moving)), Cardinality(ProducersNext(Moving)), 0)
            /\ Changes(Cardinality(ConsumersAt(Moving)), Cardinality(ConsumersNext(Moving)), 0)
        BY <1>2, <2>1, <2>3, <2>5, ConsumerGoes
      <3>4. FilledInv'
        BY <1>2, <2>2, <3>2, <3>3, FilledMoves
      <3>5. EmptyInv'
        BY <1>2, <2>2, <3>2, <3>3, EmptyMoves
      <3>. QED
        BY <1>2, <2>2, <3>4, <3>5 DEF Changes
    <2>. QED
      BY <1>3, <2>4, <2>5
  <1>. QED
    BY <1>4, <1>6, <1>7, <1>9, <1>10, <1>11 DEF ChildNext

LEMMA KeptFresh ==
  ASSUME Types, CallInv, DataInv, NEW c \in Children, ChildNext(c)
  PROVE  FreshInv'
  <1>1. /\ childPc[c] \in Working /\ shm' = shm /\ session' = session /\ handle' = handle
        /\ FreshInv /\ OwnerInv /\ Buffer(c) \in Sessions /\ session \in Nat \ {0}
        /\ read_index \in [Sessions -> Cells] /\ write_index \in [Sessions -> Cells]
        /\ \A s \in Sessions : s \in Nat
    <2>1. /\ childPc[c] \in Working /\ shm' = shm /\ session' = session /\ handle' = handle
      BY ChildMoves
    <2>. QED
      BY <2>1, ChildHandles, SomeConstants DEF DataInv, Types
  <1>2. /\ \A o \in Sessions \ {Buffer(c)} :
              read_index'[o] = read_index[o] /\ write_index'[o] = write_index[o]
    BY <1>1 DEF ChildNext, WaitCount, WaitLock, StoreItem, LoadItem, AdvanceWrite, AdvanceRead,
                PostLock, PostCount, buffers
  <1>3. SUFFICES ASSUME shm, NEW o \in Sessions,
                        o > session \/ (o = session /\ handle["producer"]["buffer"] = 0)
                 PROVE  o # Buffer(c)
    BY <1>1, <1>2 DEF FreshInv
  <1>4. c[1] \in {"producer", "consumer"} /\ "buffer" \in Made
    BY <1>3, SomeConstants, TwoVariants
  <1>5. /\ handle["producer"]["buffer"] \in {0, session}
        /\ handle["consumer"]["buffer"] <= session
        /\ handle["consumer"]["buffer"] = session => handle["producer"]["buffer"] = session
    BY <1>1, <1>4 DEF OwnerInv
  <1>. QED
    BY <1>1, <1>3, <1>4, <1>5 DEF Buffer

\* A child that works at an end of the buffer is alone there.
LEMMA Alone ==
  ASSUME Types, CallInv, DataInv, ~ stale,
         NEW c \in Children, childPc[c] \in {"access", "advance"},
         NEW d \in Children, childPc[d] \in {"access", "advance"}, d[1] = c[1]
  PROVE  c = d
  <1>1. childPc[c] \in Working /\ childPc[d] \in Working
    BY DEF Working, ChildSteps
  <1>2. Has(c) /\ Has(d)
    BY <1>1, Objects DEF Has
  <1>. QED
    BY <1>2 DEF DataInv, LockInv

LEMMA KeptBuffer ==
  ASSUME Types, CallInv, DataInv, NEW c \in Children, ChildNext(c)
  PROVE  WindowInv' /\ HandInv' /\ InOrder'
  <1>1. SUFFICES ASSUME ~ stale PROVE WindowInv' /\ HandInv' /\ InOrder'
    BY ChildMoves DEF WindowInv, HandInv, InOrder
  <1>. DEFINE B == BufferOf(session)  K == BufferSize
  <1>2. /\ childPc[c] \in Working /\ childPc' \in [Children -> ChildSteps]
        /\ \A d \in Children \ {c} : childPc'[d] = childPc[d] /\ item'[d] = item[d]
        /\ session' = session /\ handle' = handle /\ stale' = stale /\ shm' = shm
        /\ BufferOf(session)' = B /\ Buffer(c) = B /\ B \in Sessions
        /\ handle["producer"]["buffer"] # 0
    <2>1. /\ childPc[c] \in Working /\ childPc' \in [Children -> ChildSteps]
          /\ \A d \in Children \ {c} : childPc'[d] = childPc[d] /\ item'[d] = item[d]
          /\ session' = session /\ handle' = handle /\ stale' = stale /\ shm' = shm
      BY ChildMoves
    <2>2. Buffer(c) = B /\ B \in Sessions /\ handle["producer"]["buffer"] # 0
      BY <1>1, <2>1, Objects
    <2>. QED
      BY <2>1, <2>2, VariantStays
  <1>3. /\ write_index[B] = Len(sent) % K /\ read_index[B] = Len(received) % K
        /\ \A i \in Len(received) + 1 .. Len(sent) : buf[B][(i - 1) % K] = sent[i]
        /\ K \in Nat \ {0} /\ sent \in Seq(Nat) /\ received \in Seq(Nat)
        /\ \A d \in Producers : childPc[d] = "advance" => item[d] = buf[B][write_index[B]]
        /\ \A d \in Consumers : childPc[d] = "advance" => item[d] = sent[Len(received) + 1]
        /\ Len(received) <= Len(sent)
        /\ \A i \in 1 .. Len(received) : received[i] = sent[i]
        /\ Len(received) \in Nat /\ Len(sent) \in Nat
        /\ buf \in [Sessions -> [Cells -> Nat]]
        /\ read_index \in [Sessions -> Cells] /\ write_index \in [Sessions -> Cells]
        /\ item \in [Children -> Nat]
    <2>1. /\ WindowAt(B)
          /\ \A d \in Producers : childPc[d] = "advance" => item[d] = buf[B][write_index[B]]
          /\ \A d \in Consumers : childPc[d] = "advance" => item[d] = sent[Len(received) + 1]
      BY <1>1, <1>2 DEF DataInv, WindowInv, HandInv
    <2>2. /\ Len(received) <= Len(sent)
          /\ \A i \in 1 .. Len(received) : received[i] = sent[i]
      BY <1>1 DEF DataInv, InOrder
    <2>3. /\ sent \in Seq(Nat) /\ received \in Seq(Nat)
          /\ buf \in [Sessions -> [Cells -> Nat]]
          /\ read_index \in [Sessions -> Cells] /\ write_index \in [Sessions -> Cells]
          /\ item \in [Children -> Nat] /\ K \in Nat \ {0}
      BY SomeConstants DEF Types
    <2>4. Len(received) \in Nat /\ Len(sent) \in Nat
      BY <2>3
    <2>5. /\ write_index[B] = Len(sent) % K /\ read_index[B] = Len(received) % K
          /\ \A i \in Len(received) + 1 .. Len(sent) : buf[B][(i - 1) % K] = sent[i]
      BY <2>1 DEF WindowAt
    <2>. QED
      BY <2>1, <2>2, <2>3, <2>4, <2>5
  <1>4. /\ \A d \in Producers : d \in Children /\ d[1] = "producer"
        /\ \A d \in Consumers : d \in Children /\ d[1] = "consumer"
    BY SomeConstants
  <1>5. SUFFICES /\ write_index'[B] = Len(sent') % K /\ read_index'[B] = Len(received') % K
                 /\ \A i \in Len(received') + 1 .. Len(sent') : buf'[B][(i - 1) % K] = sent'[i]
                 /\ \A d \in Producers : childPc'[d] = "advance" =>
                       item'[d] = buf'[B][write_index'[B]]
                 /\ \A d \in Consumers : childPc'[d] = "advance" =>
                       item'[d] = sent'[Len(received') + 1]
                 /\ Len(received') <= Len(sent')
                 /\ \A i \in 1 .. Len(received') : received'[i] = sent'[i]
    BY <1>2 DEF WindowInv, WindowAt, HandInv, InOrder
  <1>. HIDE DEF B, K
  <1>6. CASE WaitCount(c) \/ WaitLock(c) \/ PostLock(c) \/ PostCount(c)
    <2>1. /\ buf' = buf /\ read_index' = read_index /\ write_index' = write_index
          /\ item' = item /\ sent' = sent /\ received' = received
          /\ childPc'[c] # "advance"
      BY <1>2, <1>6 DEF WaitCount, WaitLock, PostLock, PostCount, ChildStep, buffers, history,
                        Types
    <2>2. \A d \in Children : childPc'[d] = "advance" => childPc[d] = "advance"
      BY <1>2, <2>1
    <2>. QED
      BY <1>3, <1>4, <2>1, <2>2
  <1>7. CASE StoreItem(c)
    <2>1. /\ c \in Producers /\ childPc[c] = "access"
          /\ UNCHANGED <<read_index, write_index, sent, received>>
          /\ item'[c] = Len(sent) + 1
          /\ buf' = [buf EXCEPT ![B][write_index[B]] = item'[c]]
      BY <1>2, <1>3, <1>7 DEF StoreItem, ChildStep, history, Types
    <2>2. /\ buf'[B][write_index[B]] = item'[c]
          /\ \A k \in Cells : k # write_index[B] => buf'[B][k] = buf[B][k]
      BY <1>2, <1>3, <2>1
    <2>3. Len(sent) - Len(received) < K
      <3>1. childPc[c] \in Moving
        BY <2>1 DEF Moving
      <3>. QED
        BY <1>1, <2>1, <3>1, ItemThere DEF Held, K
    <2>4. ASSUME NEW i \in Len(received) + 1 .. Len(sent)
          PROVE  buf'[B][(i - 1) % K] = sent[i]
      <3>1. i - 1 \in Nat /\ i - 1 < Len(sent) /\ Len(sent) < (i - 1) + K
        <4>1. Len(sent) \in Nat /\ Len(received) \in Nat /\ K \in Nat
          BY <1>3
        <4>. HIDE DEF K
        <4>. QED
          BY <2>3, <4>1
      <3>2. (i - 1) % K # Len(sent) % K
        BY <1>3, <3>1, ModDistinct
      <3>3. (i - 1) % K \in Cells
        BY <1>3, <3>1, ModRange DEF Cells, K
      <3>. QED
        BY <1>3, <2>2, <3>2, <3>3
    <2>5. ASSUME NEW d \in Producers, childPc'[d] = "advance"
          PROVE  d = c
      <3>1. d # c => childPc[d] = "advance"
        BY <1>2, <1>4, <2>5
      <3>. QED
        BY <1>1, <1>4, <2>1, <3>1, Alone
    <2>6. \A d \in Consumers : childPc'[d] = "advance" => item'[d] = sent[Len(received) + 1]
      BY <1>2, <1>3, <1>4, <2>1, Apart
    <2>. QED
      BY <1>3, <2>1, <2>2, <2>4, <2>5, <2>6
  <1>8. CASE LoadItem(c)
    <2>1. /\ c \in Consumers /\ childPc[c] = "access"
          /\ UNCHANGED <<buf, read_index, write_index, sent, received>>
          /\ item'[c] = buf[B][read_index[B]]
      BY <1>2, <1>3, <1>8 DEF LoadItem, ChildStep, history, buffers, Types
    <2>2. Len(sent) - Len(received) >= 1
      <3>1. childPc[c] \in Moving
        BY <2>1 DEF Moving
      <3>. QED
        BY <1>1, <2>1, <3>1, ItemThere DEF Held
    <2>3. item'[c] = sent[Len(received) + 1]
      <3>1. /\ Len(received) + 1 \in Len(received) + 1 .. Len(sent)
            /\ (Len(received) + 1) - 1 = Len(received)
        BY <1>3, <2>2
      <3>2. buf[B][((Len(received) + 1) - 1) % K] = sent[Len(received) + 1]
        BY <1>3, <3>1
      <3>3. buf[B][Len(received) % K] = sent[Len(received) + 1]
        BY <3>1, <3>2
      <3>. QED
        BY <1>3, <2>1, <3>3
    <2>4. ASSUME NEW d \in Producers, childPc'[d] = "advance"
          PROVE  item'[d] = buf[B][write_index[B]]
      <3>1. d \in Children /\ d # c
        BY <1>4, <2>1, Apart
      <3>2. childPc[d] = "advance" /\ item'[d] = item[d]
        BY <1>2, <2>4, <3>1
      <3>. QED
        BY <1>3, <3>2
    <2>5. ASSUME NEW d \in Consumers, childPc'[d] = "advance"
          PROVE  item'[d] = sent[Len(received) + 1]
      <3>1. d # c => childPc[d] = "advance" /\ item'[d] = item[d]
        BY <1>2, <1>4, <2>5
      <3>. QED
        BY <1>3, <2>3, <3>1
    <2>. QED
      BY <1>3, <2>1, <2>4, <2>5
  <1>9. CASE AdvanceWrite(c)
    <2>1. /\ c \in Producers /\ childPc[c] = "advance" /\ childPc'[c] = "postLock"
          /\ UNCHANGED <<buf, read_index, item, received>>
          /\ sent' = Append(sent, item[c])
          /\ write_index'[B] = (write_index[B] + 1) % K
      BY <1>2, <1>3, <1>9 DEF AdvanceWrite, ChildStep, history, buffers, Types, K
    <2>2. /\ Len(sent') = Len(sent) + 1 /\ sent'[Len(sent) + 1] = item[c]
          /\ \A i \in 1 .. Len(sent) : sent'[i] = sent[i]
      BY <1>2, <1>3, <1>4, <2>1
    <2>3. write_index'[B] = Len(sent') % K
      BY <1>3, <2>1, <2>2, ModSucc
    <2>4. item[c] = buf[B][Len(sent) % K]
      BY <1>3, <2>1
    <2>5. ASSUME NEW i \in Len(received) + 1 .. Len(sent')
          PROVE  buf[B][(i - 1) % K] = sent'[i]
      <3>1. CASE i <= Len(sent)
        BY <1>3, <2>2, <3>1
      <3>2. CASE i = Len(sent) + 1
        <4>1. i - 1 = Len(sent)
          BY <1>3, <3>2
        <4>. QED
          BY <2>2, <2>4, <3>2, <4>1
      <3>3. i <= Len(sent) \/ i = Len(sent) + 1
        <4>1. Len(sent) \in Nat /\ Len(received) \in Nat
          BY <1>3
        <4>. QED
          BY <2>2, <4>1
      <3>. QED
        BY <3>1, <3>2, <3>3
    <2>6. ASSUME NEW d \in Producers, childPc'[d] = "advance"
          PROVE  FALSE
      <3>1. d # c /\ childPc[d] = "advance" /\ d \in Children /\ d[1] = c[1]
        BY <1>2, <1>4, <2>1, <2>6
      <3>. QED
        BY <1>1, <2>1, <3>1, Alone
    <2>7. ASSUME NEW d \in Consumers, childPc'[d] = "advance"
          PROVE  item[d] = sent'[Len(received) + 1]
      <3>1. d # c /\ childPc[d] = "advance" /\ d \in Children
        BY <1>2, <1>4, <2>1, <2>7, Apart
      <3>2. Len(sent) - Len(received) >= 1
        <4>1. childPc[d] \in Moving
          BY <3>1 DEF Moving
        <4>. QED
          BY <1>1, <2>7, <3>1, <4>1, ItemThere DEF Held
      <3>3. Len(received) + 1 \in 1 .. Len(sent)
        BY <1>3, <3>2
      <3>. QED
        BY <1>3, <2>2, <3>1, <3>3
    <2>8. \A i \in 1 .. Len(received) : i \in 1 .. Len(sent)
      BY <1>3
    <2>9. \A i \in 1 .. Len(received) : received[i] = sent'[i]
      BY <1>3, <2>2, <2>8
    <2>10. Len(received) <= Len(sent')
      BY <1>3, <2>2
    <2>. QED
      BY <1>3, <2>1, <2>3, <2>5, <2>6, <2>7, <2>9, <2>10
  <1>10. CASE AdvanceRead(c)
    <2>1. /\ c \in Consumers /\ childPc[c] = "advance" /\ childPc'[c] = "postLock"
          /\ UNCHANGED <<buf, write_index, item, sent>>
          /\ received' = Append(received, item[c])
          /\ read_index'[B] = (read_index[B] + 1) % K
      BY <1>2, <1>3, <1>10 DEF AdvanceRead, ChildStep, history, buffers, Types, K, B
    <2>2. /\ Len(received') = Len(received) + 1 /\ received'[Len(received) + 1] = item[c]
          /\ \A i \in 1 .. Len(received) : received'[i] = received[i]
      BY <1>2, <1>3, <1>4, <2>1
    <2>3. read_index'[B] = Len(received') % K
      BY <1>3, <2>1, <2>2, ModSucc
    <2>4. item[c] = sent[Len(received) + 1]
      BY <1>3, <2>1
    <2>5. Len(sent) - Len(received) >= 1
      <3>1. childPc[c] \in Moving
        BY <2>1 DEF Moving
      <3>. QED
        BY <1>1, <2>1, <3>1, ItemThere DEF Held
    <2>6. \A i \in Len(received') + 1 .. Len(sent) : buf[B][(i - 1) % K] = sent[i]
      <3>1. \A i \in Len(received') + 1 .. Len(sent) : i \in Len(received) + 1 .. Len(sent)
        BY <1>3, <2>2
      <3>. QED
        BY <1>3, <3>1
    <2>7. ASSUME NEW d \in Consumers, childPc'[d] = "advance"
          PROVE  FALSE
      <3>1. d # c /\ childPc[d] = "advance" /\ d \in Children /\ d[1] = c[1]
        BY <1>2, <1>4, <2>1, <2>7
      <3>. QED
        BY <1>1, <2>1, <3>1, Alone
    <2>8. \A d \in Producers : childPc'[d] = "advance" => item[d] = buf[B][write_index[B]]
      BY <1>2, <1>3, <1>4, <2>1, Apart
    <2>9. \A i \in 1 .. Len(received') : received'[i] = sent[i]
      <3>1. \A i \in 1 .. Len(received') : i = Len(received) + 1 \/ i \in 1 .. Len(received)
        <4>1. Len(received) \in Nat /\ Len(received') = Len(received) + 1
          BY <1>3, <2>2
        <4>. QED
          BY <4>1
      <3>. QED
        BY <1>3, <2>2, <2>4, <3>1
    <2>10. Len(received') <= Len(sent)
      BY <1>3, <2>2, <2>5
    <2>. QED
      BY <1>3, <2>1, <2>3, <2>6, <2>7, <2>8, <2>9, <2>10
  <1>. QED
    BY <1>6, <1>7, <1>8, <1>9, <1>10 DEF ChildNext

-----------------------------------------------------------------------------
(* Every step keeps the invariant *)

LEMMA DataInit == Init => DataInv
  <1>1. SUFFICES ASSUME Init PROVE DataInv
    OBVIOUS
  <1>. USE SomeConstants
  <1>2. /\ \A n \in Names : names[n] = 0
        /\ \A p \in Programs, n \in Names : handle[p][n] = 0
        /\ session = 1
        /\ \A c \in Children : childPc[c] = "none"
        /\ sent = << >> /\ received = << >>
        /\ \A p \in Programs : mainPc[p] = "idle"
        /\ \A o \in Sessions : read_index[o] = 0 /\ write_index[o] = 0
    BY <1>1 DEF Init, NoHandles, Names
  <1>3. /\ Sems \subseteq Names /\ Made \subseteq Names /\ "buffer" \in Names
        /\ {"filled", "empty"} \subseteq Names
        /\ \A p \in Programs : Lock(p) \in Names
        /\ shm => "csCons" \in Names
    BY TwoVariants DEF Programs
  <1>4. OwnerInv
    <2>1. \A n \in Sems : names[n] <= session
      BY <1>2, <1>3
    <2>2. shm => names["buffer"] <= session
      BY <1>2, <1>3
    <2>3. \A n \in Made : /\ handle["producer"][n] = 0 /\ handle["consumer"][n] = 0
                          /\ names[n] = 0
      BY <1>2, <1>3
    <2>4. names["buffer"] = 0 /\ \A p \in Programs : handle[p]["buffer"] = 0
      BY <1>2, <1>3
    <2>5. handle["producer"]["filled"] = 0
      BY <1>2, <1>3
    <2>6. shm => handle["consumer"]["csCons"] = 0
      BY <1>2, <1>3
    <2>. QED
      BY <1>2, <2>1, <2>2, <2>3, <2>4, <2>5, <2>6 DEF OwnerInv, Forked
  <1>5. LockInv
    <2>1. \A p \in Programs : handle[p][Lock(p)] # session
      BY <1>2, <1>3
    <2>2. \A c \in Children : ~ Has(c)
      BY <1>2 DEF Has
    <2>. QED
      BY <2>1, <2>2 DEF LockInv
  <1>6. CountInv
    BY <1>2, <1>3 DEF CountInv, FilledInv, EmptyInv, Held
  <1>7. FreshInv /\ WindowInv
    BY <1>2, <1>3 DEF FreshInv, WindowInv
  <1>8. HandInv /\ InOrder
    BY <1>2 DEF HandInv, InOrder
  <1>. QED
    BY <1>4, <1>5, <1>6, <1>7, <1>8 DEF DataInv

LEMMA DataSession ==
  ASSUME Types, CallInv, DataInv, NextSession
  PROVE  DataInv'
  <1>1. /\ shm' = shm /\ session' \in Sessions /\ session' = session + 1 /\ session \in Nat \ {0}
        /\ names' = names /\ value' = value
        /\ read_index' = read_index /\ write_index' = write_index
        /\ sent' = << >> /\ received' = << >> /\ OwnerInv /\ FreshInv
        /\ \A o \in Sessions : o \in Nat
    BY KeptSession, SomeConstants DEF NextSession, buffers, DataInv, Types
  <1>2. /\ \A p \in Programs, n \in Names : handle'[p][n] = 0
        /\ \A c \in Children : childPc'[c] = "none"
        /\ \A p \in Programs : mainPc'[p] = "idle"
    BY DEF NextSession, NoHandles, Names
  <1>3. /\ Sems \subseteq Names /\ Made \subseteq Names /\ "buffer" \in Names
        /\ {"filled", "empty"} \subseteq Names
        /\ \A p \in Programs : Lock(p) \in Names
        /\ shm => "csCons" \in Names
        /\ "producer" \in Programs /\ "consumer" \in Programs
    BY TwoVariants, SomeConstants DEF Programs
  <1>4. Sems' = Sems /\ Made' = Made /\ \A p : Lock(p)' = Lock(p)
    BY <1>1, VariantStays
  <1>5. OwnerInv'
    <2>. DEFINE Old(n) == names[n] \in Nat /\ names[n] <= session
    <2>a. \A n \in Names : names[n] \in Nat
      <3>1. \A o \in Owners : o \in Nat
        BY SomeConstants DEF Owners
      <3>. QED
        BY <3>1 DEF Types
    <2>b. \A n \in Sems : Old(n)
      BY <1>1, <1>3, <2>a DEF OwnerInv
    <2>c. shm => Old("buffer")
      BY <1>1, <1>3, <2>a DEF OwnerInv
    <2>d. \A n \in Made : n \in Sems \/ (shm /\ n = "buffer")
      BY TwoVariants
    <2>1. \A n \in Sems : names'[n] <= session'
      BY <1>1, <2>b
    <2>2. shm => names'["buffer"] <= session'
      BY <1>1, <2>c
    <2>3. \A n \in Made : /\ handle'["producer"][n] = 0 /\ handle'["consumer"][n] = 0
                          /\ names'[n] # session'
      <3>1. \A n \in Made : Old(n)
        BY <2>b, <2>c, <2>d
      <3>. QED
        BY <1>1, <1>2, <1>3, <3>1
    <2>4. (~ shm => names'["buffer"] \in {0, 1}) /\ \A p \in Programs : handle'[p]["buffer"] = 0
      BY <1>1, <1>2, <1>3 DEF OwnerInv
    <2>5. handle'["producer"]["filled"] = 0
      BY <1>2, <1>3
    <2>6. shm => handle'["consumer"]["csCons"] = 0
      BY <1>2, <1>3
    <2>7. mainPc'["consumer"] \notin Forked
      BY <1>2, <1>3 DEF Forked
    <2>. QED
      BY <1>1, <1>4, <2>1, <2>2, <2>3, <2>4, <2>5, <2>6, <2>7 DEF OwnerInv
  <1>6. LockInv'
    <2>1. \A p \in Programs : handle'[p][Lock(p)] # session'
      BY <1>1, <1>2, <1>3
    <2>2. \A c \in Children : ~ Has(c)'
      BY <1>2 DEF Has
    <2>. QED
      BY <1>4, <2>1, <2>2 DEF LockInv
  <1>7. CountInv'
    BY <1>1, <1>2, <1>3 DEF CountInv, FilledInv, EmptyInv, Held
  <1>8. FreshInv'
    BY <1>1 DEF FreshInv
  <1>9. WindowInv'
    BY <1>2, <1>3 DEF WindowInv
  <1>10. HandInv' /\ InOrder'
    BY <1>1, <1>2, SomeConstants DEF HandInv, InOrder
  <1>. QED
    BY <1>5, <1>6, <1>7, <1>8, <1>9, <1>10 DEF DataInv

LEMMA Stuttering ==
  ASSUME Types, CallInv, DataInv, UNCHANGED vars
  PROVE  Types' /\ CallInv' /\ DataInv'
  <1>1. /\ shm' = shm /\ session' = session /\ names' = names /\ value' = value
        /\ buf' = buf /\ read_index' = read_index /\ write_index' = write_index
        /\ mainPc' = mainPc /\ next' = next /\ handle' = handle
        /\ childPc' = childPc /\ item' = item /\ sent' = sent /\ received' = received
        /\ stale' = stale
    BY DEF vars, era, buffers, mains, children, history
  <1>2. /\ Sems' = Sems /\ Names' = Names /\ NoHandles' = NoHandles
        /\ \A p : Uses(p)' = Uses(p)
        /\ \A p, n : Place(p, n)' = Place(p, n)
    BY <1>1, VariantStays DEF NoHandles
  <1>3. Types'
    BY <1>1, <1>2 DEF Types
  <1>4. CallInv'
    BY <1>1, <1>2 DEF CallInv
  <1>5. DataInv'
    <2>1. StillChildren /\ \A n \in Names : names'[n] \in {0, names[n]}
      BY <1>1 DEF StillChildren
    <2>2. ~ stale' /\ mainPc'["consumer"] \in Forked => HoldsAll("consumer")
      BY <1>1 DEF DataInv, OwnerInv
    <2>. QED
      BY <1>1, <2>1, <2>2, KeptQuiet
  <1>. QED
    BY <1>3, <1>4, <1>5

LEMMA Inductive == Inv /\ [Next]_vars => Inv'
  <1>1. SUFFICES ASSUME Types, CallInv, DataInv, [Next]_vars PROVE Types' /\ CallInv' /\ DataInv'
    BY DEF Inv
  <1>2. CASE NextSession
    BY <1>1, <1>2, KeptSession, DataSession
  <1>3. ASSUME NEW p \in Programs, MainNext(p) PROVE Types' /\ CallInv' /\ DataInv'
    BY <1>1, <1>3, KeptMain, KeptMainData
  <1>4. ASSUME NEW c \in Children, ChildNext(c) PROVE Types' /\ CallInv' /\ DataInv'
    <2>1. shm' = shm /\ UNCHANGED <<session, names, mainPc, handle, stale>>
      BY <1>1, <1>4, ChildMoves
    <2>2. OwnerInv'
      BY <1>1, <2>1, KeptOwner DEF DataInv
    <2>3. LockInv' /\ CountInv' /\ FreshInv'
      BY <1>1, <1>4, KeptLocks, KeptCounts, KeptFresh
    <2>4. WindowInv' /\ HandInv' /\ InOrder'
      BY <1>1, <1>4, KeptBuffer
    <2>5. Types' /\ CallInv'
      BY <1>1, <1>4, KeptChild
    <2>. QED
      BY <2>2, <2>3, <2>4, <2>5 DEF DataInv
  <1>5. CASE UNCHANGED vars
    BY <1>1, <1>5, Stuttering
  <1>. QED
    BY <1>1, <1>2, <1>3, <1>4, <1>5 DEF Next

\* In E03/es3 a name that the producers have dropped stays free until they make it.
LEMMA KeptDrop ==
  ASSUME Types, CallInv, DropInv, NEW p \in Programs, MainNext(p)
  PROVE  DropInv'
  <1>1. shm' = shm
    BY KeptMain
  <1>2. SUFFICES ASSUME ~ shm PROVE DropInv'
    BY <1>1 DEF DropInv
  <1>. DEFINE Three == {"filled", "empty", "cs"}
              Free(n) == next["producer"] > Place("producer", n) - 3
                            /\ next["producer"] <= Place("producer", n) => names[n] = 0
              P == "producer"
  <1>3. /\ mainPc[P] # "failed"
        /\ mainPc[P] = "setUp" => \A n \in Three : Free(n)
    BY <1>2 DEF DropInv
  <1>4. /\ Place(P, "filled") = 5 /\ Place(P, "empty") = 6 /\ Place(P, "cs") = 7
        /\ Place(P, "buffer") = 1
        /\ Three \subseteq Names /\ Sems = Three /\ P \in Programs /\ "consumer" # P
        /\ Names = Three \cup {"buffer"}
        /\ Programs = {P, "consumer"}
    BY <1>2, TwoVariants, SomeConstants DEF Place
  <1>5. /\ mainPc \in [Programs -> MainSteps] /\ next \in [Programs -> Nat \ {0}]
        /\ names \in [Names -> Owners] /\ next[p] \in Nat \ {0} /\ next[P] \in Nat \ {0}
    BY <1>4 DEF Types
  <1>6. SUFFICES /\ mainPc'[P] # "failed"
                 /\ mainPc'[P] = "setUp" =>
                       \A n \in Three :
                          next'[P] > Place(P, n) - 3 /\ next'[P] <= Place(P, n) => names'[n] = 0
    <2>1. \A n : Place(P, n)' = Place(P, n)
      BY <1>1, VariantStays
    <2>. QED
      BY <1>1, <2>1 DEF DropInv
  \* The consumers make none of the names.
  <1>7. ASSUME p = "consumer", \A n \in Three : names'[n] = names[n] \/ names'[n] = 0,
               mainPc'[P] = mainPc[P], next'[P] = next[P]
        PROVE  /\ mainPc'[P] # "failed"
               /\ mainPc'[P] = "setUp" =>
                     \A n \in Three :
                        next'[P] > Place(P, n) - 3 /\ next'[P] <= Place(P, n) => names'[n] = 0
    BY <1>3, <1>7
  <1>8. CASE Start(p)
    <2>1. CASE p = P
      BY <1>4, <1>5, <1>8, <2>1 DEF Start
    <2>2. CASE p = "consumer"
      BY <1>4, <1>5, <1>7, <1>8, <2>2 DEF Start
    <2>. QED
      BY <1>4, <2>1, <2>2
  <1>9. CASE ForkChildren(p) \/ WaitChildren(p) \/ Exit(p)
    <2>1. CASE p = P
      BY <1>4, <1>5, <1>9, <2>1 DEF ForkChildren, WaitChildren, Exit
    <2>2. CASE p = "consumer"
      <3>1. names' = names /\ mainPc'[P] = mainPc[P] /\ next'[P] = next[P]
        BY <1>4, <1>5, <1>9, <2>2 DEF ForkChildren, WaitChildren, Exit
      <3>. QED
        BY <1>7, <2>2, <3>1
    <2>. QED
      BY <1>4, <2>1, <2>2
  <1>10. ASSUME NEW n \in Names, Drop(p, n)
         PROVE  /\ mainPc'[P] # "failed"
                /\ mainPc'[P] = "setUp" =>
                      \A m \in Three :
                         next'[P] > Place(P, m) - 3 /\ next'[P] <= Place(P, m) => names'[m] = 0
    <2>1. /\ p = P /\ n \in Three /\ next[P] = Place(P, n) - 3 /\ mainPc[P] = "setUp"
          /\ mainPc' = mainPc /\ next'[P] = next[P] + 1 /\ names' = [names EXCEPT ![n] = 0]
      BY <1>2, <1>5, <1>10, DropCalls DEF Drop, Proceed
    <2>2. names'[n] = 0 /\ \A m \in Three \ {n} : names'[m] = names[m]
      BY <1>4, <1>5, <2>1
    <2>3. ASSUME NEW m \in Three \ {n}, next'[P] > Place(P, m) - 3, next'[P] <= Place(P, m)
          PROVE  names'[m] = 0
      BY <1>3, <1>4, <1>5, <2>1, <2>2, <2>3
    <2>. QED
      BY <1>3, <2>1, <2>2, <2>3
  <1>11. ASSUME NEW n \in Names, CreateSem(p, n)
         PROVE  /\ mainPc'[P] # "failed"
                /\ mainPc'[P] = "setUp" =>
                      \A m \in Three :
                         next'[P] > Place(P, m) - 3 /\ next'[P] <= Place(P, m) => names'[m] = 0
    <2>1. p = P /\ n \in Three /\ next[P] = Place(P, n) /\ mainPc[P] = "setUp"
      BY <1>2, <1>4, <1>5, <1>11, CreateCalls DEF CreateSem
    <2>2. names[n] = 0
      BY <1>3, <1>4, <1>5, <2>1
    <2>3. /\ mainPc' = mainPc /\ next'[P] = next[P] + 1 /\ names' = [names EXCEPT ![n] = session]
      BY <1>5, <1>11, <2>1, <2>2 DEF CreateSem, Proceed
    <2>4. ASSUME NEW m \in Three \ {n}, next'[P] > Place(P, m) - 3, next'[P] <= Place(P, m)
          PROVE  names'[m] = 0
      <3>1. names'[m] = names[m]
        BY <1>4, <1>5, <2>3
      <3>2. Place(P, n) \in 5 .. 7 /\ Place(P, m) \in 5 .. 7
        BY <1>4, <2>1
      <3>3. next[P] > Place(P, m) - 3 /\ next[P] <= Place(P, m)
        BY <1>5, <2>1, <2>3, <2>4, <3>2
      <3>. QED
        BY <1>3, <2>1, <3>1, <3>3
    <2>5. ~ (next'[P] <= Place(P, n))
      BY <1>4, <1>5, <2>1, <2>3
    <2>. QED
      BY <1>3, <2>3, <2>4, <2>5
  <1>12. ASSUME p = P, CreateMemory
         PROVE  FALSE
    BY <1>2, <1>4, <1>5, <1>12, CreateCalls, TwoVariants DEF CreateMemory
  <1>13. CASE p = P /\ InitFile
    <2>1. mainPc' = mainPc /\ next'[P] = 2
      BY <1>4, <1>5, <1>13, InitCalls DEF InitFile, Proceed
    <2>. QED
      BY <1>3, <1>4, <2>1
  <1>14. ASSUME NEW n \in Names, Open(p, n)
         PROVE  p = "consumer" /\ names' = names /\ mainPc'[P] = mainPc[P] /\ next'[P] = next[P]
    <2>1. p = "consumer" /\ names' = names /\ (Fail(p) \/ Proceed(p))
      BY <1>5, <1>14, OpenCalls DEF Open
    <2>. QED
      BY <1>4, <2>1, MainMoves
  <1>15. ASSUME NEW n \in Names, Unlink(p, n)
         PROVE  p = "consumer" /\ mainPc'[P] = mainPc[P] /\ next'[P] = next[P]
                /\ \A m \in Three : names'[m] = names[m] \/ names'[m] = 0
    <2>1. /\ p = "consumer" /\ names' = [names EXCEPT ![n] = 0]
          /\ Fail(p) \/ Proceed(p)
      BY <1>2, <1>4, <1>5, <1>15, UnlinkCalls DEF Unlink
    <2>. QED
      BY <1>4, <1>5, <2>1, MainMoves
  <1>. QED
    BY <1>7, <1>8, <1>9, <1>10, <1>11, <1>12, <1>13, <1>14, <1>15 DEF MainNext, Names

\* What the consumers have unlinked is gone, and so is the memory that the producers unlink.
LEMMA KeptGone ==
  ASSUME Types, CallInv, DataInv, GoneInv, NEW p \in Programs, MainNext(p)
  PROVE  GoneInv'
  <1>. DEFINE P == "producer"  C == "consumer"
              Gone(n) == mainPc[C] = "exited"
                            \/ (mainPc[C] = "tearDown" /\ next[C] > LastUnlink(n)) => names[n] = 0
              Left == /\ mainPc[P] = "exited" => names["buffer"] = 0
                      /\ mainPc[P] = "tearDown" /\ next[P] > 1 => names["buffer"] = 0
  <1>1. shm' = shm /\ session' = session /\ Sems' = Sems
    BY KeptMain, VariantStays
  <1>2. /\ mainPc \in [Programs -> MainSteps] /\ next \in [Programs -> Nat \ {0}]
        /\ names \in [Names -> Owners] /\ next[p] \in Nat \ {0}
        /\ next[P] \in Nat \ {0} /\ next[C] \in Nat \ {0}
        /\ Programs = {P, C} /\ Sems \subseteq Names /\ "buffer" \in Names /\ "buffer" \notin Sems
        /\ session \in Nat \ {0} /\ stale \in BOOLEAN /\ Made \subseteq Names
        /\ Names = Sems \cup {"buffer"}
    BY SomeConstants, TwoVariants DEF Types
  <1>3. /\ ~ stale => \A n \in Sems : Gone(n)
        /\ shm => Left
    BY DEF GoneInv
  <1>4. stale => stale'
    BY DEF MainNext, Start, ForkChildren, WaitChildren, Exit, CreateMemory, InitFile, Drop,
           CreateSem, Open, Unlink, history
  <1>5. SUFFICES /\ ~ stale => \A n \in Sems : Gone(n)'
                 /\ shm => Left'
    BY <1>1, <1>4 DEF GoneInv, LastUnlink
  <1>6. \A n : LastUnlink(n) \in Nat \ {0}
    BY DEF LastUnlink
  \* A program moves, and names at most go.
  <1>7. ASSUME \A n \in Names : names'[n] \in {0, names[n]}
        PROVE  /\ \/ mainPc'[C] \notin {"exited", "tearDown"}
                  \/ mainPc'[C] = mainPc[C] /\ next'[C] = next[C]
                  \/ mainPc'[C] = "tearDown" /\ next'[C] = 1
                  => (~ stale => \A n \in Sems : Gone(n)')
               /\ \/ mainPc'[P] \notin {"exited", "tearDown"}
                  \/ mainPc'[P] = mainPc[P] /\ next'[P] = next[P]
                  \/ mainPc'[P] = "tearDown" /\ next'[P] = 1
                  => (shm => Left')
    BY <1>2, <1>3, <1>6, <1>7 DEF LastUnlink
  <1>8. CASE Start(p) \/ ForkChildren(p) \/ WaitChildren(p)
    <2>1. /\ names' = names
          /\ mainPc'[p] \in {"setUp", "wait"} \/ (mainPc'[p] = "tearDown" /\ next'[p] = 1)
          /\ \A q \in Programs \ {p} : mainPc'[q] = mainPc[q] /\ next'[q] = next[q]
      BY <1>2, <1>8 DEF Start, ForkChildren, WaitChildren
    <2>2. CASE p = P
      BY <1>2, <1>7, <2>1, <2>2
    <2>3. CASE p = C
      BY <1>2, <1>7, <2>1, <2>3
    <2>. QED
      BY <1>2, <2>2, <2>3
  <1>9. CASE Exit(p)
    <2>1. /\ names' = names /\ mainPc'[p] = "exited" /\ mainPc[p] = "tearDown"
          /\ next[p] > Len(TearDown(p))
          /\ \A q \in Programs \ {p} : mainPc'[q] = mainPc[q] /\ next'[q] = next[q]
      BY <1>2, <1>9 DEF Exit
    <2>2. CASE p = P
      <3>1. shm => next[P] > 1
        BY <2>1, <2>2, SetUpLength
      <3>2. shm => Left'
        BY <1>3, <2>1, <2>2, <3>1
      <3>. QED
        BY <1>2, <1>7, <2>1, <2>2, <3>2
    <2>3. CASE p = C
      <3>1. \A n \in Sems : next[C] > LastUnlink(n)
        <4>1. shm => next[C] > 4 /\ Sems = {"filled", "empty", "csProd", "csCons"}
          BY <2>1, <2>3, SetUpLength, TwoVariants
        <4>2. ~ shm => next[C] > 3 /\ Sems = {"filled", "empty", "cs"}
          BY <2>1, <2>3, SetUpLength, TwoVariants
        <4>. QED
          BY <1>2, <4>1, <4>2 DEF LastUnlink
      <3>2. ~ stale => \A n \in Sems : names'[n] = 0
        BY <1>3, <2>1, <2>3, <3>1
      <3>. QED
        BY <1>2, <1>7, <2>1, <2>3, <3>2
    <2>. QED
      BY <1>2, <2>2, <2>3
  <1>10. ASSUME NEW n \in Names, Drop(p, n)
         PROVE  /\ ~ stale => \A m \in Sems : Gone(m)'
                /\ shm => Left'
    <2>1. /\ p = P /\ mainPc[P] = "setUp" /\ mainPc' = mainPc /\ next'[C] = next[C]
          /\ \A m \in Names : names'[m] \in {0, names[m]}
      BY <1>2, <1>10, DropCalls DEF Drop, Proceed
    <2>. QED
      BY <1>7, <2>1
  <1>11. ASSUME NEW n \in Names, CreateSem(p, n)
         PROVE  /\ ~ stale => \A m \in Sems : Gone(m)'
                /\ shm => Left'
    <2>1. /\ n \in Sems /\ n # "buffer" /\ mainPc[p] = "setUp" /\ next[p] = Place(p, n)
          /\ p = P => n \in Made
          /\ Fail(p) \/ Proceed(p)
          /\ \A m \in Names \ {n} : names'[m] = names[m]
      BY <1>2, <1>11, CreateCalls DEF CreateSem
    <2>2. /\ mainPc'[p] \in {"setUp", "failed"}
          /\ \A q \in Programs \ {p} : mainPc'[q] = mainPc[q] /\ next'[q] = next[q]
      BY <1>2, <2>1, MainMoves
    <2>3. names'["buffer"] = names["buffer"]
      BY <1>2, <2>1
    <2>4. shm => Left'
      <3>1. CASE p = P
        BY <2>2, <3>1
      <3>2. CASE p # P
        BY <1>2, <1>3, <2>2, <2>3, <3>2
      <3>. QED
        BY <3>1, <3>2
    <2>5. CASE p = C
      BY <2>2, <2>4, <2>5
    <2>6. CASE p = P
      <3>1. ~ stale => mainPc[C] \notin Forked
        <4>1. n \in Uses(P) /\ handle[P][n] = 0
          <5>1. n \in Uses(P)
            BY <1>2, <1>11, <2>6, CreateCalls DEF CreateSem
          <5>. QED
            BY <1>2, <2>1, <2>6, <5>1 DEF CallInv
        <4>2. CASE n # ProducerLock
          BY <2>1, <2>6, <4>1, <4>2, NotMade
        <4>3. CASE n = ProducerLock /\ ~ shm
          <5>1. handle[C][n] # session /\ Lock(C) = n
            BY <2>1, <2>6, <4>1, <4>3, NotMade, TwoVariants
          <5>. QED
            BY <1>2, <5>1 DEF DataInv, OwnerInv, HoldsAll
        <4>4. CASE n = ProducerLock /\ shm
          <5>1. next[P] = 7 /\ Place(P, "buffer") = 8 /\ "buffer" \in Uses(P) /\ "buffer" \in Made
            BY <2>1, <2>6, <4>4, TwoVariants DEF Place
          <5>2. handle[P]["buffer"] = 0
            BY <1>2, <2>1, <2>6, <5>1 DEF CallInv
          <5>3. "buffer" # ProducerLock
            BY DEF ProducerLock
          <5>. QED
            BY <5>1, <5>2, <5>3, NotMade
        <4>. QED
          BY <4>2, <4>3, <4>4
      <3>2. ~ stale => mainPc'[C] \notin {"exited", "tearDown"}
        BY <1>2, <2>2, <2>6, <3>1 DEF Forked
      <3>. QED
        BY <2>4, <3>2
    <2>. QED
      BY <1>2, <2>5, <2>6
  <1>12. CASE p = P /\ (CreateMemory \/ InitFile)
    <2>1. /\ mainPc[P] = "setUp" /\ (Fail(P) \/ Proceed(P))
          /\ \A m \in Sems : names'[m] = names[m]
      <3>1. mainPc[P] = "setUp" /\ (Fail(P) \/ Proceed(P))
        BY <1>12 DEF CreateMemory, InitFile, Calls
      <3>2. \A m \in Sems : names'[m] = names[m]
        BY <1>2, <1>12 DEF CreateMemory, InitFile
      <3>. QED
        BY <3>1, <3>2
    <2>2. /\ mainPc'[P] \in {"setUp", "failed"}
          /\ mainPc'[C] = mainPc[C] /\ next'[C] = next[C]
      BY <1>2, <2>1, MainMoves
    <2>. QED
      BY <1>3, <2>1, <2>2 DEF LastUnlink
  <1>13. ASSUME NEW n \in Names, Open(p, n)
         PROVE  /\ ~ stale => \A m \in Sems : Gone(m)'
                /\ shm => Left'
    <2>1. /\ p = C /\ mainPc[C] = "setUp" /\ names' = names
          /\ Fail(p) \/ Proceed(p)
      BY <1>2, <1>13, OpenCalls DEF Open
    <2>2. /\ mainPc'[C] \in {"setUp", "failed"}
          /\ mainPc'[P] = mainPc[P] /\ next'[P] = next[P]
      BY <1>2, <2>1, MainMoves
    <2>. QED
      BY <1>7, <2>1, <2>2
  <1>14. ASSUME NEW n \in Names, Unlink(p, n)
         PROVE  /\ ~ stale => \A m \in Sems : Gone(m)'
                /\ shm => Left'
    <2>1. /\ mainPc[p] = "tearDown"
          /\ p = P => n = "buffer"
          /\ p = C => n \in Sems /\ next[p] = LastUnlink(n)
          /\ names'[n] = 0 /\ \A m \in Names : names'[m] \in {0, names[m]}
          /\ Fail(p) \/ Proceed(p)
      BY <1>2, <1>14, UnlinkCalls DEF Unlink
    <2>2. CASE Fail(p)
      <3>1. /\ mainPc'[p] = "failed"
            /\ \A q \in Programs \ {p} : mainPc'[q] = mainPc[q] /\ next'[q] = next[q]
        BY <1>2, <2>2, MainMoves
      <3>2. CASE p = P
        BY <1>2, <1>7, <2>1, <3>1, <3>2
      <3>3. CASE p = C
        BY <1>2, <1>7, <2>1, <3>1, <3>3
      <3>. QED
        BY <1>2, <3>2, <3>3
    <2>3. CASE Proceed(p)
      <3>1. /\ mainPc' = mainPc /\ next'[p] = next[p] + 1
            /\ \A q \in Programs \ {p} : next'[q] = next[q]
        BY <1>2, <2>3, MainMoves
      <3>2. CASE p = P
        <4>1. Left'
          BY <2>1, <3>2
        <4>. QED
          BY <1>2, <1>7, <2>1, <3>1, <3>2, <4>1
      <3>3. CASE p = C
        <4>1. shm => Left'
          BY <1>2, <1>7, <2>1, <3>1, <3>3
        <4>2. ASSUME ~ stale, NEW m \in Sems, next'[C] > LastUnlink(m)
              PROVE  names'[m] = 0
          <5>1. next[C] > LastUnlink(m) \/ LastUnlink(m) = LastUnlink(n)
            BY <1>2, <1>6, <2>1, <3>1, <3>3, <4>2
          <5>2. LastUnlink(m) = LastUnlink(n) => m = n
            <6>1. shm => Sems = {"filled", "empty", "csProd", "csCons"}
              BY TwoVariants
            <6>2. ~ shm => Sems = {"filled", "empty", "cs"}
              BY TwoVariants
            <6>. QED
              BY <2>1, <3>3, <4>2, <6>1, <6>2 DEF LastUnlink
          <5>3. next[C] > LastUnlink(m) => names[m] = 0
            BY <1>3, <2>1, <3>3, <4>2
          <5>. QED
            BY <1>2, <2>1, <4>2, <5>1, <5>2, <5>3
        <4>3. mainPc'[C] = "tearDown"
          BY <2>1, <3>1, <3>3
        <4>. QED
          BY <4>1, <4>2, <4>3 DEF LastUnlink
      <3>. QED
        BY <1>2, <3>2, <3>3
    <2>. QED
      BY <2>1, <2>2, <2>3
  <1>. QED
    BY <1>8, <1>9, <1>10, <1>11, <1>12, <1>13, <1>14 DEF MainNext, Names

LEMMA GoneInit == Init => DropInv /\ GoneInv
  <1>1. SUFFICES ASSUME Init PROVE DropInv /\ GoneInv
    OBVIOUS
  <1>2. mainPc["producer"] = "idle" /\ mainPc["consumer"] = "idle"
    BY <1>1, SomeConstants DEF Init
  <1>. QED
    BY <1>2 DEF DropInv, GoneInv

\* Steps that leave the names and the main processes alone, or start all over.
LEMMA SameNames ==
  ASSUME shm' = shm, UNCHANGED <<names, mainPc, next, stale>>
  PROVE  (DropInv => DropInv') /\ (GoneInv => GoneInv')
  <1>1. Sems' = Sems /\ \A n : Place("producer", n)' = Place("producer", n)
    BY VariantStays
  <1>. QED
    BY <1>1 DEF DropInv, GoneInv, LastUnlink

LEMMA AllIdle ==
  ASSUME NextSession
  PROVE  DropInv' /\ GoneInv'
  <1>1. mainPc'["producer"] = "idle" /\ mainPc'["consumer"] = "idle"
    BY SomeConstants DEF NextSession
  <1>. QED
    BY <1>1 DEF DropInv, GoneInv

LEMMA NamesInductive == NamesInv /\ [Next]_vars => NamesInv'
  <1>1. SUFFICES ASSUME Inv, DropInv, GoneInv, [Next]_vars PROVE DropInv' /\ GoneInv'
    BY Inductive DEF NamesInv
  <1>2. Types /\ CallInv /\ DataInv
    BY <1>1 DEF Inv
  <1>3. CASE NextSession
    BY <1>3, AllIdle
  <1>4. ASSUME NEW p \in Programs, MainNext(p) PROVE DropInv' /\ GoneInv'
    BY <1>1, <1>2, <1>4, KeptDrop, KeptGone
  <1>5. ASSUME NEW c \in Children, ChildNext(c) PROVE DropInv' /\ GoneInv'
    <2>1. shm' = shm /\ UNCHANGED <<names, mainPc, next, stale>>
      BY <1>2, <1>5, ChildMoves
    <2>. QED
      BY <1>1, <2>1, SameNames
  <1>6. CASE UNCHANGED vars
    <2>1. shm' = shm /\ UNCHANGED <<names, mainPc, next, stale>>
      BY <1>6 DEF vars, era, mains, history
    <2>. QED
      BY <1>1, <2>1, SameNames
  <1>. QED
    BY <1>1, <1>3, <1>4, <1>5, <1>6 DEF Next

LEMMA AllInvariant == Spec => []NamesInv
  <1>1. Init => NamesInv
    BY TypesInit, DataInit, GoneInit DEF NamesInv, Inv
  <1>. QED
    BY <1>1, NamesInductive, PTL DEF Spec

-----------------------------------------------------------------------------
(* What the programs rely on *)

\* What the consumers of a session receive is what its producers sent, in order, whatever
\* crashes and failed attempts came before, if they do not work on old objects.
THEOREM ItemsInOrder == Spec => []InOrder
  <1>1. NamesInv => InOrder
    BY DEF NamesInv, Inv, DataInv
  <1>. QED
    BY <1>1, AllInvariant, PTL

\* The producers of E03/es3 get through their set-up, whatever an earlier session left.
THEOREM FileRestart == Spec => []FileRestartSucceeds
  <1>1. NamesInv => FileRestartSucceeds
    BY DEF NamesInv, DropInv, FileRestartSucceeds, RestartSucceeds
  <1>. QED
    BY <1>1, AllInvariant, PTL

\* The children of a session never work at the same end of its buffer at once: at most one
\* of them has the lock.
THEOREM Exclusion == Spec => []ExclusiveAccess
  <1>1. ASSUME NamesInv PROVE ExclusiveAccess
    <2>1. SUFFICES ASSUME NEW c \in Children, NEW d \in Children,
                          {childPc[c], childPc[d]} \subseteq {"access", "advance"},
                          Current(c[1]), Current(d[1]), shm => c[1] = d[1]
                   PROVE  c = d
      BY DEF ExclusiveAccess
    <2>2. LockInv
      BY <1>1 DEF NamesInv, Inv, DataInv
    <2>3. Lock(c[1]) = Lock(d[1])
      BY <2>1, TwoVariants, SomeConstants
    <2>4. Has(c) /\ Has(d)
      BY <2>1 DEF Has, Current, HoldsAll
    <2>. QED
      BY <2>2, <2>3, <2>4 DEF LockInv
  <1>. QED
    BY <1>1, AllInvariant, PTL

\* When both programs have ended well, no name of theirs is left, but for consumers on old
\* objects.
THEOREM NoNameLeft == Spec => []NothingLeft
  <1>1. NamesInv => NothingLeft
    BY TwoVariants DEF NamesInv, GoneInv, NothingLeft
  <1>. QED
    BY <1>1, AllInvariant, PTL
=============================================================================
