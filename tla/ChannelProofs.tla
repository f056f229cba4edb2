----------------------------- MODULE ChannelProofs -----------------------------
(* The programs that talk over a pipe, FIFOs or datagrams: proofs about        *)
(* PipeMessages, and after them about EchoPrograms.                            *)
EXTENDS PipeMessages, EchoPrograms, SequenceTheorems, FiniteSetTheorems, TLAPS

-----------------------------------------------------------------------------
(* Queues and numbers *)

\* What Append does to a queue.
LEMMA AtTheEnd ==
  ASSUME NEW S, NEW q \in Seq(S), NEW x \in S
  PROVE  /\ Append(q, x) \in Seq(S) /\ Append(q, x) # << >>
         /\ Len(Append(q, x)) = Len(q) + 1
         /\ DOMAIN Append(q, x) = 1 .. Len(q) + 1
         /\ \A k \in 1 .. Len(q) : Append(q, x)[k] = q[k]
         /\ Append(q, x)[Len(q) + 1] = x
  OBVIOUS

\* What Head and Tail take from one.
LEMMA AtTheHead ==
  ASSUME NEW S, NEW q \in Seq(S), q # << >>
  PROVE  /\ Tail(q) \in Seq(S) /\ Len(q) \in Nat /\ Len(q) > 0
         /\ Len(Tail(q)) = Len(q) - 1
         /\ DOMAIN Tail(q) = 1 .. Len(q) - 1
         /\ \A k \in 1 .. Len(q) - 1 : Tail(q)[k] = q[k + 1]
         /\ Head(q) = q[1] /\ Head(q) \in S
  <1>1. Len(q) \in Nat /\ Len(q) > 0 /\ DOMAIN Tail(q) = 1 .. Len(q) - 1
    BY HeadTailProperties, LenProperties
  <1>. QED
    BY <1>1, HeadTailProperties

\* The quotient and the remainder.
LEMMA DivMod ==
  ASSUME NEW n \in Nat \ {0}, NEW x \in Nat
  PROVE  /\ x \div n \in Nat /\ x % n \in 0 .. n - 1
         /\ x = n * (x \div n) + (x % n)
  OBVIOUS

\* They are determined by what they make together.
LEMMA DivUnique ==
  ASSUME NEW n \in Nat \ {0}, NEW x \in Nat, NEW q \in Nat, NEW r \in 0 .. n - 1,
         x = n * q + r
  PROVE  x \div n = q /\ x % n = r
  <1>. DEFINE p == x \div n
              s == x % n
  <1>1. p \in Nat /\ s \in 0 .. n - 1 /\ x = n * p + s
    BY DivMod
  <1>. HIDE DEF p, s
  <1>2. \A k \in Nat : k >= 1 => n * k >= n
    OBVIOUS
  <1>3. ~ p < q
    <2>. SUFFICES ASSUME p < q PROVE FALSE
      OBVIOUS
    <2>1. q - p \in Nat /\ q - p >= 1 /\ n * (q - p) = n * q - n * p
      BY <1>1
    <2>2. n * (q - p) >= n
      BY <1>2, <2>1
    <2>. DEFINE a == n * p
                b == n * q
    <2>3. a \in Int /\ b \in Int /\ b - a >= n /\ a + s = b + r
      BY <1>1, <2>1, <2>2
    <2>. HIDE DEF a, b
    <2>. QED
      BY <1>1, <2>3
  <1>4. ~ q < p
    <2>. SUFFICES ASSUME q < p PROVE FALSE
      OBVIOUS
    <2>1. p - q \in Nat /\ p - q >= 1 /\ n * (p - q) = n * p - n * q
      BY <1>1
    <2>2. n * (p - q) >= n
      BY <1>2, <2>1
    <2>. DEFINE a == n * p
                b == n * q
    <2>3. a \in Int /\ b \in Int /\ a - b >= n /\ a + s = b + r
      BY <1>1, <2>1, <2>2
    <2>. HIDE DEF a, b
    <2>. QED
      BY <1>1, <2>3
  <1>5. p = q
    BY <1>1, <1>3, <1>4
  <1>. DEFINE a == n * q
  <1>6. a \in Int /\ x = a + s /\ x = a + r
    BY <1>1, <1>5
  <1>. HIDE DEF a
  <1>7. s = r
    BY <1>1, <1>6
  <1>. QED
    BY <1>5, <1>7 DEF p, s

\* One number further: in the same block, or at the start of the next.
LEMMA DivNext ==
  ASSUME NEW n \in Nat \ {0}, NEW x \in Nat
  PROVE  /\ (x % n) + 1 < n => (x + 1) \div n = x \div n /\ (x + 1) % n = (x % n) + 1
         /\ (x % n) + 1 = n => (x + 1) \div n = x \div n + 1 /\ (x + 1) % n = 0
  <1>1. x \div n \in Nat /\ x % n \in 0 .. n - 1 /\ x = n * (x \div n) + (x % n)
    BY DivMod
  <1>. DEFINE q == x \div n
              r == x % n
  <1>. HIDE DEF q, r
  <1>2. q \in Nat /\ r \in 0 .. n - 1 /\ x = n * q + r
    BY <1>1 DEF q, r
  <1>3. CASE r + 1 < n
    <2>1. x + 1 = n * q + (r + 1) /\ r + 1 \in 0 .. n - 1
      BY <1>2, <1>3
    <2>2. x + 1 \in Nat /\ (x + 1) \div n = q /\ (x + 1) % n = r + 1
      BY <1>2, <2>1, DivUnique
    <2>. QED
      BY <1>3, <2>2 DEF q, r
  <1>4. CASE r + 1 = n
    <2>1. x + 1 = n * (q + 1) + 0
      BY <1>2, <1>4
    <2>2. q + 1 \in Nat /\ 0 \in 0 .. n - 1 /\ x + 1 \in Nat
      BY <1>2
    <2>3. (x + 1) \div n = q + 1 /\ (x + 1) % n = 0
      BY <2>1, <2>2, DivUnique
    <2>. QED
      BY <1>4, <2>3 DEF q, r
  <1>5. CASE r + 1 # n /\ ~ r + 1 < n
    BY <1>2, <1>5
  <1>. QED
    BY <1>3, <1>4, <1>5

\* A whole block further.
LEMMA DivRound ==
  ASSUME NEW n \in Nat \ {0}, NEW x \in Nat
  PROVE  (n + x) \div n = x \div n + 1 /\ (n + x) % n = (x % n)
  <1>. DEFINE q == x \div n
              r == x % n
  <1>1. q \in Nat /\ r \in 0 .. n - 1 /\ x = n * q + r
    BY DivMod
  <1>. HIDE DEF q, r
  <1>2. n + x = n * (q + 1) + r
    BY <1>1
  <1>3. (n + x) \div n = q + 1 /\ (n + x) % n = r
    BY <1>1, <1>2, DivUnique
  <1>. QED
    BY <1>3 DEF q, r

\* The numbers below n make the first block.
LEMMA DivFirst ==
  ASSUME NEW n \in Nat \ {0}, NEW x \in Nat
  PROVE  /\ x < n => x \div n = 0 /\ x % n = x
         /\ x \div n = 0 => x < n
  <1>1. ASSUME x < n
        PROVE  x \div n = 0 /\ x % n = x
    <2>1. x = n * 0 + x /\ x \in 0 .. n - 1
      BY <1>1
    <2>. QED
      BY <2>1, DivUnique
  <1>2. ASSUME x \div n = 0
        PROVE  x < n
    <2>. DEFINE r == x % n
    <2>1. r \in 0 .. n - 1 /\ x = n * 0 + r
      BY <1>2, DivMod
    <2>. HIDE DEF r
    <2>. QED
      BY <2>1
  <1>. QED
    BY <1>1, <1>2

\* Two numbers of one block: the lower is no nearer to the start of it.
LEMMA DivSame ==
  ASSUME NEW n \in Nat \ {0}, NEW x \in Nat, NEW y \in Nat, x \div n = y \div n
  PROVE  y - x = (y % n) - (x % n)
  <1>. DEFINE a == n * (x \div n)
              r == x % n
              s == y % n
  <1>1. r \in Nat /\ a \in Int /\ x = a + r
    BY DivMod
  <1>2. s \in Nat /\ y = n * (y \div n) + s
    BY DivMod
  <1>3. y = a + s
    BY <1>2
  <1>. HIDE DEF a, r, s
  <1>4. y - x = s - r
    BY <1>1, <1>2, <1>3
  <1>. QED
    BY <1>4 DEF r, s

-----------------------------------------------------------------------------
(* The inductive invariant *)

\* The parts of a message, and in which message of the stream a part is, when x parts
\* of the stream come before it.
Size == IF Locked THEN MSG_ELEMS ELSE 1
Block(x) == x \div Size

\* A part of a message, or of a buffer that nobody has written to.
Values == {<< >>} \cup Writers \X Nat

Types ==
  /\ TypeOK
  /\ i \in [Children -> Nat]
  /\ data \in [Children -> [Parts -> Values]]
  /\ pipe \in Seq(Values)
  /\ delivered \in [Readers -> Seq([Parts -> Values])]

\* What the main processes know of their children: those of a main that has ended are
\* all reaped, and none of those that it has reaped failed, or it fails too.
MainInv ==
  /\ \A c \in Children : childPc[c] = "none" <=> c \notin forked
  /\ \A c \in reaped : Over(c) /\ childPc[c] # "none"
  /\ \A m \in Mains : mainPc[m] \in {"end", "ended"} => Family(m) \subseteq reaped
  /\ \A m \in Mains : mainPc[m] # "failed" =>
        \A c \in Family(m) \cap reaped : childPc[c] # "failed"

\* The parent opens nothing; the end of the consumer comes after the producer has made
\* the FIFO, which is then gone for good.
FifoInv ==
  /\ Locked => mainPc["parent"] \notin {"start", "opening"} /\ ~ fifoExists
  /\ program = "fifo" =>
        /\ mainPc["reader"] \in {"fork", "wait", "end", "ended"} =>
              mainPc["writer"] \notin {"start", "opening"}
        /\ mainPc["reader"] = "ended" => ~ fifoExists

\* In the attempt a failure shows in the parent or in a child.
AttemptInv ==
  program = "attempt" =>
      (failures = 0 <=> /\ mainPc["parent"] # "failed"
                        /\ \A c \in Children : childPc[c] # "failed")

\* How far a child is, by the step it is at.
Progress(c) ==
  /\ childPc[c] \in {"start", "wait", "move"} => i[c] < Share(c)
  /\ childPc[c] \in {"close", "ended"} => i[c] = Share(c)
  /\ childPc[c] = "none" => i[c] = 0
  /\ moved[c] > 0 => i[c] < Share(c) /\ childPc[c] \in {"move", "failed", "killed"}
  /\ c \in Readers => childPc[c] # "killed" /\ Len(delivered[c]) = i[c]
  /\ c \in Writers /\ childPc[c] # "none" =>
        data[c] = [part \in Parts |-> <<c, i[c] + 1>>]

ChildInv == \A c \in Children : Progress(c)

\* A child moves a message, or has left one half way: one at a time of each side, which
\* has its mutex.
Active(c) == childPc[c] = "move" \/ moved[c] > 0

LockInv ==
  Locked =>
      \A c, d \in Children :
          /\ Active(c) => mutex[c[1]] = 0
          /\ Active(c) /\ Active(d) /\ c[1] = d[1] => c = d

\* A message whose writing has begun.
Begun(v) ==
  \E w \in Writers : \E n \in 1 .. Share(w) :
      /\ v = <<w, n>>
      /\ \/ n <= i[w]
         \/ n = i[w] + 1 /\ moved[w] > 0

\* Of one writer, the second is a later message than the first.
Later(u, v) == u[1] = v[1] => u[2] < v[2]

\* The message a reading gave.
Given(reading) == Message(reading)[1]

BegunInv ==
  /\ \A x \in 1 .. Len(pipe) : Begun(pipe[x])
  /\ \A r \in Readers : moved[r] > 0 => Begun(data[r][1])
  /\ \A a \in Readings : Begun(Given(a)) /\ Message(a) = [part \in Parts |-> Given(a)]

\* The parts of the message at the head of the pipe that a reader has already taken.
Offset(off) ==
  \/ off = 0 /\ \A r \in Readers : moved[r] = 0
  \/ off > 0 /\ \E r \in Readers : moved[r] = off

\* The stream is made of whole messages, each a later one than those before it.
StreamAt(off) ==
  \A y \in 1 .. Len(pipe) : \A x \in 1 .. y - 1 :
      IF Block(off + x - 1) = Block(off + y - 1) THEN pipe[x] = pipe[y]
      ELSE Later(pipe[x], pipe[y])

\* All but the last, which ends with what its writer has written so far.
LastOf(w, off) ==
  /\ (off + Len(pipe)) % Size = moved[w]
  /\ \A x \in 1 .. Len(pipe) :
        Block(off + x - 1) = Block(off + Len(pipe)) => pipe[x] = <<w, i[w] + 1>>
  /\ Block(off + Len(pipe)) = 0 =>
        \A r \in Readers : moved[r] > 0 => data[r][1] = <<w, i[w] + 1>>

TailAt(off) ==
  /\ \A w \in Writers : moved[w] > 0 /\ moved[w] < Size => LastOf(w, off)
  /\ (\A w \in Writers : moved[w] \in {0, Size}) => (off + Len(pipe)) % Size = 0

StreamInv == \A off \in 0 .. Size : Offset(off) => StreamAt(off) /\ TailAt(off)

\* What a reader holds is of one message, whose other parts are at the head of the pipe,
\* and which no one else has, nor has read.
InHand(r) ==
  /\ \A part \in 1 .. moved[r] : data[r][part] = data[r][1]
  /\ \A x \in 1 .. Len(pipe) :
        IF Block(moved[r] + x - 1) = 0 THEN pipe[x] = data[r][1]
        ELSE Later(data[r][1], pipe[x])
  /\ \A s \in Readers : s # r /\ moved[s] > 0 => data[r][1] # data[s][1]
  /\ \A a \in Readings : IF a[1] = r THEN Later(Given(a), data[r][1])
                         ELSE Given(a) # data[r][1]

HandInv == \A r \in Readers : moved[r] > 0 => InHand(r)

\* Each reading gave another message, a later one than those that came before it.
ReadInv ==
  /\ \A a \in Readings : \A x \in 1 .. Len(pipe) : Later(Given(a), pipe[x])
  /\ \A a, b \in Readings : a # b => Given(a) # Given(b)
  /\ \A a, b \in Readings : a[1] = b[1] /\ a[2] < b[2] => Later(Given(a), Given(b))

\* In the attempt a reader whose pipe ends too soon goes on with a buffer half filled.
Good == program = "attempt" => failures = 0

Whole == BegunInv /\ StreamInv /\ HandInv /\ ReadInv

Inv == /\ Types /\ MainInv /\ FifoInv /\ AttemptInv /\ ChildInv /\ LockInv
       /\ (Good => Whole)

-----------------------------------------------------------------------------
(* Constants *)

LEMMA ConstantsOK ==
  /\ WRITERS_COUNT \in Nat \ {0} /\ READERS_COUNT \in Nat \ {0}
  /\ MSG_COUNT \in Nat \ {0} /\ MSG_ELEMS \in Nat \ {0} /\ Capacity \in Nat \ {0}
  /\ MaxFailures \in Nat
  BY PipeAssumption

LEMMA SizeIs ==
  /\ Size \in Nat \ {0} /\ Parts = 1 .. Size /\ Cardinality(Parts) = Size
  /\ program = "fifo" => Size = 1
  <1>1. Size \in Nat \ {0} /\ Parts = 1 .. Size /\ (program = "fifo" => Size = 1)
    BY ConstantsOK DEF Size, Parts, Locked
  <1>. QED
    BY <1>1, FS_Interval

\* Every child of a side has the same share, and together they have all the messages.
LEMMA ShareIs ==
  ASSUME NEW c \in Children
  PROVE  /\ Share(c) \in Nat \ {0} /\ Count(c[1]) \in Nat \ {0}
         /\ Share(c) = MSG_COUNT \div Count(c[1])
         /\ Count(c[1]) * Share(c) = MSG_COUNT
  <1>1. Count(c[1]) \in Nat \ {0} /\ MSG_COUNT % Count(c[1]) = 0
    BY PipeAssumption DEF Children, Writers, Readers, Count
  <1>. DEFINE n == Count(c[1])
  <1>2. n \in Nat \ {0} /\ MSG_COUNT \in Nat \ {0} /\ MSG_COUNT % n = 0
    BY <1>1, ConstantsOK
  <1>. HIDE DEF n
  <1>3. MSG_COUNT \div n \in Nat /\ MSG_COUNT = n * (MSG_COUNT \div n)
    BY <1>2, DivMod
  <1>4. MSG_COUNT \div n # 0
    BY <1>2, <1>3
  <1>. QED
    BY <1>2, <1>3, <1>4 DEF n, Share

LEMMA Sides ==
  /\ Children = Writers \cup Readers /\ Writers \cap Readers = {}
  /\ \A c \in Children : c[1] \in {"writer", "reader"}
  /\ \A c \in Children : c \in Writers <=> c[1] = "writer"
  /\ \A c \in Children : c \in Readers <=> c[1] = "reader"
  BY DEF Children, Writers, Readers

-----------------------------------------------------------------------------
(* Steps *)

\* The steps that move no part of a message, and lose none.
MainStill ==
  \/ MakeFifo \/ CannotMakeFifo \/ OpenFifo \/ OpensMeet \/ CloseEnds
  \/ \E m \in Mains : End(m) \/ ForkFails(m) \/ \E c \in Children : Reap(m, c)

ChildStill(c) ==
  \/ CloseOther(c) \/ Wait(c) \/ BrokenPipe(c) \/ ReadNothing(c) \/ CloseOwn(c)
  \/ ChildFails(c)

LEMMA Steps ==
  ASSUME [Next]_vars
  PROVE  \/ MainStill
         \/ \E m \in Mains : \E c \in Children : Fork(m, c)
         \/ \E c \in Children : ChildStill(c)
         \/ \E c \in Writers : WriteToPipe(c)
         \/ \E c \in Readers : ReadFromPipe(c)
         \/ \E c \in Children : Post(c)
         \/ UNCHANGED vars
  <1>1. ASSUME NEW m, MainNext(m)
        PROVE  MainStill \/ \E k \in Mains : \E c \in Children : Fork(k, c)
    <2>1. CASE End(m)
      <3>1. m \in Mains
        BY <2>1 DEF End, MainStep
      <3>. QED
        BY <2>1, <3>1 DEF MainStill
    <2>2. ASSUME NEW c \in Children, Fork(m, c) \/ Reap(m, c)
          PROVE  MainStill \/ \E k \in Mains : \E d \in Children : Fork(k, d)
      <3>1. m \in Mains
        BY <2>2 DEF Fork, Reap, MainStep
      <3>. QED
        BY <2>2, <3>1 DEF MainStill
    <2>. QED
      BY <1>1, <2>1, <2>2 DEF MainNext
  <1>2. CASE MainsNext
    BY <1>1, <1>2 DEF MainsNext, Parent, Producer, Consumer, MainStill
  <1>3. ASSUME NEW c \in Children, ChildNext(c)
        PROVE  \/ ChildStill(c) \/ Post(c)
               \/ c \in Writers /\ WriteToPipe(c)
               \/ c \in Readers /\ ReadFromPipe(c)
    BY <1>3 DEF ChildNext, Writer, Reader, Produce, Consume, WriteValue, ReadValue,
       TakePart, ChildStill
  <1>4. CASE Fails
    BY <1>4 DEF Fails, MainStill, ChildStill
  <1>. QED
    BY <1>2, <1>3, <1>4 DEF Next

LEMMA SameProgram ==
  ASSUME [Next]_vars
  PROVE  /\ program' = program /\ Size' = Size /\ Parts' = Parts /\ Mains' = Mains
         /\ (Locked' <=> Locked)
  <1>1. program' = program
    <2>1. CASE MainStill
      BY <2>1 DEF MainStill, MakeFifo, CannotMakeFifo, OpenFifo, OpensMeet, CloseEnds, End,
         ForkFails, Reap
    <2>2. ASSUME NEW m \in Mains, NEW c \in Children, Fork(m, c)
          PROVE  program' = program
      BY <2>2 DEF Fork
    <2>3. ASSUME NEW c \in Children, ChildStill(c)
          PROVE  program' = program
      BY <2>3 DEF ChildStill, CloseOther, Wait, BrokenPipe, ReadNothing, CloseOwn, ChildFails
    <2>4. ASSUME NEW c \in Children, WriteToPipe(c) \/ ReadFromPipe(c) \/ Post(c)
          PROVE  program' = program
      BY <2>4 DEF WriteToPipe, ReadFromPipe, Post
    <2>5. CASE UNCHANGED vars
      BY <2>5 DEF vars
    <2>. QED
      BY <2>1, <2>2, <2>3, <2>4, <2>5, Steps, Sides
  <1>. QED
    BY <1>1 DEF Size, Parts, Mains, Locked

-----------------------------------------------------------------------------
(* At the start *)

LEMMA InitInv == Init => Inv
  <1>. SUFFICES ASSUME Init PROVE Inv
    OBVIOUS
  <1>1. Types
    <2>1. TypeOK
      <3>1. \A c \in Children : 0 \in 0 .. Share(c)
        BY ShareIs
      <3>2. 0 \in 0 .. Cardinality(Parts) /\ 0 \in 0 .. MaxFailures /\ Len(<< >>) <= Capacity
        BY SizeIs, ConstantsOK
      <3>3. mainPc \in [Mains -> {"start", "opening", "fork", "close", "closeWriter",
                                  "wait", "end", "ended", "failed"}]
        BY DEF Init
      <3>4. \A c \in Children : i[c] \in 0 .. Share(c)
        BY <3>1 DEF Init
      <3>5. moved \in [Children -> 0 .. Cardinality(Parts)]
        BY <3>2 DEF Init
      <3>6. fifoExists \in BOOLEAN
        BY DEF Init
      <3>7. mutex \in [{"writer", "reader"} -> 0 .. 1]
        BY DEF Init
      <3>8. reaped \subseteq forked /\ forked \subseteq Children /\ Len(pipe) <= Capacity
        BY <3>2 DEF Init
      <3>9. childPc \in [Children -> {"none", "start", "wait", "move", "close", "ended",
                                      "failed", "killed"}]
        BY DEF Init
      <3>. QED
        BY <3>2, <3>3, <3>4, <3>5, <3>6, <3>7, <3>8, <3>9 DEF Init, TypeOK
    <2>2. data \in [Children -> [Parts -> Values]]
      BY DEF Init, Garbage, Values
    <2>. QED
      BY <2>1, <2>2 DEF Init, Types
  <1>2. MainInv
    BY DEF Init, MainInv, Over, Locked
  <1>3. FifoInv
    BY DEF Init, FifoInv, Locked, Mains
  <1>4. AttemptInv
    BY DEF Init, AttemptInv, Locked, Mains
  <1>5. ChildInv
    BY Sides DEF Init, ChildInv, Progress
  <1>6. LockInv
    BY DEF Init, LockInv, Active
  <1>7. Readings = {} /\ pipe = << >>
    BY DEF Init, Readings
  <1>8. BegunInv /\ ReadInv
    BY <1>7 DEF Init, BegunInv, ReadInv, Children
  <1>9. HandInv
    BY DEF Init, HandInv, Children
  <1>10. StreamInv
    <2>1. SUFFICES ASSUME NEW off \in 0 .. Size, Offset(off)
                   PROVE  StreamAt(off) /\ TailAt(off)
      BY DEF StreamInv
    <2>2. off = 0 /\ \A w \in Writers : moved[w] = 0
      BY <2>1 DEF Init, Offset, Children
    <2>3. 0 % Size = 0
      BY SizeIs, DivFirst
    <2>. QED
      BY <1>7, <2>2, <2>3 DEF StreamAt, TailAt
  <1>. QED
    BY <1>1, <1>2, <1>3, <1>4, <1>5, <1>6, <1>8, <1>9, <1>10 DEF Inv, Whole

-----------------------------------------------------------------------------
(* Types *)

\* A child is known by its side, and its moves stay within its message.
LEMMA ChildTypes ==
  ASSUME Types, NEW c \in Children
  PROVE  /\ i[c] \in Nat /\ moved[c] \in 0 .. Size /\ mutex[c[1]] \in {0, 1}
         /\ data[c] \in [Parts -> Values] /\ c \in DOMAIN childPc /\ c \in DOMAIN moved
         /\ c \in DOMAIN i /\ c \in DOMAIN data
  <1>1. i \in [Children -> Nat] /\ moved \in [Children -> 0 .. Size]
        /\ data \in [Children -> [Parts -> Values]] /\ DOMAIN childPc = Children
    BY SizeIs DEF Types, TypeOK
  <1>2. mutex[c[1]] \in 0 .. 1
    BY Sides DEF Types, TypeOK
  <1>. QED
    BY <1>1, <1>2

MainSteps ==
  {"start", "opening", "fork", "close", "closeWriter", "wait", "end", "ended", "failed"}
ChildSteps == {"none", "start", "wait", "move", "close", "ended", "failed", "killed"}

\* The types, in the terms of the proofs.
LEMMA TypesAre ==
  Types <=>
      /\ program \in Programs
      /\ mainPc \in [Mains -> MainSteps] /\ childPc \in [Children -> ChildSteps]
      /\ reaped \subseteq forked /\ forked \subseteq Children
      /\ \A c \in Children : i[c] \in 0 .. Share(c)
      /\ i \in [Children -> Nat] /\ moved \in [Children -> 0 .. Size]
      /\ mutex \in [{"writer", "reader"} -> 0 .. 1]
      /\ Len(pipe) <= Capacity /\ pipe \in Seq(Values)
      /\ fifoExists \in BOOLEAN /\ failures \in 0 .. MaxFailures
      /\ data \in [Children -> [Parts -> Values]]
      /\ delivered \in [Readers -> Seq([Parts -> Values])]
  BY SizeIs DEF Types, TypeOK, MainSteps, ChildSteps

\* It is enough to look at the variables, as the program stays the same.
LEMMA TypesNext ==
  ASSUME [Next]_vars,
         program' \in Programs,
         mainPc' \in [Mains -> MainSteps], childPc' \in [Children -> ChildSteps],
         reaped' \subseteq forked', forked' \subseteq Children,
         \A c \in Children : i'[c] \in 0 .. Share(c),
         i' \in [Children -> Nat], moved' \in [Children -> 0 .. Size],
         mutex' \in [{"writer", "reader"} -> 0 .. 1],
         Len(pipe') <= Capacity, pipe' \in Seq(Values),
         fifoExists' \in BOOLEAN, failures' \in 0 .. MaxFailures,
         data' \in [Children -> [Parts -> Values]],
         delivered' \in [Readers -> Seq([Parts -> Values])]
  PROVE  Types'
  <1>1. (Cardinality(Parts) = Size)'
    BY SizeIs, PTL
  <1>2. Size' = Size /\ Parts' = Parts /\ Mains' = Mains
    BY SameProgram
  <1>. QED
    BY <1>1, <1>2 DEF Types, TypeOK, MainSteps, ChildSteps

LEMMA TypesStep ==
  ASSUME Types, ChildInv, LockInv, [Next]_vars
  PROVE  Types'
  <1>. USE TypesAre
  <1>. USE DEF mains, children
  <1>2. CASE MainStill
    <2>1. UNCHANGED <<program, forked, children, mutex, pipe, delivered>>
      BY <1>2 DEF MainStill, MakeFifo, CannotMakeFifo, OpenFifo, OpensMeet, CloseEnds, End,
         ForkFails, Reap, children
    <2>2. mainPc' \in [Mains -> MainSteps]
      BY <1>2 DEF MainStill, MakeFifo, CannotMakeFifo, OpenFifo, OpensMeet, CloseEnds, End,
         ForkFails, Reap, MainStep, MainSteps
    <2>3. fifoExists' \in BOOLEAN
      <3>1. CASE \E m \in Mains : End(m)
        BY <3>1 DEF End
      <3>2. CASE ~ \E m \in Mains : End(m)
        BY <1>2, <3>2 DEF MainStill, MakeFifo, CannotMakeFifo, OpenFifo, OpensMeet,
           CloseEnds, ForkFails, Reap
      <3>. QED
        BY <3>1, <3>2
    <2>4. failures' \in 0 .. MaxFailures /\ reaped' \subseteq forked
      BY <1>2, ConstantsOK DEF MainStill, MakeFifo, CannotMakeFifo, OpenFifo, OpensMeet,
         CloseEnds, End, ForkFails, Reap
    <2>. QED
      BY TypesNext, <2>1, <2>2, <2>3, <2>4
  <1>3. ASSUME NEW m \in Mains, NEW c \in Children, Fork(m, c)
        PROVE  Types'
    <2>1. UNCHANGED <<program, reaped, i, moved, mutex, pipe, fifoExists, delivered, failures>>
      BY <1>3 DEF Fork
    <2>2. /\ mainPc' \in [Mains -> MainSteps] /\ childPc' \in [Children -> ChildSteps]
          /\ forked' = forked \cup {c}
      BY <1>3 DEF Fork, MainStep, MainSteps, ChildSteps
    <2>3. data' \in [Children -> [Parts -> Values]]
      <3>1. c \in Writers => [part \in Parts |-> <<c, 1>>] \in [Parts -> Values]
        BY DEF Values
      <3>. QED
        BY <1>3, <3>1 DEF Fork
    <2>. QED
      BY TypesNext, <2>1, <2>2, <2>3
  <1>4. ASSUME NEW c \in Children, ChildStill(c)
        PROVE  Types'
    <2>1. UNCHANGED <<program, mains, i, data, pipe, fifoExists, delivered>>
      BY <1>4 DEF ChildStill, CloseOther, Wait, BrokenPipe, ReadNothing, CloseOwn, ChildFails
    <2>2. childPc' \in [Children -> ChildSteps]
      BY <1>4 DEF ChildStill, CloseOther, Wait, BrokenPipe, ReadNothing, CloseOwn, ChildFails,
         ChildStep, ChildSteps
    <2>3. moved' \in [Children -> 0 .. Size]
      <3>1. moved' \in {moved, [moved EXCEPT ![c] = Size]}
        BY <1>4, SizeIs DEF ChildStill, CloseOther, Wait, BrokenPipe, ReadNothing, CloseOwn,
           ChildFails
      <3>. QED
        BY <3>1, SizeIs
    <2>4. mutex' \in [{"writer", "reader"} -> 0 .. 1]
      BY <1>4, Sides DEF ChildStill, CloseOther, Wait, BrokenPipe, ReadNothing, CloseOwn,
         ChildFails
    <2>5. failures' \in 0 .. MaxFailures
      BY <1>4, ConstantsOK DEF ChildStill, CloseOther, Wait, BrokenPipe, ReadNothing,
         CloseOwn, ChildFails
    <2>. QED
      BY TypesNext, <2>1, <2>2, <2>3, <2>4, <2>5
  <1>5. ASSUME NEW c \in Writers, WriteToPipe(c)
        PROVE  Types'
    <2>0. c \in Children
      BY Sides
    <2>1. UNCHANGED <<program, mains, childPc, i, data, mutex, fifoExists, delivered,
                      failures>>
      BY <1>5 DEF WriteToPipe
    <2>2. moved[c] \in 0 .. Size - 1 /\ moved' \in [Children -> 0 .. Size]
      BY <1>5, <2>0, SizeIs DEF WriteToPipe
    <2>3. data[c][moved[c] + 1] \in Values
      <3>1. moved[c] + 1 \in Parts
        BY <2>2, SizeIs
      <3>. QED
        BY <2>0, <3>1
    <2>4. pipe' \in Seq(Values) /\ Len(pipe') <= Capacity
      BY <1>5, <2>3, AtTheEnd, LenProperties, ConstantsOK DEF WriteToPipe
    <2>. QED
      BY TypesNext, <2>1, <2>2, <2>4
  <1>6. ASSUME NEW c \in Readers, ReadFromPipe(c)
        PROVE  Types'
    <2>0. c \in Children
      BY Sides
    <2>1. UNCHANGED <<program, mains, childPc, i, mutex, fifoExists, delivered, failures>>
      BY <1>6 DEF ReadFromPipe
    <2>2. moved[c] \in 0 .. Size - 1 /\ moved' \in [Children -> 0 .. Size]
      BY <1>6, <2>0, SizeIs DEF ReadFromPipe
    <2>3. Head(pipe) \in Values /\ pipe' \in Seq(Values) /\ Len(pipe') <= Capacity
      BY <1>6, AtTheHead, ConstantsOK DEF ReadFromPipe
    <2>4. data' \in [Children -> [Parts -> Values]]
      BY <1>6, <2>0, <2>3 DEF ReadFromPipe
    <2>. QED
      BY TypesNext, <2>1, <2>2, <2>3, <2>4
  <1>7. ASSUME NEW c \in Children, Post(c)
        PROVE  Types'
    <2>1. UNCHANGED <<program, mains, pipe, fifoExists, failures>>
      BY <1>7 DEF Post
    <2>2. childPc' \in [Children -> ChildSteps]
      BY <1>7 DEF Post, ChildStep, ChildSteps
    <2>3. moved[c] = Size /\ i[c] < Share(c) /\ i[c] \in Nat /\ Share(c) \in Nat
      BY <1>7, SizeIs, ShareIs DEF Post, ChildInv, Progress, ChildStep
    <2>4. /\ i' \in [Children -> Nat] /\ \A d \in Children : i'[d] \in 0 .. Share(d)
          /\ moved' \in [Children -> 0 .. Size]
      BY <1>7, <2>3, SizeIs DEF Post
    <2>5. mutex' \in [{"writer", "reader"} -> 0 .. 1]
      <3>1. Locked => mutex[c[1]] = 0
        BY <2>3, SizeIs DEF LockInv, Active
      <3>. QED
        BY <1>7, <3>1, Sides DEF Post
    <2>6. data' \in [Children -> [Parts -> Values]]
      <3>1. c \in Writers => [part \in Parts |-> <<c, i[c] + 2>>] \in [Parts -> Values]
        BY <2>3 DEF Values
      <3>. QED
        BY <1>7, <3>1 DEF Post
    <2>7. delivered' \in [Readers -> Seq([Parts -> Values])]
      <3>1. CASE c \in Readers
        <4>1. Append(delivered[c], data[c]) \in Seq([Parts -> Values])
          BY <3>1, AtTheEnd
        <4>. QED
          BY <1>7, <3>1, <4>1 DEF Post
      <3>2. CASE c \notin Readers
        BY <1>7, <3>2 DEF Post
      <3>. QED
        BY <3>1, <3>2
    <2>. QED
      BY TypesNext, <2>1, <2>2, <2>4, <2>5, <2>6, <2>7
  <1>8. CASE UNCHANGED vars
    BY TypesNext, <1>8 DEF vars
  <1>. QED
    BY <1>2, <1>3, <1>4, <1>5, <1>6, <1>7, <1>8, Steps

-----------------------------------------------------------------------------
(* The main processes and how far the children are *)

\* A child that is not over was forked, and is not yet reaped.
LEMMA MainStepInv ==
  ASSUME Types, MainInv, [Next]_vars
  PROVE  MainInv'
  <1>. USE TypesAre
  <1>0. Mains' = Mains /\ \A m : Family(m)' = Family(m)
    BY SameProgram DEF Family
  <1>1. CASE UNCHANGED <<mains, childPc>>
    BY <1>0, <1>1 DEF MainInv, Over, mains
  <1>2. ASSUME NEW c \in Children, UNCHANGED mains, childPc[c] # "none", ~ Over(c),
               \E to \in ChildSteps \ {"none"} : childPc' = [childPc EXCEPT ![c] = to]
        PROVE  MainInv'
    <2>1. c \notin reaped /\ \A d \in Children : d # c => childPc'[d] = childPc[d]
      BY <1>2 DEF MainInv
    <2>2. childPc'[c] # "none" /\ c \in forked
      BY <1>2 DEF MainInv
    <2>. QED
      BY <1>0, <1>2, <2>1, <2>2 DEF MainInv, Over, mains
  <1>3. ASSUME NEW c \in Children, ChildStill(c) \/ Post(c)
        PROVE  MainInv'
    <2>1. UNCHANGED mains
      BY <1>3 DEF ChildStill, CloseOther, Wait, BrokenPipe, ReadNothing, CloseOwn, ChildFails,
         Post, mains
    <2>2. \/ UNCHANGED childPc
          \/ /\ childPc[c] # "none" /\ ~ Over(c)
             /\ \E to \in ChildSteps \ {"none"} : childPc' = [childPc EXCEPT ![c] = to]
      BY <1>3 DEF ChildStill, CloseOther, Wait, BrokenPipe, ReadNothing, CloseOwn, ChildFails,
         Post, ChildStep, Over, ChildSteps
    <2>. QED
      BY <1>1, <1>2, <2>1, <2>2
  <1>4. ASSUME NEW c \in Children, WriteToPipe(c) \/ ReadFromPipe(c)
        PROVE  MainInv'
    BY <1>1, <1>4 DEF WriteToPipe, ReadFromPipe
  <1>5. ASSUME NEW m \in Mains, NEW c \in Children, Fork(m, c)
        PROVE  MainInv'
    <2>1. /\ forked' = forked \cup {c} /\ reaped' = reaped /\ c \notin forked
          /\ childPc' = [childPc EXCEPT ![c] = IF Locked THEN "start" ELSE "move"]
          /\ \E to \in {"fork", "close", "wait"} : mainPc' = [mainPc EXCEPT ![m] = to]
          /\ mainPc[m] = "fork"
      BY <1>5 DEF Fork, MainStep
    <2>2. c \notin reaped
      BY <2>1
    <2>. QED
      BY <1>0, <2>1, <2>2 DEF MainInv, Over
  <1>6. ASSUME NEW m \in Mains, NEW c \in Children, Reap(m, c)
        PROVE  MainInv'
    <2>1. /\ c \in Family(m) /\ c \in forked /\ Over(c) /\ reaped' = reaped \cup {c}
          /\ UNCHANGED <<forked, childPc>> /\ mainPc[m] = "wait"
          /\ mainPc' = [mainPc EXCEPT ![m] =
                 IF childPc[c] = "failed" THEN "failed"
                 ELSE IF Family(m) \subseteq reaped' THEN "end" ELSE "wait"]
      BY <1>6 DEF Reap, MainStep, children
    <2>2. \A k \in Mains : k # m => c \notin Family(k)
      BY <2>1, Sides DEF Mains, Family
    <2>3. \A k \in Mains : mainPc'[k] \in {"end", "ended"} => Family(k) \subseteq reaped'
      BY <2>1 DEF MainInv
    <2>4. \A k \in Mains : mainPc'[k] # "failed" =>
              \A d \in Family(k) \cap reaped' : childPc'[d] # "failed"
      BY <2>1, <2>2 DEF MainInv
    <2>. QED
      BY <1>0, <2>1, <2>3, <2>4 DEF MainInv, Over
  <1>7. ASSUME NEW m \in Mains, End(m) \/ ForkFails(m)
        PROVE  MainInv'
    <2>1. /\ UNCHANGED <<forked, reaped, childPc>>
          /\ \/ mainPc[m] = "end" /\ mainPc' = [mainPc EXCEPT ![m] = "ended"]
             \/ mainPc' = [mainPc EXCEPT ![m] = "failed"]
      BY <1>7 DEF End, ForkFails, MainStep, children
    <2>. QED
      BY <1>0, <2>1 DEF MainInv, Over
  <1>8. CASE MakeFifo \/ CannotMakeFifo \/ OpenFifo \/ OpensMeet \/ CloseEnds
    <2>1. UNCHANGED <<forked, reaped, childPc>>
      BY <1>8 DEF MakeFifo, CannotMakeFifo, OpenFifo, OpensMeet, CloseEnds, children
    <2>2. \A m \in Mains : mainPc'[m] # mainPc[m] =>
              mainPc'[m] \notin {"end", "ended"} /\ mainPc[m] # "failed"
      BY <1>8 DEF MakeFifo, CannotMakeFifo, OpenFifo, OpensMeet, CloseEnds, MainStep
    <2>. QED
      BY <1>0, <2>1, <2>2 DEF MainInv, Over
  <1>9. CASE UNCHANGED vars
    BY <1>1, <1>9 DEF vars, children
  <1>. QED
    BY <1>3, <1>4, <1>5, <1>6, <1>7, <1>8, <1>9, Steps, Sides DEF MainStill

LEMMA FifoStep ==
  ASSUME Types, FifoInv, [Next]_vars
  PROVE  FifoInv'
  <1>. USE TypesAre
  <1>0. program' = program /\ (Locked' <=> Locked) /\ Mains' = Mains
    BY SameProgram
  <1>1. CASE UNCHANGED <<mainPc, fifoExists>>
    BY <1>0, <1>1 DEF FifoInv
  <1>2. ASSUME NEW c \in Children, ChildStill(c) \/ Post(c) \/ WriteToPipe(c) \/ ReadFromPipe(c)
        PROVE  FifoInv'
    BY <1>1, <1>2 DEF ChildStill, CloseOther, Wait, BrokenPipe, ReadNothing, CloseOwn,
       ChildFails, Post, WriteToPipe, ReadFromPipe, mains
  <1>3. CASE UNCHANGED vars
    BY <1>1, <1>3 DEF vars, mains
  <1>4. ASSUME NEW m \in Mains,
               \/ \E c \in Children : Fork(m, c) \/ Reap(m, c)
               \/ ForkFails(m) \/ End(m)
        PROVE  FifoInv'
    <2>1. /\ mainPc[m] \in {"fork", "wait", "end"}
          /\ \E to \in MainSteps \ {"start", "opening"} :
                /\ mainPc' = [mainPc EXCEPT ![m] = to]
                /\ \/ to # "ended" /\ fifoExists' = fifoExists
                   \/ m = "reader" /\ fifoExists' = FALSE
                   \/ m # "reader" /\ fifoExists' = fifoExists
      <3>1. CASE \E c \in Children : Fork(m, c) \/ Reap(m, c)
        BY <3>1 DEF Fork, Reap, MainStep, MainSteps
      <3>2. CASE ForkFails(m)
        <4>1. /\ mainPc[m] = "fork" /\ mainPc' = [mainPc EXCEPT ![m] = "failed"]
              /\ UNCHANGED fifoExists
          BY <3>2 DEF ForkFails, MainStep
        <4>2. "failed" \in MainSteps \ {"start", "opening"} /\ "failed" # "ended"
          BY DEF MainSteps
        <4>. QED
          BY <4>1, <4>2
      <3>3. CASE End(m)
        <4>1. fifoExists' = IF m = "reader" THEN FALSE ELSE fifoExists
          BY <3>3 DEF End
        <4>. QED
          BY <3>3, <4>1 DEF End, MainStep, MainSteps
      <3>. QED
        BY <1>4, <3>1, <3>2, <3>3
    <2>2. PICK to \in MainSteps \ {"start", "opening"} :
              /\ mainPc' = [mainPc EXCEPT ![m] = to]
              /\ \/ to # "ended" /\ fifoExists' = fifoExists
                 \/ m = "reader" /\ fifoExists' = FALSE
                 \/ m # "reader" /\ fifoExists' = fifoExists
      BY <2>1
    <2>3. mainPc'[m] = to /\ \A k \in Mains : k # m => mainPc'[k] = mainPc[k]
      BY <2>2
    <2>4. CASE Locked
      <3>1. m = "parent" /\ program # "fifo"
        BY <2>4 DEF Mains, Locked
      <3>. QED
        BY <1>0, <2>2, <2>3, <2>4, <3>1 DEF FifoInv
    <2>5. CASE ~ Locked
      <3>1. m \in {"writer", "reader"} /\ {"writer", "reader"} = Mains
        BY <2>5 DEF Locked, Mains
      <3>. QED
        BY <1>0, <2>1, <2>2, <2>3, <2>5, <3>1 DEF FifoInv
    <2>. QED
      BY <2>4, <2>5
  <1>5. CASE MakeFifo \/ CannotMakeFifo \/ OpenFifo \/ OpensMeet \/ CloseEnds
    <2>1. CASE MakeFifo
      <3>1. mainPc["writer"] = "start" /\ "writer" \in Mains
            /\ mainPc' = [mainPc EXCEPT !["writer"] = "opening"]
        BY <2>1 DEF MakeFifo, MainStep
      <3>. QED
        BY <1>0, <3>1 DEF FifoInv, Locked, Mains
    <2>2. CASE CannotMakeFifo \/ OpenFifo
      <3>1. /\ UNCHANGED fifoExists /\ ~ Locked /\ program = "fifo"
            /\ mainPc' \in {[mainPc EXCEPT !["writer"] = "failed"],
                            [mainPc EXCEPT !["reader"] = "failed"],
                            [mainPc EXCEPT !["reader"] = "opening"]}
        BY <2>2 DEF CannotMakeFifo, OpenFifo, MainStep, Mains, Locked
      <3>2. {"writer", "reader"} = Mains
        BY <3>1 DEF Locked, Mains
      <3>. QED
        BY <1>0, <3>1, <3>2 DEF FifoInv
    <2>3. CASE OpensMeet
      BY <1>0, <2>3 DEF OpensMeet, FifoInv, Locked, Mains
    <2>4. CASE CloseEnds
      BY <1>0, <2>4 DEF CloseEnds, MainStep, FifoInv, Locked, Mains
    <2>. QED
      BY <1>5, <2>1, <2>2, <2>3, <2>4
  <1>. QED
    BY <1>2, <1>3, <1>4, <1>5, Steps, Sides DEF MainStill

\* A failure of the attempt shows: a call that fails ends the parent, or a child, in
\* error; and no reader finds the pipe closed, for the parent has it open.
LEMMA AttemptStep ==
  ASSUME Types, MainInv, FifoInv, AttemptInv, [Next]_vars
  PROVE  AttemptInv'
  <1>. USE TypesAre
  <1>0. program' = program
    BY SameProgram
  <1>. SUFFICES ASSUME program = "attempt" PROVE AttemptInv'
    BY <1>0 DEF AttemptInv
  <1>1. Locked /\ Mains = {"parent"} /\ Mains' = Mains
    BY SameProgram DEF Locked, Mains
  <1>2. CASE UNCHANGED <<mainPc, childPc, failures>>
    BY <1>0, <1>2 DEF AttemptInv
  <1>3. ASSUME NEW c \in Children,
               \E to \in ChildSteps \ {"failed"} : childPc' = [childPc EXCEPT ![c] = to],
               childPc[c] # "failed", UNCHANGED <<mainPc, failures>>
        PROVE  AttemptInv'
    BY <1>0, <1>3 DEF AttemptInv
  <1>4. ASSUME NEW c \in Children, \/ CloseOther(c) \/ Wait(c) \/ BrokenPipe(c)
                                   \/ ReadNothing(c) \/ CloseOwn(c) \/ Post(c)
        PROVE  AttemptInv'
    <2>1. /\ UNCHANGED <<mainPc, failures>>
          /\ \/ UNCHANGED childPc
             \/ /\ childPc[c] # "failed"
                /\ \E to \in ChildSteps \ {"failed"} : childPc' = [childPc EXCEPT ![c] = to]
      BY <1>4 DEF CloseOther, Wait, BrokenPipe, ReadNothing, CloseOwn, Post, ChildStep, mains,
         ChildSteps
    <2>. QED
      BY <1>2, <1>3, <2>1
  <1>5. ASSUME NEW c \in Children, ChildFails(c)
        PROVE  AttemptInv'
    <2>1. failures' = failures + 1 /\ childPc'[c] = "failed"
      BY <1>5 DEF ChildFails
    <2>. QED
      BY <1>0, <2>1, ConstantsOK DEF AttemptInv
  <1>6. ASSUME NEW c \in Children, WriteToPipe(c) \/ ReadFromPipe(c)
        PROVE  AttemptInv'
    BY <1>2, <1>6 DEF WriteToPipe, ReadFromPipe, mains
  <1>7. ASSUME NEW m \in Mains, NEW c \in Children, Fork(m, c)
        PROVE  AttemptInv'
    <2>1. /\ \E to \in MainSteps \ {"failed"} : mainPc' = [mainPc EXCEPT ![m] = to]
          /\ mainPc[m] = "fork" /\ failures' = failures
          /\ childPc' = [childPc EXCEPT ![c] = "start"] /\ childPc[c] = "none"
      BY <1>1, <1>7 DEF Fork, MainStep, MainSteps, MainInv
    <2>. QED
      BY <1>0, <1>1, <2>1 DEF AttemptInv
  <1>8. ASSUME NEW m \in Mains, ForkFails(m)
        PROVE  AttemptInv'
    <2>1. failures' = failures + 1 /\ mainPc'["parent"] = "failed"
      BY <1>1, <1>8 DEF ForkFails, MainStep
    <2>. QED
      BY <1>0, <2>1, ConstantsOK DEF AttemptInv
  <1>9. ASSUME NEW m \in Mains, NEW c \in Children, Reap(m, c)
        PROVE  AttemptInv'
    <2>1. /\ UNCHANGED <<childPc, failures>> /\ mainPc["parent"] = "wait"
          /\ childPc[c] # "failed" => mainPc'["parent"] # "failed"
      BY <1>1, <1>9 DEF Reap, MainStep, children
    <2>. QED
      BY <1>0, <2>1 DEF AttemptInv
  <1>10. ASSUME NEW m \in Mains, End(m)
         PROVE  AttemptInv'
    <2>1. UNCHANGED <<childPc, failures>> /\ mainPc["parent"] = "end" /\ mainPc'["parent"] = "ended"
      BY <1>1, <1>10 DEF End, MainStep, children
    <2>. QED
      BY <1>0, <2>1 DEF AttemptInv
  <1>11. CASE CloseEnds
    <2>1. /\ UNCHANGED <<childPc, failures>> /\ mainPc["parent"] \in {"close", "closeWriter"}
          /\ mainPc'["parent"] \in {"closeWriter", "wait"}
      BY <1>1, <1>11 DEF CloseEnds, MainStep, children
    <2>. QED
      BY <1>0, <2>1 DEF AttemptInv
  <1>12. ~ MakeFifo /\ ~ CannotMakeFifo /\ ~ OpenFifo /\ ~ OpensMeet
    BY <1>1 DEF MakeFifo, CannotMakeFifo, OpenFifo, OpensMeet, MainStep, FifoInv
  <1>13. CASE UNCHANGED vars
    BY <1>2, <1>13 DEF vars, mains, children
  <1>. QED
    BY <1>4, <1>5, <1>6, <1>7, <1>8, <1>9, <1>10, <1>11, <1>12, <1>13, Steps, Sides
       DEF MainStill, ChildStill

\* While the attempt has not failed, its parent has both ends of the pipe until all the
\* children are over.
LEMMA PipeStaysOpen ==
  ASSUME Types, MainInv, FifoInv, AttemptInv, program = "attempt", failures = 0,
         NEW c \in Readers
  PROVE  ~ (ReadNothing(c))
  <1>. SUFFICES ASSUME ReadNothing(c) PROVE FALSE
    OBVIOUS
  <1>1. Locked /\ Mains = {"parent"} /\ c \in Children /\ Family("parent") = Children
    BY Sides DEF Locked, Mains, Family
  <1>2. ~ Holds("writer") /\ childPc[c] = "move"
    BY DEF ReadNothing
  <1>3. mainPc["parent"] \in MainSteps /\ mainPc["parent"] \notin {"start", "opening", "failed"}
    BY <1>1, TypesAre DEF FifoInv, AttemptInv
  <1>4. mainPc["parent"] \notin {"fork", "close", "closeWriter", "wait", "end"}
    BY <1>1, <1>2 DEF Holds, MainHolds
  <1>5. mainPc["parent"] = "ended"
    BY <1>3, <1>4 DEF MainSteps
  <1>. QED
    BY <1>1, <1>2, <1>5 DEF MainInv, Over

\* How far a child is follows from its own steps.
LEMMA ChildStepInv ==
  ASSUME Types, MainInv, ChildInv, [Next]_vars
  PROVE  ChildInv'
  <1>. USE TypesAre
  <1>0. Parts' = Parts /\ Readers \subseteq Children /\ Writers \subseteq Children
    BY SameProgram, Sides
  <1>1. CASE UNCHANGED <<children, delivered>>
    BY <1>0, <1>1 DEF ChildInv, Progress, children
  <1>2. CASE MainStill
    BY <1>1, <1>2 DEF MainStill, MakeFifo, CannotMakeFifo, OpenFifo, OpensMeet, CloseEnds,
       End, ForkFails, Reap
  <1>3. ASSUME NEW c \in Children, Progress(c)',
               \A d \in Children : d # c =>
                   /\ childPc'[d] = childPc[d] /\ i'[d] = i[d] /\ moved'[d] = moved[d]
                   /\ data'[d] = data[d] /\ (d \in Readers => delivered'[d] = delivered[d])
        PROVE  ChildInv'
    <2>1. ASSUME NEW d \in Children, d # c
          PROVE  Progress(d)'
      BY <1>0, <1>3, <2>1 DEF ChildInv, Progress
    <2>. QED
      BY <1>3, <2>1 DEF ChildInv
  <1>4. ASSUME NEW m \in Mains, NEW c \in Children, Fork(m, c)
        PROVE  ChildInv'
    <2>1. /\ UNCHANGED <<i, moved, delivered>> /\ childPc[c] = "none"
          /\ childPc' = [childPc EXCEPT ![c] = IF Locked THEN "start" ELSE "move"]
          /\ data' = [data EXCEPT ![c] =
                 IF c \in Writers THEN [part \in Parts |-> <<c, 1>>] ELSE @]
      BY <1>4 DEF Fork, MainInv
    <2>2. i[c] = 0 /\ ~ moved[c] > 0 /\ Share(c) \in Nat \ {0} /\ Progress(c)
      BY <2>1, ShareIs DEF ChildInv, Progress
    <2>3. Progress(c)'
      <3>1. c \in Writers => data'[c] = [part \in Parts |-> <<c, i'[c] + 1>>]
        BY <2>1, <2>2
      <3>. QED
        BY <1>0, <2>1, <2>2, <3>1 DEF Progress
    <2>. QED
      BY <1>3, <2>1, <2>3
  <1>5. ASSUME NEW c \in Children, ChildStill(c)
        PROVE  ChildInv'
    <2>1. UNCHANGED <<i, data, delivered>> /\ ~ Over(c)
      BY <1>5 DEF ChildStill, CloseOther, Wait, BrokenPipe, ReadNothing, CloseOwn, ChildFails,
         ChildStep, Over
    <2>2. CASE CloseOther(c) \/ Wait(c)
      BY <1>0, <2>1, <2>2 DEF CloseOther, Wait, ChildStep, ChildInv, Progress
    <2>3. CASE BrokenPipe(c)
      <3>1. /\ c \in Writers /\ childPc' = [childPc EXCEPT ![c] = "killed"] /\ UNCHANGED moved
            /\ childPc[c] = "move"
        BY <2>3 DEF BrokenPipe, ChildStep
      <3>2. Progress(c)'
        <4>1. /\ Progress(c) /\ c \notin Readers /\ i[c] < Share(c) /\ childPc'[c] = "killed"
              /\ data[c] = [part \in Parts |-> <<c, i[c] + 1>>]
          BY <3>1, Sides DEF ChildInv, Progress
        <4>. QED
          BY <1>0, <2>1, <3>1, <4>1 DEF Progress
      <3>. QED
        BY <1>3, <2>1, <3>1, <3>2
    <2>4. CASE ReadNothing(c)
      <3>1. /\ c \in Readers /\ childPc[c] = "move"
            /\ \/ childPc' = [childPc EXCEPT ![c] = "failed"] /\ UNCHANGED moved
               \/ moved' = [moved EXCEPT ![c] = Cardinality(Parts)] /\ UNCHANGED childPc
        BY <2>4 DEF ReadNothing, ChildStep
      <3>2. Progress(c)'
        <4>1. Progress(c) /\ c \notin Writers /\ i[c] < Share(c) /\ childPc'[c] \in {"move", "failed"}
          BY <3>1, Sides DEF ChildInv, Progress
        <4>. QED
          BY <2>1, <4>1 DEF Progress
      <3>. QED
        BY <1>3, <2>1, <3>1, <3>2
    <2>5. CASE CloseOwn(c)
      BY <1>0, <2>1, <2>5 DEF CloseOwn, ChildStep, ChildInv, Progress
    <2>6. CASE ChildFails(c)
      BY <1>0, <2>1, <2>6 DEF ChildFails, ChildInv, Progress, Over
    <2>. QED
      BY <1>5, <2>2, <2>3, <2>4, <2>5, <2>6 DEF ChildStill
  <1>6. ASSUME NEW c \in Writers, WriteToPipe(c)
        PROVE  ChildInv'
    BY <1>0, <1>6 DEF WriteToPipe, ChildInv, Progress
  <1>7. ASSUME NEW c \in Readers, ReadFromPipe(c)
        PROVE  ChildInv'
    <2>1. /\ UNCHANGED <<childPc, i, delivered>> /\ childPc[c] = "move"
          /\ \A d \in Children : d # c => moved'[d] = moved[d] /\ data'[d] = data[d]
      BY <1>7 DEF ReadFromPipe
    <2>2. c \in Children /\ c \notin Writers
      BY Sides
    <2>3. Progress(c)'
      BY <1>0, <2>1, <2>2 DEF ChildInv, Progress
    <2>. QED
      BY <1>3, <2>1, <2>2, <2>3
  <1>8. ASSUME NEW c \in Children, Post(c)
        PROVE  ChildInv'
    <2>1. /\ i[c] < Share(c) /\ i[c] \in Nat /\ Share(c) \in Nat /\ childPc[c] = "move"
          /\ i' = [i EXCEPT ![c] = @ + 1] /\ moved' = [moved EXCEPT ![c] = 0]
          /\ \E to \in {"close", "wait", "move"} :
                /\ childPc' = [childPc EXCEPT ![c] = to]
                /\ to = "close" <=> i[c] + 1 = Share(c)
          /\ data' = [data EXCEPT ![c] =
                 IF c \in Writers THEN [part \in Parts |-> <<c, i[c] + 2>>] ELSE @]
      BY <1>8, ShareIs DEF Post, ChildInv, Progress, ChildStep
    <2>2. ASSUME NEW d \in Children, d # c
          PROVE  /\ childPc'[d] = childPc[d] /\ i'[d] = i[d] /\ moved'[d] = moved[d]
                 /\ data'[d] = data[d] /\ (d \in Readers => delivered'[d] = delivered[d])
      BY <1>8, <2>1, <2>2 DEF Post
    <2>3. c \in Readers => Len(delivered'[c]) = i'[c] /\ childPc'[c] # "killed"
      <3>. SUFFICES ASSUME c \in Readers
                    PROVE  Len(delivered'[c]) = i'[c] /\ childPc'[c] # "killed"
        OBVIOUS
      <3>1. delivered'[c] = Append(delivered[c], data[c])
        BY <1>8 DEF Post
      <3>2. delivered[c] \in Seq([Parts -> Values]) /\ data[c] \in [Parts -> Values]
            /\ Len(delivered[c]) = i[c]
        BY DEF ChildInv, Progress
      <3>3. Len(delivered'[c]) = i[c] + 1
        BY <3>1, <3>2, AtTheEnd
      <3>. QED
        BY <2>1, <3>3
    <2>4. c \in Writers => data'[c] = [part \in Parts |-> <<c, i'[c] + 1>>]
      <3>1. i'[c] + 1 = i[c] + 2
        BY <2>1
      <3>. QED
        BY <2>1, <3>1
    <2>5. /\ childPc'[c] \in {"start", "wait", "move"} => i'[c] < Share(c)
          /\ childPc'[c] \in {"close", "ended"} => i'[c] = Share(c)
          /\ childPc'[c] # "none" /\ moved'[c] = 0
      BY <2>1
    <2>6. Progress(c)'
      BY <1>0, <2>3, <2>4, <2>5 DEF Progress
    <2>. QED
      BY <1>3, <2>2, <2>6
  <1>9. CASE UNCHANGED vars
    BY <1>1, <1>9 DEF vars, children
  <1>. QED
    BY <1>2, <1>4, <1>5, <1>6, <1>7, <1>8, <1>9, Steps

\* Only the post of a mutex, by the one that has it, lets another begin.
LEMMA LockStep ==
  ASSUME Types, MainInv, ChildInv, LockInv, [Next]_vars
  PROVE  LockInv'
  <1>. USE TypesAre
  <1>0. Locked' <=> Locked
    BY SameProgram
  <1>. SUFFICES ASSUME Locked PROVE LockInv'
    BY <1>0 DEF LockInv
  <1>1. ASSUME \A c \in Children : Active(c)' => Active(c) /\ mutex'[c[1]] = mutex[c[1]]
        PROVE  LockInv'
    BY <1>0, <1>1 DEF LockInv
  <1>2. CASE UNCHANGED <<childPc, moved, mutex>>
    BY <1>1, <1>2 DEF Active
  <1>3. CASE MainStill \/ UNCHANGED vars
    BY <1>2, <1>3 DEF MainStill, MakeFifo, CannotMakeFifo, OpenFifo, OpensMeet, CloseEnds,
       End, ForkFails, Reap, vars, children
  <1>4. ASSUME NEW m \in Mains, NEW c \in Children, Fork(m, c)
        PROVE  LockInv'
    BY <1>1, <1>4 DEF Fork, Active
  <1>5. ASSUME NEW c \in Children, \/ CloseOther(c) \/ BrokenPipe(c) \/ ReadNothing(c)
                                   \/ CloseOwn(c) \/ ChildFails(c)
        PROVE  LockInv'
    <2>1. UNCHANGED mutex
      BY <1>5 DEF CloseOther, BrokenPipe, ReadNothing, CloseOwn, ChildFails
    <2>2. \A d \in Children : Active(d)' => Active(d)
      BY <1>5 DEF CloseOther, BrokenPipe, ReadNothing, CloseOwn, ChildFails, ChildStep, Active
    <2>. QED
      BY <1>1, <2>1, <2>2
  <1>6. ASSUME NEW c \in Children, Wait(c)
        PROVE  LockInv'
    <2>1. /\ mutex[c[1]] > 0 /\ mutex' = [mutex EXCEPT ![c[1]] = @ - 1]
          /\ childPc' = [childPc EXCEPT ![c] = "move"] /\ UNCHANGED moved
          /\ c[1] \in {"writer", "reader"} /\ mutex[c[1]] \in {0, 1}
      BY <1>6, Sides, ChildTypes DEF Wait, ChildStep
    <2>2. mutex'[c[1]] = 0 /\ \A d \in Children : d[1] = c[1] => ~ Active(d)
      BY <2>1 DEF LockInv
    <2>3. \A d \in Children : Active(d)' /\ d # c =>
              Active(d) /\ d[1] # c[1] /\ mutex'[d[1]] = mutex[d[1]]
      BY <2>1, <2>2, Sides DEF Active
    <2>. QED
      BY <1>0, <2>2, <2>3 DEF LockInv
  <1>7. ASSUME NEW c \in Children, WriteToPipe(c) \/ ReadFromPipe(c)
        PROVE  LockInv'
    <2>1. /\ UNCHANGED <<childPc, mutex>> /\ childPc[c] = "move"
          /\ \A d \in Children : d # c => moved'[d] = moved[d]
      BY <1>7 DEF WriteToPipe, ReadFromPipe
    <2>. QED
      BY <1>1, <2>1 DEF Active
  <1>8. ASSUME NEW c \in Children, Post(c)
        PROVE  LockInv'
    <2>1. Active(c) /\ c[1] \in {"writer", "reader"}
      BY <1>8, Sides DEF Active, Post, ChildStep
    <2>2. /\ ~ Active(c)'
          /\ \A d \in Children : d # c => childPc'[d] = childPc[d] /\ moved'[d] = moved[d]
          /\ \A d \in Children : d[1] # c[1] => mutex'[d[1]] = mutex[d[1]]
      BY <1>8, <2>1, Sides DEF Post, ChildStep, Active
    <2>3. \A d \in Children : Active(d)' => Active(d) /\ d[1] # c[1]
      BY <2>1, <2>2 DEF LockInv, Active
    <2>. QED
      BY <1>1, <2>2, <2>3
  <1>. QED
    BY <1>3, <1>4, <1>5, <1>6, <1>7, <1>8, Steps, Sides DEF ChildStill

-----------------------------------------------------------------------------
(* The stream of messages *)

\* Where a part is in the stream.
LEMMA BlockIs ==
  /\ \A x \in Nat : Block(x) \in Nat
  /\ \A x \in Nat : (x % Size) \in 0 .. Size - 1
  /\ \A x \in Nat : Block(Size + x) = Block(x) + 1
  /\ \A x \in 0 .. Size - 1 : Block(x) = 0
  /\ \A x \in Nat : Block(x) = 0 => x < Size
  <1>. USE SizeIs
  <1>1. \A x \in Nat : Block(x) \in Nat /\ (x % Size) \in 0 .. Size - 1
    BY DivMod DEF Block
  <1>2. \A x \in Nat : Block(Size + x) = Block(x) + 1
    BY DivRound DEF Block
  <1>3. \A x \in Nat : (x < Size => Block(x) = 0) /\ (Block(x) = 0 => x < Size)
    BY DivFirst DEF Block
  <1>4. \A x \in 0 .. Size - 1 : Block(x) = 0
    BY <1>3
  <1>. QED
    BY <1>1, <1>2, <1>3, <1>4, Zenon

LEMMA PipeIs ==
  ASSUME Types
  PROVE  Len(pipe) \in Nat /\ \A x \in 1 .. Len(pipe) : pipe[x] \in Values
  BY LenProperties DEF Types

\* No message is later than itself.
LEMMA LaterDiffers ==
  ASSUME Types, NEW u, Begun(u), NEW v, Later(u, v)
  PROVE  u # v
  <1>1. u[2] \in Nat
    BY ShareIs, Sides DEF Begun
  <1>2. ~ u[2] < u[2]
    BY <1>1
  <1>. QED
    BY <1>2 DEF Later

\* With one part to a message, it does not matter whether a message is taken from the
\* stream that a reader holds.
LEMMA StreamShift ==
  ASSUME Types
  PROVE  StreamAt(Size) <=> StreamAt(0)
  <1>1. \A x \in 1 .. Len(pipe) :
            /\ Block(Size + x - 1) = Block(x - 1) + 1 /\ Block(0 + x - 1) = Block(x - 1)
            /\ Block(x - 1) \in Nat
    <2>. SUFFICES ASSUME NEW x \in 1 .. Len(pipe)
                  PROVE  /\ Block(Size + x - 1) = Block(x - 1) + 1
                         /\ Block(0 + x - 1) = Block(x - 1) /\ Block(x - 1) \in Nat
      OBVIOUS
    <2>1. x - 1 \in Nat /\ Size + x - 1 = Size + (x - 1) /\ 0 + x - 1 = x - 1
      BY PipeIs, SizeIs
    <2>2. Block(Size + (x - 1)) = Block(x - 1) + 1 /\ Block(x - 1) \in Nat
      BY <2>1, BlockIs
    <2>. QED
      BY <2>1, <2>2
  <1>2. ASSUME NEW y \in 1 .. Len(pipe), NEW x \in 1 .. y - 1
        PROVE  Block(Size + x - 1) = Block(Size + y - 1) <=>
                   Block(0 + x - 1) = Block(0 + y - 1)
    <2>1. x \in 1 .. Len(pipe)
      BY PipeIs
    <2>. QED
      BY <1>1, <2>1
  <1>. QED
    BY <1>2 DEF StreamAt

\* A message of one part is never half written.
LEMMA TailOfFifo ==
  ASSUME Types, Size = 1, NEW off \in Nat
  PROVE  TailAt(off)
  <1>1. ~ \E w \in Writers : moved[w] > 0 /\ moved[w] < Size
    <2>1. \A w \in Writers : moved[w] \in 0 .. Size
      BY TypesAre, Sides
    <2>. QED
      BY <2>1
  <1>2. off + Len(pipe) \in Nat /\ (off + Len(pipe)) % 1 = 0
    BY PipeIs
  <1>. QED
    BY <1>1, <1>2 DEF TailAt

\* Of the processes of a side one moves parts, but in the FIFO's programs.
LEMMA OneMoves ==
  ASSUME Types, LockInv, NEW c \in Children, NEW d \in Children, c[1] = d[1], c # d,
         childPc[c] = "move" \/ moved[c] > 0
  PROVE  \/ Size = 1 /\ ~ Locked
         \/ Locked /\ moved[d] = 0 /\ childPc[d] # "move"
  BY SizeIs, TypesAre DEF Locked, LockInv, Active

\* The reader that reads knows where the stream begins.
LEMMA StreamOf ==
  ASSUME Types, LockInv, StreamInv, NEW r \in Readers,
         childPc[r] = "move" \/ moved[r] > 0
  PROVE  StreamAt(moved[r]) /\ TailAt(moved[r])
  <1>. USE Sides
  <1>0. moved[r] \in 0 .. Size /\ Size \in Nat \ {0}
    BY TypesAre, SizeIs
  <1>1. CASE Locked
    <2>1. \A s \in Readers : s # r => moved[s] = 0
      BY <1>1, OneMoves
    <2>2. Offset(moved[r])
      BY <1>0, <2>1 DEF Offset
    <2>. QED
      BY <1>0, <2>2 DEF StreamInv
  <1>2. CASE ~ Locked
    <2>1. Size = 1 /\ \A s \in Readers : moved[s] \in 0 .. Size
      BY <1>2, SizeIs, TypesAre DEF Locked
    <2>2. Offset(0) \/ Offset(1)
      BY <2>1 DEF Offset
    <2>3. StreamAt(0) \/ StreamAt(Size)
      BY <2>1, <2>2 DEF StreamInv
    <2>4. StreamAt(0) /\ StreamAt(Size)
      BY <2>3, StreamShift
    <2>. QED
      BY <1>0, <2>1, <2>4, TailOfFifo
  <1>. QED
    BY <1>1, <1>2

\* The steps that leave the messages, and the buffers of the readers, alone.
LEMMA WholeStill ==
  ASSUME [Next]_vars, UNCHANGED <<pipe, moved, i, delivered>>,
         \A r \in Readers : data'[r] = data[r], Whole
  PROVE  Whole'
  <1>1. Size' = Size /\ Parts' = Parts
    BY SameProgram
  <1>2. Readings' = Readings
    BY DEF Readings
  <1>3. \A a : Message(a)' = Message(a) /\ Given(a)' = Given(a)
    BY DEF Message, Given
  <1>4. \A v : Begun(v)' <=> Begun(v)
    BY DEF Begun
  <1>5. BegunInv'
    BY <1>1, <1>2, <1>3, <1>4 DEF Whole, BegunInv
  <1>6. ReadInv'
    BY <1>2, <1>3 DEF Whole, ReadInv, Later
  <1>7. \A x : Block(x)' = Block(x)
    BY <1>1 DEF Block
  <1>8. HandInv'
    <2>. SUFFICES ASSUME NEW r \in Readers, moved[r] > 0
                  PROVE  InHand(r)'
      BY DEF HandInv
    <2>1. InHand(r)
      BY DEF Whole, HandInv
    <2>. QED
      BY <1>2, <1>3, <1>7, <2>1 DEF InHand, Later
  <1>9. StreamInv'
    <2>. SUFFICES ASSUME NEW off \in 0 .. Size, Offset(off)'
                  PROVE  StreamAt(off)' /\ TailAt(off)'
      BY <1>1 DEF StreamInv
    <2>1. StreamAt(off) /\ TailAt(off)
      BY DEF Whole, StreamInv, Offset
    <2>2. StreamAt(off)'
      BY <1>7, <2>1 DEF StreamAt, Later
    <2>3. TailAt(off)'
      BY <1>1, <1>7, <2>1 DEF TailAt, LastOf
    <2>. QED
      BY <2>2, <2>3
  <1>. QED
    BY <1>5, <1>6, <1>8, <1>9 DEF Whole

-----------------------------------------------------------------------------
(* A part is written *)

\* The message that a writer is at.
Own(w) == <<w, i[w] + 1>>

\* What a write does.
LEMMA WriteIs ==
  ASSUME Types, ChildInv, NEW w \in Writers, WriteToPipe(w)
  PROVE  /\ moved[w] \in 0 .. Size - 1 /\ i[w] \in Nat /\ i[w] < Share(w)
         /\ pipe' = Append(pipe, Own(w)) /\ Own(w) \in Values
         /\ Len(pipe') = Len(pipe) + 1 /\ pipe'[Len(pipe) + 1] = Own(w)
         /\ \A x \in 1 .. Len(pipe) : pipe'[x] = pipe[x]
         /\ moved'[w] = moved[w] + 1 /\ \A d \in Children : d # w => moved'[d] = moved[d]
         /\ UNCHANGED <<i, data, delivered>> /\ childPc[w] = "move"
  <1>1. w \in Children /\ Size \in Nat \ {0} /\ Parts = 1 .. Size
    BY Sides, SizeIs
  <1>2. moved[w] \in 0 .. Size - 1 /\ i[w] \in Nat /\ i[w] < Share(w) /\ childPc[w] = "move"
    BY <1>1, TypesAre, SizeIs DEF WriteToPipe, ChildInv, Progress
  <1>3. data[w][moved[w] + 1] = Own(w)
    <2>1. moved[w] + 1 \in Parts
      BY <1>1, <1>2
    <2>. QED
      BY <1>1, <1>2, <2>1 DEF ChildInv, Progress, Own
  <1>4. Own(w) \in Values /\ pipe \in Seq(Values) /\ pipe' = Append(pipe, Own(w))
    BY <1>2, <1>3, TypesAre DEF Own, Values, WriteToPipe
  <1>5. /\ Len(pipe') = Len(pipe) + 1 /\ pipe'[Len(pipe) + 1] = Own(w)
        /\ \A x \in 1 .. Len(pipe) : pipe'[x] = pipe[x]
    BY <1>4, AtTheEnd
  <1>6. moved'[w] = moved[w] + 1 /\ \A d \in Children : d # w => moved'[d] = moved[d]
    BY <1>1, TypesAre DEF WriteToPipe
  <1>. QED
    BY <1>2, <1>4, <1>5, <1>6 DEF WriteToPipe

\* The writer goes on where it, or a writer before it, stopped.
LEMMA WhereItWrites ==
  ASSUME Types, ChildInv, LockInv, NEW w \in Writers, WriteToPipe(w),
         NEW off \in Nat, TailAt(off)
  PROVE  /\ (off + Len(pipe)) % Size = moved[w]
         /\ moved[w] > 0 => LastOf(w, off)
         /\ \A d \in Writers : d # w => moved[d] \in {0, Size}
  <1>1. w \in Children /\ Size \in Nat \ {0} /\ moved[w] \in 0 .. Size - 1
        /\ childPc[w] = "move"
    BY Sides, SizeIs, WriteIs
  <1>2. \A d \in Writers : d # w => moved[d] \in {0, Size}
    <2>. SUFFICES ASSUME NEW d \in Writers, d # w
                  PROVE  moved[d] \in {0, Size}
      OBVIOUS
    <2>1. d \in Children /\ d[1] = w[1] /\ moved[d] \in 0 .. Size
      BY Sides, TypesAre
    <2>. QED
      BY <1>1, <2>1, OneMoves
  <1>3. CASE moved[w] > 0
    <2>1. LastOf(w, off)
      BY <1>1, <1>3 DEF TailAt
    <2>. QED
      BY <1>2, <2>1 DEF LastOf
  <1>4. CASE moved[w] = 0
    <2>1. \A d \in Writers : moved[d] \in {0, Size}
      BY <1>2, <1>4
    <2>. QED
      BY <1>1, <1>2, <1>4, <2>1 DEF TailAt
  <1>. QED
    BY <1>1, <1>3, <1>4

\* What is in the block that it writes to is of its message.
LEMMA SameBlock ==
  ASSUME Types, ChildInv, LockInv, NEW w \in Writers, WriteToPipe(w),
         NEW off \in Nat, TailAt(off),
         NEW x \in 1 .. Len(pipe), Block(off + x - 1) = Block(off + Len(pipe))
  PROVE  pipe[x] = Own(w)
  <1>1. Size \in Nat \ {0} /\ Len(pipe) \in Nat
    BY SizeIs, PipeIs
  <1>2. CASE moved[w] > 0
    BY <1>2, WhereItWrites DEF LastOf, Own
  <1>3. CASE moved[w] = 0
    <2>1. off + x - 1 \in Nat /\ off + Len(pipe) \in Nat
      BY <1>1
    <2>2. (off + Len(pipe)) - (off + x - 1)
              = ((off + Len(pipe)) % Size) - ((off + x - 1) % Size)
      BY <1>1, <2>1, DivSame DEF Block
    <2>3. (off + Len(pipe)) % Size = 0 /\ ((off + x - 1) % Size) \in 0 .. Size - 1
      BY <1>3, <2>1, WhereItWrites, BlockIs
    <2>. DEFINE r == (off + x - 1) % Size
    <2>4. r >= 0 /\ (off + Len(pipe)) - (off + x - 1) = 0 - r /\ r \in Int
      BY <1>1, <2>2, <2>3
    <2>. HIDE DEF r
    <2>. QED
      BY <1>1, <2>4
  <1>. QED
    BY <1>2, <1>3, WriteIs

\* When its message is half written, the last part of the pipe is of it.
LEMMA HalfWritten ==
  ASSUME Types, ChildInv, LockInv, NEW w \in Writers, WriteToPipe(w),
         NEW off \in Nat, TailAt(off), moved[w] > 0, Len(pipe) > 0
  PROVE  /\ pipe[Len(pipe)] = Own(w)
         /\ Block(off + Len(pipe) - 1) = Block(off + Len(pipe))
  <1>. DEFINE x == off + Len(pipe) - 1
  <1>1. Size \in Nat \ {0} /\ Len(pipe) \in Nat /\ x \in Nat /\ x + 1 = off + Len(pipe)
    BY SizeIs, PipeIs
  <1>2. (x + 1) % Size = moved[w] /\ moved[w] \in Nat
    BY <1>1, WhereItWrites, WriteIs
  <1>. HIDE DEF x
  <1>3. (x % Size) \in 0 .. Size - 1
    BY <1>1, BlockIs
  <1>4. (x % Size) + 1 # Size
    <2>1. (x % Size) + 1 = Size => (x + 1) % Size = 0
      BY <1>1, DivNext
    <2>. QED
      BY <1>2, <2>1
  <1>5. (x % Size) + 1 < Size
    <2>. DEFINE r == x % Size
    <2>1. r \in 0 .. Size - 1 /\ r + 1 # Size
      BY <1>3, <1>4
    <2>. HIDE DEF r
    <2>2. r + 1 < Size
      BY <1>1, <2>1
    <2>. QED
      BY <2>2 DEF r
  <1>6. Block(x) = Block(x + 1)
    BY <1>1, <1>5, DivNext DEF Block
  <1>7. Len(pipe) \in 1 .. Len(pipe)
    BY <1>1
  <1>8. Block(off + Len(pipe) - 1) = Block(off + Len(pipe))
    BY <1>1, <1>6 DEF x
  <1>. QED
    BY <1>7, <1>8, SameBlock

\* A message of the writer that has begun is an earlier one, or the one it is at.
LEMMA OwnIsLast ==
  ASSUME Types, ChildInv, NEW w \in Writers, WriteToPipe(w), NEW u, Begun(u)
  PROVE  \/ Later(u, Own(w))
         \/ u = Own(w) /\ moved[w] > 0
  <1>. PICK d \in Writers :
           \E n \in 1 .. Share(d) :
               /\ u = <<d, n>>
               /\ \/ n <= i[d]
                  \/ n = i[d] + 1 /\ moved[d] > 0
    BY DEF Begun
  <1>1. PICK n \in 1 .. Share(d) :
            /\ u = <<d, n>>
            /\ \/ n <= i[d]
               \/ n = i[d] + 1 /\ moved[d] > 0
    OBVIOUS
  <1>2. n \in Nat /\ i[w] \in Nat
    BY <1>1, ShareIs, Sides, WriteIs
  <1>3. u[1] = d /\ u[2] = n /\ Own(w)[1] = w /\ Own(w)[2] = i[w] + 1
    BY <1>1 DEF Own
  <1>4. CASE d # w
    BY <1>3, <1>4 DEF Later
  <1>5. CASE d = w /\ n <= i[d]
    BY <1>2, <1>3, <1>5 DEF Later
  <1>6. CASE d = w /\ n = i[d] + 1 /\ moved[d] > 0
    BY <1>1, <1>6 DEF Own
  <1>. QED
    BY <1>1, <1>4, <1>5, <1>6

LEMMA WriteStream ==
  ASSUME Types, ChildInv, LockInv, BegunInv, StreamInv, [Next]_vars,
         NEW w \in Writers, WriteToPipe(w)
  PROVE  StreamInv'
  <1>0. Size' = Size /\ Size \in Nat \ {0} /\ Len(pipe) \in Nat
        /\ \A x : Block(x)' = Block(x)
    BY SameProgram, SizeIs, PipeIs DEF Block
  <1>1. SUFFICES ASSUME NEW off \in 0 .. Size, Offset(off)'
                 PROVE  StreamAt(off)' /\ TailAt(off)'
    BY <1>0 DEF StreamInv
  <1>2. Offset(off) /\ off \in Nat
    <2>1. off \in Nat
      BY <1>0
    <2>2. \A r \in Readers : moved'[r] = moved[r]
      BY WriteIs, Sides
    <2>. QED
      BY <1>1, <2>1, <2>2 DEF Offset
  <1>3. StreamAt(off) /\ TailAt(off)
    BY <1>2 DEF StreamInv
  <1>. DEFINE L == Len(pipe)
  <1>4. off + (L + 1) - 1 = off + L /\ off + L \in Nat
    BY <1>0, <1>2
  <1>5. ASSUME NEW x \in 1 .. L, Block(off + x - 1) # Block(off + L)
        PROVE  Later(pipe[x], Own(w))
    <2>1. SUFFICES ASSUME pipe[x] = Own(w), moved[w] > 0
                   PROVE  FALSE
      BY OwnIsLast DEF BegunInv
    <2>2. L > 0 /\ L \in 1 .. L
      BY <1>0
    <2>3. pipe[L] = Own(w) /\ Block(off + L - 1) = Block(off + L)
      BY <1>2, <1>3, <2>1, <2>2, HalfWritten
    <2>4. x # L
      BY <1>5, <2>3
    <2>5. x \in 1 .. L - 1
      BY <1>0, <2>4
    <2>6. Later(pipe[x], pipe[L]) /\ Begun(pipe[x])
      BY <1>3, <1>5, <2>2, <2>3, <2>5 DEF StreamAt, BegunInv
    <2>. QED
      BY <2>1, <2>3, <2>6, LaterDiffers
  <1>6. StreamAt(off)'
    <2>. SUFFICES ASSUME NEW y \in 1 .. L + 1, NEW x \in 1 .. y - 1
                  PROVE  IF Block(off + x - 1) = Block(off + y - 1) THEN pipe'[x] = pipe'[y]
                         ELSE Later(pipe'[x], pipe'[y])
      BY <1>0, WriteIs DEF StreamAt, Later
    <2>1. x \in 1 .. L /\ pipe'[x] = pipe[x]
      BY <1>0, WriteIs
    <2>2. CASE y = L + 1
      <3>1. pipe'[y] = Own(w) /\ off + y - 1 = off + L
        BY <1>4, <2>2, WriteIs
      <3>2. Block(off + x - 1) = Block(off + L) => pipe[x] = Own(w)
        BY <1>2, <1>3, <2>1, SameBlock
      <3>. QED
        BY <1>5, <2>1, <3>1, <3>2
    <2>3. CASE y # L + 1
      <3>1. y \in 1 .. L
        BY <1>0, <2>3
      <3>2. pipe'[y] = pipe[y]
        BY <3>1, WriteIs
      <3>. QED
        BY <1>3, <2>1, <3>1, <3>2 DEF StreamAt
    <2>. QED
      BY <2>2, <2>3
  <1>7. TailAt(off)'
    <2>0. /\ moved[w] \in 0 .. Size - 1 /\ moved'[w] = moved[w] + 1 /\ Len(pipe') = L + 1
          /\ (off + L) % Size = moved[w] /\ off + Len(pipe') = (off + L) + 1
      <3>1. moved[w] \in 0 .. Size - 1 /\ moved'[w] = moved[w] + 1 /\ Len(pipe') = L + 1
        BY WriteIs, Zenon
      <3>2. (off + L) % Size = moved[w]
        BY <1>2, <1>3, WhereItWrites, Zenon
      <3>. QED
        BY <1>0, <3>1, <3>2
    <2>1. \A d \in Writers : d # w => moved'[d] \in {0, Size}
      BY <1>2, <1>3, WhereItWrites, WriteIs, Sides
    <2>2. ASSUME moved[w] + 1 < Size
          PROVE  LastOf(w, off)'
      <3>1. /\ (off + Len(pipe')) % Size = moved'[w]
            /\ Block(off + Len(pipe')) = Block(off + L)
        BY <1>0, <1>4, <2>0, <2>2, DivNext DEF Block
      <3>2. ASSUME NEW x \in 1 .. L + 1, Block(off + x - 1) = Block(off + L)
            PROVE  pipe'[x] = Own(w)
        <4>1. CASE x = L + 1
          BY <4>1, WriteIs
        <4>2. CASE x # L + 1
          <5>1. x \in 1 .. L
            BY <1>0, <4>2
          <5>2. pipe[x] = Own(w) /\ pipe'[x] = pipe[x]
            BY <1>2, <1>3, <3>2, <5>1, SameBlock, WriteIs
          <5>. QED
            BY <5>2
        <4>. QED
          BY <4>1, <4>2
      <3>3. ASSUME Block(off + L) = 0, NEW r \in Readers, moved[r] > 0
            PROVE  data[r][1] = Own(w)
        <4>1. CASE moved[w] > 0
          BY <1>2, <1>3, <3>3, <4>1, WhereItWrites DEF LastOf, Own
        <4>2. CASE moved[w] = 0
          <5>1. off + L < Size
            BY <1>4, <3>3, BlockIs
          <5>2. off + L = 0
            BY <1>0, <1>4, <2>0, <4>2, <5>1, DivFirst
          <5>3. off = 0
            BY <1>0, <1>2, <5>2
          <5>. QED
            BY <1>0, <1>2, <3>3, <5>3 DEF Offset
        <4>. QED
          BY <2>0, <4>1, <4>2
      <3>4. \A r \in Readers : moved'[r] = moved[r]
        BY WriteIs, Sides
      <3>. QED
        BY <1>0, <2>0, <3>1, <3>2, <3>3, <3>4, WriteIs DEF LastOf, Own
    <2>3. ASSUME moved[w] + 1 = Size
          PROVE  (off + Len(pipe')) % Size = 0
      <3>1. ((off + L) + 1) % Size = 0
        BY <1>0, <1>4, <2>0, <2>3, DivNext
      <3>. QED
        BY <2>0, <3>1
    <2>4. \A d \in Writers : moved'[d] > 0 /\ moved'[d] < Size => d = w /\ moved[w] + 1 < Size
      <3>1. ASSUME NEW d \in Writers, moved'[d] > 0, moved'[d] < Size
            PROVE  d = w
        <4>1. ~ 0 > 0 /\ ~ Size < Size
          BY <1>0
        <4>. QED
          BY <2>1, <3>1, <4>1
      <3>. QED
        BY <2>0, <3>1
    <2>5. (\A d \in Writers : moved'[d] \in {0, Size}) => moved[w] + 1 = Size
      BY <1>0, <2>0
    <2>. QED
      BY <1>0, <2>2, <2>3, <2>4, <2>5 DEF TailAt
  <1>. QED
    BY <1>6, <1>7

\* A message whose writing has begun after the step.
BegunNext(v) ==
  \E w \in Writers : \E n \in 1 .. Share(w) :
      /\ v = <<w, n>>
      /\ \/ n <= i'[w]
         \/ n = i'[w] + 1 /\ moved'[w] > 0

LEMMA BegunInvNext ==
  ASSUME \A x \in 1 .. Len(pipe') : BegunNext(pipe'[x]),
         \A r \in Readers : moved'[r] > 0 => BegunNext(data'[r][1]),
         \A a \in Readings' : /\ BegunNext(Given(a)')
                             /\ Message(a)' = [part \in Parts' |-> Given(a)']
  PROVE  BegunInv'
  BY DEF BegunInv, Begun, BegunNext

\* A message that has begun has still begun, and so has that of the writer.
LEMMA WriteBegins ==
  ASSUME Types, ChildInv, NEW w \in Writers, WriteToPipe(w)
  PROVE  /\ \A v : Begun(v) => BegunNext(v)
         /\ BegunNext(Own(w))
  <1>1. moved'[w] > 0 /\ i'[w] = i[w] /\ i[w] + 1 \in 1 .. Share(w)
    BY WriteIs, ShareIs, Sides
  <1>2. \A d \in Writers : d # w => moved'[d] = moved[d]
    BY WriteIs, Sides
  <1>3. ASSUME NEW v, Begun(v)
        PROVE  BegunNext(v)
    <2>1. PICK d \in Writers : \E n \in 1 .. Share(d) :
              v = <<d, n>> /\ (n <= i[d] \/ (n = i[d] + 1 /\ moved[d] > 0))
      BY <1>3 DEF Begun
    <2>2. moved[d] > 0 => moved'[d] > 0
      BY <1>1, <1>2
    <2>3. i' = i
      BY WriteIs
    <2>. QED
      BY <2>1, <2>2, <2>3 DEF BegunNext
  <1>4. BegunNext(Own(w))
    BY <1>1 DEF BegunNext, Own
  <1>. QED
    BY <1>3, <1>4

\* The readings and the buffers of the readers are as before.
LEMMA WriteReads ==
  ASSUME Types, ChildInv, [Next]_vars, NEW w \in Writers, WriteToPipe(w)
  PROVE  /\ Readings' = Readings /\ Parts' = Parts /\ data' = data
         /\ \A a : Message(a)' = Message(a) /\ Given(a)' = Given(a)
         /\ \A r \in Readers : moved'[r] = moved[r]
         /\ \A x : Block(x)' = Block(x)
  <1>1. delivered' = delivered /\ data' = data /\ \A r \in Readers : moved'[r] = moved[r]
    BY WriteIs, Sides
  <1>. QED
    BY <1>1, SameProgram DEF Readings, Message, Given, Block

LEMMA WriteBegun ==
  ASSUME Types, ChildInv, BegunInv, [Next]_vars, NEW w \in Writers, WriteToPipe(w)
  PROVE  BegunInv'
  <1>1. \A x \in 1 .. Len(pipe') : BegunNext(pipe'[x])
    <2>. SUFFICES ASSUME NEW x \in 1 .. Len(pipe) + 1
                  PROVE  BegunNext(pipe'[x])
      BY WriteIs
    <2>1. CASE x = Len(pipe) + 1
      BY <2>1, WriteIs, WriteBegins
    <2>2. CASE x # Len(pipe) + 1
      <3>1. x \in 1 .. Len(pipe)
        BY <2>2, PipeIs
      <3>. QED
        BY <3>1, WriteIs, WriteBegins DEF BegunInv
    <2>. QED
      BY <2>1, <2>2
  <1>2. \A r \in Readers : moved'[r] > 0 => BegunNext(data'[r][1])
    BY WriteBegins, WriteReads DEF BegunInv
  <1>3. \A a \in Readings' : /\ BegunNext(Given(a)')
                            /\ Message(a)' = [part \in Parts' |-> Given(a)']
    BY WriteBegins, WriteReads DEF BegunInv
  <1>. QED
    BY <1>1, <1>2, <1>3, BegunInvNext

LEMMA WriteHand ==
  ASSUME Types, ChildInv, LockInv, BegunInv, StreamInv, HandInv, [Next]_vars,
         NEW w \in Writers, WriteToPipe(w)
  PROVE  HandInv'
  <1>. SUFFICES ASSUME NEW r \in Readers, moved[r] > 0
                PROVE  InHand(r)'
    BY WriteReads DEF HandInv
  <1>. DEFINE L == Len(pipe)
              off == moved[r]
              u == data[r][1]
  <1>1. /\ off \in 1 .. Size /\ off \in 0 .. Size /\ off \in Nat
        /\ Size \in Nat \ {0} /\ L \in Nat /\ off + L \in Nat
        /\ off + (L + 1) - 1 = off + L
    BY TypesAre, Sides, SizeIs, PipeIs
  <1>2. InHand(r) /\ StreamAt(off) /\ TailAt(off) /\ Begun(u)
    BY StreamOf DEF HandInv, BegunInv
  <1>3. Block(off + L) = 0 => Own(w) = u
    <2>. SUFFICES ASSUME Block(off + L) = 0 PROVE Own(w) = u
      OBVIOUS
    <2>1. CASE moved[w] > 0
      <3>1. LastOf(w, off)
        BY <1>1, <1>2, <2>1, WhereItWrites
      <3>. QED
        BY <3>1 DEF LastOf, Own
    <2>2. CASE moved[w] = 0
      <3>1. off + L < Size /\ (off + L) % Size = 0
        BY <1>1, <1>2, <2>2, BlockIs, WhereItWrites
      <3>2. off + L = 0
        BY <1>1, <3>1, DivFirst
      <3>. QED
        BY <1>1, <3>2
    <2>. QED
      BY <2>1, <2>2, WriteIs
  <1>4. Block(off + L) # 0 => Later(u, Own(w))
    <2>. SUFFICES ASSUME Block(off + L) # 0, u = Own(w), moved[w] > 0
                  PROVE  FALSE
      BY <1>2, OwnIsLast
    <2>1. CASE L > 0
      <3>1. /\ pipe[L] = Own(w) /\ Block(off + L - 1) # 0 /\ L \in 1 .. L
        <4>1. L \in 1 .. L /\ off \in Nat /\ TailAt(off)
          BY <1>1, <1>2, <2>1
        <4>2. pipe[L] = Own(w) /\ Block(off + L - 1) = Block(off + L)
          BY <2>1, <4>1, HalfWritten
        <4>. QED
          BY <4>1, <4>2
      <3>2. Later(u, pipe[L])
        BY <1>2, <3>1 DEF InHand
      <3>. QED
        BY <1>2, <3>1, <3>2, LaterDiffers
    <2>2. CASE ~ L > 0
      <3>1. off + L = off
        BY <1>1, <2>2
      <3>2. off \notin 0 .. Size - 1
        BY <3>1, BlockIs
      <3>3. off = Size
        BY <1>1, <3>2
      <3>4. Size = Size + 0 /\ (Size + 0) % Size = 0 % Size /\ 0 % Size = 0
        BY <1>1, DivRound, DivFirst
      <3>5. (off + L) % Size = moved[w]
        BY <1>1, <1>2, WhereItWrites
      <3>. QED
        BY <3>1, <3>3, <3>4, <3>5
    <2>. QED
      BY <2>1, <2>2
  <1>5. ASSUME NEW x \in 1 .. L + 1
        PROVE  IF Block(off + x - 1) = 0 THEN pipe'[x] = u ELSE Later(u, pipe'[x])
    <2>1. CASE x = L + 1
      <3>1. off + x - 1 = off + L /\ pipe'[x] = Own(w)
        BY <1>1, <2>1, WriteIs
      <3>. QED
        BY <1>3, <1>4, <3>1
    <2>2. CASE x # L + 1
      <3>1. x \in 1 .. L
        BY <1>1, <2>2
      <3>2. pipe'[x] = pipe[x]
        BY <3>1, WriteIs
      <3>. QED
        BY <1>2, <3>1, <3>2 DEF InHand
    <2>. QED
      BY <2>1, <2>2
  <1>6. moved'[r] = off /\ data' = data /\ Len(pipe') = L + 1
    BY WriteIs, WriteReads
  <1>. QED
    BY <1>2, <1>5, <1>6, WriteReads DEF InHand, Later

LEMMA WriteRead ==
  ASSUME Types, ChildInv, LockInv, BegunInv, StreamInv, HandInv, ReadInv, [Next]_vars,
         NEW w \in Writers, WriteToPipe(w)
  PROVE  ReadInv'
  <1>1. ASSUME NEW a \in Readings
        PROVE  Later(Given(a), Own(w))
    <2>1. Begun(Given(a)) /\ \A x \in 1 .. Len(pipe) : Later(Given(a), pipe[x])
      BY DEF BegunInv, ReadInv
    <2>. SUFFICES ASSUME Given(a) = Own(w), moved[w] > 0
                  PROVE  FALSE
      BY <2>1, OwnIsLast
    <2>2. Size \in Nat \ {0} /\ moved[w] < Size /\ Len(pipe) \in Nat
          /\ \A r \in Readers : moved[r] \in 0 .. Size
      BY SizeIs, WriteIs, PipeIs, TypesAre, Sides
    <2>3. PICK off \in 0 .. Size : Offset(off)
      <3>1. CASE \A r \in Readers : moved[r] = 0
        BY <2>2, <3>1 DEF Offset
      <3>2. CASE \E r \in Readers : moved[r] # 0
        <4>1. PICK r \in Readers : moved[r] # 0
          BY <3>2
        <4>2. moved[r] \in 0 .. Size /\ moved[r] > 0
          BY <2>2, <4>1
        <4>. QED
          BY <4>2 DEF Offset
      <3>. QED
        BY <3>1, <3>2
    <2>4. TailAt(off) /\ off \in Nat
      BY <2>2, <2>3 DEF StreamInv
    <2>5. CASE Len(pipe) > 0
      <3>1. pipe[Len(pipe)] = Own(w) /\ Len(pipe) \in 1 .. Len(pipe)
        BY <2>2, <2>4, <2>5, HalfWritten
      <3>. QED
        BY <2>1, <3>1, LaterDiffers
    <2>6. CASE ~ Len(pipe) > 0
      <3>1. off + Len(pipe) = off /\ off % Size = moved[w] /\ LastOf(w, off)
        BY <2>2, <2>4, <2>6, WhereItWrites
      <3>2. off # Size
        <4>1. Size = Size + 0 /\ (Size + 0) % Size = 0 % Size /\ 0 % Size = 0
          BY <2>2, DivRound, DivFirst
        <4>. QED
          BY <3>1, <4>1
      <3>3. off # 0
        <4>1. 0 % Size = 0
          BY <2>2, DivFirst
        <4>. QED
          BY <3>1, <4>1
      <3>4. Block(off) = 0 /\ off > 0
        BY <2>2, <3>2, <3>3, BlockIs
      <3>5. PICK r \in Readers : moved[r] = off
        BY <2>3, <3>4 DEF Offset
      <3>6. data[r][1] = Own(w) /\ InHand(r)
        BY <3>1, <3>4, <3>5 DEF LastOf, Own, HandInv
      <3>7. Later(Given(a), data[r][1]) \/ Given(a) # data[r][1]
        BY <3>6 DEF InHand
      <3>. QED
        BY <2>1, <3>6, <3>7, LaterDiffers
    <2>. QED
      BY <2>5, <2>6
  <1>2. ASSUME NEW a \in Readings, NEW x \in 1 .. Len(pipe')
        PROVE  Later(Given(a), pipe'[x])
    <2>1. CASE x = Len(pipe) + 1
      BY <1>1, <2>1, WriteIs
    <2>2. CASE x # Len(pipe) + 1
      <3>1. x \in 1 .. Len(pipe)
        BY <2>2, WriteIs, PipeIs
      <3>. QED
        BY <3>1, WriteIs DEF ReadInv
    <2>. QED
      BY <2>1, <2>2
  <1>. QED
    BY <1>2, WriteReads DEF ReadInv, Later

-----------------------------------------------------------------------------
(* A part is read *)

\* What a read does.
LEMMA TakeIs ==
  ASSUME Types, NEW r \in Readers, ReadFromPipe(r)
  PROVE  /\ moved[r] \in 0 .. Size - 1 /\ childPc[r] = "move"
         /\ Len(pipe) > 0 /\ Len(pipe) \in Nat /\ Len(pipe') = Len(pipe) - 1
         /\ \A x \in 1 .. Len(pipe) - 1 : pipe'[x] = pipe[x + 1]
         /\ moved'[r] = moved[r] + 1 /\ data'[r][moved[r] + 1] = pipe[1]
         /\ \A part \in Parts : part # moved[r] + 1 => data'[r][part] = data[r][part]
         /\ \A d \in Children : d # r => moved'[d] = moved[d] /\ data'[d] = data[d]
         /\ UNCHANGED <<i, delivered>>
  <1>1. r \in Children /\ Size \in Nat \ {0} /\ Parts = 1 .. Size /\ moved[r] \in 0 .. Size
        /\ pipe \in Seq(Values) /\ moved \in [Children -> 0 .. Size]
        /\ data \in [Children -> [Parts -> Values]]
    BY Sides, SizeIs, TypesAre
  <1>2. moved[r] < Size /\ childPc[r] = "move" /\ pipe # << >> /\ pipe' = Tail(pipe)
        /\ data' = [data EXCEPT ![r][moved[r] + 1] = Head(pipe)]
        /\ moved' = [moved EXCEPT ![r] = @ + 1] /\ UNCHANGED <<i, delivered>>
    BY SizeIs DEF ReadFromPipe
  <1>3. /\ Len(pipe) > 0 /\ Len(pipe) \in Nat /\ Len(pipe') = Len(pipe) - 1
        /\ \A x \in 1 .. Len(pipe) - 1 : pipe'[x] = pipe[x + 1]
        /\ Head(pipe) = pipe[1]
    BY <1>1, <1>2, AtTheHead
  <1>4. moved[r] \in 0 .. Size - 1 /\ moved[r] + 1 \in Parts
    BY <1>1, <1>2
  <1>5. /\ moved'[r] = moved[r] + 1 /\ data'[r][moved[r] + 1] = Head(pipe)
        /\ \A part \in Parts : part # moved[r] + 1 => data'[r][part] = data[r][part]
        /\ \A d \in Children : d # r => moved'[d] = moved[d] /\ data'[d] = data[d]
    BY <1>1, <1>2, <1>4
  <1>. QED
    BY <1>2, <1>3, <1>4, <1>5

\* The readings and the writers are as before.
LEMMA TakeReads ==
  ASSUME Types, [Next]_vars, NEW r \in Readers, ReadFromPipe(r)
  PROVE  /\ Readings' = Readings /\ Parts' = Parts /\ Size' = Size
         /\ \A a : Message(a)' = Message(a) /\ Given(a)' = Given(a)
         /\ \A w \in Writers : moved'[w] = moved[w] /\ i'[w] = i[w]
         /\ \A x : Block(x)' = Block(x)
  <1>1. delivered' = delivered /\ i' = i /\ \A w \in Writers : moved'[w] = moved[w]
    BY TakeIs, Sides
  <1>. QED
    BY <1>1, SameProgram DEF Readings, Message, Given, Block

\* Where a reader that is not the only one to hold a message is.
LEMMA OthersHold ==
  ASSUME Types, LockInv, NEW r \in Readers, ReadFromPipe(r), NEW s \in Readers, s # r,
         moved[s] > 0
  PROVE  Size = 1 /\ moved[s] = 1 /\ moved[r] = 0 /\ ~ Locked
  <1>1. r \in Children /\ s \in Children /\ r[1] = s[1] /\ childPc[r] = "move"
        /\ moved[s] \in 0 .. Size /\ moved[r] \in 0 .. Size - 1
    BY Sides, TakeIs, TypesAre
  <1>2. Size = 1 /\ ~ Locked
    BY <1>1, OneMoves
  <1>. QED
    BY <1>1, <1>2

\* The reader has what was at the head of the pipe.
LEMMA TakesHead ==
  ASSUME Types, LockInv, StreamInv, HandInv, NEW r \in Readers, ReadFromPipe(r)
  PROVE  /\ \A part \in 1 .. moved[r] + 1 : data'[r][part] = pipe[1]
         /\ data'[r][1] = pipe[1]
         /\ Block(moved[r] + 1 - 1) = 0 /\ 1 \in 1 .. Len(pipe)
         /\ \A x \in 1 .. Len(pipe) - 1 :
               IF Block(moved[r] + (x + 1) - 1) = 0 THEN pipe[x + 1] = pipe[1]
               ELSE Later(pipe[1], pipe[x + 1])
  <1>. DEFINE m == moved[r]
              L == Len(pipe)
  <1>1. m \in 0 .. Size - 1 /\ L \in Nat /\ L > 0 /\ Size \in Nat \ {0} /\ Parts = 1 .. Size
        /\ m + 1 - 1 = m
    BY TakeIs, SizeIs
  <1>2. Block(m + 1 - 1) = 0 /\ 1 \in 1 .. L
    <2>1. Block(m) = 0
      BY <1>1, BlockIs
    <2>2. Block(m + 1 - 1) = Block(m)
      BY <1>1
    <2>. QED
      BY <1>1, <2>1, <2>2
  <1>3. StreamAt(m)
    BY StreamOf, TakeIs
  <1>4. ASSUME NEW x \in 1 .. L - 1
        PROVE  IF Block(m + (x + 1) - 1) = 0 THEN pipe[x + 1] = pipe[1]
               ELSE Later(pipe[1], pipe[x + 1])
    <2>1. x + 1 \in 1 .. L /\ 1 \in 1 .. (x + 1) - 1
      BY <1>1
    <2>. QED
      BY <1>2, <1>3, <2>1 DEF StreamAt
  <1>5. ASSUME NEW part \in 1 .. m + 1
        PROVE  data'[r][part] = pipe[1]
    <2>1. CASE part = m + 1
      BY <2>1, TakeIs
    <2>2. CASE part # m + 1
      <3>1. part \in 1 .. m /\ part \in Parts /\ m > 0
        BY <1>1, <2>2
      <3>2. data'[r][part] = data[r][part] /\ InHand(r)
        BY <2>2, <3>1, TakeIs DEF HandInv
      <3>3. data[r][part] = data[r][1] /\ pipe[1] = data[r][1]
        BY <1>2, <3>1, <3>2 DEF InHand
      <3>. QED
        BY <3>2, <3>3
    <2>. QED
      BY <2>1, <2>2
  <1>6. data'[r][1] = pipe[1]
    <2>1. 1 \in 1 .. m + 1
      BY <1>1
    <2>. QED
      BY <1>5, <2>1
  <1>. QED
    BY <1>2, <1>4, <1>5, <1>6

LEMMA TakeBegun ==
  ASSUME Types, LockInv, BegunInv, StreamInv, HandInv, [Next]_vars,
         NEW r \in Readers, ReadFromPipe(r)
  PROVE  BegunInv'
  <1>1. \A v : Begun(v) => BegunNext(v)
    BY TakeReads DEF Begun, BegunNext
  <1>2. \A x \in 1 .. Len(pipe') : BegunNext(pipe'[x])
    <2>. SUFFICES ASSUME NEW x \in 1 .. Len(pipe) - 1
                  PROVE  BegunNext(pipe'[x])
      BY TakeIs
    <2>1. x + 1 \in 1 .. Len(pipe) /\ pipe'[x] = pipe[x + 1]
      BY TakeIs
    <2>. QED
      BY <1>1, <2>1 DEF BegunInv
  <1>3. ASSUME NEW s \in Readers, moved'[s] > 0
        PROVE  BegunNext(data'[s][1])
    <2>1. CASE s = r
      BY <1>1, <2>1, TakesHead DEF BegunInv
    <2>2. CASE s # r
      <3>1. data'[s] = data[s] /\ moved'[s] = moved[s]
        BY <2>2, TakeIs, Sides
      <3>. QED
        BY <1>1, <1>3, <3>1 DEF BegunInv
    <2>. QED
      BY <2>1, <2>2
  <1>4. \A a \in Readings' : /\ BegunNext(Given(a)')
                            /\ Message(a)' = [part \in Parts' |-> Given(a)']
    BY <1>1, TakeReads DEF BegunInv
  <1>. QED
    BY <1>2, <1>3, <1>4, BegunInvNext

LEMMA TakeStream ==
  ASSUME Types, LockInv, StreamInv, HandInv, [Next]_vars, NEW r \in Readers, ReadFromPipe(r)
  PROVE  StreamInv'
  <1>. SUFFICES ASSUME NEW off \in 0 .. Size, Offset(off)'
                PROVE  StreamAt(off)' /\ TailAt(off)'
    BY TakeReads DEF StreamInv
  <1>. DEFINE m == moved[r]
              L == Len(pipe)
  <1>1. m \in 0 .. Size - 1 /\ L \in Nat /\ L > 0 /\ Size \in Nat \ {0}
        /\ Len(pipe') = L - 1 /\ (m + 1) + (L - 1) = m + L
    BY TakeIs, SizeIs
  <1>2. off = m + 1
    <2>1. moved'[r] = m + 1 /\ moved'[r] # 0
      BY <1>1, TakeIs
    <2>2. PICK s \in Readers : moved'[s] = off /\ off > 0
      BY <2>1 DEF Offset
    <2>3. CASE s = r
      BY <2>1, <2>2, <2>3
    <2>4. CASE s # r
      <3>1. moved[s] = off /\ off > 0
        BY <2>2, <2>4, TakeIs, Sides
      <3>2. off = 1 /\ m = 0
        BY <2>4, <3>1, OthersHold
      <3>. QED
        BY <3>2
    <2>. QED
      BY <2>3, <2>4
  <1>3. StreamAt(m) /\ TailAt(m)
    BY StreamOf, TakeIs
  <1>4. ASSUME NEW x \in 1 .. L - 1
        PROVE  /\ pipe'[x] = pipe[x + 1] /\ x + 1 \in 1 .. L
               /\ off + x - 1 = m + (x + 1) - 1
    <2>1. pipe'[x] = pipe[x + 1]
      BY TakeIs
    <2>2. x + 1 \in 1 .. L /\ off + x - 1 = m + (x + 1) - 1
      BY <1>1, <1>2
    <2>. QED
      BY <2>1, <2>2
  <1>5. StreamAt(off)'
    <2>. SUFFICES ASSUME NEW y \in 1 .. L - 1, NEW x \in 1 .. y - 1
                  PROVE  IF Block(off + x - 1) = Block(off + y - 1) THEN pipe'[x] = pipe'[y]
                         ELSE Later(pipe'[x], pipe'[y])
      BY <1>1, TakeReads DEF StreamAt, Later
    <2>1. x \in 1 .. L - 1 /\ x + 1 \in 1 .. (y + 1) - 1 /\ y + 1 \in 1 .. L
      BY <1>1
    <2>2. IF Block(m + (x + 1) - 1) = Block(m + (y + 1) - 1) THEN pipe[x + 1] = pipe[y + 1]
          ELSE Later(pipe[x + 1], pipe[y + 1])
      BY <1>3, <2>1 DEF StreamAt
    <2>. QED
      BY <1>4, <2>1, <2>2
  <1>6. ASSUME NEW w \in Writers, moved[w] > 0, moved[w] < Size
        PROVE  LastOf(w, off)'
    <2>1. LastOf(w, m) /\ off + Len(pipe') = m + L
      BY <1>1, <1>2, <1>3, <1>6 DEF TailAt
    <2>2. ASSUME NEW x \in 1 .. L - 1, Block(off + x - 1) = Block(m + L)
          PROVE  pipe'[x] = Own(w)
      BY <1>4, <2>1, <2>2 DEF LastOf, Own
    <2>3. ASSUME Block(m + L) = 0, NEW s \in Readers, moved'[s] > 0
          PROVE  data'[s][1] = Own(w)
      <3>1. CASE s = r
        <4>1. pipe[1] = Own(w)
          BY <2>1, <2>3, TakesHead DEF LastOf, Own
        <4>. QED
          BY <3>1, <4>1, TakesHead
      <3>2. CASE s # r
        <4>1. moved[s] > 0
          BY <2>3, <3>2, TakeIs, Sides
        <4>2. Size = 1 /\ moved[w] \in 0 .. Size
          BY <3>2, <4>1, OthersHold, TypesAre, Sides
        <4>. QED
          BY <1>6, <4>2
      <3>. QED
        BY <3>1, <3>2
    <2>4. (off + Len(pipe')) % Size = moved[w]
      BY <2>1 DEF LastOf
    <2>5. Block(off + Len(pipe')) = Block(m + L)
      BY <2>1
    <2>6. /\ \A x \in 1 .. Len(pipe') :
                Block(off + x - 1) = Block(off + Len(pipe')) => pipe'[x] = <<w, i[w] + 1>>
          /\ Block(off + Len(pipe')) = 0 =>
                \A s \in Readers : moved'[s] > 0 => data'[s][1] = <<w, i[w] + 1>>
      BY <1>1, <2>2, <2>3, <2>5 DEF Own
    <2>. QED
      BY <2>4, <2>6, TakeReads DEF LastOf
  <1>7. TailAt(off)'
    <2>1. (\A w \in Writers : moved[w] \in {0, Size}) => (off + Len(pipe')) % Size = 0
      BY <1>1, <1>2, <1>3 DEF TailAt
    <2>. QED
      BY <1>6, <2>1, TakeReads DEF TailAt
  <1>. QED
    BY <1>5, <1>7

LEMMA TakeRead ==
  ASSUME Types, ReadInv, [Next]_vars, NEW r \in Readers, ReadFromPipe(r)
  PROVE  ReadInv'
  <1>1. ASSUME NEW a \in Readings, NEW x \in 1 .. Len(pipe')
        PROVE  Later(Given(a), pipe'[x])
    <2>1. x \in 1 .. Len(pipe) - 1 /\ x + 1 \in 1 .. Len(pipe)
      BY TakeIs
    <2>. QED
      BY <2>1, TakeIs DEF ReadInv
  <1>. QED
    BY <1>1, TakeReads DEF ReadInv, Later

LEMMA TakeHand ==
  ASSUME Types, LockInv, BegunInv, StreamInv, HandInv, ReadInv, [Next]_vars,
         NEW r \in Readers, ReadFromPipe(r)
  PROVE  HandInv'
  <1>. DEFINE m == moved[r]
              L == Len(pipe)
  <1>1. L \in Nat /\ Len(pipe') = L - 1 /\ moved'[r] = m + 1 /\ m \in Nat
    BY TakeIs, SizeIs
  <1>2. ASSUME NEW s \in Readers, s # r, moved[s] > 0
        PROVE  /\ data'[s] = data[s] /\ moved'[s] = moved[s] /\ Size = 1 /\ moved[s] = 1
               /\ InHand(s)
               /\ \A x \in 1 .. L : Block(moved[s] + x - 1) # 0 /\ Later(data[s][1], pipe[x])
               /\ data[s][1] # pipe[1]
    <2>1. data'[s] = data[s] /\ moved'[s] = moved[s] /\ Size = 1 /\ moved[s] = 1 /\ InHand(s)
      BY <1>2, OthersHold, TakeIs, Sides DEF HandInv
    <2>2. ASSUME NEW x \in 1 .. L
          PROVE  Block(moved[s] + x - 1) # 0 /\ Later(data[s][1], pipe[x])
      <3>1. moved[s] + x - 1 = x /\ x \in Nat /\ ~ x < Size
        BY <1>1, <2>1
      <3>2. Block(moved[s] + x - 1) # 0
        BY <3>1, BlockIs
      <3>. QED
        BY <2>1, <3>2 DEF InHand
    <2>3. data[s][1] # pipe[1]
      <3>1. Later(data[s][1], pipe[1]) /\ Begun(data[s][1])
        BY <1>2, <2>2, TakesHead DEF BegunInv
      <3>. QED
        BY <3>1, LaterDiffers
    <2>. QED
      BY <2>1, <2>2, <2>3
  <1>3. InHand(r)'
    <2>1. \A part \in 1 .. m + 1 : data'[r][part] = data'[r][1]
      BY TakesHead
    <2>2. ASSUME NEW x \in 1 .. L - 1
          PROVE  IF Block(m + 1 + x - 1) = 0 THEN pipe'[x] = pipe[1]
                 ELSE Later(pipe[1], pipe'[x])
      <3>1. m + 1 + x - 1 = m + (x + 1) - 1 /\ pipe'[x] = pipe[x + 1]
        BY <1>1, TakeIs
      <3>. QED
        BY <3>1, TakesHead
    <2>3. \A s \in Readers : s # r /\ moved'[s] > 0 => pipe[1] # data'[s][1]
      <3>. SUFFICES ASSUME NEW s \in Readers, s # r, moved'[s] > 0
                    PROVE  pipe[1] # data'[s][1]
        OBVIOUS
      <3>1. moved[s] > 0
        BY TakeIs, Sides
      <3>. QED
        BY <1>2, <3>1
    <2>4. ASSUME NEW a \in Readings
          PROVE  Later(Given(a), pipe[1]) /\ Given(a) # pipe[1]
      <3>1. Later(Given(a), pipe[1]) /\ Begun(Given(a))
        BY TakesHead DEF BegunInv, ReadInv
      <3>. QED
        BY <3>1, LaterDiffers
    <2>5. data'[r][1] = pipe[1]
      BY TakesHead
    <2>6. \A part \in 1 .. moved'[r] : data'[r][part] = data'[r][1]
      BY <1>1, <2>1
    <2>7. \A x \in 1 .. Len(pipe') : IF Block(moved'[r] + x - 1) = 0 THEN pipe'[x] = data'[r][1]
                                   ELSE Later(data'[r][1], pipe'[x])
      BY <1>1, <2>2, <2>5
    <2>8. \A s \in Readers : s # r /\ moved'[s] > 0 => data'[r][1] # data'[s][1]
      BY <2>3, <2>5
    <2>9. \A a \in Readings : IF a[1] = r THEN Later(Given(a), data'[r][1])
                              ELSE Given(a) # data'[r][1]
      BY <2>4, <2>5
    <2>. QED
      BY <2>6, <2>7, <2>8, <2>9, TakeReads DEF InHand, Later
  <1>4. ASSUME NEW s \in Readers, s # r, moved[s] > 0
        PROVE  InHand(s)'
    <2>1. /\ data'[s] = data[s] /\ moved'[s] = moved[s] /\ InHand(s)
          /\ data[s][1] # data'[r][1]
      BY <1>2, <1>4, TakesHead
    <2>2. ASSUME NEW x \in 1 .. L - 1
          PROVE  Block(moved[s] + x - 1) # 0 /\ Later(data[s][1], pipe'[x])
      <3>1. x \in 1 .. L /\ x + 1 \in 1 .. L /\ pipe'[x] = pipe[x + 1]
        BY <1>1, TakeIs
      <3>. QED
        BY <1>2, <1>4, <3>1
    <2>3. ASSUME NEW t \in Readers, t # s, moved'[t] > 0
          PROVE  data[s][1] # data'[t][1]
      <3>1. CASE t = r
        BY <2>1, <3>1
      <3>2. CASE t # r
        <4>1. moved[t] > 0 /\ data'[t] = data[t]
          BY <2>3, <3>2, TakeIs, Sides
        <4>. QED
          BY <2>1, <2>3, <4>1 DEF InHand
      <3>. QED
        BY <3>1, <3>2
    <2>4. \A part \in 1 .. moved[s] : data'[s][part] = data'[s][1]
      BY <2>1 DEF InHand
    <2>5. \A a \in Readings : IF a[1] = s THEN Later(Given(a), data[s][1])
                              ELSE Given(a) # data[s][1]
      BY <2>1 DEF InHand
    <2>. QED
      BY <1>1, <2>1, <2>2, <2>3, <2>4, <2>5, TakeReads DEF InHand, Later
  <1>. QED
    <2>. SUFFICES ASSUME NEW s \in Readers, moved'[s] > 0
                  PROVE  InHand(s)'
      BY DEF HandInv
    <2>1. s # r => moved[s] > 0
      BY TakeIs, Sides
    <2>. QED
      BY <1>3, <1>4, <2>1

-----------------------------------------------------------------------------
(* A message is complete *)

\* What comes before the next message.
LEMMA PostIs ==
  ASSUME Types, ChildInv, NEW c \in Children, Post(c)
  PROVE  /\ moved[c] = Size /\ childPc[c] = "move" /\ moved'[c] = 0 /\ pipe' = pipe
         /\ i'[c] = i[c] + 1 /\ i[c] \in Nat /\ i[c] < Share(c)
         /\ \A d \in Children : d # c => moved'[d] = moved[d] /\ i'[d] = i[d]
         /\ \A r \in Readers : data'[r] = data[r]
         /\ c \in Writers => delivered' = delivered
         /\ c \in Readers => delivered' = [delivered EXCEPT ![c] = Append(@, data[c])]
  <1>1. Size \in Nat \ {0} /\ Cardinality(Parts) = Size /\ i \in [Children -> Nat]
        /\ moved \in [Children -> 0 .. Size] /\ data \in [Children -> [Parts -> Values]]
    BY SizeIs, TypesAre
  <1>2. moved[c] = Size /\ childPc[c] = "move" /\ moved' = [moved EXCEPT ![c] = 0]
        /\ pipe' = pipe /\ i' = [i EXCEPT ![c] = @ + 1] /\ i[c] < Share(c)
    BY <1>1 DEF Post, ChildStep, ChildInv, Progress
  <1>3. \A r \in Readers : data'[r] = data[r]
    BY <1>1, Sides DEF Post
  <1>4. /\ c \in Writers => delivered' = delivered
        /\ c \in Readers => delivered' = [delivered EXCEPT ![c] = Append(@, data[c])]
    BY Sides DEF Post
  <1>. QED
    BY <1>1, <1>2, <1>3, <1>4

LEMMA PostBegins ==
  ASSUME Types, ChildInv, NEW c \in Children, Post(c), NEW v, Begun(v)
  PROVE  BegunNext(v)
  <1>. PICK d \in Writers :
           \E n \in 1 .. Share(d) :
               /\ v = <<d, n>>
               /\ \/ n <= i[d]
                  \/ n = i[d] + 1 /\ moved[d] > 0
    BY DEF Begun
  <1>1. PICK n \in 1 .. Share(d) :
            /\ v = <<d, n>>
            /\ \/ n <= i[d]
               \/ n = i[d] + 1 /\ moved[d] > 0
    OBVIOUS
  <1>2. n \in Nat /\ i[d] \in Nat /\ d \in Children
    BY <1>1, ShareIs, Sides, TypesAre
  <1>3. CASE d = c
    <2>1. n <= i'[d]
      BY <1>1, <1>2, <1>3, PostIs
    <2>. QED
      BY <1>1, <2>1 DEF BegunNext
  <1>4. CASE d # c
    <2>1. i'[d] = i[d] /\ moved'[d] = moved[d]
      BY <1>2, <1>4, PostIs
    <2>. QED
      BY <1>1, <2>1 DEF BegunNext
  <1>. QED
    BY <1>3, <1>4

LEMMA PostOfWriter ==
  ASSUME Types, ChildInv, LockInv, Whole, [Next]_vars, NEW w \in Writers, Post(w)
  PROVE  Whole'
  <1>0. /\ w \in Children /\ Size' = Size /\ Parts' = Parts /\ delivered' = delivered
        /\ pipe' = pipe /\ \A r \in Readers : data'[r] = data[r] /\ moved'[r] = moved[r]
    BY Sides, SameProgram, PostIs
  <1>1. /\ Readings' = Readings
        /\ \A a : Message(a)' = Message(a) /\ Given(a)' = Given(a)
        /\ \A x : Block(x)' = Block(x)
    BY <1>0 DEF Readings, Message, Given, Block
  <1>2. BegunInv'
    <2>1. \A v : Begun(v) => BegunNext(v)
      BY <1>0, PostBegins
    <2>2. \A x \in 1 .. Len(pipe') : BegunNext(pipe'[x])
      BY <1>0, <2>1 DEF Whole, BegunInv
    <2>3. \A r \in Readers : moved'[r] > 0 => BegunNext(data'[r][1])
      BY <1>0, <2>1 DEF Whole, BegunInv
    <2>4. \A a \in Readings' : /\ BegunNext(Given(a)')
                              /\ Message(a)' = [part \in Parts' |-> Given(a)']
      BY <1>0, <1>1, <2>1 DEF Whole, BegunInv
    <2>. QED
      BY <2>2, <2>3, <2>4, BegunInvNext
  <1>3. ReadInv'
    BY <1>0, <1>1 DEF Whole, ReadInv, Later
  <1>4. HandInv'
    <2>. SUFFICES ASSUME NEW r \in Readers, moved[r] > 0
                  PROVE  InHand(r)'
      BY <1>0 DEF HandInv
    <2>1. InHand(r)
      BY DEF Whole, HandInv
    <2>. QED
      BY <1>0, <1>1, <2>1 DEF InHand, Later
  <1>5. StreamInv'
    <2>. SUFFICES ASSUME NEW off \in 0 .. Size, Offset(off)'
                  PROVE  StreamAt(off)' /\ TailAt(off)'
      BY <1>0 DEF StreamInv
    <2>1. StreamAt(off) /\ TailAt(off)
      BY <1>0 DEF Whole, StreamInv, Offset
    <2>2. StreamAt(off)'
      BY <1>0, <1>1, <2>1 DEF StreamAt, Later
    <2>3. moved[w] = Size /\ moved'[w] = 0
          /\ \A d \in Writers : d # w => moved'[d] = moved[d] /\ i'[d] = i[d]
      BY PostIs, Sides
    <2>4. ASSUME NEW d \in Writers, moved'[d] > 0, moved'[d] < Size
          PROVE  LastOf(d, off)'
      <3>1. d # w
        BY <2>3, <2>4
      <3>2. LastOf(d, off) /\ moved'[d] = moved[d] /\ i'[d] = i[d]
        BY <2>1, <2>3, <2>4, <3>1 DEF TailAt
      <3>. QED
        BY <1>0, <1>1, <3>2 DEF LastOf
    <2>5. (\A d \in Writers : moved'[d] \in {0, Size}) => (off + Len(pipe)) % Size = 0
      <3>1. (\A d \in Writers : moved'[d] \in {0, Size}) => \A d \in Writers : moved[d] \in {0, Size}
        BY <2>3
      <3>. QED
        BY <2>1, <3>1 DEF TailAt
    <2>6. TailAt(off)'
      BY <1>0, <2>4, <2>5 DEF TailAt
    <2>. QED
      BY <2>2, <2>6
  <1>. QED
    BY <1>2, <1>3, <1>4, <1>5 DEF Whole

-----------------------------------------------------------------------------
(* A reading *)

\* What the readings are.
LEMMA ReadingsAre ==
  ASSUME Types
  PROVE  /\ \A a : a \in Readings <=>
                \E r \in Readers : \E k \in 1 .. Len(delivered[r]) : a = <<r, k>>
         /\ \A r \in Readers : Len(delivered[r]) \in Nat
  <1>1. \A r \in Readers : /\ DOMAIN delivered[r] = 1 .. Len(delivered[r])
                           /\ Len(delivered[r]) \in Nat
    BY TypesAre, LenProperties
  <1>. QED
    BY <1>1 DEF Readings

\* A reader that completes a message has read one more.
LEMMA NewReading ==
  ASSUME Types, ChildInv, NEW r \in Readers, Post(r), Types',
         NEW new, new = <<r, Len(delivered[r]) + 1>>
  PROVE  /\ Readings' = Readings \cup {new} /\ new \notin Readings
         /\ \A a \in Readings : Message(a)' = Message(a) /\ Given(a)' = Given(a)
         /\ Message(new)' = data[r] /\ Given(new)' = data[r][1]
         /\ \A a \in Readings : a[1] = r => a[2] < new[2]
  <1>. DEFINE n == Len(delivered[r])
  <1>1. /\ delivered' = [delivered EXCEPT ![r] = Append(@, data[r])]
        /\ delivered \in [Readers -> Seq([Parts -> Values])] /\ data[r] \in [Parts -> Values]
    BY PostIs, TypesAre, Sides
  <1>2. /\ n \in Nat /\ Len(delivered'[r]) = n + 1 /\ delivered'[r][n + 1] = data[r]
        /\ \A k \in 1 .. n : delivered'[r][k] = delivered[r][k]
        /\ \A s \in Readers : s # r => delivered'[s] = delivered[s]
    BY <1>1, ReadingsAre, AtTheEnd
  <1>3. \A a : a \in Readings' <=>
            \E s \in Readers : \E k \in 1 .. Len(delivered'[s]) : a = <<s, k>>
    <2>1. \A s \in Readers : DOMAIN delivered'[s] = 1 .. Len(delivered'[s])
      <3>1. ASSUME NEW s \in Readers
            PROVE  DOMAIN delivered'[s] = 1 .. Len(delivered'[s])
        <4>1. delivered'[s] \in Seq([Parts' -> Values])
          BY DEF Types
        <4>. QED
          BY <4>1, LenProperties
      <3>. QED
        BY <3>1
    <2>. QED
      BY <2>1 DEF Readings
  <1>4. new \in Readings' /\ new \notin Readings
    <2>1. n + 1 \in 1 .. Len(delivered'[r])
      BY <1>2
    <2>2. n + 1 \notin 1 .. n
      BY <1>2
    <2>. QED
      BY <1>3, <2>1, <2>2, ReadingsAre
  <1>5. ASSUME NEW a \in Readings
        PROVE  /\ a \in Readings' /\ Message(a)' = Message(a)
               /\ a[1] = r => a[2] < new[2]
    <2>1. PICK s \in Readers : \E k \in 1 .. Len(delivered[s]) : a = <<s, k>>
      BY ReadingsAre
    <2>2. PICK k \in 1 .. Len(delivered[s]) : a = <<s, k>>
      BY <2>1
    <2>3. k \in 1 .. Len(delivered'[s]) /\ delivered'[s][k] = delivered[s][k]
      BY <1>2, <2>2
    <2>. QED
      BY <1>2, <1>3, <2>2, <2>3 DEF Message
  <1>6. ASSUME NEW a \in Readings'
        PROVE  a \in Readings \/ a = new
    <2>1. PICK s \in Readers : \E k \in 1 .. Len(delivered'[s]) : a = <<s, k>>
      BY <1>3
    <2>2. PICK k \in 1 .. Len(delivered'[s]) : a = <<s, k>>
      BY <2>1
    <2>3. CASE s = r /\ k = n + 1
      BY <2>2, <2>3
    <2>4. CASE ~ (s = r /\ k = n + 1)
      <3>1. k \in 1 .. Len(delivered[s])
        BY <1>2, <2>2, <2>4
      <3>. QED
        BY <2>2, <3>1, ReadingsAre
    <2>. QED
      BY <2>3, <2>4
  <1>7. Message(new)' = data[r]
    BY <1>2 DEF Message
  <1>8. Readings' = Readings \cup {new}
    BY <1>4, <1>5, <1>6
  <1>. QED
    BY <1>4, <1>5, <1>7, <1>8 DEF Given

LEMMA PostOfReader ==
  ASSUME Types, ChildInv, LockInv, Whole, [Next]_vars, Types', NEW r \in Readers, Post(r)
  PROVE  Whole'
  <1>. DEFINE L == Len(pipe)
              u == data[r][1]
  <1>0. /\ r \in Children /\ Size' = Size /\ Parts' = Parts /\ Parts = 1 .. Size
        /\ Size \in Nat \ {0} /\ L \in Nat /\ pipe' = pipe
        /\ moved[r] = Size /\ moved[r] > 0 /\ moved'[r] = 0 /\ childPc[r] = "move"
        /\ \A s \in Readers : data'[s] = data[s] /\ (s # r => moved'[s] = moved[s])
        /\ \A w \in Writers : moved'[w] = moved[w] /\ i'[w] = i[w]
        /\ \A x : Block(x)' = Block(x)
    BY Sides, SameProgram, PostIs, SizeIs, PipeIs DEF Block
  <1>1. InHand(r) /\ Begun(u) /\ StreamAt(Size) /\ TailAt(Size)
    <2>1. StreamAt(moved[r]) /\ TailAt(moved[r])
      BY <1>0, StreamOf DEF Whole
    <2>. QED
      BY <1>0, <2>1 DEF Whole, HandInv, BegunInv
  <1>2. data[r] = [part \in Parts |-> u]
    <2>1. data[r] \in [Parts -> Values] /\ \A part \in Parts : data[r][part] = u
      BY <1>0, <1>1, TypesAre DEF InHand
    <2>. QED
      BY <2>1
  <1>3. PICK new : new = <<r, Len(delivered[r]) + 1>>
    OBVIOUS
  <1>4. /\ Readings' = Readings \cup {new} /\ new \notin Readings
        /\ \A a \in Readings : Message(a)' = Message(a) /\ Given(a)' = Given(a)
        /\ Message(new)' = data[r] /\ Given(new)' = u
        /\ \A a \in Readings : a[1] = r => a[2] < new[2]
        /\ new[1] = r
    BY <1>3, NewReading
  <1>5. \A a \in Readings : Given(a) # u /\ (a[1] = r => Later(Given(a), u))
    <2>. SUFFICES ASSUME NEW a \in Readings
                  PROVE  Given(a) # u /\ (a[1] = r => Later(Given(a), u))
      OBVIOUS
    <2>1. Begun(Given(a))
      BY DEF Whole, BegunInv
    <2>2. IF a[1] = r THEN Later(Given(a), u) ELSE Given(a) # u
      BY <1>1 DEF InHand
    <2>. QED
      BY <2>1, <2>2, LaterDiffers
  <1>6. ASSUME NEW x \in 1 .. L
        PROVE  /\ Block(Size + x - 1) = Block(x - 1) + 1 /\ Block(x - 1) \in Nat
               /\ Block(0 + x - 1) = Block(x - 1) /\ Later(u, pipe[x])
    <2>1. x - 1 \in Nat /\ Size + x - 1 = Size + (x - 1) /\ 0 + x - 1 = x - 1
      BY <1>0
    <2>2. Block(Size + (x - 1)) = Block(x - 1) + 1 /\ Block(x - 1) \in Nat
      BY <2>1, BlockIs
    <2>3. Block(moved[r] + x - 1) # 0
      BY <1>0, <2>1, <2>2
    <2>. QED
      BY <1>1, <2>1, <2>2, <2>3 DEF InHand
  <1>7. BegunInv'
    <2>1. \A v : Begun(v) => BegunNext(v)
      BY <1>0, PostBegins
    <2>2. \A x \in 1 .. Len(pipe') : BegunNext(pipe'[x])
      BY <1>0, <2>1 DEF Whole, BegunInv
    <2>3. \A s \in Readers : moved'[s] > 0 => BegunNext(data'[s][1])
      <3>. SUFFICES ASSUME NEW s \in Readers, moved'[s] > 0
                    PROVE  BegunNext(data'[s][1])
        OBVIOUS
      <3>1. s # r /\ moved[s] > 0
        BY <1>0
      <3>. QED
        BY <1>0, <2>1, <3>1 DEF Whole, BegunInv
    <2>4. \A a \in Readings' : /\ BegunNext(Given(a)')
                              /\ Message(a)' = [part \in Parts' |-> Given(a)']
      <3>1. ASSUME NEW a \in Readings
            PROVE  /\ BegunNext(Given(a)')
                   /\ Message(a)' = [part \in Parts' |-> Given(a)']
        BY <1>0, <1>4, <2>1 DEF Whole, BegunInv
      <3>2. BegunNext(Given(new)') /\ Message(new)' = [part \in Parts' |-> Given(new)']
        BY <1>0, <1>1, <1>2, <1>4, <2>1
      <3>. QED
        BY <1>4, <3>1, <3>2
    <2>. QED
      BY <2>2, <2>3, <2>4, BegunInvNext
  <1>8. ReadInv'
    <2>1. ASSUME NEW a \in Readings'
          PROVE  \A x \in 1 .. L : Later(Given(a)', pipe[x])
      BY <1>4, <1>6, <2>1 DEF Whole, ReadInv
    <2>2. ASSUME NEW a \in Readings', NEW b \in Readings', a # b
          PROVE  Given(a)' # Given(b)'
      BY <1>4, <1>5, <2>2 DEF Whole, ReadInv
    <2>3. ASSUME NEW a \in Readings', NEW b \in Readings', a[1] = b[1], a[2] < b[2]
          PROVE  Later(Given(a)', Given(b)')
      <3>1. CASE a \in Readings /\ b \in Readings
        BY <1>4, <2>3, <3>1 DEF Whole, ReadInv
      <3>2. CASE a \in Readings /\ b = new
        BY <1>4, <1>5, <2>3, <3>2
      <3>3. CASE a = new
        <4>1. new[2] \in Nat /\ ~ new[2] < new[2]
          BY <1>3, ReadingsAre
        <4>2. b \in Readings
          BY <1>4, <2>3, <3>3, <4>1
        <4>3. b[2] < new[2] /\ b[2] \in Nat
          BY <1>4, <2>3, <3>3, <4>2, ReadingsAre
        <4>. QED
          BY <2>3, <3>3, <4>1, <4>3
      <3>. QED
        BY <1>4, <3>1, <3>2, <3>3
    <2>. QED
      BY <1>0, <2>1, <2>2, <2>3 DEF ReadInv, Later
  <1>9. HandInv'
    <2>. SUFFICES ASSUME NEW s \in Readers, moved'[s] > 0
                  PROVE  InHand(s)'
      BY DEF HandInv
    <2>1. s # r /\ moved'[s] = moved[s] /\ moved[s] > 0 /\ data'[s] = data[s]
      BY <1>0
    <2>2. InHand(s)
      BY <2>1 DEF Whole, HandInv
    <2>3. \A part \in 1 .. moved'[s] : data'[s][part] = data'[s][1]
      BY <2>1, <2>2 DEF InHand
    <2>4. \A x \in 1 .. Len(pipe') : IF Block(moved'[s] + x - 1) = 0 THEN pipe'[x] = data'[s][1]
                                   ELSE Later(data'[s][1], pipe'[x])
      BY <1>0, <2>1, <2>2 DEF InHand
    <2>5. \A t \in Readers : t # s /\ moved'[t] > 0 => data'[s][1] # data'[t][1]
      <3>. SUFFICES ASSUME NEW t \in Readers, t # s, moved'[t] > 0
                    PROVE  data'[s][1] # data'[t][1]
        OBVIOUS
      <3>1. t # r /\ moved[t] > 0 /\ data'[t] = data[t]
        BY <1>0
      <3>. QED
        BY <2>1, <2>2, <3>1 DEF InHand
    <2>6. \A a \in Readings' : IF a[1] = s THEN Later(Given(a)', data'[s][1])
                              ELSE Given(a)' # data'[s][1]
      <3>1. ASSUME NEW a \in Readings
            PROVE  IF a[1] = s THEN Later(Given(a)', data'[s][1])
                   ELSE Given(a)' # data'[s][1]
        BY <1>4, <2>1, <2>2 DEF InHand
      <3>2. new[1] # s /\ Given(new)' # data'[s][1]
        BY <1>1, <1>4, <2>1 DEF InHand
      <3>. QED
        BY <1>4, <3>1, <3>2
    <2>. QED
      BY <1>0, <2>3, <2>4, <2>5, <2>6 DEF InHand, Later
  <1>10. StreamInv'
    <2>. SUFFICES ASSUME NEW off \in 0 .. Size, Offset(off)'
                  PROVE  StreamAt(off)' /\ TailAt(off)'
      BY <1>0 DEF StreamInv
    <2>1. StreamAt(off)
      <3>1. off = 0 \/ off = Size
        <4>1. CASE Locked
          <5>1. \A s \in Readers : moved'[s] = 0
            BY <1>0, <4>1, OneMoves, Sides
          <5>. QED
            BY <1>0, <5>1 DEF Offset
        <4>2. CASE ~ Locked
          <5>1. Size = 1
            BY <4>2, SizeIs DEF Locked
          <5>. QED
            BY <5>1
        <4>. QED
          BY <4>1, <4>2
      <3>2. StreamAt(0)
        BY <1>1, StreamShift
      <3>. QED
        BY <1>1, <3>1, <3>2
    <2>2. StreamAt(off)'
      BY <1>0, <2>1 DEF StreamAt, Later
    <2>3. CASE ~ Locked
      <3>1. Size = 1 /\ off \in Nat
        BY <1>0, <2>3, SizeIs DEF Locked
      <3>2. TailAt(off)
        BY <3>1, TailOfFifo
      <3>3. \A w \in Writers : ~ (moved[w] > 0 /\ moved[w] < Size)
        <4>1. \A w \in Writers : moved[w] \in 0 .. Size
          BY TypesAre, Sides
        <4>. QED
          BY <3>1, <4>1
      <3>4. TailAt(off)'
        BY <1>0, <3>2, <3>3 DEF TailAt
      <3>. QED
        BY <2>2, <3>4
    <2>4. CASE Locked
      <3>1. \A s \in Readers : moved'[s] = 0
        BY <1>0, <2>4, OneMoves, Sides
      <3>2. off = 0 /\ \A s \in Readers : ~ moved'[s] > 0
        BY <1>0, <3>1 DEF Offset
      <3>3. /\ (0 + L) % Size = (Size + L) % Size
            /\ Block(Size + L) = Block(0 + L) + 1 /\ Block(0 + L) \in Nat
        <4>1. 0 + L = L
          BY <1>0
        <4>. QED
          BY <1>0, <4>1, DivRound, BlockIs
      <3>4. ASSUME NEW w \in Writers, moved[w] > 0, moved[w] < Size
            PROVE  LastOf(w, off)'
        <4>1. LastOf(w, Size)
          BY <1>1, <3>4 DEF TailAt
        <4>2. ASSUME NEW x \in 1 .. L, Block(0 + x - 1) = Block(0 + L)
              PROVE  pipe[x] = Own(w)
          <5>1. Block(Size + x - 1) = Block(Size + L)
            BY <1>6, <3>3, <4>2
          <5>. QED
            BY <4>1, <5>1 DEF LastOf, Own
        <4>3. (0 + L) % Size = moved[w]
          BY <3>3, <4>1 DEF LastOf
        <4>. QED
          BY <1>0, <3>2, <4>2, <4>3 DEF LastOf, Own
      <3>5. (\A w \in Writers : moved[w] \in {0, Size}) => (0 + L) % Size = 0
        BY <1>1, <3>3 DEF TailAt
      <3>6. TailAt(off)'
        BY <1>0, <3>2, <3>4, <3>5 DEF TailAt
      <3>. QED
        BY <2>2, <3>6
    <2>. QED
      BY <2>3, <2>4
  <1>. QED
    BY <1>7, <1>8, <1>9, <1>10 DEF Whole

-----------------------------------------------------------------------------
(* What is promised *)

\* What has failed has failed for good.
LEMMA FailuresGrow ==
  ASSUME [Next]_vars
  PROVE  failures' \in {failures, failures + 1}
  <1>1. CASE MainStill
    BY <1>1 DEF MainStill, MakeFifo, CannotMakeFifo, OpenFifo, OpensMeet, CloseEnds, End,
       ForkFails, Reap
  <1>2. ASSUME NEW m \in Mains, NEW c \in Children, Fork(m, c)
        PROVE  failures' \in {failures, failures + 1}
    BY <1>2 DEF Fork
  <1>3. ASSUME NEW c \in Children, ChildStill(c)
        PROVE  failures' \in {failures, failures + 1}
    BY <1>3 DEF ChildStill, CloseOther, Wait, BrokenPipe, ReadNothing, CloseOwn, ChildFails
  <1>4. ASSUME NEW c \in Children, WriteToPipe(c) \/ ReadFromPipe(c) \/ Post(c)
        PROVE  failures' \in {failures, failures + 1}
    BY <1>4 DEF WriteToPipe, ReadFromPipe, Post
  <1>5. CASE UNCHANGED vars
    BY <1>5 DEF vars
  <1>. QED
    BY <1>1, <1>2, <1>3, <1>4, <1>5, Steps, Sides

LEMMA GoodBefore ==
  ASSUME Types, [Next]_vars, Good'
  PROVE  Good
  <1>1. program' = program /\ failures \in Nat
    BY SameProgram, TypesAre, ConstantsOK
  <1>. QED
    BY <1>1, FailuresGrow DEF Good

\* A step moves a part, or completes a message, or leaves all messages where they are.
LEMMA StillOrMoves ==
  ASSUME Inv, [Next]_vars, Good'
  PROVE  \/ /\ UNCHANGED <<pipe, moved, i, delivered>>
            /\ \A r \in Readers : data'[r] = data[r]
         \/ \E w \in Writers : WriteToPipe(w)
         \/ \E r \in Readers : ReadFromPipe(r)
         \/ \E c \in Children : Post(c)
  <1>. DEFINE Still == /\ UNCHANGED <<pipe, moved, i, delivered>>
                      /\ \A r \in Readers : data'[r] = data[r]
  <1>0. Types /\ MainInv /\ FifoInv /\ AttemptInv /\ Good
    BY GoodBefore DEF Inv
  <1>1. CASE MainStill \/ UNCHANGED vars
    BY <1>1 DEF MainStill, MakeFifo, CannotMakeFifo, OpenFifo, OpensMeet, CloseEnds, End,
       ForkFails, Reap, vars, children
  <1>2. ASSUME NEW m \in Mains, NEW c \in Children, Fork(m, c)
        PROVE  Still
    BY <1>0, <1>2, TypesAre, Sides DEF Fork
  <1>3. ASSUME NEW c \in Children, ChildStill(c)
        PROVE  Still
    <2>1. UNCHANGED <<pipe, i, data, delivered>>
      BY <1>3 DEF ChildStill, CloseOther, Wait, BrokenPipe, ReadNothing, CloseOwn, ChildFails
    <2>2. ReadNothing(c) => program # "attempt"
      <3>1. ReadNothing(c) => c \in Readers
        BY DEF ReadNothing
      <3>. QED
        BY <1>0, <3>1, PipeStaysOpen DEF Good
    <2>3. UNCHANGED moved
      BY <1>3, <2>2 DEF ChildStill, CloseOther, Wait, BrokenPipe, ReadNothing, CloseOwn,
         ChildFails
    <2>. QED
      BY <2>1, <2>3
  <1>. QED
    BY <1>1, <1>2, <1>3, Steps

LEMMA WholeStep ==
  ASSUME Inv, [Next]_vars, Types', Good'
  PROVE  Whole'
  <1>0. /\ Types /\ ChildInv /\ LockInv /\ Whole
        /\ BegunInv /\ StreamInv /\ HandInv /\ ReadInv
    BY GoodBefore DEF Inv, Whole
  <1>1. CASE /\ UNCHANGED <<pipe, moved, i, delivered>>
             /\ \A r \in Readers : data'[r] = data[r]
    BY <1>0, <1>1, WholeStill
  <1>2. ASSUME NEW w \in Writers, WriteToPipe(w)
        PROVE  Whole'
    BY <1>0, <1>2, WriteBegun, WriteStream, WriteHand, WriteRead DEF Whole
  <1>3. ASSUME NEW r \in Readers, ReadFromPipe(r)
        PROVE  Whole'
    BY <1>0, <1>3, TakeBegun, TakeStream, TakeHand, TakeRead DEF Whole
  <1>4. ASSUME NEW c \in Children, Post(c)
        PROVE  Whole'
    BY <1>0, <1>4, PostOfWriter, PostOfReader, Sides
  <1>. QED
    BY <1>1, <1>2, <1>3, <1>4, StillOrMoves

LEMMA InvStep == Inv /\ [Next]_vars => Inv'
  <1>. SUFFICES ASSUME Inv, [Next]_vars PROVE Inv'
    OBVIOUS
  <1>1. Types /\ MainInv /\ FifoInv /\ AttemptInv /\ ChildInv /\ LockInv
    BY DEF Inv
  <1>2. Types' /\ MainInv' /\ FifoInv' /\ AttemptInv' /\ ChildInv' /\ LockInv'
    BY <1>1, TypesStep, MainStepInv, FifoStep, AttemptStep, ChildStepInv, LockStep
  <1>3. Good' => Whole'
    BY <1>2, WholeStep
  <1>. QED
    BY <1>2, <1>3 DEF Inv

LEMMA InvHolds == Spec => []Inv
  BY InitInv, InvStep, PTL DEF Spec

\* The variables of the three programs keep their types: in particular a mutex is posted
\* once for each wait, and the pipe never holds more than it can.
THEOREM TypeCorrect == Spec => []TypeOK
  <1>1. Inv => TypeOK
    BY DEF Inv, Types
  <1>. QED
    BY <1>1, InvHolds, PTL

\* What a reader takes for a message is all of one message, given by no other reading and
\* later than those of its writer before it, for any number of writers, readers, messages
\* and parts, and any capacity of the pipe.
THEOREM MessagesAreWhole == Spec => []WholeMessages
  <1>1. Inv => WholeMessages
    <2>. SUFFICES ASSUME Inv, program # "attempt" \/ failures = 0
                  PROVE  /\ \A a \in Readings :
                               \E w \in Writers : \E n \in 1 .. Share(w) :
                                   Message(a) = [part \in Parts |-> <<w, n>>]
                         /\ \A a, b \in Readings : a # b => Message(a) # Message(b)
                         /\ \A a, b \in Readings : a[1] = b[1] /\ a[2] < b[2]
                                /\ Message(a)[1][1] = Message(b)[1][1]
                                    => Message(a)[1][2] < Message(b)[1][2]
      BY DEF WholeMessages
    <2>1. BegunInv /\ ReadInv
      BY DEF Inv, Good, Whole
    <2>2. ASSUME NEW a \in Readings
          PROVE  \E w \in Writers : \E n \in 1 .. Share(w) :
                     Message(a) = [part \in Parts |-> <<w, n>>]
      BY <2>1 DEF BegunInv, Begun
    <2>3. \A a, b \in Readings : a # b => Message(a) # Message(b)
      BY <2>1 DEF ReadInv, Given
    <2>4. \A a, b \in Readings : a[1] = b[1] /\ a[2] < b[2]
              /\ Message(a)[1][1] = Message(b)[1][1]
                  => Message(a)[1][2] < Message(b)[1][2]
      BY <2>1 DEF ReadInv, Given, Later
    <2>. QED
      BY <2>2, <2>3, <2>4
  <1>. QED
    BY <1>1, InvHolds, PTL

-----------------------------------------------------------------------------
(* The end *)

\* The children of a side, and their messages.
LEMMA SideCounts ==
  ASSUME NEW side \in {"writer", "reader"}
  PROVE  LET family == {side} \X (1 .. Count(side))
             share == MSG_COUNT \div Count(side)
         IN  /\ IsFiniteSet(family \X (1 .. share))
             /\ Cardinality(family \X (1 .. share)) = MSG_COUNT
  <1>. DEFINE n == Count(side)
              share == MSG_COUNT \div n
              family == {side} \X (1 .. n)
  <1>1. n \in Nat \ {0} /\ MSG_COUNT % n = 0 /\ MSG_COUNT \in Nat
    BY PipeAssumption, ConstantsOK DEF Count
  <1>2. share \in Nat /\ MSG_COUNT = n * share
    <2>1. \A k \in Nat \ {0} : MSG_COUNT % k = 0 =>
              MSG_COUNT \div k \in Nat /\ MSG_COUNT = k * (MSG_COUNT \div k)
      <3>. SUFFICES ASSUME NEW k \in Nat \ {0}, MSG_COUNT % k = 0
                    PROVE  MSG_COUNT \div k \in Nat /\ MSG_COUNT = k * (MSG_COUNT \div k)
        OBVIOUS
      <3>1. MSG_COUNT \in Nat
        BY <1>1
      <3>2. /\ MSG_COUNT \div k \in Nat
            /\ MSG_COUNT = k * (MSG_COUNT \div k) + (MSG_COUNT % k)
        BY <3>1, DivMod
      <3>3. k * (MSG_COUNT \div k) \in Int
        BY <3>2
      <3>. QED
        BY <3>2, <3>3
    <2>. HIDE DEF n
    <2>. QED
      BY <1>1, <2>1
  <1>3. IsFiniteSet(1 .. n) /\ Cardinality(1 .. n) = n
    BY <1>1, FS_Interval
  <1>4. IsFiniteSet(1 .. share) /\ Cardinality(1 .. share) = share
    BY <1>2, FS_Interval
  <1>5. IsFiniteSet({side}) /\ Cardinality({side}) = 1
    BY FS_Singleton
  <1>6. IsFiniteSet(family) /\ Cardinality(family) = n
    <2>1. IsFiniteSet(family) /\ Cardinality(family) = 1 * n
      BY <1>3, <1>5, FS_Product
    <2>. QED
      BY <1>1, <2>1
  <1>7. /\ IsFiniteSet(family \X (1 .. share))
        /\ Cardinality(family \X (1 .. share)) = n * share
    <2>. HIDE DEF family, share, n
    <2>. QED
      BY <1>4, <1>6, FS_Product
  <1>. QED
    BY <1>2, <1>7

\* When each reader has read its share, all of them have as many messages as there are.
LEMMA AllRead ==
  ASSUME Types, \A r \in Readers : Len(delivered[r]) = Share(r)
  PROVE  Cardinality(Readings) = MSG_COUNT /\ IsFiniteSet(Readings)
  <1>. DEFINE n == Count("reader")
              share == MSG_COUNT \div n
              family == {"reader"} \X (1 .. n)
  <1>1. Readers = family /\ \A r \in Readers : Share(r) = share
    BY DEF Readers, Count, Share
  <1>2. Readings = Readers \X (1 .. share)
    BY <1>1, ReadingsAre
  <1>. QED
    BY <1>1, <1>2, SideCounts

\* The main of the readers ends when each of them has read its share.
LEMMA EndOfReaders ==
  ASSUME Inv, NEW m \in Mains \ {"writer"}, mainPc[m] = "ended"
  PROVE  Good /\ ~ fifoExists /\ \A r \in Readers : Len(delivered[r]) = Share(r)
  <1>0. Types /\ MainInv /\ FifoInv /\ AttemptInv /\ ChildInv
    BY DEF Inv
  <1>1. Readers \subseteq Family(m) /\ (Locked => m = "parent" /\ Family(m) = Children)
        /\ (~ Locked => m = "reader" /\ program = "fifo")
    BY Sides DEF Mains, Family, Locked
  <1>2. \A c \in Family(m) : childPc[c] \in {"ended", "killed"}
    <2>1. Family(m) \subseteq reaped /\ \A c \in Family(m) \cap reaped : childPc[c] # "failed"
      BY <1>0 DEF MainInv
    <2>. QED
      BY <1>0, <2>1 DEF MainInv, Over
  <1>3. Good
    BY <1>0, <1>1, <1>2 DEF Good, AttemptInv, Locked
  <1>4. ~ fifoExists
    BY <1>0, <1>1 DEF FifoInv
  <1>5. \A r \in Readers : Len(delivered[r]) = Share(r)
    BY <1>0, <1>1, <1>2, Sides DEF ChildInv, Progress
  <1>. QED
    BY <1>3, <1>4, <1>5

\* When they have read as many messages as the writers write, they have read them all.
LEMMA AllGiven ==
  ASSUME Inv, Good, \A r \in Readers : Len(delivered[r]) = Share(r)
  PROVE  \A w \in Writers : \A k \in 1 .. Share(w) :
             \E a \in Readings : Given(a) = <<w, k>>
  <1>0. Types /\ BegunInv /\ ReadInv
    BY DEF Inv, Whole
  <1>. DEFINE n == Count("writer")
              share == MSG_COUNT \div n
              all == Writers \X (1 .. share)
              f == [a \in Readings |-> Given(a)]
  <1>1. Writers = {"writer"} \X (1 .. n) /\ \A w \in Writers : Share(w) = share
    BY DEF Writers, Count, Share
  <1>2. IsFiniteSet(all) /\ Cardinality(all) = MSG_COUNT
    BY <1>1, SideCounts
  <1>3. \A v : Begun(v) => v \in all
    BY <1>1 DEF Begun
  <1>4. f \in Injection(Readings, all)
    <2>1. \A a \in Readings : Given(a) \in all
      BY <1>0, <1>3 DEF BegunInv
    <2>2. \A a, b \in Readings : Given(a) = Given(b) => a = b
      BY <1>0 DEF ReadInv
    <2>. QED
      BY <2>1, <2>2 DEF Injection, IsInjective
  <1>5. f \in Surjection(Readings, all)
    BY <1>0, <1>2, <1>4, AllRead, FS_Injection
  <1>6. \A v \in all : \E a \in Readings : Given(a) = v
    BY <1>5 DEF Surjection
  <1>. QED
    BY <1>1, <1>6

\* So none is left in the pipe.
LEMMA NoneLeft ==
  ASSUME Inv, Good, \A r \in Readers : Len(delivered[r]) = Share(r)
  PROVE  pipe = << >>
  <1>0. Types /\ BegunInv /\ ReadInv
    BY DEF Inv, Whole
  <1>1. Len(pipe) = 0
    <2>. SUFFICES ASSUME Len(pipe) # 0 PROVE FALSE
      OBVIOUS
    <2>1. 1 \in 1 .. Len(pipe)
      BY <1>0, PipeIs
    <2>2. Begun(pipe[1])
      BY <1>0, <2>1 DEF BegunInv
    <2>3. PICK a \in Readings : Given(a) = pipe[1]
      BY <2>2, AllGiven DEF Begun
    <2>4. Later(Given(a), pipe[1])
      BY <1>0, <2>1 DEF ReadInv
    <2>. QED
      BY <1>0, <2>2, <2>3, <2>4, LaterDiffers
  <1>. QED
    BY <1>0, <1>1, EmptySeq, TypesAre

\* When the parent, or the consumer, ends without an error all the messages have been
\* read, each once, nothing is left in the pipe and no FIFO is in the file system.
THEOREM EndMeansDelivered == Spec => []AllDelivered
  <1>1. Inv => AllDelivered
    <2>. SUFFICES ASSUME Inv, NEW m \in Mains \ {"writer"}, mainPc[m] = "ended"
                  PROVE  Cardinality(Readings) = MSG_COUNT /\ pipe = << >> /\ ~ fifoExists
      BY DEF AllDelivered
    <2>. QED
      BY EndOfReaders, AllRead, NoneLeft DEF Inv
  <1>. QED
    BY <1>1, InvHolds, PTL
-----------------------------------------------------------------------------
(* No message is lost *)

\* A message is in the pipe, in the hands of a reader, or has been read.
Kept(v) ==
  \/ \E x \in 1 .. Len(pipe) : pipe[x] = v
  \/ \E r \in Readers : moved[r] > 0 /\ data[r][1] = v
  \/ \E a \in Readings : Given(a) = v

KeptInv == \A w \in Writers : \A n \in 1 .. Share(w) : Begun(<<w, n>>) => Kept(<<w, n>>)

LEMMA KeptNext ==
  ASSUME \A w \in Writers : \A n \in 1 .. Share(w) :
             BegunNext(<<w, n>>) => Kept(<<w, n>>)'
  PROVE  KeptInv'
  BY DEF KeptInv, Begun, BegunNext

\* A message begins when its first part is written.
LEMMA WriteBeginsOwn ==
  ASSUME Types, ChildInv, NEW w \in Writers, WriteToPipe(w), NEW v, BegunNext(v)
  PROVE  Begun(v) \/ v = Own(w)
  <1>1. PICK d \in Writers : \E n \in 1 .. Share(d) :
            v = <<d, n>> /\ (n <= i'[d] \/ (n = i'[d] + 1 /\ moved'[d] > 0))
    BY DEF BegunNext
  <1>2. i' = i /\ (d # w => moved'[d] = moved[d])
    BY WriteIs, Sides
  <1>. QED
    BY <1>1, <1>2 DEF Begun, Own

LEMMA PostBeginsNone ==
  ASSUME Types, ChildInv, NEW c \in Children, Post(c), NEW v, BegunNext(v)
  PROVE  Begun(v)
  <1>1. PICK d \in Writers : \E n \in 1 .. Share(d) :
            v = <<d, n>> /\ (n <= i'[d] \/ (n = i'[d] + 1 /\ moved'[d] > 0))
    BY DEF BegunNext
  <1>2. PICK n \in 1 .. Share(d) :
            v = <<d, n>> /\ (n <= i'[d] \/ (n = i'[d] + 1 /\ moved'[d] > 0))
    BY <1>1
  <1>3. n \in Nat /\ i[d] \in Nat /\ d \in Children
    BY <1>2, ShareIs, Sides, TypesAre
  <1>4. CASE d = c
    <2>1. i'[d] = i[d] + 1 /\ moved'[d] = 0 /\ moved[d] > 0
      BY <1>4, PostIs, SizeIs
    <2>2. n <= i[d] \/ n = i[d] + 1
      BY <1>2, <1>3, <2>1
    <2>. QED
      BY <1>2, <2>1, <2>2 DEF Begun
  <1>5. CASE d # c
    <2>1. i'[d] = i[d] /\ moved'[d] = moved[d]
      BY <1>3, <1>5, PostIs
    <2>. QED
      BY <1>2, <2>1 DEF Begun
  <1>. QED
    BY <1>4, <1>5

LEMMA KeptWrite ==
  ASSUME Types, ChildInv, [Next]_vars, KeptInv, NEW w \in Writers, WriteToPipe(w)
  PROVE  KeptInv'
  <1>. SUFFICES ASSUME NEW d \in Writers, NEW n \in 1 .. Share(d), BegunNext(<<d, n>>)
                PROVE  Kept(<<d, n>>)'
    BY KeptNext
  <1>. DEFINE v == <<d, n>>
  <1>1. Begun(v) \/ v = Own(w)
    BY WriteBeginsOwn
  <1>2. Len(pipe) \in Nat /\ Len(pipe') = Len(pipe) + 1
    BY WriteIs, PipeIs
  <1>3. CASE v = Own(w)
    <2>1. Len(pipe) + 1 \in 1 .. Len(pipe') /\ pipe'[Len(pipe) + 1] = v
      BY <1>2, <1>3, WriteIs
    <2>. QED
      BY <2>1 DEF Kept
  <1>4. CASE Begun(v)
    <2>1. Kept(v)
      BY <1>4 DEF KeptInv
    <2>2. ASSUME NEW x \in 1 .. Len(pipe), pipe[x] = v PROVE Kept(v)'
      <3>1. x \in 1 .. Len(pipe') /\ pipe'[x] = v
        BY <1>2, <2>2, WriteIs
      <3>. QED
        BY <3>1 DEF Kept
    <2>3. ASSUME NEW r \in Readers, moved[r] > 0, data[r][1] = v PROVE Kept(v)'
      <3>1. moved'[r] > 0 /\ data'[r][1] = v
        BY <2>3, WriteReads
      <3>. QED
        BY <3>1 DEF Kept
    <2>4. ASSUME NEW a \in Readings, Given(a) = v PROVE Kept(v)'
      <3>1. a \in Readings' /\ Given(a)' = v
        BY <2>4, WriteReads
      <3>. QED
        BY <3>1 DEF Kept
    <2>. QED
      BY <2>1, <2>2, <2>3, <2>4 DEF Kept
  <1>. QED
    BY <1>1, <1>3, <1>4

\* The first part of a message takes it from the pipe to the reader.
LEMMA KeptTake ==
  ASSUME Types, LockInv, StreamInv, HandInv, KeptInv, [Next]_vars,
         NEW r \in Readers, ReadFromPipe(r)
  PROVE  KeptInv'
  <1>. SUFFICES ASSUME NEW d \in Writers, NEW n \in 1 .. Share(d), BegunNext(<<d, n>>)
                PROVE  Kept(<<d, n>>)'
    BY KeptNext
  <1>. DEFINE v == <<d, n>>
  <1>1. Begun(v)
    BY TakeReads DEF BegunNext, Begun
  <1>2. Kept(v)
    BY <1>1 DEF KeptInv
  <1>3. /\ Len(pipe) \in Nat /\ Len(pipe') = Len(pipe) - 1 /\ moved[r] \in 0 .. Size - 1
        /\ moved'[r] = moved[r] + 1 /\ Size \in Nat /\ 1 \in Parts
    BY TakeIs, PipeIs, SizeIs
  <1>4. ASSUME NEW x \in 1 .. Len(pipe), pipe[x] = v PROVE Kept(v)'
    <2>1. CASE x > 1
      <3>1. x - 1 \in 1 .. Len(pipe) - 1 /\ (x - 1) + 1 = x
        BY <1>3, <2>1
      <3>2. x - 1 \in 1 .. Len(pipe') /\ pipe'[x - 1] = v
        BY <1>3, <1>4, <3>1, TakeIs
      <3>. QED
        BY <3>2 DEF Kept
    <2>2. CASE x = 1
      <3>1. moved'[r] > 0 /\ data'[r][1] = v
        BY <1>3, <1>4, <2>2, TakesHead
      <3>. QED
        BY <3>1 DEF Kept
    <2>. QED
      BY <2>1, <2>2
  <1>5. ASSUME NEW s \in Readers, moved[s] > 0, data[s][1] = v PROVE Kept(v)'
    <2>1. moved'[s] > 0 /\ data'[s][1] = v
      <3>1. CASE s = r
        BY <1>3, <1>5, <3>1, TakeIs
      <3>2. CASE s # r
        BY <1>5, <3>2, TakeIs, Sides
      <3>. QED
        BY <3>1, <3>2
    <2>. QED
      BY <2>1 DEF Kept
  <1>6. ASSUME NEW a \in Readings, Given(a) = v PROVE Kept(v)'
    <2>1. a \in Readings' /\ Given(a)' = v
      BY <1>6, TakeReads
    <2>. QED
      BY <2>1 DEF Kept
  <1>. QED
    BY <1>2, <1>4, <1>5, <1>6 DEF Kept

\* The last part of a message makes a reading of it.
LEMMA KeptPost ==
  ASSUME Types, ChildInv, KeptInv, Types', NEW c \in Children, Post(c)
  PROVE  KeptInv'
  <1>. SUFFICES ASSUME NEW d \in Writers, NEW n \in 1 .. Share(d), BegunNext(<<d, n>>)
                PROVE  Kept(<<d, n>>)'
    BY KeptNext
  <1>. DEFINE v == <<d, n>>
  <1>. PICK new : new = <<c, Len(delivered[c]) + 1>>
    OBVIOUS
  <1>1. Kept(v)
    BY PostBeginsNone DEF KeptInv
  <1>2. pipe' = pipe /\ \A s \in Readers : data'[s] = data[s]
    BY PostIs
  <1>3. \A s \in Readers : s # c => moved'[s] = moved[s]
    BY PostIs, Sides
  <1>4. ASSUME NEW a \in Readings PROVE a \in Readings' /\ Given(a)' = Given(a)
    <2>1. CASE c \in Writers
      BY <2>1, PostIs DEF Readings, Given, Message
    <2>2. CASE c \in Readers
      BY <2>2, NewReading
    <2>. QED
      BY <2>1, <2>2, Sides
  <1>5. ASSUME c \in Readers, data[c][1] = v PROVE Kept(v)'
    <2>1. new \in Readings' /\ Given(new)' = v
      BY <1>5, NewReading
    <2>. QED
      BY <2>1 DEF Kept
  <1>. QED
    BY <1>1, <1>2, <1>3, <1>4, <1>5 DEF Kept

LEMMA KeptStep ==
  ASSUME Inv, KeptInv, [Next]_vars, Types', Good'
  PROVE  KeptInv'
  <1>0. /\ Types /\ ChildInv /\ LockInv /\ StreamInv /\ HandInv
    BY GoodBefore DEF Inv, Whole
  <1>1. CASE /\ UNCHANGED <<pipe, moved, i, delivered>>
             /\ \A r \in Readers : data'[r] = data[r]
    <2>1. \A w \in Writers : \A n \in 1 .. Share(w) : BegunNext(<<w, n>>) => Kept(<<w, n>>)
      BY <1>1 DEF KeptInv, Begun, BegunNext
    <2>2. Readings' = Readings /\ \A a \in Readings : Given(a)' = Given(a)
      BY <1>1 DEF Readings, Given, Message
    <2>3. ASSUME NEW v, Kept(v) PROVE Kept(v)'
      BY <1>1, <2>2, <2>3 DEF Kept
    <2>. QED
      BY <2>1, <2>3, KeptNext
  <1>2. ASSUME NEW w \in Writers, WriteToPipe(w)
        PROVE  KeptInv'
    BY <1>0, <1>2, KeptWrite
  <1>3. ASSUME NEW r \in Readers, ReadFromPipe(r)
        PROVE  KeptInv'
    BY <1>0, <1>3, KeptTake
  <1>4. ASSUME NEW c \in Children, Post(c)
        PROVE  KeptInv'
    BY <1>0, <1>4, KeptPost
  <1>. QED
    BY <1>1, <1>2, <1>3, <1>4, StillOrMoves

-----------------------------------------------------------------------------
(* Who is still there *)

\* No main process of the FIFO forks before both have opened it.
OpenInv ==
  program = "fifo" =>
      \/ forked = {} /\ \A m \in Mains : mainPc[m] \in {"start", "opening", "failed"}
      \/ \A m \in Mains : mainPc[m] \notin {"start", "opening"}

\* A main process that waits has forked all its children and not yet reaped them all; the
\* children of the FIFO have no end of the pipe to close and no mutex to wait for.
ForkInv ==
  /\ \A m \in Mains :
        /\ mainPc[m] \in {"close", "closeWriter", "wait", "end", "ended"} =>
              Family(m) \subseteq forked
        /\ mainPc[m] = "fork" => ~ (Family(m) \subseteq forked)
        /\ mainPc[m] \in {"close", "closeWriter", "wait"} => ~ (Family(m) \subseteq reaped)
        /\ mainPc[m] \in {"close", "closeWriter"} => program = "pipe"
  /\ program = "fifo" => \A c \in Children : childPc[c] \notin {"start", "wait"}

\* Only a call that fails makes a child fail: no reader finds that the pipe has ended, and
\* no writer that it is broken, while they still have messages to move.
NoFailure ==
  failures = 0 =>
      /\ \A c \in Children : childPc[c] \notin {"failed", "killed"}
      /\ \A m \in Mains : mainPc[m] = "failed" =>
            program = "fifo" /\ forked = {}
            /\ \A k \in Mains : mainPc[k] \in {"start", "opening", "failed"}

\* A mutex that is taken is in the hands of a child that moves a message.
HeldInv ==
  Locked /\ failures = 0 =>
      \A side \in {"writer", "reader"} : mutex[side] = 0 =>
          \E c \in Children : c[1] = side /\ childPc[c] = "move"

LiveInv == /\ Inv /\ (Good => KeptInv)
           /\ OpenInv /\ ForkInv /\ NoFailure /\ HeldInv

\* Each main process has children, and no other main has them.
LEMMA Families ==
  /\ \A m \in Mains : Family(m) # {} /\ Family(m) \subseteq Children
  /\ \A m, k \in Mains : m # k => Family(m) \cap Family(k) = {}
  /\ Locked => Mains = {"parent"} /\ Family("parent") = Children
  /\ ~ Locked => Mains = {"writer", "reader"} /\ Family("writer") = Writers
                 /\ Family("reader") = Readers
  <1>1. <<"writer", 1>> \in Writers /\ <<"reader", 1>> \in Readers
    BY ConstantsOK DEF Writers, Readers
  <1>. QED
    BY <1>1, Sides DEF Mains, Family, Locked

LEMMA LiveInit == Init => LiveInv
  <1>. SUFFICES ASSUME Init PROVE LiveInv
    OBVIOUS
  <1>1. KeptInv
    BY Sides, ShareIs DEF Init, KeptInv, Begun
  <1>2. OpenInv
    BY Families DEF Init, OpenInv, Locked, Mains
  <1>3. ForkInv
    BY Families DEF Init, ForkInv, Locked
  <1>4. NoFailure
    BY DEF Init, NoFailure, Locked
  <1>5. HeldInv
    BY DEF Init, HeldInv
  <1>. QED
    BY <1>1, <1>2, <1>3, <1>4, <1>5, InitInv DEF LiveInv

LEMMA OpenStep ==
  ASSUME Types, FifoInv, OpenInv, [Next]_vars
  PROVE  OpenInv'
  <1>. USE TypesAre
  <1>0. program' = program /\ Mains' = Mains
    BY SameProgram
  <1>. SUFFICES ASSUME program = "fifo" PROVE OpenInv'
    BY <1>0 DEF OpenInv
  <1>1. Mains = {"writer", "reader"}
    BY DEF Mains
  <1>2. CASE UNCHANGED <<mainPc, forked>>
    BY <1>0, <1>2 DEF OpenInv
  <1>3. ASSUME NEW c \in Children, ChildStill(c) \/ Post(c) \/ WriteToPipe(c) \/ ReadFromPipe(c)
        PROVE  OpenInv'
    BY <1>2, <1>3 DEF ChildStill, CloseOther, Wait, BrokenPipe, ReadNothing, CloseOwn,
       ChildFails, Post, WriteToPipe, ReadFromPipe, mains
  <1>4. ASSUME NEW m \in Mains, mainPc[m] \in {"fork", "wait", "end", "close"},
               mainPc' \in {[mainPc EXCEPT ![m] = to] : to \in MainSteps \ {"start", "opening"}}
        PROVE  OpenInv'
    <2>1. \A k \in Mains : mainPc[k] \notin {"start", "opening"}
      BY <1>4 DEF OpenInv
    <2>2. \A k \in Mains : mainPc'[k] \notin {"start", "opening"}
      BY <1>4, <2>1
    <2>. QED
      BY <1>0, <2>2 DEF OpenInv
  <1>5. ASSUME NEW m \in Mains, NEW c \in Children, Fork(m, c) \/ Reap(m, c)
        PROVE  OpenInv'
    <2>1. /\ mainPc[m] \in {"fork", "wait"}
          /\ \E to \in {"fork", "close", "wait", "failed", "end"} :
                 mainPc' = [mainPc EXCEPT ![m] = to]
      BY <1>5 DEF Fork, Reap, MainStep
    <2>. QED
      BY <1>4, <2>1 DEF MainSteps
  <1>6. ASSUME NEW m \in Mains, ForkFails(m) \/ End(m)
        PROVE  OpenInv'
    BY <1>4, <1>6 DEF ForkFails, End, MainStep, MainSteps
  <1>7. ~ CloseEnds
    BY <1>1 DEF CloseEnds, MainStep
  <1>8. CASE MakeFifo \/ CannotMakeFifo \/ OpenFifo
    <2>1. /\ UNCHANGED forked
          /\ \E m \in Mains : \E to \in {"opening", "failed"} :
                 mainPc[m] = "start" /\ mainPc' = [mainPc EXCEPT ![m] = to]
      BY <1>8 DEF MakeFifo, CannotMakeFifo, OpenFifo, MainStep
    <2>2. forked = {} /\ \A m \in Mains : mainPc[m] \in {"start", "opening", "failed"}
      BY <2>1 DEF OpenInv
    <2>. QED
      BY <1>0, <2>1, <2>2 DEF OpenInv
  <1>9. CASE OpensMeet
    BY <1>0, <1>9 DEF OpensMeet, OpenInv
  <1>10. CASE UNCHANGED vars
    BY <1>2, <1>10 DEF vars, mains
  <1>. QED
    BY <1>3, <1>5, <1>6, <1>7, <1>8, <1>9, <1>10, Steps, Sides DEF MainStill

LEMMA ForkStep ==
  ASSUME Types, FifoInv, OpenInv, ForkInv, [Next]_vars
  PROVE  ForkInv'
  <1>. USE TypesAre
  <1>0. program' = program /\ Mains' = Mains /\ \A m : Family(m)' = Family(m)
    BY SameProgram DEF Family
  <1>1. ASSUME UNCHANGED mains,
               program = "fifo" => \A c \in Children : childPc'[c] \notin {"start", "wait"}
        PROVE  ForkInv'
    BY <1>0, <1>1 DEF ForkInv, mains
  <1>2. ASSUME NEW c \in Children, ChildStill(c) \/ Post(c) \/ WriteToPipe(c) \/ ReadFromPipe(c)
        PROVE  ForkInv'
    <2>1. UNCHANGED mains
      BY <1>2 DEF ChildStill, CloseOther, Wait, BrokenPipe, ReadNothing, CloseOwn,
         ChildFails, Post, WriteToPipe, ReadFromPipe
    <2>2. \/ UNCHANGED childPc
          \/ \E to \in {"move", "ended", "failed", "killed", "close"} :
                 childPc' = [childPc EXCEPT ![c] = to]
          \/ childPc[c] = "start"
          \/ Locked
      BY <1>2 DEF ChildStill, CloseOther, Wait, BrokenPipe, ReadNothing, CloseOwn,
         ChildFails, Post, WriteToPipe, ReadFromPipe, ChildStep
    <2>3. program = "fifo" => \A d \in Children : childPc'[d] \notin {"start", "wait"}
      BY <2>2 DEF ForkInv, Locked
    <2>. QED
      BY <1>1, <2>1, <2>3
  <1>3. ASSUME NEW m \in Mains, NEW c \in Children, Fork(m, c)
        PROVE  ForkInv'
    <2>1. /\ forked' = forked \cup {c} /\ reaped' = reaped /\ c \in Family(m) \ forked
          /\ childPc' = [childPc EXCEPT ![c] = IF Locked THEN "start" ELSE "move"]
          /\ mainPc' = [mainPc EXCEPT ![m] =
                 IF Family(m) \ (forked \cup {c}) # {} THEN "fork"
                 ELSE IF program = "pipe" THEN "close" ELSE "wait"]
      BY <1>3 DEF Fork, MainStep
    <2>2. c \notin reaped
      BY <2>1
    <2>3. ASSUME NEW k \in Mains
          PROVE  /\ mainPc'[k] \in {"close", "closeWriter", "wait", "end", "ended"} =>
                       Family(k) \subseteq forked'
                 /\ mainPc'[k] = "fork" => ~ (Family(k) \subseteq forked')
                 /\ mainPc'[k] \in {"close", "closeWriter", "wait"} =>
                       ~ (Family(k) \subseteq reaped')
                 /\ mainPc'[k] \in {"close", "closeWriter"} => program = "pipe"
      <3>1. CASE k = m
        BY <2>1, <2>2, <3>1
      <3>2. CASE k # m
        <4>1. mainPc'[k] = mainPc[k] /\ c \notin Family(k)
          BY <2>1, <3>2, Families
        <4>. QED
          BY <2>1, <4>1 DEF ForkInv
      <3>. QED
        BY <3>1, <3>2
    <2>4. program = "fifo" => \A d \in Children : childPc'[d] \notin {"start", "wait"}
      BY <2>1 DEF ForkInv, Locked
    <2>. QED
      BY <1>0, <2>3, <2>4 DEF ForkInv
  <1>4. ASSUME NEW m \in Mains, NEW c \in Children, Reap(m, c)
        PROVE  ForkInv'
    <2>1. /\ c \in Family(m) /\ reaped' = reaped \cup {c}
          /\ UNCHANGED <<forked, childPc>> /\ mainPc[m] = "wait"
          /\ mainPc' = [mainPc EXCEPT ![m] =
                 IF childPc[c] = "failed" THEN "failed"
                 ELSE IF Family(m) \subseteq reaped' THEN "end" ELSE "wait"]
      BY <1>4 DEF Reap, MainStep, children
    <2>2. ASSUME NEW k \in Mains
          PROVE  /\ mainPc'[k] \in {"close", "closeWriter", "wait", "end", "ended"} =>
                       Family(k) \subseteq forked'
                 /\ mainPc'[k] = "fork" => ~ (Family(k) \subseteq forked')
                 /\ mainPc'[k] \in {"close", "closeWriter", "wait"} =>
                       ~ (Family(k) \subseteq reaped')
                 /\ mainPc'[k] \in {"close", "closeWriter"} => program = "pipe"
      <3>1. CASE k = m
        BY <2>1, <3>1 DEF ForkInv
      <3>2. CASE k # m
        <4>1. mainPc'[k] = mainPc[k] /\ c \notin Family(k)
          BY <2>1, <3>2, Families
        <4>. QED
          BY <2>1, <4>1 DEF ForkInv
      <3>. QED
        BY <3>1, <3>2
    <2>. QED
      BY <1>0, <2>1, <2>2 DEF ForkInv
  <1>5. ASSUME NEW m \in Mains, NEW to \in {"opening", "failed", "ended"},
               UNCHANGED <<forked, reaped, childPc>>, mainPc' = [mainPc EXCEPT ![m] = to],
               to = "ended" => mainPc[m] = "end"
        PROVE  ForkInv'
    BY <1>0, <1>5 DEF ForkInv
  <1>6. ASSUME NEW m \in Mains, ForkFails(m) \/ End(m)
        PROVE  ForkInv'
    BY <1>5, <1>6 DEF ForkFails, End, MainStep, children
  <1>7. CASE MakeFifo \/ CannotMakeFifo \/ OpenFifo
    <2>1. /\ UNCHANGED <<forked, reaped, childPc>>
          /\ \E m \in Mains : \E to \in {"opening", "failed"} :
                 mainPc' = [mainPc EXCEPT ![m] = to]
      BY <1>7 DEF MakeFifo, CannotMakeFifo, OpenFifo, MainStep, children
    <2>. QED
      BY <1>5, <2>1
  <1>8. CASE OpensMeet
    <2>1. /\ UNCHANGED <<forked, reaped, childPc>>
          /\ \A m \in Mains : mainPc[m] = "opening" /\ mainPc'[m] = "fork"
      BY <1>8 DEF OpensMeet, children
    <2>2. program = "fifo"
      BY <2>1, Families DEF FifoInv, Locked
    <2>3. forked = {}
      BY <2>1, <2>2, Families DEF OpenInv, Locked
    <2>. QED
      BY <1>0, <2>1, <2>2, <2>3, Families DEF ForkInv
  <1>9. CASE CloseEnds
    <2>1. /\ UNCHANGED <<forked, reaped, childPc>> /\ "parent" \in Mains
          /\ mainPc["parent"] \in {"close", "closeWriter"}
          /\ \E to \in {"closeWriter", "wait"} :
                mainPc' = [mainPc EXCEPT !["parent"] = to]
      BY <1>9 DEF CloseEnds, MainStep, children
    <2>. QED
      BY <1>0, <2>1 DEF ForkInv
  <1>10. CASE UNCHANGED vars
    BY <1>1, <1>10 DEF vars, mains, children, ForkInv
  <1>. QED
    BY <1>2, <1>3, <1>4, <1>6, <1>7, <1>8, <1>9, <1>10, Steps, Sides DEF MainStill

\* A writer that still has parts to write is not alone: some reader has not read all its
\* messages, for the readers together read as many as there are.
LEMMA StrandedWriter ==
  ASSUME Inv, Good, NEW w \in Writers, childPc[w] = "move", moved[w] < Size
  PROVE  \E r \in Readers : childPc[r] # "ended"
  <1>. SUFFICES ASSUME \A r \in Readers : childPc[r] = "ended" PROVE FALSE
    OBVIOUS
  <1>0. Types /\ ChildInv /\ StreamInv /\ BegunInv
    BY DEF Inv, Whole
  <1>1. \A r \in Readers : Len(delivered[r]) = Share(r) /\ ~ (moved[r] > 0)
    BY <1>0, Sides DEF ChildInv, Progress
  <1>2. i[w] + 1 \in 1 .. Share(w) /\ i[w] \in Nat /\ moved[w] \in 0 .. Size
        /\ Size \in Nat \ {0}
    BY <1>0, Sides, ShareIs, SizeIs, TypesAre DEF ChildInv, Progress
  <1>3. PICK a \in Readings : Given(a) = <<w, i[w] + 1>>
    BY <1>1, <1>2, AllGiven
  <1>4. Begun(<<w, i[w] + 1>>)
    BY <1>0, <1>3 DEF BegunInv
  <1>5. moved[w] > 0
    BY <1>2, <1>4 DEF Begun
  <1>6. Len(pipe) = 0
    BY <1>1, NoneLeft
  <1>7. \A r \in Readers : moved[r] = 0
    BY <1>0, <1>1, TypesAre, Sides, SizeIs
  <1>8. TailAt(0)
    BY <1>0, <1>2, <1>7 DEF StreamInv, Offset
  <1>9. 0 % Size = moved[w]
    BY <1>2, <1>5, <1>6, <1>8 DEF TailAt, LastOf
  <1>. QED
    BY <1>2, <1>5, <1>9, DivFirst

\* The messages that have been read, and those that the readers have in hand: the place in
\* the work of a reader where a message is.
PlaceOf(s, k, v) ==
  \/ k \in 1 .. Len(delivered[s]) /\ Given(<<s, k>>) = v
  \/ k = i[s] + 1 /\ moved[s] > 0 /\ data[s][1] = v

\* A reader that still has parts to read finds some in the pipe, or some writer has not
\* written all its messages.
LEMMA StarvedReader ==
  ASSUME Inv, Good, KeptInv, NEW r \in Readers, childPc[r] = "move", moved[r] < Size,
         pipe = << >>
  PROVE  \E w \in Writers : childPc[w] # "ended"
  <1>. SUFFICES ASSUME \A w \in Writers : childPc[w] = "ended" PROVE FALSE
    OBVIOUS
  <1>. DEFINE ws == MSG_COUNT \div Count("writer")
              rs == MSG_COUNT \div Count("reader")
              all == Writers \X (1 .. ws)
              slots == Readers \X (1 .. rs)
              own == <<r, i[r] + 1>>
              Place(v) == CHOOSE p \in slots \ {own} : PlaceOf(p[1], p[2], v)
              f == [v \in all |-> Place(v)]
  <1>0. Types /\ ChildInv /\ LockInv /\ StreamInv /\ BegunInv
    BY DEF Inv, Whole
  <1>1. /\ Writers = {"writer"} \X (1 .. Count("writer"))
        /\ Readers = {"reader"} \X (1 .. Count("reader"))
        /\ \A w \in Writers : Share(w) = ws
        /\ \A s \in Readers : Share(s) = rs
    BY DEF Writers, Readers, Count, Share
  <1>2. /\ IsFiniteSet(all) /\ Cardinality(all) = MSG_COUNT
        /\ IsFiniteSet(slots) /\ Cardinality(slots) = MSG_COUNT
    BY <1>1, SideCounts
  <1>3. \A w \in Writers : i[w] = Share(w) /\ ~ (moved[w] > 0)
    BY <1>0, Sides DEF ChildInv, Progress
  <1>4. \A w \in Writers : moved[w] = 0
    BY <1>0, <1>3, TypesAre, Sides, SizeIs
  <1>5. moved[r] = 0
    <2>1. TailAt(moved[r])
      BY <1>0, StreamOf
    <2>2. moved[r] \in 0 .. Size /\ Size \in Nat \ {0} /\ Len(pipe) = 0
      BY <1>0, TypesAre, Sides, SizeIs
    <2>3. (moved[r] + Len(pipe)) % Size = 0
      BY <1>4, <2>1 DEF TailAt
    <2>4. moved[r] % Size = 0 /\ moved[r] \in Nat
      BY <2>2, <2>3
    <2>. QED
      BY <2>2, <2>4, DivFirst
  <1>6. \A s \in Readers : /\ i[s] \in Nat /\ Share(s) \in Nat /\ Len(delivered[s]) = i[s]
                           /\ i[s] <= Share(s) /\ (moved[s] > 0 => i[s] < Share(s))
    BY <1>0, TypesAre, Sides, ShareIs DEF ChildInv, Progress
  <1>7. i[r] < Share(r)
    BY <1>0, Sides DEF ChildInv, Progress
  <1>8. own \in slots
    BY <1>1, <1>6, <1>7
  <1>9. ASSUME NEW v \in all
        PROVE  \E p \in slots \ {own} : PlaceOf(p[1], p[2], v)
    <2>1. PICK w \in Writers, n \in 1 .. ws : v = <<w, n>>
      OBVIOUS
    <2>2. Kept(v)
      <3>1. n \in 1 .. Share(w) /\ n <= i[w]
        <4>1. Share(w) = ws /\ i[w] = Share(w)
          BY <1>1, <1>3
        <4>. HIDE DEF ws
        <4>. QED
          BY <4>1
      <3>2. Begun(v)
        BY <2>1, <3>1 DEF Begun
      <3>. QED
        BY <2>1, <3>1, <3>2 DEF KeptInv
    <2>3. ASSUME NEW s \in Readers, moved[s] > 0, data[s][1] = v
          PROVE  \E p \in slots \ {own} : PlaceOf(p[1], p[2], v)
      <3>1. <<s, i[s] + 1>> \in slots /\ s # r
        BY <1>1, <1>5, <1>6, <2>3
      <3>2. PlaceOf(s, i[s] + 1, v)
        BY <2>3 DEF PlaceOf
      <3>. QED
        BY <3>1, <3>2
    <2>4. ASSUME NEW a \in Readings, Given(a) = v
          PROVE  \E p \in slots \ {own} : PlaceOf(p[1], p[2], v)
      <3>1. PICK s \in Readers : \E k \in 1 .. Len(delivered[s]) : a = <<s, k>>
        BY <1>0, ReadingsAre
      <3>2. PICK k \in 1 .. Len(delivered[s]) : a = <<s, k>>
        BY <3>1
      <3>3. <<s, k>> \in slots /\ <<s, k>> # own
        BY <1>1, <1>6, <3>2
      <3>4. PlaceOf(s, k, v)
        BY <2>4, <3>2 DEF PlaceOf
      <3>. QED
        BY <3>3, <3>4
    <2>5. pipe = << >> => Len(pipe) = 0
      BY EmptySeq
    <2>. QED
      BY <2>2, <2>3, <2>4, <2>5 DEF Kept
  <1>10. f \in [all -> slots \ {own}] /\ \A v \in all : PlaceOf(f[v][1], f[v][2], v)
    BY <1>9
  <1>11. \A u, v \in all : f[u] = f[v] => u = v
    <2>. SUFFICES ASSUME NEW u \in all, NEW v \in all, f[u] = f[v] PROVE u = v
      OBVIOUS
    <2>. HIDE DEF f, own, rs, all
    <2>1. f[u] \in Readers \X (1 .. rs)
      BY <1>10
    <2>. PICK s \in Readers, k \in 1 .. rs : f[u] = <<s, k>>
      BY <2>1
    <2>2. PlaceOf(s, k, u) /\ PlaceOf(s, k, v)
      <3>1. PlaceOf(f[u][1], f[u][2], u) /\ PlaceOf(f[v][1], f[v][2], v)
        BY <1>10
      <3>2. f[u][1] = s /\ f[u][2] = k /\ f[v][1] = s /\ f[v][2] = k
        OBVIOUS
      <3>. QED
        BY <3>1, <3>2
    <2>. QED
      BY <1>6, <2>2 DEF PlaceOf
  <1>12. IsFiniteSet(slots \ {own}) /\ Cardinality(slots \ {own}) = MSG_COUNT - 1
    <2>. HIDE DEF slots, own
    <2>. QED
      BY <1>2, <1>8, FS_RemoveElement
  <1>13. f \in Injection(all, slots \ {own})
    BY <1>10, <1>11 DEF Injection, IsInjective
  <1>14. MSG_COUNT <= MSG_COUNT - 1
    BY <1>2, <1>12, <1>13, FS_Injection
  <1>. QED
    BY <1>14, ConstantsOK

\* While nothing has failed and a child moves a message, an end of the pipe is closed only
\* when all the children of its side have ended.
LEMMA ClosedEnd ==
  ASSUME Types, MainInv, FifoInv, OpenInv, ForkInv, NoFailure, failures = 0,
         NEW side \in {"writer", "reader"}, ~ Holds(side),
         NEW c \in Children, childPc[c] # "none"
  PROVE  \A d \in Children : d[1] = side => childPc[d] = "ended"
  <1>. DEFINE m == IF Locked THEN "parent" ELSE side
  <1>1. m \in Mains /\ \A d \in Children : d[1] = side => d \in Family(m)
    BY Families, Sides
  <1>2. forked # {}
    BY DEF MainInv
  <1>3. mainPc[m] \in MainSteps /\ mainPc[m] \notin {"start", "opening", "failed"}
    <2>1. mainPc[m] # "failed"
      BY <1>1, <1>2 DEF NoFailure
    <2>2. mainPc[m] \notin {"start", "opening"}
      BY <1>1, <1>2 DEF FifoInv, OpenInv, Locked
    <2>. QED
      BY <1>1, <2>1, <2>2, TypesAre
  <1>4. mainPc[m] \notin {"fork", "close"}
    BY <1>1 DEF Holds, MainHolds
  <1>5. Family(m) \subseteq forked
    BY <1>1, <1>3, <1>4 DEF ForkInv, MainSteps
  <1>6. ASSUME NEW d \in Children, d[1] = side
        PROVE  childPc[d] = "ended"
    <2>1. Over(d)
      BY <1>6 DEF Holds, ChildHolds
    <2>2. childPc[d] # "none"
      BY <1>1, <1>5, <1>6 DEF MainInv
    <2>3. childPc[d] \notin {"failed", "killed"}
      BY DEF NoFailure
    <2>. QED
      BY <2>1, <2>2, <2>3 DEF Over
  <1>. QED
    BY <1>6

LEMMA NoneBreaks ==
  ASSUME LiveInv, failures = 0, NEW c \in Children
  PROVE  ~ BrokenPipe(c) /\ ~ ReadNothing(c)
  <1>0. /\ Inv /\ Types /\ MainInv /\ FifoInv /\ Good /\ KeptInv /\ OpenInv /\ ForkInv
        /\ NoFailure /\ Cardinality(Parts) = Size
    BY SizeIs DEF LiveInv, Inv, Good
  <1>1. ASSUME BrokenPipe(c) PROVE FALSE
    <2>1. c \in Writers /\ childPc[c] = "move" /\ moved[c] < Size /\ ~ Holds("reader")
      BY <1>0, <1>1 DEF BrokenPipe, ChildStep
    <2>2. \A r \in Readers : childPc[r] = "ended"
      BY <1>0, <2>1, ClosedEnd, Sides
    <2>. QED
      BY <1>0, <2>1, <2>2, StrandedWriter
  <1>2. ASSUME ReadNothing(c) PROVE FALSE
    <2>1. /\ c \in Readers /\ childPc[c] = "move" /\ moved[c] < Size /\ ~ Holds("writer")
          /\ pipe = << >>
      BY <1>0, <1>2 DEF ReadNothing
    <2>2. \A w \in Writers : childPc[w] = "ended"
      BY <1>0, <2>1, ClosedEnd, Sides
    <2>. QED
      BY <1>0, <2>1, <2>2, StarvedReader
  <1>. QED
    BY <1>1, <1>2

LEMMA NoFailureStep ==
  ASSUME LiveInv, [Next]_vars
  PROVE  NoFailure'
  <1>. USE TypesAre
  <1>0. /\ Types /\ FifoInv /\ OpenInv /\ failures \in Nat
        /\ Mains' = Mains /\ program' = program
    BY SameProgram, ConstantsOK DEF LiveInv, Inv
  <1>. SUFFICES ASSUME failures' = 0 PROVE NoFailure'
    BY DEF NoFailure
  <1>1. failures = 0
    BY <1>0, FailuresGrow
  <1>2. /\ \A c \in Children : childPc[c] \notin {"failed", "killed"}
        /\ \A m \in Mains : mainPc[m] = "failed" =>
              program = "fifo" /\ forked = {}
              /\ \A k \in Mains : mainPc[k] \in {"start", "opening", "failed"}
    BY <1>1 DEF LiveInv, NoFailure
  <1>3. \A c \in Children : ~ ChildFails(c)
    BY <1>1 DEF ChildFails
  <1>4. \A m \in Mains : ~ ForkFails(m)
    BY <1>1 DEF ForkFails
  <1>5. ASSUME NEW c \in Children, ChildStill(c) \/ Post(c) \/ WriteToPipe(c) \/ ReadFromPipe(c)
        PROVE  NoFailure'
    <2>1. CloseOther(c) \/ Wait(c) \/ CloseOwn(c) \/ Post(c) \/ WriteToPipe(c) \/ ReadFromPipe(c)
      BY <1>1, <1>3, <1>5, NoneBreaks DEF ChildStill
    <2>2. /\ UNCHANGED mains
          /\ \/ UNCHANGED childPc
             \/ \E to \in {"wait", "move", "close", "ended"} :
                    childPc' = [childPc EXCEPT ![c] = to]
      BY <2>1 DEF CloseOther, Wait, CloseOwn, Post, WriteToPipe, ReadFromPipe, ChildStep, mains
    <2>3. \A d \in Children : childPc'[d] \notin {"failed", "killed"}
      BY <1>0, <1>2, <2>2
    <2>. QED
      BY <1>0, <1>2, <2>2, <2>3 DEF NoFailure, mains
  <1>6. ASSUME NEW m \in Mains, NEW c \in Children, Fork(m, c)
        PROVE  NoFailure'
    <2>1. /\ \E to \in {"start", "move"} : childPc' = [childPc EXCEPT ![c] = to]
          /\ \E to \in {"fork", "close", "wait"} : mainPc' = [mainPc EXCEPT ![m] = to]
          /\ mainPc[m] = "fork"
      BY <1>6 DEF Fork, MainStep
    <2>2. \A k \in Mains : mainPc[k] # "failed"
      BY <1>2, <2>1
    <2>. QED
      BY <1>0, <1>2, <2>1, <2>2 DEF NoFailure
  <1>7. ASSUME NEW m \in Mains, NEW c \in Children, Reap(m, c)
        PROVE  NoFailure'
    <2>1. /\ UNCHANGED childPc /\ mainPc[m] = "wait"
          /\ \E to \in {"end", "wait"} : mainPc' = [mainPc EXCEPT ![m] = to]
      BY <1>2, <1>7 DEF Reap, MainStep, children
    <2>2. \A k \in Mains : mainPc[k] # "failed"
      BY <1>2, <2>1
    <2>. QED
      BY <1>0, <1>2, <2>1, <2>2 DEF NoFailure
  <1>8. ASSUME NEW m \in Mains, End(m)
        PROVE  NoFailure'
    <2>1. /\ UNCHANGED childPc /\ mainPc[m] = "end"
          /\ mainPc' = [mainPc EXCEPT ![m] = "ended"]
      BY <1>8 DEF End, MainStep, children
    <2>2. \A k \in Mains : mainPc[k] # "failed"
      BY <1>2, <2>1
    <2>. QED
      BY <1>0, <1>2, <2>1, <2>2 DEF NoFailure
  <1>9. CASE CloseEnds
    <2>1. /\ UNCHANGED childPc /\ "parent" \in Mains
          /\ mainPc["parent"] \in {"close", "closeWriter"}
          /\ \E to \in {"closeWriter", "wait"} :
                mainPc' = [mainPc EXCEPT !["parent"] = to]
      BY <1>9 DEF CloseEnds, MainStep, children
    <2>2. \A k \in Mains : mainPc[k] # "failed"
      BY <1>2, <2>1
    <2>. QED
      BY <1>0, <1>2, <2>1, <2>2 DEF NoFailure
  <1>10. CASE MakeFifo \/ CannotMakeFifo \/ OpenFifo
    <2>1. /\ UNCHANGED <<forked, childPc>>
          /\ \E m \in Mains : \E to \in {"opening", "failed"} :
                 mainPc[m] = "start" /\ mainPc' = [mainPc EXCEPT ![m] = to]
      BY <1>10 DEF MakeFifo, CannotMakeFifo, OpenFifo, MainStep, children
    <2>2. program = "fifo"
      BY <2>1, <1>0, Families DEF FifoInv, Locked
    <2>3. forked = {} /\ \A k \in Mains : mainPc[k] \in {"start", "opening", "failed"}
      BY <1>0, <2>1, <2>2 DEF OpenInv
    <2>4. \A k \in Mains : mainPc'[k] \in {"start", "opening", "failed"}
      BY <1>0, <2>1, <2>3
    <2>. QED
      BY <1>0, <1>2, <2>1, <2>2, <2>3, <2>4 DEF NoFailure
  <1>11. CASE OpensMeet
    <2>1. UNCHANGED childPc /\ \A k \in Mains : mainPc'[k] = "fork"
      BY <1>11 DEF OpensMeet, children
    <2>. QED
      BY <1>0, <1>2, <2>1 DEF NoFailure
  <1>12. CASE UNCHANGED vars
    BY <1>0, <1>2, <1>12 DEF NoFailure, vars, mains, children
  <1>. QED
    BY <1>4, <1>5, <1>6, <1>7, <1>8, <1>9, <1>10, <1>11, <1>12, Steps, Sides DEF MainStill

LEMMA HeldStep ==
  ASSUME LiveInv, [Next]_vars, NoFailure'
  PROVE  HeldInv'
  <1>. USE TypesAre
  <1>0. /\ Types /\ HeldInv /\ failures \in Nat /\ (Locked' <=> Locked)
    BY SameProgram, ConstantsOK DEF LiveInv, Inv
  <1>. SUFFICES ASSUME Locked, failures' = 0, NEW side \in {"writer", "reader"},
                       mutex'[side] = 0
                PROVE  \E c \in Children : c[1] = side /\ childPc'[c] = "move"
    BY <1>0 DEF HeldInv
  <1>1. failures = 0
    BY <1>0, FailuresGrow
  <1>2. \A c \in Children : childPc'[c] \notin {"failed", "killed"}
    BY DEF NoFailure
  <1>3. mutex[side] = 0 => \E c \in Children : c[1] = side /\ childPc[c] = "move"
    BY <1>0, <1>1 DEF HeldInv
  <1>4. CASE UNCHANGED <<childPc, mutex>>
    BY <1>3, <1>4
  <1>5. CASE MainStill \/ UNCHANGED vars
    BY <1>4, <1>5 DEF MainStill, MakeFifo, CannotMakeFifo, OpenFifo, OpensMeet, CloseEnds,
       End, ForkFails, Reap, vars, children
  <1>6. ASSUME NEW m \in Mains, NEW c \in Children, Fork(m, c)
        PROVE  \E d \in Children : d[1] = side /\ childPc'[d] = "move"
    <2>1. UNCHANGED mutex /\ childPc' = [childPc EXCEPT ![c] = "start"] /\ c \notin forked
      BY <1>6 DEF Fork
    <2>2. childPc[c] = "none"
      BY <2>1 DEF LiveInv, Inv, MainInv
    <2>. QED
      BY <1>0, <1>3, <2>1, <2>2
  <1>7. ASSUME NEW c \in Children, ChildStill(c)
        PROVE  \E d \in Children : d[1] = side /\ childPc'[d] = "move"
    <2>1. CASE Wait(c)
      <3>1. /\ childPc' = [childPc EXCEPT ![c] = "move"]
            /\ mutex' = [mutex EXCEPT ![c[1]] = @ - 1]
        BY <2>1 DEF Wait, ChildStep
      <3>2. c[1] = side => childPc'[c] = "move"
        BY <1>0, <3>1
      <3>3. c[1] # side => mutex[side] = 0
        BY <1>0, <3>1
      <3>4. \A d \in Children : childPc[d] = "move" => childPc'[d] = "move"
        BY <1>0, <3>1
      <3>. QED
        BY <1>3, <3>2, <3>3, <3>4
    <2>2. CASE CloseOther(c) \/ CloseOwn(c)
      <3>1. /\ UNCHANGED mutex /\ childPc[c] \in {"start", "close"}
            /\ \E to \in {"wait", "ended"} : childPc' = [childPc EXCEPT ![c] = to]
        BY <2>2 DEF CloseOther, CloseOwn, ChildStep
      <3>2. \A d \in Children : childPc[d] = "move" => childPc'[d] = "move"
        BY <1>0, <3>1
      <3>. QED
        BY <1>3, <3>1, <3>2
    <2>3. ~ BrokenPipe(c) /\ ~ ReadNothing(c) /\ ~ ChildFails(c)
      BY <1>1, NoneBreaks DEF ChildFails
    <2>. QED
      BY <1>7, <2>1, <2>2, <2>3 DEF ChildStill
  <1>8. ASSUME NEW c \in Children, WriteToPipe(c) \/ ReadFromPipe(c)
        PROVE  \E d \in Children : d[1] = side /\ childPc'[d] = "move"
    BY <1>4, <1>8 DEF WriteToPipe, ReadFromPipe
  <1>9. ASSUME NEW c \in Children, Post(c)
        PROVE  \E d \in Children : d[1] = side /\ childPc'[d] = "move"
    <2>1. /\ mutex' = [mutex EXCEPT ![c[1]] = @ + 1] /\ mutex[c[1]] \in {0, 1}
          /\ \A d \in Children : d # c => childPc'[d] = childPc[d]
      BY <1>0, <1>9, ChildTypes DEF Post, ChildStep
    <2>2. c[1] # side
      BY <1>0, <2>1, Sides
    <2>3. mutex[side] = 0
      BY <1>0, <2>1, <2>2
    <2>. QED
      BY <1>3, <2>1, <2>2, <2>3
  <1>. QED
    BY <1>5, <1>6, <1>7, <1>8, <1>9, Steps, Sides

LEMMA LiveStep == LiveInv /\ [Next]_vars => LiveInv'
  <1>. SUFFICES ASSUME LiveInv, [Next]_vars PROVE LiveInv'
    OBVIOUS
  <1>1. Inv /\ Types /\ FifoInv /\ OpenInv /\ ForkInv /\ (Good => KeptInv)
    BY DEF LiveInv, Inv
  <1>2. Inv' /\ Types'
    BY <1>1, InvStep DEF Inv
  <1>3. Good' => KeptInv'
    BY <1>1, <1>2, GoodBefore, KeptStep
  <1>4. OpenInv' /\ ForkInv'
    BY <1>1, OpenStep, ForkStep
  <1>5. NoFailure' /\ HeldInv'
    BY NoFailureStep, HeldStep
  <1>. QED
    BY <1>2, <1>3, <1>4, <1>5 DEF LiveInv

LEMMA LiveHolds == Spec => []LiveInv
  BY LiveInit, LiveStep, PTL DEF Spec

\* Unless a call fails no process does: whichever way the writers and the readers
\* interleave, no reader finds the end of the pipe with messages still to read, and no
\* writer is killed for want of readers.
THEOREM NobodyFailsFirst == Spec => []NoFailure
  <1>1. LiveInv => NoFailure
    BY DEF LiveInv
  <1>. QED
    BY <1>1, LiveHolds, PTL

-----------------------------------------------------------------------------
(* Deadlock *)

\* What a main process and a child can do at their next step.
MainCanStep(m) ==
  \/ mainPc[m] \in {"start", "fork", "close", "closeWriter", "end"}
  \/ mainPc[m] = "opening" /\ \A k \in Mains : mainPc[k] = "opening"
  \/ mainPc[m] = "wait" /\ \E c \in (Family(m) \cap forked) \ reaped : Over(c)

CanWrite(c) == c \in Writers /\ (Len(pipe) < Capacity \/ ~ Holds("reader"))
CanRead(c) == c \in Readers /\ (pipe # << >> \/ ~ Holds("writer"))

ChildCanStep(c) ==
  \/ childPc[c] \in {"start", "close"}
  \/ childPc[c] = "wait" /\ mutex[c[1]] > 0
  \/ childPc[c] = "move" /\ (moved[c] = Size \/ CanWrite(c) \/ CanRead(c))

SomeoneCanStep ==
  \/ \E m \in Mains : MainCanStep(m)
  \/ \E c \in Children : ChildCanStep(c)
  \/ /\ \A m \in Mains : mainPc[m] \in {"ended", "failed"}
     /\ \A c \in Children : Over(c)

NoDeadlock == Open /\ (Locked => failures = 0) => SomeoneCanStep

\* Where the processes are when nobody can go on.
Stuck == /\ Open /\ (Locked => failures = 0)
         /\ ~ \E m \in Mains : MainCanStep(m)
         /\ ~ \E c \in Children : ChildCanStep(c)

\* A child that is not over waits in vain to move a part, or for one that does.
LEMMA SomeoneMoves ==
  ASSUME LiveInv, Stuck, NEW c \in Children, ~ Over(c)
  PROVE  \E d \in Children : d[1] = c[1] /\ childPc[d] = "move"
  <1>1. Types /\ HeldInv /\ ForkInv
    BY DEF LiveInv, Inv
  <1>2. childPc[c] \in {"wait", "move"}
    BY <1>1, TypesAre DEF Over, Stuck, ChildCanStep, ChildSteps
  <1>3. CASE childPc[c] = "wait"
    <2>1. Locked /\ failures = 0
      BY <1>1, <1>3 DEF ForkInv, Locked, Stuck
    <2>2. mutex[c[1]] = 0 /\ c[1] \in {"writer", "reader"}
      BY <1>1, <1>3, ChildTypes, Sides DEF Stuck, ChildCanStep
    <2>. QED
      BY <1>1, <2>1, <2>2 DEF HeldInv
  <1>. QED
    BY <1>2, <1>3

\* A writer finds the pipe full and a reader finds it empty, both with somebody at the
\* other end.
LEMMA MovesInVain ==
  ASSUME LiveInv, Stuck, NEW c \in Children, childPc[c] = "move"
  PROVE  /\ moved[c] < Size
         /\ c \in Writers => Len(pipe) >= Capacity /\ pipe # << >> /\ Holds("reader")
         /\ c \in Readers => pipe = << >> /\ Holds("writer")
  <1>1. Types
    BY DEF LiveInv, Inv
  <1>2. moved[c] # Size /\ ~ CanWrite(c) /\ ~ CanRead(c)
    BY DEF Stuck, ChildCanStep
  <1>3. moved[c] \in 0 .. Size /\ Size \in Nat \ {0} /\ Len(pipe) \in Nat
        /\ Capacity \in Nat \ {0} /\ (pipe = << >> => Len(pipe) = 0)
    BY <1>1, ChildTypes, SizeIs, PipeIs, ConstantsOK
  <1>. QED
    BY <1>2, <1>3 DEF CanWrite, CanRead

\* A main that is not at its end waits for children of its own that are not over.
LEMMA WaitsForSomeone ==
  ASSUME LiveInv, Stuck, NEW m \in Mains, mainPc[m] \notin {"ended", "failed"}
  PROVE  /\ mainPc[m] = "wait" /\ Family(m) \subseteq forked
         /\ \E c \in Family(m) : ~ Over(c)
  <1>1. Types /\ ForkInv
    BY DEF LiveInv, Inv
  <1>2. mainPc[m] = "wait"
    BY <1>1, TypesAre DEF Stuck, Open, MainCanStep, MainSteps
  <1>3. Family(m) \subseteq forked /\ ~ (Family(m) \subseteq reaped)
    BY <1>1, <1>2 DEF ForkInv
  <1>. QED
    BY <1>2, <1>3 DEF Stuck, MainCanStep

\* If all the children of a side are over they have ended, when somebody holds that end of
\* the pipe: it is the parent of the attempt.
LEMMA OtherSideEnded ==
  ASSUME LiveInv, Stuck, NEW side \in {"writer", "reader"}, Holds(side),
         \A d \in Children : d[1] = side => Over(d)
  PROVE  failures = 0 /\ \A d \in Children : d[1] = side => childPc[d] = "ended"
  <1>1. Types /\ MainInv /\ NoFailure
    BY DEF LiveInv, Inv
  <1>2. MainHolds(side)
    BY DEF Holds, ChildHolds, Stuck, ChildCanStep
  <1>3. PICK m \in Mains : /\ mainPc[m] \in {"fork", "close", "closeWriter", "wait", "end"}
                           /\ Locked \/ m = side
    BY <1>2 DEF MainHolds
  <1>4. /\ Family(m) \subseteq forked /\ \E c \in Family(m) : ~ Over(c)
    BY <1>3, WaitsForSomeone
  <1>5. Locked
    <2>. SUFFICES ASSUME ~ Locked PROVE FALSE
      OBVIOUS
    <2>1. \A c \in Family(m) : c \in Children /\ c[1] = side
      BY <1>3, Families, Sides
    <2>. QED
      BY <1>4, <2>1
  <1>6. failures = 0
    BY <1>5 DEF Stuck
  <1>7. ASSUME NEW d \in Children, d[1] = side
        PROVE  childPc[d] = "ended"
    <2>1. d \in Family(m)
      BY <1>5, Families
    <2>2. childPc[d] \notin {"none", "failed", "killed"}
      BY <1>1, <1>4, <1>6, <2>1 DEF MainInv, NoFailure
    <2>. QED
      BY <1>7, <2>2 DEF Over
  <1>. QED
    BY <1>6, <1>7

LEMMA NobodyIsStuck ==
  ASSUME LiveInv, Stuck
  PROVE  \A c \in Children : Over(c)
  <1>. SUFFICES ASSUME NEW c \in Children, ~ Over(c) PROVE FALSE
    OBVIOUS
  <1>0. Inv /\ (Good => KeptInv) /\ (failures = 0 => Good)
    BY DEF LiveInv, Good
  <1>1. ASSUME NEW w \in Writers, childPc[w] = "move"
        PROVE  FALSE
    <2>1. moved[w] < Size /\ pipe # << >> /\ Holds("reader")
      BY <1>1, MovesInVain, Sides
    <2>2. \A d \in Readers : childPc[d] # "move"
      BY <2>1, MovesInVain, Sides
    <2>3. \A d \in Children : d[1] = "reader" => Over(d)
      BY <2>2, SomeoneMoves, Sides
    <2>4. failures = 0 /\ \A d \in Readers : childPc[d] = "ended"
      BY <2>1, <2>3, OtherSideEnded, Sides
    <2>. QED
      BY <1>0, <1>1, <2>1, <2>4, StrandedWriter
  <1>2. ASSUME NEW r \in Readers, childPc[r] = "move"
        PROVE  FALSE
    <2>1. moved[r] < Size /\ pipe = << >> /\ Holds("writer")
      BY <1>2, MovesInVain, Sides
    <2>2. \A d \in Children : d[1] = "writer" => Over(d)
      BY <1>1, SomeoneMoves, Sides
    <2>3. failures = 0 /\ \A d \in Writers : childPc[d] = "ended"
      BY <2>1, <2>2, OtherSideEnded, Sides
    <2>. QED
      BY <1>0, <1>2, <2>1, <2>3, StarvedReader
  <1>. QED
    BY <1>1, <1>2, SomeoneMoves, Sides

\* Once the pipe is open at both ends somebody can go on until all have ended: full and
\* empty pipes, mutexes and waits for children never close a circle, for any number of
\* processes and messages and any capacity. Where the children share mutexes that is while
\* no call has failed, for the mutex of a child that fails is lost.
THEOREM PipeDeadlockFree == Spec => []NoDeadlock
  <1>1. LiveInv => NoDeadlock
    <2>. SUFFICES ASSUME LiveInv, Stuck
                  PROVE  /\ \A m \in Mains : mainPc[m] \in {"ended", "failed"}
                         /\ \A c \in Children : Over(c)
      BY DEF NoDeadlock, SomeoneCanStep, Stuck
    <2>1. \A c \in Children : Over(c)
      BY NobodyIsStuck
    <2>2. ASSUME NEW m \in Mains, mainPc[m] \notin {"ended", "failed"}
          PROVE  FALSE
      BY <2>1, <2>2, WaitsForSomeone, Families
    <2>. QED
      BY <2>1, <2>2
  <1>. QED
    BY <1>1, LiveHolds, PTL

-----------------------------------------------------------------------------
(* EchoPrograms: the inductive invariant *)

EchoMessage == Clients \X Lines

ClientSteps == {"idle", "ready", "await", "closing", "done", "killed", "open1", "second",
                "open2", "astray", "welcome", "failed"}

\* The types of the variables, and which steps belong to which program.
EchoTypes ==
  /\ service \in {"fifo", "udp"}
  /\ serverPc \in IF service = "udp" THEN {"down", "read", "reply"}
                  ELSE {"down", "make1", "make2", "open1", "open2", "greet", "read",
                        "reply"}
  /\ starts \in 0 .. MaxStarts /\ (serverPc # "down" => starts > 0)
  /\ buf \in {<<0, 0>>} \cup EchoMessage /\ (serverPc = "reply" => buf \in EchoMessage)
  /\ names \in [{"echo", "client"} -> 0 .. starts]
  /\ clientPc \in [Clients -> ClientSteps]
  /\ service = "udp" =>
        \A c \in Clients : clientPc[c] \notin {"open1", "second", "open2", "welcome", "failed"}
  /\ opened \in [Clients -> 0 .. starts]
  /\ sent \in [Clients -> 0 .. MaxLines]

QueueTypes ==
  /\ answers \in [Clients -> Seq(Lines)]
  /\ toServer \in [1 .. MaxStarts -> Seq(EchoMessage)]
  /\ toClient \in [Clients \cup 1 .. MaxStarts -> Seq(Lines)]

\* The answers a client has, and those it has asked for.
AnswerInv ==
  \A c \in Clients :
      /\ \A n \in DOMAIN answers[c] : answers[c][n] = n
      /\ clientPc[c] \in {"idle", "open1", "second", "open2", "welcome"} => sent[c] = 0
      /\ clientPc[c] \in {"idle", "open1", "second", "open2", "welcome", "ready"} =>
            Len(answers[c]) = sent[c]
      /\ clientPc[c] = "await" => Len(answers[c]) + 1 = sent[c]

\* The clients that use the FIFOs of one start, from their first open to their QUIT.
InUse(c) == clientPc[c] \in {"open1", "second", "open2", "welcome", "ready", "await"}
LetIn(c) == clientPc[c] \in {"welcome", "ready", "await"}

\* They are one at a time, and let in by an echo that has opened the FIFOs.
UseInv ==
  service = "fifo" =>
      /\ \A c, d \in Clients : c # d /\ InUse(c) /\ InUse(d) => opened[c] # opened[d]
      /\ \A c \in Clients : InUse(c) => opened[c] # 0
      /\ \A c \in Clients : LetIn(c) /\ opened[c] = starts =>
            serverPc \notin {"make1", "make2", "open1", "open2"}

Replying(s) == s = starts /\ serverPc = "reply"
Held(s) == IF Replying(s) THEN 1 ELSE 0
OnTheWay(s) == Len(toServer[s]) + Held(s) + Len(toClient[s])

\* The echo has not written the welcome yet.
Early(s) ==
  \/ s > starts
  \/ s = starts /\ serverPc \in {"make1", "make2", "open1", "open2", "greet"}

\* All there is on its way is the last line of client c.
OnlyOf(c, s) ==
  /\ \A k \in DOMAIN toServer[s] : toServer[s][k][2] = sent[c]
  /\ Replying(s) => buf[2] = sent[c]
  /\ \A k \in DOMAIN toClient[s] : toClient[s][k] = sent[c]

\* One line at most is on its way through the two FIFOs of a start, the welcome or the
\* answer to the QUIT of the last client included: none when a client is about to send a
\* line, and none but its own when it waits for the answer.
Passage(s) ==
  /\ OnTheWay(s) <= 1
  /\ Early(s) => OnTheWay(s) = 0
  /\ \A c \in Clients : opened[c] = s =>
        /\ clientPc[c] \in {"ready", "await"} => ~ Early(s)
        /\ clientPc[c] = "ready" => OnTheWay(s) = 0
        /\ clientPc[c] = "await" => OnlyOf(c, s)

EchoFifoInv == service = "fifo" => \A s \in 1 .. MaxStarts : Passage(s)

\* A datagram of client c waits in the socket of the server.
Waits(c, k) == starts > 0 /\ k \in DOMAIN toServer[starts] /\ toServer[starts][k][1] = c
LineInHand(c) == serverPc = "reply" /\ buf[1] = c

\* Of a client one datagram at most is on its way, which is in one place: none when it is
\* about to send a line, and only that of its last line while it waits for the answer.
DatagramOf(c) ==
  /\ clientPc[c] \in {"idle", "ready"} =>
        (\A k \in Nat : ~ Waits(c, k)) /\ ~ LineInHand(c) /\ toClient[c] = << >>
  /\ clientPc[c] = "await" =>
        /\ \A k \in Nat : Waits(c, k) =>
              /\ toServer[starts][k][2] = sent[c]
              /\ \A l \in Nat : Waits(c, l) => k = l
              /\ ~ LineInHand(c) /\ toClient[c] = << >>
        /\ LineInHand(c) => buf[2] = sent[c] /\ toClient[c] = << >>
        /\ toClient[c] # << >> => Len(toClient[c]) = 1 /\ toClient[c][1] = sent[c]

DatagramInv ==
  service = "udp" =>
      /\ \A s \in 1 .. MaxStarts : s > starts => toServer[s] = << >>
      /\ \A c \in Clients : DatagramOf(c)

EchoInv == EchoTypes /\ QueueTypes /\ AnswerInv /\ UseInv /\ EchoFifoInv /\ DatagramInv

LEMMA EchoConstants ==
  /\ NumClients \in Nat \ {0} /\ MaxLines \in Nat \ {0} /\ MaxStarts \in Nat \ {0}
  /\ SocketBuffer \in Nat \ {0}
  /\ Clients = 1 .. NumClients
  /\ Lines = {-1, -2} \cup 1 .. MaxLines
  BY EchoAssumption DEF Clients, Lines, Quit, Welcome

LEMMA EchoInitInv == EchoInit => EchoInv
  <1>. SUFFICES ASSUME EchoInit PROVE EchoInv
    OBVIOUS
  <1>. USE EchoConstants
  <1>1. EchoTypes
    BY EchoAssumption DEF EchoInit, EchoTypes, ClientSteps
  <1>2. QueueTypes
    BY DEF EchoInit, QueueTypes
  <1>3. AnswerInv
    BY DEF EchoInit, AnswerInv
  <1>4. UseInv
    BY DEF EchoInit, UseInv, InUse, LetIn
  <1>5. EchoFifoInv
    BY DEF EchoInit, EchoFifoInv, Passage, OnTheWay, Held, Replying, Early, OnlyOf
  <1>6. DatagramInv
    BY DEF EchoInit, DatagramInv, DatagramOf, Waits, LineInHand
  <1>. QED
    BY <1>1, <1>2, <1>3, <1>4, <1>5, <1>6 DEF EchoInv

-----------------------------------------------------------------------------
(* EchoPrograms: types *)

LEMMA EchoTypesStep ==
  ASSUME EchoTypes, QueueTypes, [EchoNext]_echoVars
  PROVE  EchoTypes'
  <1>. USE EchoConstants
  <1>. USE DEF EchoTypes, ClientSteps, server, clients
  <1>1. CASE StartEcho
    BY <1>1 DEF StartEcho, ServerStep
  <1>2. CASE MakeFifos
    BY <1>2 DEF MakeFifos, ServerStep
  <1>3. CASE Greet \/ Reply
    BY <1>3 DEF Greet, Reply, Write, ServerStep
  <1>4. CASE Read
    <2>1. Head(toServer[starts]) \in EchoMessage
      BY <1>4, AtTheHead DEF Read, QueueTypes
    <2>. QED
      BY <1>4, <2>1 DEF Read, ServerStep, AfterRead
  <1>5. CASE EndOfSession
    BY <1>5 DEF EndOfSession, ServerStep
  <1>6. CASE StartServer
    BY <1>6 DEF StartServer, ServerStep
  <1>7. CASE SendBack
    BY <1>7 DEF SendBack, ServerStep
  <1>8. ASSUME NEW c \in Clients, StartClient(c) \/ OpenJoins(c) \/ OpenSecond(c)
                                     \/ LoseEcho(c)
        PROVE  EchoTypes'
    BY <1>8 DEF StartClient, OpenJoins, OpenSecond, LoseEcho, ClientStep, ClientOrder,
       ClientOpened
  <1>9. ASSUME NEW c \in Clients, ReadWelcome(c) \/ ReceiveAnswer(c) \/ CloseClient(c)
                                     \/ StartSender(c) \/ ClientKilled(c)
        PROVE  EchoTypes'
    BY <1>9 DEF ReadWelcome, ReceiveAnswer, CloseClient, StartSender, ClientKilled, ClientStep
  <1>10. ASSUME NEW c \in Clients, WriteLine(c) \/ SendLine(c)
         PROVE  EchoTypes'
    <2>1. PICK line \in NextLine(c) :
              /\ ClientStep(c, "ready", AfterSending(line))
              /\ sent' = [sent EXCEPT ![c] = IF line = Quit THEN @ ELSE @ + 1]
      BY <1>10 DEF WriteLine, SendLine
    <2>2. line # Quit => sent[c] < MaxLines
      BY <2>1 DEF NextLine
    <2>3. sent' \in [Clients -> 0 .. MaxLines]
      BY <2>1, <2>2
    <2>4. UNCHANGED <<service, serverPc, starts, buf, names, opened>>
      BY <1>10 DEF WriteLine, SendLine
    <2>. QED
      BY <2>1, <2>3, <2>4 DEF ClientStep, AfterSending
  <1>11. ASSUME NEW c \in Clients, FifosMeet(c)
         PROVE  EchoTypes'
    BY <1>11 DEF FifosMeet, ClientOpened, EchoOpened
  <1>12. CASE ServerKilled
    BY <1>12 DEF ServerKilled
  <1>13. CASE Lose
    BY <1>13 DEF Lose
  <1>14. CASE UNCHANGED echoVars
    BY <1>14 DEF echoVars
  <1>. QED
    BY <1>1, <1>2, <1>3, <1>4, <1>5, <1>6, <1>7, <1>8, <1>9, <1>10, <1>11, <1>12, <1>13,
       <1>14 DEF EchoNext, Server, FifoEcho, DatagramServer, DatagramHandler, Client,
       FifoClient, DatagramClient

\* Where a client that has been let in reads.
LEMMA InboxOf ==
  ASSUME EchoTypes, UseInv, NEW c \in Clients, LetIn(c)
  PROVE  /\ Inbox(c) \in Clients \cup 1 .. MaxStarts
         /\ service = "fifo" => Inbox(c) = opened[c] /\ opened[c] \in 1 .. MaxStarts
         /\ service = "udp" => Inbox(c) = c
  BY EchoConstants DEF EchoTypes, UseInv, LetIn, InUse, Inbox

\* The lines that a client may send.
LEMMA NextLineType ==
  ASSUME EchoTypes, NEW c \in Clients, NEW line \in NextLine(c)
  PROVE  /\ line \in Lines
         /\ line # Quit => line = sent[c] + 1 /\ line \in 1 .. MaxLines
  <1>1. sent[c] \in 0 .. MaxLines
    BY DEF EchoTypes
  <1>2. CASE line = Quit
    BY <1>2 DEF Lines
  <1>3. CASE line # Quit
    <2>1. sent[c] < MaxLines /\ line = sent[c] + 1
      BY <1>3 DEF NextLine
    <2>. QED
      BY <1>1, <1>3, <2>1, EchoConstants
  <1>. QED
    BY <1>2, <1>3

\* Each step leaves the queues alone, or appends to one of them, or takes its head.
LEMMA QueueStep ==
  ASSUME EchoTypes, QueueTypes, UseInv, [EchoNext]_echoVars
  PROVE  QueueTypes'
  <1>. USE EchoConstants
  <1>. USE DEF EchoTypes, QueueTypes, server, clients
  <1>1. CASE UNCHANGED <<answers, toServer, toClient>>
    BY <1>1
  <1>2. CASE Greet \/ Reply
    <2>1. PICK message \in Lines :
              toClient' = IF Holding("echo") = {} THEN toClient
                          ELSE [toClient EXCEPT ![starts] = Append(@, message)]
      <3>1. CASE Greet
        BY <3>1 DEF Greet, Write, Welcome
      <3>2. CASE Reply
        <4>1. buf[2] \in Lines
          BY <3>2 DEF Reply, Write, ServerStep, EchoMessage
        <4>. QED
          BY <3>2, <4>1 DEF Reply, Write
      <3>. QED
        BY <1>2, <3>1, <3>2
    <2>2. starts \in 1 .. MaxStarts /\ UNCHANGED <<answers, toServer>>
      BY <1>2 DEF Greet, Reply, Write, ServerStep
    <2>3. Append(toClient[starts], message) \in Seq(Lines)
      BY <2>2, AtTheEnd
    <2>. QED
      BY <2>1, <2>2, <2>3
  <1>3. CASE Read
    <2>1. /\ UNCHANGED <<answers, toClient>> /\ starts \in 1 .. MaxStarts
          /\ toServer[starts] # << >>
          /\ toServer' = [toServer EXCEPT ![starts] = Tail(@)]
      BY <1>3 DEF Read
    <2>2. Tail(toServer[starts]) \in Seq(EchoMessage)
      BY <2>1, AtTheHead
    <2>. QED
      BY <2>1, <2>2
  <1>4. CASE SendBack
    <2>1. buf[1] \in Clients /\ buf[2] \in Lines
      BY <1>4 DEF SendBack, ServerStep, EchoMessage
    <2>2. Append(toClient[buf[1]], buf[2]) \in Seq(Lines)
      BY <2>1, AtTheEnd
    <2>3. toClient' \in {toClient, [toClient EXCEPT ![buf[1]] = Append(@, buf[2])]}
      BY <1>4 DEF SendBack
    <2>. QED
      BY <1>4, <2>1, <2>2, <2>3 DEF SendBack
  <1>5. ASSUME NEW c \in Clients, ReadWelcome(c) \/ ReceiveAnswer(c)
        PROVE  QueueTypes'
    <2>1. /\ UNCHANGED toServer /\ toClient[Inbox(c)] # << >>
          /\ toClient' = [toClient EXCEPT ![Inbox(c)] = Tail(@)]
      BY <1>5 DEF ReadWelcome, ReceiveAnswer
    <2>2. Inbox(c) \in Clients \cup 1 .. MaxStarts
      BY <1>5, InboxOf DEF ReadWelcome, ReceiveAnswer, ClientStep, LetIn
    <2>3. /\ Tail(toClient[Inbox(c)]) \in Seq(Lines)
          /\ Head(toClient[Inbox(c)]) \in Lines
      BY <2>1, <2>2, AtTheHead
    <2>4. answers' \in {answers, [answers EXCEPT ![c] = Append(@, Head(toClient[Inbox(c)]))]}
      BY <1>5 DEF ReadWelcome, ReceiveAnswer
    <2>5. Append(answers[c], Head(toClient[Inbox(c)])) \in Seq(Lines)
      BY <2>3, AtTheEnd
    <2>6. answers' \in [Clients -> Seq(Lines)]
      BY <2>4, <2>5
    <2>. QED
      BY <2>1, <2>2, <2>3, <2>6
  <1>6. ASSUME NEW c \in Clients, WriteLine(c) \/ SendLine(c)
        PROVE  QueueTypes'
    <2>1. PICK line \in NextLine(c) :
              \/ /\ starts \in 1 .. MaxStarts
                 /\ toServer' = [toServer EXCEPT ![starts] = Append(@, <<c, line>>)]
              \/ toServer' = toServer
      <3>1. CASE WriteLine(c)
        <4>1. starts \in 1 .. MaxStarts
          BY <3>1 DEF WriteLine, InSession
        <4>. QED
          BY <3>1, <4>1 DEF WriteLine
      <3>2. CASE SendLine(c)
        <4>1. serverPc # "down" => starts \in 1 .. MaxStarts
          OBVIOUS
        <4>. QED
          BY <3>2, <4>1 DEF SendLine
      <3>. QED
        BY <1>6, <3>1, <3>2
    <2>2. <<c, line>> \in EchoMessage
      BY <2>1, NextLineType DEF EchoMessage
    <2>3. UNCHANGED <<answers, toClient>>
      BY <1>6 DEF WriteLine, SendLine
    <2>4. starts \in 1 .. MaxStarts => Append(toServer[starts], <<c, line>>) \in Seq(EchoMessage)
      BY <2>2, AtTheEnd
    <2>5. toServer' \in [1 .. MaxStarts -> Seq(EchoMessage)]
      <3>1. CASE toServer' = toServer
        BY <3>1
      <3>2. CASE /\ starts \in 1 .. MaxStarts
                 /\ toServer' = [toServer EXCEPT ![starts] = Append(@, <<c, line>>)]
        BY <2>4, <3>2
      <3>. QED
        BY <2>1, <3>1, <3>2
    <2>. QED
      BY <2>3, <2>5
  <1>7. CASE Lose
    <2>1. UNCHANGED answers
      BY <1>7 DEF Lose
    <2>2. CASE /\ starts > 0 /\ toServer[starts] # << >>
               /\ toServer' = [toServer EXCEPT ![starts] = Tail(@)]
               /\ UNCHANGED toClient
      <3>1. Tail(toServer[starts]) \in Seq(EchoMessage)
        BY <2>2, AtTheHead
      <3>. QED
        BY <2>1, <2>2, <3>1
    <2>3. ASSUME NEW c \in Clients, toClient[c] # << >>, UNCHANGED toServer,
                 toClient' = [toClient EXCEPT ![c] = Tail(@)]
          PROVE  QueueTypes'
      <3>1. Tail(toClient[c]) \in Seq(Lines)
        BY <2>3, AtTheHead
      <3>. QED
        BY <2>1, <2>3, <3>1
    <2>. QED
      BY <1>7, <2>2, <2>3 DEF Lose
  <1>8. CASE \/ StartEcho \/ MakeFifos \/ EndOfSession \/ StartServer \/ ServerKilled
             \/ UNCHANGED echoVars
             \/ \E c \in Clients : \/ StartClient(c) \/ OpenJoins(c) \/ OpenSecond(c)
                                   \/ LoseEcho(c) \/ CloseClient(c) \/ StartSender(c) \/ FifosMeet(c)
                                   \/ ClientKilled(c)
    BY <1>8, <1>1 DEF StartEcho, MakeFifos, EndOfSession, StartServer, ServerKilled, echoVars,
       StartClient, OpenJoins, OpenSecond, LoseEcho, CloseClient, StartSender, FifosMeet,
       ClientKilled
  <1>. QED
    BY <1>2, <1>3, <1>4, <1>5, <1>6, <1>7, <1>8 DEF EchoNext, Server, FifoEcho,
       DatagramServer, DatagramHandler, Client, FifoClient, DatagramClient

-----------------------------------------------------------------------------
(* EchoPrograms: answers, and the clients of one echo *)

LEMMA AnswerStep ==
  ASSUME EchoTypes, QueueTypes, AnswerInv, UseInv, EchoFifoInv, DatagramInv, [EchoNext]_echoVars
  PROVE  AnswerInv'
  <1>. USE EchoConstants
  <1>. USE DEF AnswerInv, server, clients
  <1>0. /\ clientPc \in [Clients -> ClientSteps] /\ sent \in [Clients -> 0 .. MaxLines]
        /\ answers \in [Clients -> Seq(Lines)]
    BY DEF EchoTypes, QueueTypes
  <1>1. CASE UNCHANGED <<answers, clientPc, sent>>
    BY <1>1
  <1>2. ASSUME UNCHANGED <<answers, sent>>, NEW c \in Clients, NEW pc,
               clientPc' = [clientPc EXCEPT ![c] = pc],
               \/ clientPc[c] \in {"idle", "open1", "second", "open2", "welcome"}
               \/ pc \notin {"idle", "open1", "second", "open2", "welcome", "ready"},
               pc # "await"
        PROVE  AnswerInv'
    BY <1>0, <1>2
  <1>3. ASSUME NEW c \in Clients, WriteLine(c) \/ SendLine(c)
        PROVE  AnswerInv'
    <2>1. PICK line \in NextLine(c) :
              /\ ClientStep(c, "ready", AfterSending(line))
              /\ sent' = [sent EXCEPT ![c] = IF line = Quit THEN @ ELSE @ + 1]
      BY <1>3 DEF WriteLine, SendLine
    <2>2. UNCHANGED answers
      BY <1>3 DEF WriteLine, SendLine
    <2>. QED
      BY <1>0, <2>1, <2>2 DEF ClientStep, AfterSending
  <1>4. ASSUME NEW c \in Clients, ReceiveAnswer(c)
        PROVE  AnswerInv'
    <2>. DEFINE q == toClient[Inbox(c)]
    <2>1. /\ q \in Seq(Lines) /\ q # << >> /\ Head(q) = q[1] /\ Len(q) > 0
          /\ Inbox(c) \in Clients \cup 1 .. MaxStarts
      <3>1. LetIn(c) /\ q # << >>
        BY <1>4 DEF ReceiveAnswer, ClientStep, LetIn
      <3>2. q \in Seq(Lines) /\ Inbox(c) \in Clients \cup 1 .. MaxStarts
        BY <3>1, InboxOf DEF QueueTypes
      <3>. HIDE DEF q
      <3>. QED
        BY <3>1, <3>2, AtTheHead
    <2>2. q[1] = sent[c]
      <3>1. CASE service = "fifo"
        <4>1. clientPc[c] = "await" /\ LetIn(c)
          BY <1>4 DEF ReceiveAnswer, ClientStep, LetIn
        <4>2. q = toClient[opened[c]] /\ opened[c] \in 1 .. MaxStarts
          BY <3>1, <4>1, InboxOf
        <4>3. \A k \in DOMAIN q : q[k] = sent[c]
          BY <3>1, <4>1, <4>2 DEF EchoFifoInv, Passage, OnlyOf
        <4>4. 1 \in DOMAIN q
          <5>. HIDE DEF q
          <5>. QED
            BY <2>1
        <4>. QED
          BY <4>3, <4>4
      <3>2. CASE service = "udp"
        BY <1>4, <2>1, <3>2, InboxOf DEF ReceiveAnswer, ClientStep, LetIn, DatagramInv, DatagramOf
      <3>. QED
        BY <3>1, <3>2 DEF EchoTypes
    <2>3. answers' = [answers EXCEPT ![c] = Append(@, sent[c])]
      BY <1>4, <2>1, <2>2 DEF ReceiveAnswer
    <2>4. Len(answers[c]) + 1 = sent[c] /\ sent[c] \in Lines
      <3>1. Len(answers[c]) + 1 = sent[c]
        BY <1>4 DEF ReceiveAnswer, ClientStep
      <3>. QED
        BY <1>0, <3>1
    <2>. HIDE DEF q
    <2>5. /\ DOMAIN answers'[c] = 1 .. sent[c] /\ Len(answers'[c]) = sent[c]
          /\ \A n \in DOMAIN answers'[c] : answers'[c][n] = n
      <3>1. answers[c] \in Seq(Lines) /\ answers'[c] = Append(answers[c], sent[c])
            /\ DOMAIN answers[c] = 1 .. Len(answers[c]) /\ Len(answers[c]) \in Nat
        BY <1>0, <2>3
      <3>2. \A n \in 1 .. Len(answers[c]) : answers[c][n] = n
        BY <3>1
      <3>. QED
        BY <2>4, <3>1, <3>2, AtTheEnd
    <2>. QED
      BY <1>0, <1>4, <2>3, <2>5 DEF ReceiveAnswer, ClientStep
  <1>5. ASSUME NEW c \in Clients, \/ StartClient(c) \/ OpenJoins(c) \/ OpenSecond(c)
                                  \/ FifosMeet(c) \/ StartSender(c) \/ ReadWelcome(c) \/ LoseEcho(c)
                                  \/ CloseClient(c) \/ ClientKilled(c)
        PROVE  AnswerInv'
    <2>1. CASE StartClient(c)
      BY <2>1, <1>2 DEF StartClient, ClientStep
    <2>2. CASE OpenJoins(c)
      BY <2>2, <1>2 DEF OpenJoins, ClientOpened
    <2>3. CASE FifosMeet(c)
      BY <2>3, <1>2 DEF FifosMeet, ClientOpened
    <2>4. CASE StartSender(c) \/ ReadWelcome(c)
      BY <2>4, <1>2 DEF StartSender, ReadWelcome, ClientStep
    <2>5. CASE LoseEcho(c)
      BY <2>5, <1>2 DEF LoseEcho
    <2>6. CASE CloseClient(c)
      BY <2>6, <1>2 DEF CloseClient, ClientStep
    <2>7. CASE ClientKilled(c)
      BY <2>7, <1>2 DEF ClientKilled
    <2>8. CASE OpenSecond(c)
      BY <2>8, <1>2 DEF OpenSecond, ClientStep
    <2>. QED
      BY <1>5, <2>1, <2>2, <2>3, <2>4, <2>5, <2>6, <2>7, <2>8
  <1>6. CASE Server \/ ServerKilled \/ Lose \/ UNCHANGED echoVars
    BY <1>6, <1>1 DEF Server, FifoEcho, DatagramServer, DatagramHandler, StartEcho,
       MakeFifos, Greet, Reply, Write, Read, EndOfSession, StartServer, SendBack,
       ServerKilled, Lose, echoVars
  <1>. QED
    BY <1>3, <1>4, <1>5, <1>6 DEF EchoNext, Client, FifoClient, DatagramClient

LEMMA UseStep ==
  ASSUME EchoTypes, UseInv, [EchoNext]_echoVars
  PROVE  UseInv'
  <1>. USE DEF UseInv, InUse, LetIn, server, clients
  <1>0. clientPc \in [Clients -> ClientSteps] /\ opened \in [Clients -> 0 .. starts]
        /\ starts \in Nat
    BY EchoConstants DEF EchoTypes
  <1>1. CASE StartEcho
    BY <1>0, <1>1 DEF StartEcho, ServerStep
  <1>2. CASE MakeFifos
    BY <1>0, <1>2 DEF MakeFifos, ServerStep
  <1>3. CASE Greet \/ Reply
    BY <1>0, <1>3 DEF Greet, Reply, Write, ServerStep
  <1>11. CASE Read \/ EndOfSession
    BY <1>0, <1>11 DEF Read, EndOfSession, ServerStep, AfterRead
  <1>4. CASE StartServer \/ SendBack
    BY <1>0, <1>4 DEF StartServer, SendBack
  <1>5. ASSUME NEW c \in Clients, StartClient(c)
        PROVE  UseInv'
    BY <1>0, <1>5 DEF StartClient, ClientStep, ClientOrder
  <1>6. ASSUME NEW c \in Clients, OpenJoins(c)
        PROVE  UseInv'
    BY <1>0, <1>6 DEF OpenJoins, ClientOpened, Opening, InSession, EchoOrder, ClientOrder
  <1>7. ASSUME NEW c \in Clients, FifosMeet(c)
        PROVE  UseInv'
    BY <1>0, <1>7 DEF FifosMeet, ClientOpened, EchoOpened, Opening, EchoOrder, ClientOrder
  <1>12. ASSUME NEW c \in Clients, OpenSecond(c)
         PROVE  UseInv'
    BY <1>0, <1>12 DEF OpenSecond, ClientStep
  <1>8. ASSUME NEW c \in Clients, ReadWelcome(c) \/ ReceiveAnswer(c) \/ CloseClient(c)
                                  \/ LoseEcho(c) \/ StartSender(c) \/ ClientKilled(c)
        PROVE  UseInv'
    BY <1>0, <1>8 DEF ReadWelcome, ReceiveAnswer, CloseClient, LoseEcho, StartSender,
       ClientKilled, ClientStep
  <1>9. ASSUME NEW c \in Clients, WriteLine(c) \/ SendLine(c)
        PROVE  UseInv'
    <2>1. PICK line \in NextLine(c) : ClientStep(c, "ready", AfterSending(line))
      BY <1>0, <1>9 DEF WriteLine, SendLine
    <2>2. UNCHANGED <<service, serverPc, starts, opened>>
      BY <1>0, <1>9 DEF WriteLine, SendLine
    <2>. QED
      BY <1>0, <2>1, <2>2 DEF ClientStep, AfterSending
  <1>10. CASE ServerKilled \/ Lose \/ UNCHANGED echoVars
    BY <1>0, <1>10 DEF ServerKilled, Lose, echoVars
  <1>. QED
    BY <1>1, <1>2, <1>3, <1>4, <1>5, <1>6, <1>7, <1>8, <1>9, <1>10, <1>11, <1>12
       DEF EchoNext, Server, FifoEcho, DatagramServer, DatagramHandler, Client, FifoClient, DatagramClient

-----------------------------------------------------------------------------
(* EchoPrograms: the lines on their way through two FIFOs *)

LEMMA QueueLengths ==
  ASSUME QueueTypes, NEW s \in 1 .. MaxStarts
  PROVE  /\ toServer[s] \in Seq(EchoMessage) /\ Len(toServer[s]) \in Nat
         /\ DOMAIN toServer[s] = 1 .. Len(toServer[s])
         /\ (toServer[s] = << >> <=> Len(toServer[s]) = 0)
         /\ toClient[s] \in Seq(Lines) /\ Len(toClient[s]) \in Nat
         /\ DOMAIN toClient[s] = 1 .. Len(toClient[s])
         /\ (toClient[s] = << >> <=> Len(toClient[s]) = 0)
  <1>1. toServer[s] \in Seq(EchoMessage) /\ toClient[s] \in Seq(Lines)
    BY DEF QueueTypes
  <1>. QED
    BY <1>1, LenProperties, EmptySeq

LEMMA HeldIs ==
  ASSUME NEW s
  PROVE  /\ Held(s) \in {0, 1} /\ Held(s)' \in {0, 1}
         /\ Replying(s) => Held(s) = 1
         /\ ~ Replying(s) => Held(s) = 0
         /\ Replying(s)' => Held(s)' = 1
         /\ ~ Replying(s)' => Held(s)' = 0
  BY DEF Held

\* The one line that may be on its way is in one place.
LEMMA OnePlace ==
  ASSUME QueueTypes, NEW s \in 1 .. MaxStarts, OnTheWay(s) <= 1
  PROVE  /\ toServer[s] # << >> => Len(toServer[s]) = 1 /\ Len(toClient[s]) = 0
                                   /\ ~ Replying(s) /\ OnTheWay(s) = 1
         /\ toClient[s] # << >> => Len(toClient[s]) = 1 /\ Len(toServer[s]) = 0
                                   /\ ~ Replying(s) /\ OnTheWay(s) = 1
         /\ Replying(s) => Len(toServer[s]) = 0 /\ Len(toClient[s]) = 0
         /\ OnTheWay(s) = 0 => Len(toServer[s]) = 0 /\ Len(toClient[s]) = 0
                              /\ ~ Replying(s)
  <1>. DEFINE a == Len(toServer[s])  b == Len(toClient[s])
  <1>1. a \in Nat /\ b \in Nat /\ (toServer[s] = << >> <=> a = 0)
        /\ (toClient[s] = << >> <=> b = 0)
    BY QueueLengths
  <1>2. OnTheWay(s) = a + Held(s) + b
    BY DEF OnTheWay
  <1>. HIDE DEF a, b
  <1>3. /\ a # 0 => a = 1 /\ b = 0 /\ Held(s) = 0 /\ OnTheWay(s) = 1
        /\ b # 0 => b = 1 /\ a = 0 /\ Held(s) = 0 /\ OnTheWay(s) = 1
        /\ Held(s) = 1 => a = 0 /\ b = 0
        /\ OnTheWay(s) = 0 => a = 0 /\ b = 0 /\ Held(s) = 0
    BY <1>1, <1>2, HeldIs
  <1>. QED
    BY <1>1, <1>3, HeldIs DEF a, b

\* Steps of the echo that leave the queues alone and end no reply but by its end.
LEMMA PassageOfEcho ==
  ASSUME QueueTypes, NEW s \in 1 .. MaxStarts, Passage(s),
         UNCHANGED <<toServer, toClient, sent, opened>>,
         ~ Replying(s)', Early(s)' => Early(s),
         \A c \in Clients : clientPc'[c] \in {"ready", "await"} => clientPc'[c] = clientPc[c]
  PROVE  Passage(s)'
  <1>1. /\ OnTheWay(s) \in Nat /\ OnTheWay(s)' \in Nat
        /\ OnTheWay(s)' <= OnTheWay(s)
    <2>1. Len(toServer[s]) \in Nat /\ Len(toClient[s]) \in Nat
      BY QueueLengths
    <2>. QED
      BY <2>1, HeldIs DEF OnTheWay
  <1>2. \A c \in Clients : OnlyOf(c, s) => OnlyOf(c, s)'
    BY DEF OnlyOf
  <1>. QED
    BY <1>1, <1>2 DEF Passage

\* Steps of a client that leave the queues alone.
LEMMA PassageOfClient ==
  ASSUME NEW s \in 1 .. MaxStarts, Passage(s),
         UNCHANGED <<toServer, toClient, sent, buf, serverPc, starts>>,
         \A c \in Clients : clientPc'[c] \in {"ready", "await"} =>
             clientPc'[c] = clientPc[c] /\ opened'[c] = opened[c]
  PROVE  Passage(s)'
  BY HeldIs DEF Passage, OnTheWay, OnlyOf, Early, Replying

\* Steps on the queues of another start.
LEMMA PassageElsewhere ==
  ASSUME NEW s \in 1 .. MaxStarts, Passage(s), toServer'[s] = toServer[s],
         toClient'[s] = toClient[s], starts' = starts, opened' = opened,
         s = starts => serverPc' = serverPc /\ buf' = buf,
         \A c \in Clients : opened[c] = s => clientPc'[c] = clientPc[c] /\ sent'[c] = sent[c]
  PROVE  Passage(s)'
  <1>1. Early(s)' <=> Early(s)
    BY EchoConstants DEF Early
  <1>4. Replying(s)' <=> Replying(s)
    BY DEF Replying
  <1>2. OnTheWay(s)' = OnTheWay(s)
    BY <1>4, HeldIs DEF OnTheWay
  <1>3. \A c \in Clients : opened[c] = s /\ OnlyOf(c, s) => OnlyOf(c, s)'
    BY <1>4 DEF OnlyOf, Replying
  <1>. QED
    BY <1>1, <1>2, <1>3 DEF Passage

\* The echo has the only line, and writes it or ends.
LEMMA PassageOfWrite ==
  ASSUME EchoTypes, QueueTypes, EchoFifoInv, service = "fifo", Greet \/ Reply,
         NEW s \in 1 .. MaxStarts
  PROVE  Passage(s)'
  <1>. USE DEF server, clients
  <1>0. /\ Passage(s) /\ starts \in 1 .. MaxStarts
        /\ UNCHANGED <<starts, buf, opened, clientPc, sent, toServer>>
    BY EchoConstants DEF EchoFifoInv, EchoTypes, Greet, Reply, Write, ServerStep
  <1>1. PICK message :
            /\ toClient' = IF Holding("echo") = {} THEN toClient
                           ELSE [toClient EXCEPT ![starts] = Append(@, message)]
            /\ serverPc' = IF Holding("echo") = {} THEN "down" ELSE "read"
            /\ \/ serverPc = "greet" /\ message = Welcome
               \/ serverPc = "reply" /\ message = buf[2]
    BY DEF Greet, Reply, Write, ServerStep
  <1>2. message \in Lines
    BY <1>1 DEF EchoTypes, EchoMessage, Lines
  <1>3. CASE s # starts
    BY <1>0, <1>1, <1>3, PassageElsewhere DEF QueueTypes
  <1>4. CASE s = starts
    <2>1. CASE Holding("echo") = {}
      BY <1>0, <1>1, <1>4, <2>1, PassageOfEcho DEF Replying, Early
    <2>2. CASE Holding("echo") # {}
      <3>1. /\ toClient'[s] = Append(toClient[s], message) /\ serverPc' = "read"
            /\ toServer'[s] = toServer[s]
        BY <1>0, <1>1, <1>4, <2>2 DEF QueueTypes
      <3>2. Len(toServer[s]) = 0 /\ Len(toClient[s]) = 0
        <4>1. OnTheWay(s) <= 1 /\ (serverPc = "greet" => OnTheWay(s) = 0)
              /\ (serverPc = "reply" => Replying(s))
          BY <1>0, <1>4 DEF Passage, Early, Replying
        <4>. QED
          BY <1>1, <4>1, OnePlace
      <3>3. /\ Len(toClient'[s]) = 1 /\ DOMAIN toClient'[s] = {1}
            /\ toClient'[s][1] = message
        BY <1>2, <3>1, <3>2, QueueLengths, AtTheEnd
      <3>4. DOMAIN toServer'[s] = {} /\ Len(toServer'[s]) = 0
        BY <3>1, <3>2, QueueLengths
      <3>5. ~ Replying(s)' /\ ~ Early(s)' /\ OnTheWay(s)' = 1
        BY <1>0, <1>4, <3>1, <3>3, <3>4, HeldIs DEF Replying, Early, OnTheWay
      <3>6. ASSUME NEW c \in Clients, opened[c] = s, clientPc[c] \in {"ready", "await"}
            PROVE  clientPc[c] = "await" /\ message = sent[c]
        <4>1. serverPc = "reply" /\ message = buf[2]
          BY <1>0, <1>1, <1>4, <3>6 DEF Passage, Early
        <4>2. Replying(s) /\ OnTheWay(s) = 1
          BY <1>4, <3>2, <4>1, HeldIs DEF Replying, OnTheWay
        <4>. QED
          BY <1>0, <3>6, <4>1, <4>2 DEF Passage, OnlyOf
      <3>7. ASSUME NEW c \in Clients, opened[c] = s, clientPc[c] = "await"
            PROVE  OnlyOf(c, s)'
        BY <1>0, <3>3, <3>4, <3>5, <3>6, <3>7 DEF OnlyOf
      <3>. QED
        BY <1>0, <3>5, <3>6, <3>7 DEF Passage
    <2>. QED
      BY <2>1, <2>2
  <1>. QED
    BY <1>3, <1>4

\* The echo takes the only line.
LEMMA PassageOfRead ==
  ASSUME EchoTypes, QueueTypes, EchoFifoInv, service = "fifo", Read, NEW s \in 1 .. MaxStarts
  PROVE  Passage(s)'
  <1>. USE DEF server, clients
  <1>0. /\ Passage(s) /\ starts \in 1 .. MaxStarts /\ serverPc = "read"
        /\ toServer[starts] # << >> /\ buf' = Head(toServer[starts])
        /\ toServer' = [toServer EXCEPT ![starts] = Tail(@)] /\ serverPc' = "reply"
        /\ UNCHANGED <<starts, opened, clientPc, sent, toClient>>
    BY EchoConstants DEF EchoFifoInv, EchoTypes, Read, ServerStep, AfterRead
  <1>1. CASE s # starts
    BY <1>0, <1>1, PassageElsewhere DEF QueueTypes
  <1>2. CASE s = starts
    <2>1. Len(toServer[s]) = 1 /\ Len(toClient[s]) = 0
      BY <1>0, <1>2, OnePlace DEF Passage
    <2>2. toServer'[s] = Tail(toServer[s]) /\ buf' = Head(toServer[s])
      BY <1>0, <1>2 DEF QueueTypes
    <2>3. /\ Len(toServer'[s]) = 0 /\ DOMAIN toServer'[s] = {}
          /\ buf' = toServer[s][1] /\ 1 \in DOMAIN toServer[s]
      <3>1. toServer[s] \in Seq(EchoMessage) /\ toServer[s] # << >>
            /\ DOMAIN toServer[s] = 1 .. Len(toServer[s])
        BY <1>0, <1>2, QueueLengths
      <3>2. /\ Len(Tail(toServer[s])) = Len(toServer[s]) - 1
            /\ DOMAIN Tail(toServer[s]) = 1 .. Len(toServer[s]) - 1
            /\ Head(toServer[s]) = toServer[s][1]
        BY <3>1, AtTheHead
      <3>. QED
        BY <2>1, <2>2, <3>1, <3>2
    <2>4. DOMAIN toClient'[s] = {} /\ Len(toClient'[s]) = 0
      BY <1>0, <2>1, QueueLengths
    <2>5. ~ Early(s)' /\ OnTheWay(s)' = 1 /\ OnTheWay(s) = 1
      BY <1>0, <1>2, <2>1, <2>3, <2>4, HeldIs DEF Early, OnTheWay, Replying
    <2>6. ASSUME NEW c \in Clients, opened[c] = s, clientPc[c] \in {"ready", "await"}
          PROVE  clientPc[c] = "await" /\ OnlyOf(c, s)'
      <3>1. clientPc[c] = "await" /\ OnlyOf(c, s)
        BY <1>0, <2>5, <2>6 DEF Passage
      <3>2. buf'[2] = sent'[c]
        BY <1>0, <2>3, <3>1 DEF OnlyOf
      <3>. QED
        BY <2>3, <2>4, <3>1, <3>2 DEF OnlyOf
    <2>. QED
      BY <1>0, <2>5, <2>6 DEF Passage, Early
  <1>. QED
    BY <1>1, <1>2

\* A client takes the only line.
LEMMA PassageOfReceive ==
  ASSUME EchoTypes, QueueTypes, UseInv, EchoFifoInv, service = "fifo", NEW c \in Clients,
         ReadWelcome(c) \/ ReceiveAnswer(c), NEW s \in 1 .. MaxStarts
  PROVE  Passage(s)'
  <1>. USE DEF server, clients
  <1>0. /\ Passage(s) /\ LetIn(c) /\ opened[c] \in 1 .. MaxStarts
        /\ toClient[opened[c]] # << >>
        /\ toClient' = [toClient EXCEPT ![opened[c]] = Tail(@)]
        /\ clientPc' = [clientPc EXCEPT ![c] = "ready"]
        /\ UNCHANGED <<starts, serverPc, buf, opened, sent, toServer>>
    BY InboxOf DEF EchoFifoInv, ReadWelcome, ReceiveAnswer, ClientStep, LetIn
  <1>1. CASE s # opened[c]
    <2>1. \A d \in Clients : opened[d] = s => clientPc'[d] = clientPc[d]
      BY <1>0, <1>1 DEF EchoTypes
    <2>. QED
      BY <1>0, <1>1, <2>1, PassageElsewhere DEF QueueTypes
  <1>2. CASE s = opened[c]
    <2>1. Len(toClient[s]) = 1 /\ Len(toServer[s]) = 0 /\ ~ Replying(s) /\ OnTheWay(s) = 1
      BY <1>0, <1>2, OnePlace DEF Passage
    <2>2. toClient'[s] = Tail(toClient[s])
      BY <1>0, <1>2 DEF QueueTypes
    <2>3. Len(toClient'[s]) = 0
      <3>1. toClient[s] \in Seq(Lines) /\ toClient[s] # << >>
        BY <1>0, <1>2, QueueLengths
      <3>2. Len(Tail(toClient[s])) = Len(toClient[s]) - 1
        BY <3>1, AtTheHead
      <3>. QED
        BY <2>1, <2>2, <3>2
    <2>4. /\ OnTheWay(s)' = 0 /\ ~ Early(s) /\ ~ Early(s)'
      <3>1. ~ Early(s)
        BY <1>0, <2>1 DEF Passage
      <3>2. Early(s)' <=> Early(s)
        BY <1>0 DEF Early
      <3>3. ~ Replying(s)' /\ Held(s)' = 0
        BY <1>0, <2>1, HeldIs DEF Replying
      <3>4. OnTheWay(s)' = 0
        BY <1>0, <2>1, <2>3, <3>3 DEF OnTheWay
      <3>. QED
        BY <3>1, <3>2, <3>4
    <2>5. \A d \in Clients : opened[d] = s /\ d # c =>
              clientPc'[d] = clientPc[d] /\ clientPc[d] \notin {"ready", "await"}
      BY <1>0, <1>2 DEF UseInv, InUse, LetIn, EchoTypes
    <2>6. clientPc'[c] = "ready"
      BY <1>0 DEF EchoTypes
    <2>. QED
      BY <1>0, <1>2, <2>4, <2>5, <2>6 DEF Passage
  <1>. QED
    BY <1>1, <1>2

\* A client sends a line when none is on its way.
LEMMA PassageOfLine ==
  ASSUME EchoTypes, QueueTypes, UseInv, EchoFifoInv, service = "fifo", NEW c \in Clients,
         WriteLine(c), NEW s \in 1 .. MaxStarts
  PROVE  Passage(s)'
  <1>. USE DEF server, clients
  <1>1. PICK line \in NextLine(c) :
            /\ ClientStep(c, "ready", AfterSending(line))
            /\ sent' = [sent EXCEPT ![c] = IF line = Quit THEN @ ELSE @ + 1]
            /\ toServer' = [toServer EXCEPT ![starts] = Append(@, <<c, line>>)]
    BY DEF WriteLine
  <1>2. /\ Passage(s) /\ InSession /\ opened[c] = starts /\ starts \in 1 .. MaxStarts
        /\ clientPc[c] = "ready"
        /\ clientPc' = [clientPc EXCEPT ![c] = IF line = Quit THEN "closing" ELSE "await"]
        /\ UNCHANGED <<starts, serverPc, buf, opened, toClient>>
    <2>1. InSession /\ opened[c] = starts /\ UNCHANGED <<starts, serverPc, buf, opened, toClient>>
      BY DEF WriteLine
    <2>2. Passage(s) /\ starts \in 1 .. MaxStarts
      BY <2>1, EchoConstants DEF EchoFifoInv, EchoTypes, InSession
    <2>. QED
      BY <1>1, <2>1, <2>2 DEF ClientStep, AfterSending
  <1>3. CASE s # starts
    <2>1. \A d \in Clients : opened[d] = s => clientPc'[d] = clientPc[d] /\ sent'[d] = sent[d]
      BY <1>1, <1>2, <1>3 DEF EchoTypes
    <2>. QED
      BY <1>1, <1>2, <1>3, <2>1, PassageElsewhere DEF QueueTypes
  <1>4. CASE s = starts
    <2>1. Len(toClient[s]) = 0 /\ Len(toServer[s]) = 0 /\ ~ Replying(s) /\ ~ Early(s)
      BY <1>2, <1>4, OnePlace DEF Passage
    <2>2. toServer'[s] = Append(toServer[s], <<c, line>>) /\ <<c, line>> \in EchoMessage
      BY <1>1, <1>2, <1>4, NextLineType DEF QueueTypes, EchoMessage
    <2>3. /\ Len(toServer'[s]) = 1 /\ DOMAIN toServer'[s] = {1}
          /\ toServer'[s][1] = <<c, line>>
      BY <2>1, <2>2, QueueLengths, AtTheEnd
    <2>4. DOMAIN toClient'[s] = {} /\ Len(toClient'[s]) = 0
      BY <1>2, <2>1, QueueLengths
    <2>5. OnTheWay(s)' = 1 /\ ~ Early(s)' /\ ~ Replying(s)'
      BY <1>2, <2>1, <2>3, <2>4, HeldIs DEF OnTheWay, Replying, Early
    <2>6. \A d \in Clients : opened[d] = s /\ d # c =>
              clientPc'[d] = clientPc[d] /\ clientPc[d] \notin {"ready", "await"}
      BY <1>2, <1>4 DEF UseInv, InUse, EchoTypes
    <2>7. clientPc'[c] = "ready" => FALSE
      BY <1>2 DEF EchoTypes
    <2>8. clientPc'[c] = "await" => line = sent'[c]
      BY <1>1, <1>2, NextLineType DEF EchoTypes
    <2>9. clientPc'[c] = "await" => OnlyOf(c, s)'
      BY <2>3, <2>4, <2>5, <2>8 DEF OnlyOf
    <2>. QED
      BY <1>2, <2>5, <2>6, <2>7, <2>9 DEF Passage
  <1>. QED
    BY <1>3, <1>4

LEMMA EchoFifoStep ==
  ASSUME EchoTypes, QueueTypes, UseInv, EchoFifoInv, [EchoNext]_echoVars
  PROVE  EchoFifoInv'
  <1>. SUFFICES ASSUME service = "fifo", NEW s \in 1 .. MaxStarts
                PROVE  Passage(s)'
    <2>1. service' = service
      BY DEF EchoNext, Server, FifoEcho, DatagramServer, DatagramHandler, Client, FifoClient,
         DatagramClient, StartEcho, MakeFifos, Greet, Reply, Write, Read, EndOfSession,
         StartServer, SendBack, StartClient, OpenJoins, OpenSecond, ReadWelcome, WriteLine,
         ReceiveAnswer, LoseEcho, CloseClient, StartSender, SendLine, FifosMeet,
         ClientKilled, ServerKilled, Lose, echoVars
    <2>. QED
      BY <2>1 DEF EchoFifoInv
  <1>. USE DEF server, clients
  <1>0. Passage(s) /\ starts \in Nat /\ clientPc \in [Clients -> ClientSteps]
    BY EchoConstants DEF EchoFifoInv, EchoTypes
  <1>1. CASE StartEcho
    <2>1. serverPc' = "make1" /\ starts' = starts + 1
      BY <1>1 DEF StartEcho, ServerStep
    <2>2. Early(s)' => Early(s)
      BY <1>0, <2>1, EchoConstants DEF Early
    <2>3. ~ Replying(s)'
      BY <2>1 DEF Replying
    <2>. QED
      BY <1>0, <1>1, <2>2, <2>3, PassageOfEcho DEF StartEcho
  <1>2. CASE MakeFifos
    BY <1>0, <1>2, PassageOfEcho DEF MakeFifos, ServerStep, Early, Replying
  <1>3. CASE EndOfSession
    BY <1>0, <1>3, PassageOfEcho DEF EndOfSession, ServerStep, Early, Replying
  <1>4. CASE ServerKilled
    BY <1>0, <1>4, PassageOfEcho DEF ServerKilled, Early, Replying
  <1>5. CASE Greet \/ Reply
    BY <1>5, PassageOfWrite
  <1>6. CASE Read
    BY <1>6, PassageOfRead
  <1>7. ASSUME NEW c \in Clients, FifosMeet(c)
        PROVE  Passage(s)'
    <2>1. /\ UNCHANGED <<starts, toServer, toClient, sent, opened>>
          /\ serverPc \in {"open1", "open2"} /\ serverPc' \in {"open2", "greet"}
          /\ \A d \in Clients : clientPc'[d] \in {"ready", "await"} => clientPc'[d] = clientPc[d]
      BY <1>0, <1>7 DEF FifosMeet, ClientOpened, EchoOpened
    <2>. QED
      BY <1>0, <2>1, PassageOfEcho DEF Early, Replying
  <1>8. ASSUME NEW c \in Clients, \/ StartClient(c) \/ OpenJoins(c) \/ OpenSecond(c)
                                  \/ LoseEcho(c) \/ CloseClient(c) \/ ClientKilled(c)
        PROVE  Passage(s)'
    <2>1. PICK pc \in ClientSteps \ {"ready", "await"} :
              clientPc' = [clientPc EXCEPT ![c] = pc]
      BY <1>8 DEF StartClient, OpenJoins, OpenSecond, LoseEcho, CloseClient, ClientKilled,
         ClientStep, ClientOpened, ClientSteps
    <2>2. UNCHANGED <<toServer, toClient, sent, buf, serverPc, starts>>
      BY <1>8 DEF StartClient, OpenJoins, OpenSecond, LoseEcho, CloseClient, ClientKilled
    <2>3. \A d \in Clients : d # c => opened'[d] = opened[d]
      BY <1>8 DEF StartClient, OpenJoins, OpenSecond, LoseEcho, CloseClient, ClientKilled,
         EchoTypes
    <2>4. \A d \in Clients : clientPc'[d] \in {"ready", "await"} =>
              clientPc'[d] = clientPc[d] /\ opened'[d] = opened[d]
      BY <1>0, <2>1, <2>3
    <2>. QED
      BY <1>0, <2>2, <2>4, PassageOfClient
  <1>9. ASSUME NEW c \in Clients, ReadWelcome(c) \/ ReceiveAnswer(c)
        PROVE  Passage(s)'
    BY <1>9, PassageOfReceive
  <1>10. ASSUME NEW c \in Clients, WriteLine(c)
         PROVE  Passage(s)'
    BY <1>10, PassageOfLine
  <1>11. CASE UNCHANGED echoVars
    BY <1>0, <1>11, PassageOfClient DEF echoVars
  <1>12. \A c \in Clients : ~ StartSender(c) /\ ~ SendLine(c)
    BY DEF StartSender, SendLine
  <1>13. ~ StartServer /\ ~ SendBack /\ ~ Lose
    BY DEF StartServer, SendBack, Lose
  <1>. QED
    BY <1>1, <1>2, <1>3, <1>4, <1>5, <1>6, <1>7, <1>8, <1>9, <1>10, <1>11, <1>12, <1>13
       DEF EchoNext, Server, FifoEcho, DatagramServer, DatagramHandler, Client, FifoClient,
       DatagramClient

-----------------------------------------------------------------------------
(* EchoPrograms: datagrams on their way *)

\* Steps that send no datagram of client c, though they may take the first of those that
\* wait in the socket of the server, or lose what is on its way.
LEMMA DatagramKept ==
  ASSUME NEW c \in Clients, DatagramOf(c), NEW d \in {0, 1},
         \A k \in Nat : Waits(c, k)' =>
             Waits(c, k + d) /\ toServer'[starts'][k] = toServer[starts][k + d],
         LineInHand(c)' => LineInHand(c) /\ buf' = buf,
         toClient'[c] \in {toClient[c], << >>}, sent'[c] = sent[c],
         \/ clientPc'[c] = clientPc[c]
         \/ clientPc'[c] \notin {"idle", "ready", "await"}
         \/ clientPc[c] = "idle" /\ clientPc'[c] = "ready"
  PROVE  DatagramOf(c)'
  <1>1. ASSUME clientPc'[c] \in {"idle", "ready"}
        PROVE  (\A k \in Nat : ~ Waits(c, k)') /\ ~ LineInHand(c)' /\ toClient'[c] = << >>
    <2>1. clientPc[c] \in {"idle", "ready"}
      BY <1>1
    <2>2. (\A k \in Nat : ~ Waits(c, k)) /\ ~ LineInHand(c) /\ toClient[c] = << >>
      BY <2>1 DEF DatagramOf
    <2>. QED
      BY <2>2
  <1>2. ASSUME clientPc'[c] = "await"
        PROVE  /\ \A k \in Nat : Waits(c, k)' =>
                     /\ toServer'[starts'][k][2] = sent'[c]
                     /\ \A l \in Nat : Waits(c, l)' => k = l
                     /\ ~ LineInHand(c)' /\ toClient'[c] = << >>
               /\ LineInHand(c)' => buf'[2] = sent'[c] /\ toClient'[c] = << >>
               /\ toClient'[c] # << >> =>
                     Len(toClient'[c]) = 1 /\ toClient'[c][1] = sent'[c]
    <2>1. clientPc[c] = "await"
      BY <1>2
    <2>2. ASSUME NEW k \in Nat, Waits(c, k)'
          PROVE  /\ toServer'[starts'][k][2] = sent'[c]
                 /\ \A l \in Nat : Waits(c, l)' => k = l
                 /\ ~ LineInHand(c)' /\ toClient'[c] = << >>
      <3>1. Waits(c, k + d) /\ toServer'[starts'][k] = toServer[starts][k + d] /\ k + d \in Nat
        BY <2>2
      <3>2. /\ toServer[starts][k + d][2] = sent[c]
            /\ \A l \in Nat : Waits(c, l) => k + d = l
            /\ ~ LineInHand(c) /\ toClient[c] = << >>
        BY <2>1, <3>1 DEF DatagramOf
      <3>3. ASSUME NEW l \in Nat, Waits(c, l)'
            PROVE  k = l
        <4>1. Waits(c, l + d) /\ l + d \in Nat
          BY <3>3
        <4>2. k + d = l + d
          BY <3>2, <4>1
        <4>. QED
          BY <4>2
      <3>. QED
        BY <3>1, <3>2, <3>3
    <2>3. /\ LineInHand(c) => buf[2] = sent[c] /\ toClient[c] = << >>
          /\ toClient[c] # << >> => Len(toClient[c]) = 1 /\ toClient[c][1] = sent[c]
      BY <2>1 DEF DatagramOf
    <2>. QED
      BY <2>2, <2>3
  <1>. QED
    BY <1>1, <1>2 DEF DatagramOf

\* Taking the first datagram that waits leaves the others one place further.
LEMMA WaitsAfterTail ==
  ASSUME QueueTypes, starts \in 1 .. MaxStarts, toServer[starts] # << >>,
         toServer' = [toServer EXCEPT ![starts] = Tail(@)], starts' = starts,
         NEW c, NEW k \in Nat, Waits(c, k)'
  PROVE  /\ Waits(c, k + 1) /\ toServer'[starts'][k] = toServer[starts][k + 1]
         /\ k + 1 # 1
  <1>1. /\ toServer[starts] \in Seq(EchoMessage) /\ toServer'[starts] = Tail(toServer[starts])
        /\ DOMAIN toServer[starts] = 1 .. Len(toServer[starts])
        /\ Len(toServer[starts]) \in Nat
    BY QueueLengths DEF QueueTypes
  <1>2. /\ DOMAIN Tail(toServer[starts]) = 1 .. Len(toServer[starts]) - 1
        /\ \A n \in 1 .. Len(toServer[starts]) - 1 :
              Tail(toServer[starts])[n] = toServer[starts][n + 1]
    BY <1>1, AtTheHead
  <1>3. k \in 1 .. Len(toServer[starts]) - 1 /\ toServer'[starts][k][1] = c
    BY <1>1, <1>2 DEF Waits
  <1>4. toServer'[starts][k] = toServer[starts][k + 1] /\ k + 1 \in DOMAIN toServer[starts]
    <2>1. Tail(toServer[starts])[k] = toServer[starts][k + 1]
      BY <1>2, <1>3
    <2>2. k + 1 \in 1 .. Len(toServer[starts])
      BY <1>1, <1>3
    <2>. QED
      BY <1>1, <2>1, <2>2
  <1>. QED
    BY <1>3, <1>4 DEF Waits

LEMMA DatagramOfRead ==
  ASSUME EchoTypes, QueueTypes, service = "udp", Read, NEW c \in Clients, DatagramOf(c)
  PROVE  DatagramOf(c)'
  <1>. USE DEF server, clients
  <1>0. /\ starts \in 1 .. MaxStarts /\ serverPc = "read"
        /\ toServer[starts] # << >> /\ buf' = Head(toServer[starts])
        /\ toServer' = [toServer EXCEPT ![starts] = Tail(@)]
        /\ UNCHANGED <<starts, clientPc, sent, toClient>>
    BY EchoConstants DEF EchoTypes, Read, ServerStep
  <1>1. /\ toServer[starts] \in Seq(EchoMessage) /\ 1 \in DOMAIN toServer[starts]
        /\ buf' = toServer[starts][1]
    BY <1>0, QueueLengths, AtTheHead
  <1>2. \A k \in Nat : Waits(c, k)' =>
            Waits(c, k + 1) /\ toServer'[starts'][k] = toServer[starts][k + 1] /\ k + 1 # 1
    BY <1>0, WaitsAfterTail
  <1>3. CASE buf'[1] # c
    <2>1. ~ LineInHand(c)'
      BY <1>3 DEF LineInHand
    <2>. QED
      BY <1>0, <1>2, <2>1, DatagramKept
  <1>4. CASE buf'[1] = c
    <2>1. Waits(c, 1)
      BY <1>0, <1>1, <1>4 DEF Waits
    <2>2. clientPc[c] \notin {"idle", "ready"}
      BY <2>1 DEF DatagramOf
    <2>3. ASSUME clientPc[c] = "await"
          PROVE  /\ buf'[2] = sent[c] /\ toClient[c] = << >>
                 /\ \A l \in Nat : Waits(c, l) => l = 1
      BY <1>1, <2>1, <2>3 DEF DatagramOf
    <2>4. clientPc[c] = "await" => \A k \in Nat : ~ Waits(c, k)'
      BY <1>2, <2>3
    <2>. QED
      BY <1>0, <2>2, <2>3, <2>4 DEF DatagramOf
  <1>. QED
    BY <1>3, <1>4

LEMMA DatagramOfReply ==
  ASSUME EchoTypes, QueueTypes, service = "udp", SendBack, NEW c \in Clients, DatagramOf(c)
  PROVE  DatagramOf(c)'
  <1>. USE DEF server, clients
  <1>0. /\ serverPc = "reply" /\ serverPc' = "read" /\ buf \in EchoMessage
        /\ toClient' \in {toClient, [toClient EXCEPT ![buf[1]] = Append(@, buf[2])]}
        /\ UNCHANGED <<starts, clientPc, sent, toServer>>
    BY DEF EchoTypes, SendBack, ServerStep
  <1>1. ~ LineInHand(c)' /\ \A k \in Nat : Waits(c, k)' <=> Waits(c, k)
    BY <1>0 DEF LineInHand, Waits
  <1>2. CASE toClient'[c] = toClient[c]
    <2>1. \A k \in Nat : Waits(c, k)' =>
              Waits(c, k + 0) /\ toServer'[starts'][k] = toServer[starts][k + 0]
      BY <1>0, <1>1
    <2>. QED
      BY <1>0, <1>1, <1>2, <2>1, DatagramKept
  <1>3. CASE toClient'[c] # toClient[c]
    <2>1. buf[1] = c /\ toClient'[c] = Append(toClient[c], buf[2])
      BY <1>0, <1>3 DEF QueueTypes
    <2>2. LineInHand(c) /\ buf[2] \in Lines
      BY <1>0, <2>1 DEF LineInHand, EchoMessage
    <2>3. clientPc[c] \notin {"idle", "ready"}
      BY <2>2 DEF DatagramOf
    <2>4. ASSUME clientPc[c] = "await"
          PROVE  /\ Len(toClient'[c]) = 1 /\ toClient'[c][1] = sent[c]
                 /\ \A k \in Nat : ~ Waits(c, k)
      <3>1. buf[2] = sent[c] /\ toClient[c] = << >> /\ \A k \in Nat : ~ Waits(c, k)
        BY <2>2, <2>4 DEF DatagramOf
      <3>2. toClient[c] \in Seq(Lines) /\ Len(toClient[c]) = 0
        BY <3>1, EmptySeq DEF QueueTypes
      <3>. QED
        BY <2>1, <2>2, <3>1, <3>2, AtTheEnd
    <2>. QED
      BY <1>0, <1>1, <2>3, <2>4 DEF DatagramOf
  <1>. QED
    BY <1>2, <1>3

LEMMA DatagramOfSend ==
  ASSUME EchoTypes, QueueTypes, service = "udp", NEW e \in Clients, SendLine(e),
         NEW c \in Clients, DatagramOf(c)
  PROVE  DatagramOf(c)'
  <1>. USE DEF server, clients
  <1>1. PICK line \in NextLine(e) :
            /\ ClientStep(e, "ready", AfterSending(line))
            /\ sent' = [sent EXCEPT ![e] = IF line = Quit THEN @ ELSE @ + 1]
            /\ toServer' \in {toServer, IF serverPc # "down"
                                        THEN [toServer EXCEPT ![starts] = Append(@, <<e, line>>)]
                                        ELSE toServer}
    BY DEF SendLine
  <1>2. /\ UNCHANGED <<starts, serverPc, buf, toClient>> /\ <<e, line>> \in EchoMessage
        /\ clientPc[e] = "ready"
        /\ clientPc' = [clientPc EXCEPT ![e] = IF line = Quit THEN "closing" ELSE "await"]
        /\ serverPc # "down" => starts \in 1 .. MaxStarts
    <2>1. UNCHANGED <<starts, serverPc, buf, toClient>>
      BY DEF SendLine
    <2>2. <<e, line>> \in EchoMessage
      BY NextLineType DEF EchoMessage
    <2>3. /\ clientPc[e] = "ready"
          /\ clientPc' = [clientPc EXCEPT ![e] = IF line = Quit THEN "closing" ELSE "await"]
      BY <1>1 DEF ClientStep, AfterSending
    <2>4. serverPc # "down" => starts \in 1 .. MaxStarts
      BY EchoConstants DEF EchoTypes
    <2>. QED
      BY <2>1, <2>2, <2>3, <2>4
  <1>3. ASSUME NEW k \in Nat, Waits(c, k)'
        PROVE  \/ Waits(c, k) /\ toServer'[starts'][k] = toServer[starts][k]
               \/ c = e /\ toServer'[starts'][k] = <<e, line>> /\ starts \in 1 .. MaxStarts
                  /\ k = Len(toServer[starts]) + 1
    <2>1. CASE toServer' = toServer
      BY <1>2, <1>3, <2>1 DEF Waits
    <2>2. CASE toServer' # toServer
      <3>1. /\ starts \in 1 .. MaxStarts
            /\ toServer' = [toServer EXCEPT ![starts] = Append(@, <<e, line>>)]
        BY <1>1, <1>2, <2>2
      <3>2. /\ toServer'[starts] = Append(toServer[starts], <<e, line>>)
            /\ toServer[starts] \in Seq(EchoMessage)
            /\ DOMAIN toServer[starts] = 1 .. Len(toServer[starts])
            /\ Len(toServer[starts]) \in Nat
        BY <3>1, QueueLengths DEF QueueTypes
      <3>3. /\ k \in 1 .. Len(toServer[starts]) + 1 /\ toServer'[starts][k][1] = c
            /\ k <= Len(toServer[starts]) => toServer'[starts][k] = toServer[starts][k]
            /\ k = Len(toServer[starts]) + 1 => toServer'[starts][k] = <<e, line>>
        BY <1>2, <1>3, <3>2, AtTheEnd DEF Waits
      <3>4. CASE k <= Len(toServer[starts])
        BY <1>2, <3>1, <3>2, <3>3, <3>4 DEF Waits
      <3>5. CASE k = Len(toServer[starts]) + 1
        BY <1>2, <3>1, <3>3, <3>5
      <3>. QED
        BY <3>2, <3>3, <3>4, <3>5
    <2>. QED
      BY <2>1, <2>2
  <1>4. LineInHand(c)' => LineInHand(c) /\ buf' = buf
    BY <1>2 DEF LineInHand
  <1>5. CASE c # e
    <2>1. \A k \in Nat : Waits(c, k)' =>
              Waits(c, k + 0) /\ toServer'[starts'][k] = toServer[starts][k + 0]
      BY <1>3, <1>5
    <2>2. clientPc'[c] = clientPc[c] /\ sent'[c] = sent[c] /\ toClient'[c] = toClient[c]
      BY <1>1, <1>2, <1>5 DEF EchoTypes
    <2>. QED
      BY <1>4, <2>1, <2>2, DatagramKept
  <1>6. CASE c = e
    <2>1. (\A k \in Nat : ~ Waits(c, k)) /\ ~ LineInHand(c) /\ toClient[c] = << >>
      BY <1>2, <1>6 DEF DatagramOf
    <2>2. clientPc'[c] \in {"closing", "await"}
          /\ (clientPc'[c] = "await" => line # Quit)
      BY <1>2, <1>6 DEF EchoTypes
    <2>3. line # Quit => sent'[c] = line
      BY <1>1, <1>6, NextLineType DEF EchoTypes
    <2>4. ASSUME clientPc'[c] = "await", NEW k \in Nat, Waits(c, k)'
          PROVE  /\ toServer'[starts'][k][2] = sent'[c]
                 /\ \A l \in Nat : Waits(c, l)' => k = l
      <3>1. toServer'[starts'][k] = <<e, line>> /\ k = Len(toServer[starts]) + 1
        BY <1>3, <2>1, <2>4
      <3>2. \A l \in Nat : Waits(c, l)' => l = Len(toServer[starts]) + 1
        BY <1>3, <2>1
      <3>. QED
        BY <2>2, <2>3, <2>4, <3>1, <3>2
    <2>. QED
      BY <1>2, <1>4, <2>1, <2>2, <2>4 DEF DatagramOf
  <1>. QED
    BY <1>5, <1>6

LEMMA DatagramOfReceive ==
  ASSUME EchoTypes, QueueTypes, UseInv, service = "udp", NEW e \in Clients, ReceiveAnswer(e),
         NEW c \in Clients, DatagramOf(c)
  PROVE  DatagramOf(c)'
  <1>. USE DEF server, clients
  <1>0. /\ clientPc[e] = "await" /\ toClient[e] # << >>
        /\ clientPc' = [clientPc EXCEPT ![e] = "ready"]
        /\ toClient' = [toClient EXCEPT ![e] = Tail(@)]
        /\ UNCHANGED <<starts, serverPc, buf, sent, toServer>>
    BY InboxOf DEF ReceiveAnswer, ClientStep, LetIn
  <1>1. /\ LineInHand(c)' <=> LineInHand(c)
        /\ \A k \in Nat : Waits(c, k)' <=> Waits(c, k)
    BY <1>0 DEF LineInHand, Waits
  <1>2. CASE c # e
    <2>1. \A k \in Nat : Waits(c, k)' =>
              Waits(c, k + 0) /\ toServer'[starts'][k] = toServer[starts][k + 0]
      BY <1>0, <1>1
    <2>2. clientPc'[c] = clientPc[c] /\ toClient'[c] = toClient[c]
      BY <1>0, <1>2 DEF EchoTypes, QueueTypes
    <2>. QED
      BY <1>0, <1>1, <2>1, <2>2, DatagramKept
  <1>3. CASE c = e
    <2>1. Len(toClient[c]) = 1 /\ ~ LineInHand(c) /\ \A k \in Nat : ~ Waits(c, k)
      BY <1>0, <1>3 DEF DatagramOf
    <2>2. toClient'[c] = Tail(toClient[c]) /\ toClient[c] \in Seq(Lines)
      BY <1>0, <1>3 DEF QueueTypes
    <2>3. toClient'[c] = << >>
      <3>1. Len(Tail(toClient[c])) = 0 /\ Tail(toClient[c]) \in Seq(Lines)
        BY <1>0, <1>3, <2>1, <2>2, AtTheHead
      <3>. QED
        BY <2>2, <3>1, EmptySeq
    <2>4. clientPc'[c] = "ready"
      BY <1>0, <1>3 DEF EchoTypes
    <2>. QED
      BY <1>1, <2>1, <2>3, <2>4 DEF DatagramOf
  <1>. QED
    BY <1>2, <1>3

LEMMA DatagramStep ==
  ASSUME EchoTypes, QueueTypes, UseInv, DatagramInv, [EchoNext]_echoVars
  PROVE  DatagramInv'
  <1>. SUFFICES ASSUME service = "udp"
                PROVE  /\ \A s \in 1 .. MaxStarts : s > starts' => toServer'[s] = << >>
                       /\ \A c \in Clients : DatagramOf(c)'
    <2>1. service' = service
      BY DEF EchoNext, Server, FifoEcho, DatagramServer, DatagramHandler, Client, FifoClient,
         DatagramClient, StartEcho, MakeFifos, Greet, Reply, Write, Read, EndOfSession,
         StartServer, SendBack, StartClient, OpenJoins, OpenSecond, ReadWelcome, WriteLine,
         ReceiveAnswer, LoseEcho, CloseClient, StartSender, SendLine, FifosMeet,
         ClientKilled, ServerKilled, Lose, echoVars
    <2>. QED
      BY <2>1 DEF DatagramInv
  <1>. USE DEF server, clients
  <1>0. /\ \A s \in 1 .. MaxStarts : s > starts => toServer[s] = << >>
        /\ \A c \in Clients : DatagramOf(c)
        /\ starts \in Nat /\ clientPc \in [Clients -> ClientSteps]
        /\ \A c \in Clients : clientPc[c] \notin {"open1", "second", "open2", "welcome", "failed"}
        /\ serverPc \in {"down", "read", "reply"}
    BY EchoConstants DEF DatagramInv, EchoTypes
  <1>1. CASE StartServer
    <2>1. /\ starts' = starts + 1 /\ starts' \in 1 .. MaxStarts /\ serverPc' = "read"
          /\ UNCHANGED <<clientPc, sent, toServer, toClient>>
      BY <1>0, <1>1, EchoConstants DEF StartServer, ServerStep
    <2>2. toServer'[starts'] = << >>
      BY <1>0, <2>1
    <2>3. ASSUME NEW c \in Clients
          PROVE  ~ LineInHand(c)' /\ \A k \in Nat : ~ Waits(c, k)'
      BY <2>1, <2>2, EmptySeq DEF LineInHand, Waits
    <2>4. ASSUME NEW c \in Clients
          PROVE  DatagramOf(c)'
      <3>1. DatagramOf(c) /\ \A k \in Nat : Waits(c, k)' =>
                Waits(c, k + 0) /\ toServer'[starts'][k] = toServer[starts][k + 0]
        BY <1>0, <2>3
      <3>. QED
        BY <2>1, <2>3, <3>1, DatagramKept
    <2>. QED
      BY <1>0, <2>1, <2>4
  <1>2. CASE Read
    <2>1. \A s \in 1 .. MaxStarts : s > starts' => toServer'[s] = << >>
      BY <1>0, <1>2, EchoConstants DEF Read, QueueTypes
    <2>. QED
      BY <1>0, <1>2, <2>1, DatagramOfRead
  <1>3. CASE SendBack
    <2>1. UNCHANGED <<starts, toServer>>
      BY <1>3 DEF SendBack
    <2>. QED
      BY <1>0, <1>3, <2>1, DatagramOfReply
  <1>4. ASSUME NEW e \in Clients, SendLine(e)
        PROVE  /\ \A s \in 1 .. MaxStarts : s > starts' => toServer'[s] = << >>
               /\ \A c \in Clients : DatagramOf(c)'
    <2>1. starts' = starts /\ \A s \in 1 .. MaxStarts : s # starts => toServer'[s] = toServer[s]
      BY <1>4 DEF SendLine, QueueTypes
    <2>2. \A s \in 1 .. MaxStarts : s > starts => s # starts
      BY <1>0, EchoConstants
    <2>. QED
      BY <1>0, <1>4, <2>1, <2>2, DatagramOfSend
  <1>5. ASSUME NEW e \in Clients, ReceiveAnswer(e)
        PROVE  /\ \A s \in 1 .. MaxStarts : s > starts' => toServer'[s] = << >>
               /\ \A c \in Clients : DatagramOf(c)'
    <2>1. UNCHANGED <<starts, toServer>>
      BY <1>5 DEF ReceiveAnswer
    <2>. QED
      BY <1>0, <1>5, <2>1, DatagramOfReceive
  <1>6. ASSUME UNCHANGED <<starts, buf, sent, toServer, toClient>>, serverPc' \in {serverPc, "down"},
               \A c \in Clients :
                   \/ clientPc'[c] = clientPc[c]
                   \/ clientPc'[c] \notin {"idle", "ready", "await"}
                   \/ clientPc[c] = "idle" /\ clientPc'[c] = "ready"
        PROVE  /\ \A s \in 1 .. MaxStarts : s > starts' => toServer'[s] = << >>
               /\ \A c \in Clients : DatagramOf(c)'
    <2>1. ASSUME NEW c \in Clients
          PROVE  DatagramOf(c)'
      <3>1. DatagramOf(c) /\ \A k \in Nat : Waits(c, k)' =>
                Waits(c, k + 0) /\ toServer'[starts'][k] = toServer[starts][k + 0]
        BY <1>0, <1>6 DEF Waits
      <3>2. LineInHand(c)' => LineInHand(c) /\ buf' = buf
        BY <1>6 DEF LineInHand
      <3>. QED
        BY <1>6, <3>1, <3>2, DatagramKept
    <2>. QED
      BY <1>0, <1>6, <2>1
  <1>7. ASSUME NEW e \in Clients, CloseClient(e) \/ ClientKilled(e) \/ StartSender(e)
        PROVE  /\ \A s \in 1 .. MaxStarts : s > starts' => toServer'[s] = << >>
               /\ \A c \in Clients : DatagramOf(c)'
    <2>1. /\ UNCHANGED <<starts, buf, sent, toServer, toClient, serverPc>>
          /\ \A c \in Clients :
                   \/ clientPc'[c] = clientPc[c]
                   \/ clientPc'[c] \notin {"idle", "ready", "await"}
                   \/ clientPc[c] = "idle" /\ clientPc'[c] = "ready"
      BY <1>0, <1>7 DEF CloseClient, ClientKilled, StartSender, ClientStep
    <2>. QED
      BY <1>6, <2>1
  <1>8. CASE ServerKilled \/ UNCHANGED echoVars
    BY <1>6, <1>8 DEF ServerKilled, echoVars
  <1>9. CASE Lose
    <2>1. UNCHANGED <<starts, buf, sent, serverPc, clientPc>>
      BY <1>9 DEF Lose
    <2>2. CASE /\ starts > 0 /\ toServer[starts] # << >>
               /\ toServer' = [toServer EXCEPT ![starts] = Tail(@)]
               /\ UNCHANGED toClient
      <3>1. starts \in 1 .. MaxStarts
        BY <2>2, EchoConstants DEF EchoTypes
      <3>2. ASSUME NEW c \in Clients
            PROVE  DatagramOf(c)'
        <4>1. DatagramOf(c) /\ \A k \in Nat : Waits(c, k)' =>
                  Waits(c, k + 1) /\ toServer'[starts'][k] = toServer[starts][k + 1]
          BY <1>0, <2>1, <2>2, <3>1, WaitsAfterTail
        <4>2. LineInHand(c)' => LineInHand(c) /\ buf' = buf
          BY <2>1 DEF LineInHand
        <4>. QED
          BY <2>1, <2>2, <4>1, <4>2, DatagramKept
      <3>. QED
        BY <1>0, <2>1, <2>2, <3>1, <3>2, EchoConstants DEF QueueTypes
    <2>3. ASSUME NEW e \in Clients, toClient[e] # << >>, UNCHANGED toServer,
                 toClient' = [toClient EXCEPT ![e] = Tail(@)]
          PROVE  \A c \in Clients : DatagramOf(c)'
      <3>. SUFFICES ASSUME NEW c \in Clients
                    PROVE  DatagramOf(c)'
        OBVIOUS
      <3>1. DatagramOf(c) /\ \A k \in Nat : Waits(c, k)' =>
                Waits(c, k + 0) /\ toServer'[starts'][k] = toServer[starts][k + 0]
        BY <1>0, <2>1, <2>3 DEF Waits
      <3>2. LineInHand(c)' => LineInHand(c) /\ buf' = buf
        BY <2>1 DEF LineInHand
      <3>3. CASE toClient'[c] \in {toClient[c], << >>}
        BY <2>1, <3>1, <3>2, <3>3, DatagramKept
      <3>4. CASE toClient'[c] \notin {toClient[c], << >>}
        <4>1. c = e
          BY <2>3, <3>4 DEF QueueTypes
        <4>2. /\ toClient'[c] = Tail(toClient[c]) /\ toClient[c] \in Seq(Lines)
              /\ toClient[c] # << >>
          BY <2>3, <4>1 DEF QueueTypes
        <4>3. Len(toClient[c]) # 1
          <5>1. SUFFICES ASSUME Len(toClient[c]) = 1
                         PROVE  FALSE
            OBVIOUS
          <5>2. Len(Tail(toClient[c])) = 0 /\ Tail(toClient[c]) \in Seq(Lines)
            BY <4>2, <5>1, AtTheHead
          <5>. QED
            BY <3>4, <4>2, <5>2, EmptySeq
        <4>4. clientPc[c] \notin {"idle", "ready", "await"}
          BY <3>1, <4>2, <4>3 DEF DatagramOf
        <4>. QED
          BY <2>1, <4>4 DEF DatagramOf
      <3>. QED
        BY <3>3, <3>4
    <2>4. CASE \E e \in Clients : /\ toClient[e] # << >>
                                  /\ toClient' = [toClient EXCEPT ![e] = Tail(@)]
                                  /\ UNCHANGED toServer
      BY <1>0, <2>1, <2>3, <2>4
    <2>. QED
      BY <1>9, <2>2, <2>4 DEF Lose
  <1>10. ~ StartEcho /\ ~ MakeFifos /\ ~ Greet /\ ~ Reply /\ ~ EndOfSession
    BY <1>0 DEF StartEcho, MakeFifos, Greet, Reply, Write, EndOfSession, ServerStep
  <1>11. \A c \in Clients : /\ ~ StartClient(c) /\ ~ OpenJoins(c) /\ ~ OpenSecond(c)
                            /\ ~ ReadWelcome(c) /\ ~ WriteLine(c) /\ ~ LoseEcho(c)
                            /\ ~ FifosMeet(c)
    BY <1>0 DEF StartClient, OpenJoins, OpenSecond, ReadWelcome, WriteLine, LoseEcho,
       FifosMeet, ClientStep
  <1>. QED
    BY <1>1, <1>2, <1>3, <1>4, <1>5, <1>7, <1>8, <1>9, <1>10, <1>11
       DEF EchoNext, Server, FifoEcho, DatagramServer, DatagramHandler, Client, FifoClient,
       DatagramClient

-----------------------------------------------------------------------------
(* EchoPrograms: what is promised *)

LEMMA EchoInvStep == EchoInv /\ [EchoNext]_echoVars => EchoInv'
  BY EchoTypesStep, QueueStep, AnswerStep, UseStep, EchoFifoStep, DatagramStep DEF EchoInv

\* What a client takes for the answer to its n-th line is that line, for any number of
\* clients and lines, kills, lost datagrams and new starts included.
THEOREM AnswersAreTheLines == EchoSpec => []AnswersMatch
  <1>1. EchoInv => AnswersMatch
    BY DEF EchoInv, AnswerInv, AnswersMatch
  <1>. QED
    BY EchoInitInv, EchoInvStep, <1>1, PTL DEF EchoSpec
=============================================================================
