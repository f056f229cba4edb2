---------------------------- MODULE ShmRingProofs ----------------------------
(* Theorems about ShmRing, for every size of the buffer, number of operations, *)
(* sequence of amounts, leftover object and initial content of localSum.       *)
EXTENDS ShmRing, WellFoundedInduction, TLAPS

-----------------------------------------------------------------------------
(* Indexes that wrap around a buffer of B cells *)

\* A number is a multiple of B and a remainder.
LEMMA DivMod ==
  ASSUME NEW B \in Nat \ {0}, NEW a \in Nat
  PROVE  \E q \in Int, r \in 0 .. B - 1 : a = B * q + r /\ r = a % B
  OBVIOUS

\* The remainder is the only number of 0 .. B - 1 that leaves a multiple of B.
LEMMA ModUnique ==
  ASSUME NEW B \in Nat \ {0}, NEW a \in Nat, NEW q \in Int, NEW r \in 0 .. B - 1,
         a = B * q + r
  PROVE  a % B = r
  <1>1. PICK k \in Int, s \in 0 .. B - 1 : a = B * k + s /\ s = a % B
    BY DivMod
  <1>2. B * (q - k) = s - r
    BY <1>1
  <1>3. q - k < 1
    <2>1. SUFFICES ASSUME q - k >= 1 PROVE FALSE
      BY <1>1
    <2>2. B * (q - k) >= B
      BY <2>1, <1>1
    <2>. QED
      BY <2>2, <1>2, <1>1
  <1>4. q - k > -1
    <2>1. SUFFICES ASSUME q - k <= -1 PROVE FALSE
      BY <1>1
    <2>2. B * (q - k) <= -B
      BY <2>1, <1>1
    <2>. QED
      BY <2>2, <1>2, <1>1
  <1>5. q = k
    BY <1>1, <1>3, <1>4
  <1>6. B * (q - k) = 0
    BY <1>1, <1>5
  <1>7. s = r
    BY <1>2, <1>6
  <1>8. a % B = s
    BY <1>1, Zenon
  <1>. QED
    BY <1>7, <1>8, Zenon

\* An index that is advanced modulo B counts modulo B.
LEMMA ModSucc ==
  ASSUME NEW B \in Nat \ {0}, NEW a \in Nat
  PROVE  ((a % B) + 1) % B = (a + 1) % B
  <1>1. PICK q \in Int, r \in 0 .. B - 1 : a = B * q + r /\ r = a % B
    BY DivMod
  <1>. DEFINE m == a + 1
  <1>2. m \in Nat /\ m = B * q + r + 1
    BY <1>1
  <1>3. CASE r + 1 < B
    <2>1. r + 1 \in 0 .. B - 1 /\ m = B * q + (r + 1)
      BY <1>2, <1>3
    <2>. HIDE DEF m
    <2>2. m % B = r + 1
      BY <1>2, <2>1, ModUnique
    <2>3. (r + 1) % B = r + 1
      BY <1>3, <1>1
    <2>. QED
      BY <2>2, <2>3, <1>1 DEF m
  <1>4. CASE r + 1 = B
    <2>1. B * (q + 1) = B * q + B
      OBVIOUS
    <2>2. m = B * (q + 1) + 0 /\ q + 1 \in Int /\ 0 \in 0 .. B - 1
      <3>. HIDE DEF m
      <3>. QED
        BY <1>2, <1>4, <2>1
    <2>. HIDE DEF m
    <2>3. m % B = 0
      BY <1>2, <2>2, ModUnique
    <2>4. B % B = 0
      BY ModUnique, B = B * 1 + 0
    <2>. QED
      BY <2>3, <2>4, <1>1, <1>4 DEF m
  <1>. QED
    BY <1>1, <1>3, <1>4

\* Going once round the buffer leads back to the same cell.
LEMMA ModRound ==
  ASSUME NEW B \in Nat \ {0}, NEW a \in Nat
  PROVE  (a + B) % B = a % B
  <1>1. PICK q \in Int, r \in 0 .. B - 1 : a = B * q + r /\ r = a % B
    BY DivMod
  <1>2. a + B = B * (q + 1) + r
    BY <1>1
  <1>. DEFINE m == a + B
  <1>3. m \in Nat /\ m = B * (q + 1) + r /\ q + 1 \in Int
    BY <1>2
  <1>. HIDE DEF m
  <1>4. m % B = r
    BY <1>3, ModUnique
  <1>. QED
    BY <1>1, <1>4 DEF m

\* Fewer than B successive counts fall on distinct cells.
LEMMA ModDistinct ==
  ASSUME NEW B \in Nat \ {0}, NEW a \in Nat, NEW b \in Nat, a < b, b < a + B
  PROVE  a % B # b % B
  <1>1. PICK q \in Int, r \in 0 .. B - 1 : a = B * q + r /\ r = a % B
    BY DivMod
  <1>2. PICK k \in Int, s \in 0 .. B - 1 : b = B * k + s /\ s = b % B
    BY DivMod
  <1>3. SUFFICES ASSUME r = s PROVE FALSE
    BY <1>1, <1>2
  <1>4. b - a = B * (k - q)
    <2>1. /\ B * k \in Int /\ B * q \in Int
          /\ B * (k - q) = B * k - B * q
      BY <1>1, <1>2
    <2>2. a = B * q + r
      BY <1>1, Zenon
    <2>3. b = B * k + r
      BY <1>2, <1>3, Zenon
    <2>4. r \in Int
      OBVIOUS
    <2>. QED
      BY <2>1, <2>2, <2>3, <2>4
  <1>5. k - q > 0
    <2>1. SUFFICES ASSUME k - q <= 0 PROVE FALSE
      BY <1>1, <1>2
    <2>2. B * (k - q) <= 0
      BY <2>1
    <2>. QED
      BY <2>2, <1>4
  <1>6. B * (k - q) >= B
    BY <1>5
  <1>. QED
    BY <1>4, <1>6

\* A remainder is an index of the buffer.
LEMMA ModRange ==
  ASSUME NEW B \in Nat \ {0}, NEW a \in Nat
  PROVE  a % B \in 0 .. B - 1
  OBVIOUS

-----------------------------------------------------------------------------
(* Induction over the natural numbers, as a fact about sets of them, *)
(* and sums by recursion *)

\* A set of natural numbers has a least one.
LEMMA LeastNumber ==
  ASSUME NEW S \in SUBSET Nat, S # {}
  PROVE  \E n \in S : \A k \in S : n <= k
  <1>. DEFINE R == {x \in Nat \X Nat : x[1] < x[2]}
  <1>1. IsWellFoundedOn(R, Nat)
    BY NatLessThanWellFounded DEF OpToRel
  <1>. HIDE DEF R
  <1>2. PICK n \in S : \A k \in S : ~ (<<k, n>> \in R)
    BY <1>1, WFMin
  <1>3. \A k \in S : ~ (k < n)
    BY <1>2 DEF R
  <1>. QED
    BY <1>3

\* A set with 0, and with n + 1 wherever it has n, has all of them.
LEMMA SetInduction ==
  ASSUME NEW S, 0 \in S, \A n \in Nat : n \in S => n + 1 \in S
  PROVE  Nat \subseteq S
  <1>. SUFFICES ASSUME Nat \ S # {}
                PROVE  FALSE
    OBVIOUS
  <1>1. PICK n \in Nat \ S : \A k \in Nat \ S : n <= k
    BY LeastNumber
  <1>2. n # 0 /\ n - 1 \in Nat /\ n - 1 \in S
    BY <1>1
  <1>3. (n - 1) + 1 \in S
    BY <1>2
  <1>. QED
    BY <1>1, <1>3

\* The sums of the first k of F[1], ..., F[n], by recursion on k.
IsSums(s, n, F) == s = [k \in 0 .. n |-> IF k = 0 THEN 0 ELSE s[k - 1] + F[k]]

\* The recursion defines them.
LEMMA SumsDefined ==
  ASSUME NEW n \in Nat, NEW F
  PROVE  \E s : IsSums(s, n, F)
  <1>. DEFINE S == {m \in Nat : \E s : IsSums(s, m, F)}
  <1>1. 0 \in S
    <2>. DEFINE s == [k \in 0 .. 0 |-> 0]
    <2>1. IsSums(s, 0, F)
      BY DEF IsSums
    <2>. QED
      BY <2>1
  <1>2. ASSUME NEW m \in Nat, m \in S
        PROVE  m + 1 \in S
    <2>1. PICK s : IsSums(s, m, F)
      BY <1>2
    <2>. DEFINE g == [k \in 0 .. m + 1 |-> IF k = m + 1 THEN s[m] + F[m + 1] ELSE s[k]]
    <2>2. \A k \in 0 .. m + 1 : g[k] = IF k = 0 THEN 0 ELSE g[k - 1] + F[k]
      <3>. SUFFICES ASSUME NEW k \in 0 .. m + 1
                    PROVE  g[k] = IF k = 0 THEN 0 ELSE g[k - 1] + F[k]
        OBVIOUS
      <3>1. k # 0 => k - 1 \in 0 .. m + 1 /\ g[k - 1] = s[k - 1]
        OBVIOUS
      <3>2. k # m + 1 => g[k] = s[k] /\ s[k] = IF k = 0 THEN 0 ELSE s[k - 1] + F[k]
        BY <2>1 DEF IsSums
      <3>3. k = m + 1 => g[k] = s[m] + F[k] /\ k - 1 = m /\ k # 0
        OBVIOUS
      <3>. QED
        BY <3>1, <3>2, <3>3
    <2>3. g = [k \in 0 .. m + 1 |-> g[k]]
      OBVIOUS
    <2>. HIDE DEF g
    <2>4. IsSums(g, m + 1, F)
      BY <2>2, <2>3 DEF IsSums
    <2>. QED
      BY <2>4
  <1>. HIDE DEF S
  <1>3. n \in S
    BY <1>1, <1>2, SetInduction
  <1>. QED
    BY <1>3 DEF S

\* Sums of integers are integers, each got from the one before.
LEMMA SumsStep ==
  ASSUME NEW n \in Nat, NEW F, \A k \in 1 .. n : F[k] \in Int, NEW s, IsSums(s, n, F)
  PROVE  /\ s[0] = 0
         /\ \A k \in 1 .. n : s[k] = s[k - 1] + F[k]
         /\ s \in [0 .. n -> Int]
  <1>1. s[0] = 0 /\ DOMAIN s = 0 .. n /\ s = [k \in 0 .. n |-> s[k]]
    BY DEF IsSums
  <1>2. \A k \in 1 .. n : s[k] = s[k - 1] + F[k]
    BY DEF IsSums
  <1>. DEFINE S == {m \in Nat : m <= n => s[m] \in Int}
  <1>3. 0 \in S
    BY <1>1
  <1>4. ASSUME NEW m \in Nat, m \in S
        PROVE  m + 1 \in S
    <2>1. m + 1 <= n => s[m + 1] = s[m] + F[m + 1] /\ s[m] \in Int /\ F[m + 1] \in Int
      <3>. SUFFICES ASSUME m + 1 <= n
                    PROVE  s[m + 1] = s[m] + F[m + 1] /\ s[m] \in Int /\ F[m + 1] \in Int
        OBVIOUS
      <3>1. m + 1 \in 1 .. n /\ (m + 1) - 1 = m /\ m <= n
        OBVIOUS
      <3>. QED
        BY <1>2, <1>4, <3>1
    <2>. QED
      BY <2>1
  <1>. HIDE DEF S
  <1>5. Nat \subseteq S
    BY <1>3, <1>4, SetInduction
  <1>6. \A k \in 0 .. n : s[k] \in Int
    BY <1>5 DEF S
  <1>. QED
    BY <1>1, <1>2, <1>6

-----------------------------------------------------------------------------
\* What every step leaves the types of.
LEMMA TypeStep ==
  ASSUME IndInv, [Next]_vars
  PROVE  TypeOK'
  <1>1. TypeOK /\ ObjectInv /\ DrawInv
    BY DEF IndInv
  <1>2. BufferSize \in Nat \ {0} /\ NumOperations \in Nat \ {0}
        /\ \A k \in Items : Value(k) \in Int
    BY RingAssumption DEF Items, Value
  <1>3. \A k \in Cells : k + 1 \in Nat /\ (k + 1) % BufferSize \in Cells
    BY <1>2, ModRange DEF Cells
  <1>4. CASE Unlink \/ Create \/ Truncate \/ CloseProducer
    BY <1>1, <1>4
    DEF TypeOK, ObjectInv, Unlink, Create, Truncate, CloseProducer, ProducerStep, Objects,
        memory, producer, consumer, history
  <1>5. CASE Clear
    <2>1. [i \in Cells |-> 0] \in [Cells -> Items] /\ 0 \in Cells
      BY <1>2 DEF Cells, Items
    <2>. QED
      BY <1>1, <1>5, <2>1
      DEF TypeOK, Clear, ProducerStep, Objects, object, consumer, history
  <1>6. CASE Draw
    <2>1. drawn + 1 \in Items
      BY <1>1, <1>2, <1>6 DEF TypeOK, DrawInv, Draw, ProducerStep, Items
    <2>. QED
      BY <1>1, <1>6, <2>1
      DEF TypeOK, Draw, ProducerStep, object, memory, consumer, history
  <1>7. CASE WaitSpace
    BY <1>1, <1>7
    DEF TypeOK, WaitSpace, ProducerStep, object, memory, consumer, history
  <1>8. CASE Store
    <2>1. mine = "new"
      BY <1>1, <1>8 DEF TypeOK, ObjectInv, Store, ProducerStep
    <2>2. buf' \in [Objects -> [Cells -> Items]]
      BY <1>1, <1>8, <2>1 DEF TypeOK, Store, Objects
    <2>. QED
      BY <1>1, <1>8, <2>2
      DEF TypeOK, Store, ProducerStep, object, consumer, history
  <1>9. CASE AdvanceWrite
    <2>1. mine = "new"
      BY <1>1, <1>9 DEF TypeOK, ObjectInv, AdvanceWrite, ProducerStep
    <2>2. write_index' \in [Objects -> Cells]
      BY <1>1, <1>3, <1>9, <2>1 DEF TypeOK, AdvanceWrite, Objects
    <2>3. producerOps' \in Nat /\ producerSum' \in Int /\ sent' \in Seq(Items)
          /\ producerPc' \in {"draw", "close"}
      BY <1>1, <1>2, <1>9 DEF TypeOK, DrawInv, AdvanceWrite, ProducerStep
    <2>. QED
      BY <1>1, <1>9, <2>2, <2>3 DEF TypeOK, AdvanceWrite, object, consumer
  <1>10. CASE Open
    BY <1>1, <1>10
    DEF TypeOK, Open, ConsumerStep, object, memory, producer, history
  <1>11. CASE BusError \/ WaitItem \/ CloseConsumer
    BY <1>1, <1>11
    DEF TypeOK, BusError, WaitItem, CloseConsumer, ConsumerStep, object, memory,
        producer, history
  <1>12. CASE Load
    <2>1. attached \in Objects
      BY <1>1, <1>12 DEF TypeOK, ObjectInv, Load, ConsumerStep
    <2>2. value' \in Items
      BY <1>1, <1>12, <2>1 DEF TypeOK, Load
    <2>. QED
      BY <1>1, <1>12, <2>2
      DEF TypeOK, Load, ConsumerStep, object, memory, producer, history
  <1>13. CASE AdvanceRead
    <2>1. attached \in Objects
      BY <1>1, <1>13 DEF TypeOK, ObjectInv, AdvanceRead, ConsumerStep
    <2>2. read_index' \in [Objects -> Cells]
      BY <1>1, <1>3, <1>13, <2>1 DEF TypeOK, AdvanceRead
    <2>3. consumerOps' \in Int /\ consumerSum' \in Int /\ received' \in Seq(Items)
          /\ consumerPc' \in {"waitItem", "close"}
      BY <1>1, <1>2, <1>13 DEF TypeOK, AdvanceRead, ConsumerStep
    <2>. QED
      BY <1>1, <1>13, <2>2, <2>3 DEF TypeOK, AdvanceRead, object, producer
  <1>14. CASE UNCHANGED vars
    BY <1>1, <1>14 DEF TypeOK, vars, object, memory, producer, consumer, history
  <1>. QED
    BY <1>4, <1>5, <1>6, <1>7, <1>8, <1>9, <1>10, <1>11, <1>12, <1>13, <1>14
    DEF Next, ProducerNext, ConsumerNext, PollOrEnded

\* Which objects the name and the two processes refer to.
LEMMA ObjectStep ==
  ASSUME IndInv, [Next]_vars
  PROVE  ObjectInv'
  <1>1. TypeOK /\ ObjectInv
    BY DEF IndInv
  <1>2. CASE ProducerNext
    BY <1>1, <1>2
    DEF ObjectInv, TypeOK, ProducerNext, Unlink, Create, Truncate, Clear, Draw,
        WaitSpace, Store, AdvanceWrite, CloseProducer, ProducerStep, object,
        consumer
  <1>3. CASE Open
    BY <1>1, <1>3 DEF ObjectInv, TypeOK, Open, ConsumerStep, object, producer
  <1>4. CASE BusError \/ Load \/ CloseConsumer
    BY <1>1, <1>4
    DEF ObjectInv, BusError, Load, CloseConsumer, ConsumerStep, object, producer
  <1>5. CASE WaitItem
    BY <1>1, <1>5
    DEF ObjectInv, TypeOK, Objects, WaitItem, ConsumerStep, object, producer
  <1>6. CASE AdvanceRead
    <2>1. consumerPc' \in {"waitItem", "close"} /\ UNCHANGED <<object, producer, attached>>
      BY <1>6 DEF AdvanceRead, ConsumerStep
    <2>. QED
      BY <1>1, <2>1 DEF ObjectInv, object, producer
  <1>7. CASE UNCHANGED vars
    BY <1>1, <1>7 DEF ObjectInv, vars, object, producer, consumer
  <1>. QED
    BY <1>2, <1>3, <1>4, <1>5, <1>6, <1>7 DEF Next, ConsumerNext, PollOrEnded

\* The draws and the rounds go together.
LEMMA DrawStep ==
  ASSUME IndInv, [Next]_vars
  PROVE  DrawInv'
  <1>1. TypeOK /\ DrawInv /\ NumOperations \in Nat
    BY RingAssumption DEF IndInv
  <1>2. CASE AdvanceWrite
    BY <1>1, <1>2 DEF DrawInv, TypeOK, Items, AdvanceWrite, ProducerStep
  <1>3. CASE Unlink \/ Create \/ Truncate \/ Clear
    BY <1>1, <1>3
    DEF DrawInv, Unlink, Create, Truncate, Clear, ProducerStep
  <1>4. CASE Draw
    BY <1>1, <1>4 DEF DrawInv, TypeOK, Items, Draw, ProducerStep
  <1>5. CASE WaitSpace \/ Store \/ CloseProducer
    BY <1>1, <1>5 DEF DrawInv, WaitSpace, Store, CloseProducer, ProducerStep
  <1>6. CASE ConsumerNext \/ UNCHANGED vars
    BY <1>1, <1>6
    DEF DrawInv, ConsumerNext, Open, BusError, WaitItem, Load, AdvanceRead,
        CloseConsumer, producer, vars
  <1>. QED
    BY <1>2, <1>3, <1>4, <1>5, <1>6 DEF Next, ProducerNext, PollOrEnded

\* A consumer that has seen an item in the new object is past its set-up.
LEMMA NotFresh ==
  ASSUME IndInv, consumerPc \in {"load", "advance"}, attached = mine
  PROVE  producerPc \notin {"unlink", "create", "truncate", "clear"}
  <1>1. attached = "new"
    BY DEF IndInv, TypeOK, ObjectInv
  <1>2. Len(sent) > Len(received)
    BY <1>1 DEF IndInv, RoomInv
  <1>3. sent \in Seq(Items) /\ received \in Seq(Items)
    BY DEF IndInv, TypeOK
  <1>4. SUFFICES ASSUME sent = << >>, received = << >> PROVE FALSE
    BY DEF IndInv, FreshInv
  <1>. QED
    BY <1>2, <1>4

\* The new object stays as it is made until the loop starts.
LEMMA FreshStep ==
  ASSUME IndInv, [Next]_vars
  PROVE  FreshInv'
  <1>1. TypeOK /\ ObjectInv /\ FreshInv
    BY DEF IndInv
  <1>2. CASE Unlink \/ Create \/ Truncate
    BY <1>1, <1>2
    DEF FreshInv, Unlink, Create, Truncate, ProducerStep, memory, history
  <1>3. CASE Clear \/ Draw \/ WaitSpace \/ Store \/ AdvanceWrite \/ CloseProducer
    <2>1. producerPc' \in {"draw", "waitSpace", "store", "advance", "close", "exited"}
      BY <1>3 DEF Clear, Draw, WaitSpace, Store, AdvanceWrite, CloseProducer, ProducerStep
    <2>. QED
      BY <2>1 DEF FreshInv
  <1>4. CASE AdvanceRead
    <2>1. UNCHANGED <<producerPc, sent, buf>> /\ (attached # mine => received' = received)
          /\ consumerPc = "advance"
      BY <1>4 DEF AdvanceRead, ConsumerStep, producer
    <2>2. CASE attached # mine
      BY <1>1, <2>1, <2>2 DEF FreshInv
    <2>3. CASE attached = mine
      BY <2>1, <2>3, NotFresh DEF FreshInv
    <2>. QED
      BY <2>2, <2>3
  <1>5. CASE Open \/ BusError \/ WaitItem \/ Load \/ CloseConsumer \/ UNCHANGED vars
    <2>1. UNCHANGED <<producerPc, sent, received, buf>>
      BY <1>5
      DEF Open, BusError, WaitItem, Load, CloseConsumer, vars, memory, producer, history
    <2>. QED
      BY <1>1, <2>1 DEF FreshInv
  <1>. QED
    BY <1>2, <1>3, <1>4, <1>5
    DEF Next, ProducerNext, ConsumerNext, PollOrEnded

\* The indexes follow the items, and neither side overtakes the other.
LEMMA RoomStep ==
  ASSUME IndInv, [Next]_vars
  PROVE  RoomInv'
  <1>1. TypeOK /\ ObjectInv /\ FreshInv /\ RoomInv
    BY DEF IndInv
  <1>2. /\ BufferSize \in Nat \ {0}
        /\ Len(sent) \in Nat /\ Len(received) \in Nat
        /\ sent \in Seq(Items) /\ received \in Seq(Items) /\ drawn \in Items
        /\ value \in Items
    BY <1>1, RingAssumption DEF TypeOK
  <1>. DEFINE counts == <<read_index["new"], write_index["new"], sent, received>>
  \* A step that moves no index, and after which neither side knows more.
  <1>3. ASSUME UNCHANGED counts, UNCHANGED attached,
               producerPc' \in {"store", "advance"} => producerPc \in {"store", "advance"},
               consumerPc' \in {"load", "advance"} => consumerPc \in {"load", "advance"}
        PROVE  RoomInv'
    BY <1>1, <1>3 DEF RoomInv
  <1>4. CASE Unlink \/ Create \/ Truncate \/ Draw \/ Store \/ CloseProducer
    <2>1. /\ UNCHANGED counts /\ UNCHANGED <<attached, consumerPc>>
          /\ producerPc' \in {"store", "advance"} => producerPc \in {"store", "advance"}
      BY <1>4
      DEF Unlink, Create, Truncate, Draw, Store, CloseProducer, ProducerStep, memory,
          consumer, history
    <2>. QED
      BY <1>3, <2>1
  <1>5. CASE Clear
    <2>1. mine = "new" /\ sent = << >> /\ received = << >>
      BY <1>1, <1>5 DEF TypeOK, ObjectInv, FreshInv, Clear, ProducerStep
    <2>2. read_index'["new"] = 0 /\ write_index'["new"] = 0
      BY <1>1, <1>5, <2>1 DEF TypeOK, Clear, Objects
    <2>3. read_index["new"] = 0 /\ write_index["new"] = 0
      BY <1>1, <1>2, <2>1 DEF RoomInv
    <2>4. UNCHANGED <<attached, consumerPc, sent, received>> /\ producerPc' = "draw"
      BY <1>5 DEF Clear, ProducerStep, consumer, history
    <2>. QED
      BY <1>3, <2>2, <2>3, <2>4
  <1>6. CASE WaitSpace
    <2>1. /\ mine = "new" /\ UNCHANGED <<attached, consumerPc>> /\ UNCHANGED counts
          /\ (write_index["new"] + 1) % BufferSize # read_index["new"]
      BY <1>1, <1>6
      DEF TypeOK, ObjectInv, WaitSpace, ProducerStep, memory, consumer, history
    <2>2. (Len(sent) + 1) % BufferSize # Len(received) % BufferSize
      BY <1>1, <1>2, <2>1, ModSucc DEF RoomInv
    <2>3. Len(sent) + 1 # Len(received) + BufferSize
      BY <1>2, <2>2, ModRound
    <2>4. Len(sent) - Len(received) < BufferSize - 1
      <3>1. Len(sent) - Len(received) <= BufferSize - 1
        <4>1. Len(sent) - Len(received) < BufferSize
          BY <1>1 DEF RoomInv
        <4>. QED
          BY <1>2, <4>1
      <3>. QED
        BY <1>2, <2>3, <3>1
    <2>. QED
      BY <1>1, <2>1, <2>4 DEF RoomInv
  <1>7. CASE AdvanceWrite
    <2>1. /\ mine = "new" /\ producerPc = "advance"
          /\ UNCHANGED <<attached, consumerPc, read_index, received>>
          /\ sent' = Append(sent, drawn) /\ producerPc' \in {"draw", "close"}
      BY <1>1, <1>7
      DEF TypeOK, ObjectInv, AdvanceWrite, ProducerStep, consumer, history
    <2>2. Len(sent') = Len(sent) + 1
      BY <1>2, <2>1
    <2>3. write_index'["new"] = (write_index["new"] + 1) % BufferSize
      BY <1>1, <1>7, <2>1 DEF TypeOK, Objects, AdvanceWrite
    <2>4. write_index'["new"] = Len(sent') % BufferSize
      BY <1>1, <1>2, <2>2, <2>3, ModSucc DEF RoomInv
    <2>5. Len(sent) - Len(received) < BufferSize - 1
      BY <1>1, <2>1 DEF RoomInv
    <2>6. /\ Len(received) <= Len(sent') /\ Len(sent') - Len(received) < BufferSize
          /\ Len(sent) > Len(received) => Len(sent') > Len(received)
      BY <1>1, <1>2, <2>2, <2>5 DEF RoomInv
    <2>. QED
      BY <1>1, <2>1, <2>4, <2>6 DEF RoomInv
  <1>8. CASE Open
    <2>1. UNCHANGED counts /\ UNCHANGED producerPc /\ consumerPc' \in {"failed", "waitItem"}
      BY <1>8 DEF Open, ConsumerStep, memory, producer, history
    <2>. QED
      BY <1>1, <2>1 DEF RoomInv
  <1>9. CASE BusError \/ Load \/ CloseConsumer \/ UNCHANGED vars
    <2>1. /\ UNCHANGED counts /\ UNCHANGED <<attached, producerPc>>
          /\ consumerPc' \in {"load", "advance"} => consumerPc \in {"load", "advance"}
      BY <1>9
      DEF BusError, Load, CloseConsumer, ConsumerStep, vars, memory, producer,
          consumer, history
    <2>. QED
      BY <1>3, <2>1
  <1>10. CASE WaitItem
    <2>1. /\ UNCHANGED counts /\ UNCHANGED <<attached, producerPc>>
          /\ attached = "new" => read_index["new"] # write_index["new"]
      BY <1>10 DEF WaitItem, ConsumerStep, memory, producer, history
    <2>2. attached = "new" => Len(sent) > Len(received)
      BY <1>1, <1>2, <2>1 DEF RoomInv
    <2>. QED
      BY <1>1, <2>1, <2>2 DEF RoomInv
  <1>11. CASE AdvanceRead
    <2>1. /\ UNCHANGED <<producerPc, attached, write_index, sent>>
          /\ consumerPc = "advance" /\ consumerPc' \in {"waitItem", "close"}
      BY <1>11 DEF AdvanceRead, ConsumerStep, producer
    <2>2. CASE attached = "new"
      <3>1. mine = "new"
        BY <1>1, <2>2 DEF ObjectInv
      <3>2. received' = Append(received, value)
        BY <1>11, <2>2, <3>1 DEF AdvanceRead
      <3>3. Len(received') = Len(received) + 1
        BY <1>2, <3>2
      <3>4. read_index'["new"] = (read_index["new"] + 1) % BufferSize
        BY <1>1, <1>11, <2>2 DEF TypeOK, Objects, AdvanceRead
      <3>5. read_index'["new"] = Len(received') % BufferSize
        BY <1>1, <1>2, <3>3, <3>4, ModSucc DEF RoomInv
      <3>6. Len(sent) > Len(received)
        BY <1>1, <2>1, <2>2 DEF RoomInv
      <3>7. /\ Len(received') <= Len(sent) /\ Len(sent) - Len(received') < BufferSize
            /\ Len(sent) - Len(received) < BufferSize - 1 =>
                  Len(sent) - Len(received') < BufferSize - 1
        BY <1>1, <1>2, <3>3, <3>6 DEF RoomInv
      <3>. QED
        BY <1>1, <2>1, <3>5, <3>7 DEF RoomInv
    <2>3. CASE attached # "new"
      <3>1. attached # mine
        BY <1>1, <2>1, <2>3 DEF TypeOK, ObjectInv
      <3>2. received' = received /\ read_index'["new"] = read_index["new"]
        BY <1>1, <1>11, <2>3, <3>1 DEF TypeOK, Objects, AdvanceRead
      <3>. QED
        BY <1>3, <2>1, <3>2
    <2>. QED
      BY <2>2, <2>3
  <1>. QED
    BY <1>4, <1>5, <1>6, <1>7, <1>8, <1>9, <1>10, <1>11
    DEF Next, ProducerNext, ConsumerNext, PollOrEnded

\* The cell at the write index holds no item that is still to be received.
LEMMA FreeCell ==
  ASSUME IndInv
  PROVE  \A i \in Len(received) + 1 .. Len(sent) :
            /\ (i - 1) % BufferSize \in Cells
            /\ (i - 1) % BufferSize # write_index["new"]
  <1>1. /\ BufferSize \in Nat \ {0} /\ Len(sent) \in Nat /\ Len(received) \in Nat
        /\ Len(sent) - Len(received) < BufferSize
        /\ write_index["new"] = Len(sent) % BufferSize
    BY RingAssumption DEF IndInv, TypeOK, RoomInv
  <1>. TAKE i \in Len(received) + 1 .. Len(sent)
  <1>. DEFINE a == i - 1
  <1>2. a \in Nat /\ a < Len(sent) /\ Len(sent) < a + BufferSize
    BY <1>1
  <1>. HIDE DEF a
  <1>3. a % BufferSize \in Cells /\ a % BufferSize # Len(sent) % BufferSize
    BY <1>1, <1>2, ModRange, ModDistinct DEF Cells
  <1>. QED
    BY <1>1, <1>3 DEF a

\* A cell that is written and one that is read at the same time are not the same.
LEMMA ApartCells ==
  ASSUME IndInv, producerPc \in {"store", "advance"},
         consumerPc \in {"load", "advance"}, attached = "new"
  PROVE  write_index["new"] # read_index["new"]
  <1>1. /\ BufferSize \in Nat \ {0} /\ Len(sent) \in Nat /\ Len(received) \in Nat
        /\ Len(sent) - Len(received) < BufferSize - 1 /\ Len(sent) > Len(received)
        /\ write_index["new"] = Len(sent) % BufferSize
        /\ read_index["new"] = Len(received) % BufferSize
    BY RingAssumption DEF IndInv, TypeOK, RoomInv
  <1>2. Len(sent) < Len(received) + BufferSize
    BY <1>1
  <1>. QED
    BY <1>1, <1>2, ModDistinct

\* The cells keep what was stored in them until it is received.
LEMMA CellStep ==
  ASSUME IndInv, [Next]_vars
  PROVE  WindowInv' /\ HandInv'
  <1>1. TypeOK /\ ObjectInv /\ FreshInv /\ RoomInv /\ WindowInv /\ HandInv
    BY DEF IndInv
  <1>2. /\ BufferSize \in Nat \ {0}
        /\ Len(sent) \in Nat /\ Len(received) \in Nat
        /\ sent \in Seq(Items) /\ received \in Seq(Items) /\ drawn \in Items
        /\ value \in Items
        /\ DOMAIN buf = Objects /\ DOMAIN buf["new"] = Cells
        /\ write_index["new"] \in Cells /\ read_index["new"] \in Cells
    BY <1>1, RingAssumption DEF TypeOK, Objects
  <1>. DEFINE cells == <<buf["new"], read_index["new"], write_index["new"], sent, received>>
  \* A step that touches neither the cells nor what a process holds.
  <1>3. ASSUME UNCHANGED cells,
               producerPc' = "advance" => producerPc = "advance" /\ drawn' = drawn,
               consumerPc' = "advance" => UNCHANGED <<consumerPc, attached, value>>
        PROVE  WindowInv' /\ HandInv'
    BY <1>1, <1>3 DEF WindowInv, HandInv
  <1>4. CASE Unlink \/ Create \/ Truncate \/ Draw \/ WaitSpace \/ CloseProducer
    <2>1. /\ UNCHANGED cells /\ UNCHANGED <<consumerPc, attached, value>>
          /\ producerPc' # "advance"
      BY <1>4
      DEF Unlink, Create, Truncate, Draw, WaitSpace, CloseProducer, ProducerStep, memory,
          consumer, history
    <2>. QED
      BY <1>3, <2>1
  <1>5. CASE Clear
    <2>1. /\ producerPc = "clear" /\ producerPc' = "draw" /\ mine = "new"
          /\ UNCHANGED <<sent, received, consumerPc, attached, value>>
      BY <1>1, <1>5 DEF TypeOK, ObjectInv, Clear, ProducerStep, consumer, history
    <2>2. sent = << >> /\ received = << >>
      BY <1>1, <2>1 DEF FreshInv
    <2>3. ~(consumerPc = "advance" /\ attached = "new")
      BY <2>1, NotFresh
    <2>. QED
      BY <2>1, <2>2, <2>3 DEF WindowInv, HandInv
  <1>6. CASE Store
    <2>1. /\ producerPc = "store" /\ producerPc' = "advance" /\ mine = "new"
          /\ buf' = [buf EXCEPT !["new"][write_index["new"]] = drawn]
          /\ UNCHANGED <<read_index, write_index, sent, received, drawn, consumerPc,
                         attached, value>>
      BY <1>1, <1>6 DEF TypeOK, ObjectInv, Store, ProducerStep, consumer, history
    <2>2. /\ buf'["new"][write_index["new"]] = drawn
          /\ \A k \in Cells : k # write_index["new"] => buf'["new"][k] = buf["new"][k]
      BY <1>2, <2>1 DEF Objects
    <2>3. WindowInv'
      <3>1. \A i \in Len(received) + 1 .. Len(sent) :
               buf'["new"][(i - 1) % BufferSize] = buf["new"][(i - 1) % BufferSize]
        BY <2>2, FreeCell
      <3>. QED
        BY <1>1, <2>1, <3>1 DEF WindowInv
    <2>4. consumerPc = "advance" /\ attached = "new" =>
             buf'["new"][read_index["new"]] = buf["new"][read_index["new"]]
      BY <1>2, <2>1, <2>2, ApartCells
    <2>. QED
      BY <1>1, <2>1, <2>2, <2>3, <2>4 DEF HandInv
  <1>7. CASE AdvanceWrite
    <2>1. /\ producerPc = "advance" /\ producerPc' # "advance"
          /\ sent' = Append(sent, drawn)
          /\ UNCHANGED <<buf, read_index, received, consumerPc, attached, value>>
      BY <1>7 DEF AdvanceWrite, ProducerStep, consumer, history
    <2>2. buf["new"][Len(sent) % BufferSize] = drawn
      BY <1>1, <2>1 DEF HandInv, RoomInv
    <2>3. Len(sent') = Len(sent) + 1 /\ sent'[Len(sent) + 1] = drawn
          /\ \A i \in 1 .. Len(sent) : sent'[i] = sent[i]
      BY <1>2, <2>1
    <2>4. ASSUME NEW i \in Len(received) + 1 .. Len(sent) + 1
          PROVE  buf["new"][(i - 1) % BufferSize] = sent'[i]
      <3>1. CASE i = Len(sent) + 1
        <4>1. i - 1 = Len(sent)
          BY <1>2, <3>1
        <4>. QED
          BY <2>2, <2>3, <3>1, <4>1
      <3>2. CASE i # Len(sent) + 1
        <4>1. i \in Len(received) + 1 .. Len(sent) /\ i \in 1 .. Len(sent)
          BY <1>2, <3>2
        <4>. QED
          BY <1>1, <2>3, <4>1 DEF WindowInv
      <3>. QED
        BY <3>1, <3>2
    <2>5. WindowInv'
      BY <2>1, <2>3, <2>4 DEF WindowInv
    <2>6. HandInv'
      BY <1>1, <2>1 DEF HandInv
    <2>. QED
      BY <2>5, <2>6
  <1>8. CASE Open \/ BusError \/ WaitItem \/ CloseConsumer
    <2>1. /\ UNCHANGED cells /\ UNCHANGED <<producerPc, drawn>>
          /\ consumerPc' # "advance"
      BY <1>8
      DEF Open, BusError, WaitItem, CloseConsumer, ConsumerStep, memory, producer, history
    <2>. QED
      BY <1>3, <2>1
  <1>9. CASE Load
    <2>1. /\ UNCHANGED <<buf, read_index, write_index, sent, received, producerPc, drawn,
                         attached>>
          /\ attached = "new" => value' = buf["new"][read_index["new"]]
      BY <1>9 DEF Load, ConsumerStep, memory, producer, history
    <2>. QED
      BY <1>1, <2>1 DEF WindowInv, HandInv
  <1>10. CASE AdvanceRead
    <2>1. /\ consumerPc' # "advance"
          /\ UNCHANGED <<buf, write_index, sent, producerPc, drawn>>
          /\ received' \in {received, Append(received, value)}
      BY <1>10 DEF AdvanceRead, ConsumerStep, producer
    <2>2. Len(received') \in Nat /\ Len(received) <= Len(received')
      BY <1>2, <2>1
    <2>3. \A i \in Len(received') + 1 .. Len(sent) : i \in Len(received) + 1 .. Len(sent)
      BY <1>2, <2>2
    <2>. QED
      BY <1>1, <2>1, <2>3 DEF WindowInv, HandInv
  <1>11. CASE UNCHANGED vars
    BY <1>3, <1>11 DEF vars, memory, producer, consumer, history
  <1>. QED
    BY <1>4, <1>5, <1>6, <1>7, <1>8, <1>9, <1>10, <1>11
    DEF Next, ProducerNext, ConsumerNext, PollOrEnded

\* The strengthening holds to begin with, whatever an earlier run has left.
LEMMA InitInd == Init => IndInv
  <1>. SUFFICES ASSUME Init PROVE IndInv
    OBVIOUS
  <1>1. /\ BufferSize \in Nat \ {0} /\ NumOperations \in Nat \ {0}
        /\ Garbage \subseteq Int /\ Leftover \in BOOLEAN
        /\ 0 \in Cells /\ 0 \in Items
    BY RingAssumption DEF Cells, Items
  <1>2. read_index \in [Objects -> Cells] /\ write_index \in [Objects -> Cells]
        /\ read_index["new"] = 0 /\ write_index["new"] = 0
    BY <1>1 DEF Init, Objects
  <1>3. buf \in [Objects -> [Cells -> Items]] /\ buf["new"] = [i \in Cells |-> 0]
    BY <1>1 DEF Init, Objects
  <1>4. TypeOK
    <2>1. name \in Objects \cup {"none"} /\ sized \subseteq Objects
      BY DEF Init, Objects
    <2>2. producerSum \in Int /\ garbage \in Int
      BY <1>1 DEF Init
    <2>3. sent \in Seq(Items) /\ received \in Seq(Items)
      BY DEF Init
    <2>. QED
      BY <1>1, <1>2, <1>3, <2>1, <2>2, <2>3 DEF Init, TypeOK
  <1>5. ObjectInv /\ FreshInv /\ HandInv
    BY <1>3 DEF Init, ObjectInv, FreshInv, HandInv
  <1>6. DrawInv
    BY <1>1 DEF Init, DrawInv
  <1>7. RoomInv /\ WindowInv
    BY <1>1, <1>2 DEF Init, RoomInv, WindowInv
  <1>. QED
    BY <1>4, <1>5, <1>6, <1>7 DEF IndInv

\* The strengthening is an invariant: initMemory, produce and consume preserve
\* it in every interleaving.
THEOREM Inductive == Spec => []IndInv
  <1>1. IndInv /\ [Next]_vars => IndInv'
    BY TypeStep, ObjectStep, FreshStep, DrawStep, RoomStep, CellStep DEF IndInv
  <1>. QED
    BY InitInd, <1>1, PTL DEF Spec

\* The types of the memory, the locals and the history, with both indexes inside
\* the buffer.
THEOREM Types == Spec => []TypeOK
  <1>1. IndInv => TypeOK
    BY DEF IndInv
  <1>. QED
    BY Inductive, <1>1, PTL

\* produce and consume never meet in a cell.
THEOREM NoRace == Spec => []NoCellRace
  <1>1. IndInv => NoCellRace
    <2>. SUFFICES ASSUME IndInv, producerPc = "store", consumerPc = "load", attached = mine
                  PROVE  write_index[mine] # read_index[mine]
      BY DEF NoCellRace
    <2>1. mine = "new"
      BY DEF IndInv, TypeOK, ObjectInv
    <2>. QED
      BY <2>1, ApartCells
  <1>. QED
    BY Inductive, <1>1, PTL

\* initMemory's memset finds nothing but zeros.
THEOREM ClearIsHarmless == Spec => ClearChangesNothing
  <1>1. ASSUME IndInv, [Next]_vars
        PROVE  producerPc = "clear" /\ producerPc' # "clear" => UNCHANGED memory
    <2>. SUFFICES ASSUME producerPc = "clear", producerPc' # "clear"
                  PROVE  UNCHANGED memory
      OBVIOUS
    <2>1. Clear
      BY <1>1
      DEF Next, ProducerNext, ConsumerNext, PollOrEnded, Unlink, Create, Truncate, Draw,
          WaitSpace, Store, AdvanceWrite, CloseProducer, ProducerStep, Open, BusError,
          WaitItem, Load, AdvanceRead, CloseConsumer, producer, vars
    <2>2. mine = "new" /\ sent = << >> /\ received = << >>
          /\ buf["new"] = [i \in Cells |-> 0]
      BY <1>1 DEF IndInv, TypeOK, ObjectInv, FreshInv
    <2>3. Len(sent) = 0 /\ Len(received) = 0
      BY <2>2
    <2>4. read_index["new"] = 0 /\ write_index["new"] = 0
      BY <1>1, <2>3, RingAssumption DEF IndInv, RoomInv
    <2>5. /\ buf \in [Objects -> [Cells -> Items]] /\ "new" \in Objects
          /\ read_index \in [Objects -> Cells] /\ write_index \in [Objects -> Cells]
      BY <1>1 DEF IndInv, TypeOK, Objects
    <2>6. buf' = [buf EXCEPT !["new"] = [i \in Cells |-> 0]]
          /\ read_index' = [read_index EXCEPT !["new"] = 0]
          /\ write_index' = [write_index EXCEPT !["new"] = 0]
      BY <2>1, <2>2 DEF Clear
    <2>. QED
      BY <2>2, <2>4, <2>5, <2>6 DEF memory
  <1>. QED
    BY Inductive, <1>1, PTL DEF Spec, ClearChangesNothing

\* The two programs implement the bounded channel, with room for BUFFER_SIZE - 1.
THEOREM ImplementsFifo == Spec => FifoRefinement
  <1>1. Init => Fifo!FifoInit
    BY DEF Init, Fifo!FifoInit
  <1>2. ASSUME IndInv, [Next]_vars
        PROVE  [Fifo!FifoNext]_(Fifo!fifoVars)
    <2>1. TypeOK /\ RoomInv /\ WindowInv /\ HandInv
      BY <1>2 DEF IndInv
    <2>2. /\ Len(sent) \in Nat /\ Len(received) \in Nat /\ drawn \in Items
          /\ BufferSize \in Nat \ {0}
      BY <2>1, RingAssumption DEF TypeOK
    <2>3. CASE AdvanceWrite
      <3>1. producerPc = "advance" /\ sent' = Append(sent, drawn) /\ received' = received
        BY <2>3 DEF AdvanceWrite, ProducerStep
      <3>2. Len(sent) - Len(received) < BufferSize - 1
        BY <2>1, <3>1 DEF RoomInv
      <3>. QED
        BY <2>2, <3>1, <3>2 DEF Fifo!FifoNext, Fifo!Put, Fifo!Backlog
    <2>4. CASE AdvanceRead /\ attached = mine
      <3>1. /\ consumerPc = "advance" /\ attached = "new"
            /\ received' = Append(received, value) /\ sent' = sent
        BY <1>2, <2>4 DEF IndInv, TypeOK, ObjectInv, AdvanceRead, ConsumerStep
      <3>2. Len(sent) > Len(received)
        BY <2>1, <3>1 DEF RoomInv
      <3>3. PICK i \in Len(received) + 1 .. Len(sent) : i = Len(received) + 1
        BY <2>2, <3>2
      <3>4. i - 1 = Len(received)
        BY <2>2, <3>3
      <3>5. value = sent[Len(received) + 1]
        BY <2>1, <3>1, <3>3, <3>4 DEF HandInv, WindowInv, RoomInv
      <3>. QED
        BY <2>2, <3>1, <3>2, <3>5 DEF Fifo!FifoNext, Fifo!Get, Fifo!Backlog
    <2>5. CASE ~AdvanceWrite /\ ~(AdvanceRead /\ attached = mine)
      <3>1. UNCHANGED <<sent, received>>
        BY <1>2, <2>5
        DEF Next, ProducerNext, ConsumerNext, PollOrEnded, Unlink, Create, Truncate, Clear,
            Draw, WaitSpace, Store, CloseProducer, Open, BusError, WaitItem, Load,
            AdvanceRead, CloseConsumer, history, vars
      <3>. QED
        BY <3>1 DEF Fifo!fifoVars
    <2>. QED
      BY <2>3, <2>4, <2>5
  <1>. QED
    BY Inductive, <1>1, <1>2, PTL DEF Spec, FifoRefinement, Fifo!FifoSpec

-----------------------------------------------------------------------------
(* The sums *)

\* The sum of the first k numbers of the seeded sequence.
AmountSum[k \in 0 .. NumOperations] ==
    IF k = 0 THEN 0 ELSE AmountSum[k - 1] + Amount[k]

LEMMA AmountSumStep ==
  /\ AmountSum[0] = 0
  /\ \A k \in 1 .. NumOperations : AmountSum[k] = AmountSum[k - 1] + Amount[k]
  /\ AmountSum \in [0 .. NumOperations -> Int]
  <1>1. NumOperations \in Nat /\ \A k \in 1 .. NumOperations : Amount[k] \in Int
    BY RingAssumption
  <1>2. AmountSum = CHOOSE s : IsSums(s, NumOperations, Amount)
    BY DEF AmountSum, IsSums
  <1>3. IsSums(AmountSum, NumOperations, Amount)
    BY <1>1, <1>2, SumsDefined
  <1>. QED
    BY <1>1, <1>3, SumsStep

\* The items are the numbers in the order in which they are drawn, and each side has
\* added up those it has passed on, in as many rounds.
SumInv ==
  /\ \A i \in 1 .. Len(sent) : sent[i] = i
  /\ Len(sent) + producerOps = NumOperations
  /\ producerPc \in {"close", "exited"} => producerOps = 0
  /\ producerSum = garbage + AmountSum[Len(sent)]
  /\ consumerPc = "open" =>
        attached = "none" /\ received = << >>
        /\ consumerSum = 0 /\ consumerOps = NumOperations
  /\ attached = "new" =>
        /\ Len(received) + consumerOps = NumOperations
        /\ consumerPc \in {"waitItem", "load", "advance"} => consumerOps > 0
        /\ consumerPc \in {"close", "exited"} => consumerOps = 0
        /\ consumerSum = AmountSum[Len(received)]

\* Nothing has been added up to begin with.
LEMMA SumInit == Init => SumInv
  <1>. SUFFICES ASSUME Init
                PROVE  SumInv
    OBVIOUS
  <1>1. /\ Len(sent) = 0 /\ sent = << >> /\ NumOperations \in Nat
        /\ producerSum \in Int /\ producerSum = garbage /\ producerOps = NumOperations
        /\ producerPc = "unlink"
    BY RingAssumption DEF Init
  <1>2. consumerPc = "open" /\ attached = "none" /\ received = << >>
        /\ consumerSum = 0 /\ consumerOps = NumOperations
    BY DEF Init
  <1>. QED
    BY <1>1, <1>2, AmountSumStep DEF SumInv

\* What a consumer has in hand of the new object is the next item it has not had.
LEMMA NextItem ==
  ASSUME IndInv, SumInv, consumerPc = "advance", attached = "new"
  PROVE  /\ Len(received) < Len(sent) /\ Len(sent) <= NumOperations
         /\ value = Len(received) + 1
  <1>1. TypeOK /\ ObjectInv /\ RoomInv /\ WindowInv /\ HandInv
    BY DEF IndInv
  <1>2. Len(sent) \in Nat /\ Len(received) \in Nat /\ producerOps \in Nat
        /\ BufferSize \in Nat \ {0} /\ NumOperations \in Nat
    BY <1>1, RingAssumption DEF TypeOK
  <1>3. Len(received) < Len(sent) /\ Len(sent) <= NumOperations
    BY <1>1, <1>2 DEF RoomInv, SumInv
  <1>4. PICK i \in Len(received) + 1 .. Len(sent) : i = Len(received) + 1
    BY <1>2, <1>3
  <1>5. i - 1 = Len(received) /\ i \in 1 .. Len(sent)
    BY <1>2, <1>4
  <1>6. value = sent[i]
    BY <1>1, <1>4, <1>5 DEF HandInv, WindowInv, RoomInv
  <1>7. sent[i] = i
    BY <1>5 DEF SumInv
  <1>. QED
    BY <1>3, <1>4, <1>6, <1>7

\* Every step keeps the sums.
LEMMA SumStep ==
  ASSUME IndInv, SumInv, [Next]_vars
  PROVE  SumInv'
  <1>1. TypeOK /\ ObjectInv /\ FreshInv /\ DrawInv
    BY DEF IndInv
  <1>2. /\ Len(sent) \in Nat /\ Len(received) \in Nat /\ producerOps \in Nat
        /\ consumerOps \in Int /\ NumOperations \in Nat \ {0} /\ drawn \in Nat
        /\ garbage \in Int /\ producerSum \in Int /\ consumerSum \in Int
        /\ sent \in Seq(Items) /\ received \in Seq(Items)
    BY <1>1, RingAssumption DEF TypeOK, Items
  <1>3. CASE Unlink \/ Create \/ Truncate \/ Clear \/ Draw \/ WaitSpace \/ Store
             \/ CloseProducer
    <2>1. /\ UNCHANGED <<consumer, history, producerOps, producerSum>>
          /\ producerPc' \in {"close", "exited"} => producerPc \in {"close", "exited"}
      BY <1>3
      DEF Unlink, Create, Truncate, Clear, Draw, WaitSpace, Store, CloseProducer,
          ProducerStep
    <2>. QED
      BY <2>1 DEF SumInv, consumer, history
  <1>4. CASE AdvanceWrite
    <2>1. /\ producerPc = "advance"
          /\ producerPc' = IF producerOps > 1 THEN "draw" ELSE "close"
          /\ sent' = Append(sent, drawn) /\ producerOps' = producerOps - 1
          /\ producerSum' = producerSum + Value(drawn)
          /\ UNCHANGED <<consumer, garbage, received>>
      BY <1>4 DEF AdvanceWrite, ProducerStep
    <2>2. drawn = Len(sent) + 1 /\ drawn \in 1 .. NumOperations /\ producerOps > 0
      BY <1>1, <1>2, <2>1 DEF DrawInv, SumInv
    <2>3. /\ Len(sent') = Len(sent) + 1 /\ sent'[Len(sent) + 1] = Len(sent) + 1
          /\ \A i \in 1 .. Len(sent) : sent'[i] = sent[i]
          /\ \A i \in 1 .. Len(sent') : i \in 1 .. Len(sent) \/ i = Len(sent) + 1
      BY <1>1, <1>2, <2>1, <2>2 DEF TypeOK
    <2>4. \A i \in 1 .. Len(sent') : sent'[i] = i
      BY <2>3 DEF SumInv
    <2>5. Len(sent') + producerOps' = NumOperations
          /\ (producerPc' \in {"close", "exited"} => producerOps' = 0)
      <3>1. Len(sent) + producerOps = NumOperations /\ producerOps' = producerOps - 1
            /\ Len(sent') = Len(sent) + 1
        BY <2>1, <2>3 DEF SumInv
      <3>2. producerOps > 1 \/ producerOps = 1
        BY <1>2, <2>2
      <3>3. producerOps > 1 => producerPc' = "draw"
        BY <2>1
      <3>. QED
        BY <1>2, <3>1, <3>2, <3>3
    <2>6. producerSum' = garbage + AmountSum[Len(sent')]
      <3>1. /\ AmountSum[drawn] = AmountSum[drawn - 1] + Amount[drawn]
            /\ drawn - 1 \in 0 .. NumOperations
            /\ Amount[drawn] \in Int
        <4>1. drawn \in 1 .. NumOperations /\ NumOperations \in Nat
              /\ Amount \in [1 .. NumOperations -> Int]
          BY <2>2, RingAssumption
        <4>2. AmountSum[drawn] = AmountSum[drawn - 1] + Amount[drawn]
          BY <4>1, AmountSumStep
        <4>. QED
          BY <4>1, <4>2
      <3>2. drawn - 1 = Len(sent) /\ AmountSum[Len(sent)] \in Int /\ Value(drawn) = Amount[drawn]
        BY <1>2, <2>2, <3>1, AmountSumStep DEF Value
      <3>3. producerSum = garbage + AmountSum[Len(sent)]
        BY DEF SumInv
      <3>4. producerSum' = producerSum + Amount[drawn] /\ Len(sent') = drawn
        BY <1>2, <2>1, <2>3, <3>2
      <3>5. garbage \in Int
        BY <1>2
      <3>. QED
        BY <3>1, <3>2, <3>3, <3>4, <3>5
    <2>. QED
      BY <2>1, <2>4, <2>5, <2>6 DEF SumInv, consumer
  <1>5. CASE Open
    <2>1. /\ consumerPc = "open" /\ attached' = name
          /\ consumerPc' = IF name = "none" THEN "failed" ELSE "waitItem"
          /\ UNCHANGED <<producer, history, consumerOps, consumerSum>>
      BY <1>5 DEF Open, ConsumerStep
    <2>2. received = << >> /\ consumerSum = 0 /\ consumerOps = NumOperations
      BY <2>1 DEF SumInv
    <2>3. Len(received) = 0
      BY <2>2
    <2>. QED
      BY <1>2, <2>1, <2>2, <2>3, AmountSumStep DEF SumInv, producer, history
  <1>6. CASE BusError \/ WaitItem \/ Load \/ CloseConsumer
    <2>1. /\ UNCHANGED <<producer, history, attached, consumerOps, consumerSum>>
          /\ consumerPc' \notin {"open"}
          /\ consumerPc' \in {"waitItem", "load", "advance"} =>
                consumerPc \in {"waitItem", "load", "advance"}
          /\ consumerPc' \in {"close", "exited"} => consumerPc \in {"close", "exited"}
      BY <1>6 DEF BusError, WaitItem, Load, CloseConsumer, ConsumerStep
    <2>. QED
      BY <2>1 DEF SumInv, producer, history
  <1>7. CASE AdvanceRead
    <2>1. /\ consumerPc = "advance"
          /\ consumerPc' = IF consumerOps > 1 THEN "waitItem" ELSE "close"
          /\ consumerSum' = consumerSum + Value(value) /\ consumerOps' = consumerOps - 1
          /\ received' = IF attached = mine THEN Append(received, value) ELSE received
          /\ UNCHANGED <<producer, attached, garbage, sent>>
      BY <1>7 DEF AdvanceRead, ConsumerStep
    <2>2. CASE attached = "new"
      <3>1. mine = "new"
        BY <1>1, <2>2 DEF ObjectInv
      <3>2. Len(received') = Len(received) + 1
        BY <1>2, <2>1, <2>2, <3>1
      <3>3. Len(received) < Len(sent) /\ Len(sent) <= NumOperations
            /\ value = Len(received) + 1
        BY <2>1, <2>2, NextItem
      <3>4. value \in 1 .. NumOperations /\ value - 1 = Len(received)
        BY <1>2, <3>3
      <3>5. AmountSum[value] = AmountSum[Len(received)] + Amount[value]
            /\ Value(value) = Amount[value]
        BY <3>4, AmountSumStep DEF Value
      <3>6. consumerSum' = AmountSum[Len(received')]
        BY <2>1, <2>2, <3>2, <3>3, <3>5 DEF SumInv
      <3>7. consumerOps > 0 /\ Len(received) + consumerOps = NumOperations
        BY <2>1, <2>2 DEF SumInv
      <3>8. /\ Len(received') + consumerOps' = NumOperations
            /\ consumerPc' = "waitItem" => consumerOps' > 0
            /\ consumerPc' = "close" => consumerOps' = 0
        <4>1. consumerOps' = consumerOps - 1
          BY <2>1
        <4>2. Len(received') + consumerOps' = NumOperations
          BY <1>2, <3>2, <3>7, <4>1
        <4>3. consumerPc' = "waitItem" => consumerOps > 1
          BY <2>1
        <4>4. consumerPc' = "close" => ~(consumerOps > 1)
          BY <2>1
        <4>. QED
          BY <1>2, <3>7, <4>1, <4>2, <4>3, <4>4
      <3>9. consumerPc' \in {"waitItem", "close"} /\ attached' = "new"
        BY <2>1, <2>2
      <3>. QED
        BY <2>1, <3>6, <3>8, <3>9 DEF SumInv, producer
    <2>3. CASE attached # "new"
      <3>1. consumerPc' \in {"waitItem", "close"} /\ attached' # "new"
        BY <2>1, <2>3
      <3>. QED
        BY <2>1, <3>1 DEF SumInv, producer
    <2>. QED
      BY <2>2, <2>3
  <1>8. CASE UNCHANGED vars
    BY <1>8 DEF SumInv, vars, producer, consumer, history
  <1>. QED
    BY <1>3, <1>4, <1>5, <1>6, <1>7, <1>8
    DEF Next, ProducerNext, ConsumerNext, PollOrEnded

\* At the end the two local sums differ by what the producer's started from, whatever
\* that is and whenever the consumer mapped the object.
THEOREM SumsDifferByGarbage == Spec => []SumsAgree
  <1>1. ASSUME IndInv, SumInv
        PROVE  SumsAgree
    <2>. SUFFICES ASSUME producerPc = "exited", consumerPc = "exited", attached = mine
                  PROVE  producerSum - consumerSum = garbage
      BY DEF SumsAgree
    <2>1. attached = "new"
      BY <1>1 DEF IndInv, TypeOK, ObjectInv
    <2>2. /\ Len(sent) \in Nat /\ Len(received) \in Nat /\ NumOperations \in Nat
          /\ garbage \in Int
      BY <1>1, RingAssumption DEF IndInv, TypeOK
    <2>3. Len(sent) = NumOperations /\ Len(received) = NumOperations
      BY <1>1, <2>1, <2>2 DEF SumInv
    <2>4. producerSum = garbage + AmountSum[NumOperations]
          /\ consumerSum = AmountSum[NumOperations]
      BY <1>1, <2>1, <2>3 DEF SumInv
    <2>5. AmountSum[NumOperations] \in Int
      BY <2>2, AmountSumStep
    <2>. QED
      BY <2>2, <2>4, <2>5
  <1>. QED
    BY Inductive, SumInit, SumStep, <1>1, PTL DEF Spec

-----------------------------------------------------------------------------
(* The polling *)

\* The two loops do not poll each other's index in vain at the same time.
OneGoesOn ==
  producerPc = "waitSpace" /\ consumerPc = "waitItem" /\ attached = mine =>
     \/ (write_index[mine] + 1) % BufferSize # read_index[mine]
     \/ read_index[mine] # write_index[mine]

\* Where the buffer has two cells or more the producer that finds no room has left an
\* item, so that with the consumer on its object one of the two always goes on.
THEOREM NeverBothWait ==
  ASSUME BufferSize > 1
  PROVE  Spec => []OneGoesOn
  <1>1. ASSUME IndInv
        PROVE  OneGoesOn
    <2>1. /\ BufferSize \in Nat \ {0} /\ read_index \in [Objects -> Cells]
          /\ mine \in {"none", "new"} /\ (mine = "none" => producerPc # "waitSpace")
      BY <1>1, RingAssumption DEF IndInv, TypeOK, ObjectInv
    <2>. SUFFICES ASSUME producerPc = "waitSpace",
                         (write_index[mine] + 1) % BufferSize = read_index[mine],
                         read_index[mine] = write_index[mine]
                  PROVE  FALSE
      BY DEF OneGoesOn
    <2>2. mine = "new"
      BY <2>1
    <2>3. read_index["new"] \in Nat /\ read_index["new"] < BufferSize
      BY <2>1, <2>2 DEF Objects, Cells
    <2>. DEFINE r == read_index["new"]
    <2>4. (r + 1) % BufferSize = r /\ r \in Nat /\ r < BufferSize
      BY <2>2, <2>3
    <2>. HIDE DEF r
    <2>5. r % BufferSize = r
      BY <2>1, <2>4
    <2>6. (r + 1) % BufferSize # r % BufferSize
      <3>1. r + 1 \in Nat /\ r < r + 1 /\ r + 1 < r + BufferSize
        BY <2>1, <2>4
      <3>. QED
        BY <2>1, <2>4, <3>1, ModDistinct
    <2>. QED
      BY <2>4, <2>5, <2>6
  <1>. QED
    BY Inductive, <1>1, PTL
=============================================================================
