----------------------- MODULE ProducerConsumerProofs -----------------------
(* What ProducerConsumer promises for every number of threads, operations and  *)
(* cells: IndInv is inductive, and the safety properties follow from it.       *)
EXTENDS ProducerConsumer, FiniteSetTheorems, WellFoundedInduction, TLAPS

-----------------------------------------------------------------------------
(* Indexes that wrap around a buffer of B cells *)

\* A number is a multiple of B and a remainder.
LEMMA DivMod ==
  ASSUME NEW B \in Nat \ {0}, NEW a \in Nat
  PROVE  \E q \in Int, r \in 0 .. B - 1 : a = B * q + r /\ r = a % B
  OBVIOUS

\* The remainder is the only number of 0 .. B - 1 that leaves a multiple of B.
LEMMA ModUnique ==
  ASSUME NEW B \in Nat \ {0}, NEW a \in Nat, NEW q \in Int, NEW r \in 0 .. B - 1,
         a = B * q + r
  PROVE  a % B = r
  <1>1. PICK k \in Int, s \in 0 .. B - 1 : a = B * k + s /\ s = a % B
    BY DivMod
  <1>2. B * (q - k) = s - r
    BY <1>1
  <1>3. q - k < 1
    <2>1. SUFFICES ASSUME q - k >= 1 PROVE FALSE
      BY <1>1
    <2>2. B * (q - k) >= B
      BY <2>1, <1>1
    <2>. QED
      BY <2>2, <1>2, <1>1
  <1>4. q - k > -1
    <2>1. SUFFICES ASSUME q - k <= -1 PROVE FALSE
      BY <1>1
    <2>2. B * (q - k) <= -B
      BY <2>1, <1>1
    <2>. QED
      BY <2>2, <1>2, <1>1
  <1>5. q = k
    BY <1>1, <1>3, <1>4
  <1>6. B * (q - k) = 0
    BY <1>1, <1>5
  <1>7. s = r
    BY <1>2, <1>6
  <1>8. a % B = s
    BY <1>1, Zenon
  <1>. QED
    BY <1>7, <1>8, Zenon

\* An index that is advanced modulo B counts modulo B.
LEMMA ModSucc ==
  ASSUME NEW B \in Nat \ {0}, NEW a \in Nat
  PROVE  ((a % B) + 1) % B = (a + 1) % B
  <1>1. PICK q \in Int, r \in 0 .. B - 1 : a = B * q + r /\ r = a % B
    BY DivMod
  <1>. DEFINE m == a + 1
  <1>2. m \in Nat /\ m = B * q + r + 1
    BY <1>1
  <1>3. CASE r + 1 < B
    <2>1. r + 1 \in 0 .. B - 1 /\ m = B * q + (r + 1)
      BY <1>2, <1>3
    <2>. HIDE DEF m
    <2>2. m % B = r + 1
      BY <1>2, <2>1, ModUnique
    <2>3. (r + 1) % B = r + 1
      BY <1>3, <1>1
    <2>. QED
      BY <2>2, <2>3, <1>1 DEF m
  <1>4. CASE r + 1 = B
    <2>1. B * (q + 1) = B * q + B
      OBVIOUS
    <2>2. m = B * (q + 1) + 0 /\ q + 1 \in Int /\ 0 \in 0 .. B - 1
      <3>. HIDE DEF m
      <3>. QED
        BY <1>2, <1>4, <2>1
    <2>. HIDE DEF m
    <2>3. m % B = 0
      BY <1>2, <2>2, ModUnique
    <2>4. B % B = 0
      BY ModUnique, B = B * 1 + 0
    <2>. QED
      BY <2>3, <2>4, <1>1, <1>4 DEF m
  <1>. QED
    BY <1>1, <1>3, <1>4

\* Fewer than B successive counts fall on distinct cells.
LEMMA ModDistinct ==
  ASSUME NEW B \in Nat \ {0}, NEW a \in Nat, NEW b \in Nat, a < b, b < a + B
  PROVE  a % B # b % B
  <1>1. PICK q \in Int, r \in 0 .. B - 1 : a = B * q + r /\ r = a % B
    BY DivMod
  <1>2. PICK k \in Int, s \in 0 .. B - 1 : b = B * k + s /\ s = b % B
    BY DivMod
  <1>3. SUFFICES ASSUME r = s PROVE FALSE
    BY <1>1, <1>2
  <1>4. b - a = B * (k - q)
    <2>1. /\ B * k \in Int /\ B * q \in Int
          /\ B * (k - q) = B * k - B * q
      BY <1>1, <1>2
    <2>2. a = B * q + r
      BY <1>1, Zenon
    <2>3. b = B * k + r
      BY <1>2, <1>3, Zenon
    <2>4. r \in Int
      OBVIOUS
    <2>. QED
      BY <2>1, <2>2, <2>3, <2>4
  <1>5. k - q > 0
    <2>1. SUFFICES ASSUME k - q <= 0 PROVE FALSE
      BY <1>1, <1>2
    <2>2. B * (k - q) <= 0
      BY <2>1
    <2>. QED
      BY <2>2, <1>4
  <1>6. B * (k - q) >= B
    BY <1>5
  <1>. QED
    BY <1>4, <1>6

\* A remainder is an index of the buffer.
LEMMA ModRange ==
  ASSUME NEW B \in Nat \ {0}, NEW a \in Nat
  PROVE  a % B \in 0 .. B - 1
  OBVIOUS

-----------------------------------------------------------------------------
(* Induction over the natural numbers, as a fact about sets of them, *)
(* and sums by recursion *)

\* A set of natural numbers has a least one.
LEMMA LeastNumber ==
  ASSUME NEW S \in SUBSET Nat, S # {}
  PROVE  \E n \in S : \A k \in S : n <= k
  <1>. DEFINE R == {x \in Nat \X Nat : x[1] < x[2]}
  <1>1. IsWellFoundedOn(R, Nat)
    BY NatLessThanWellFounded DEF OpToRel
  <1>. HIDE DEF R
  <1>2. PICK n \in S : \A k \in S : ~ (<<k, n>> \in R)
    BY <1>1, WFMin
  <1>3. \A k \in S : ~ (k < n)
    BY <1>2 DEF R
  <1>. QED
    BY <1>3

\* A set with 0, and with n + 1 wherever it has n, has all of them.
LEMMA SetInduction ==
  ASSUME NEW S, 0 \in S, \A n \in Nat : n \in S => n + 1 \in S
  PROVE  Nat \subseteq S
  <1>. SUFFICES ASSUME Nat \ S # {}
                PROVE  FALSE
    OBVIOUS
  <1>1. PICK n \in Nat \ S : \A k \in Nat \ S : n <= k
    BY LeastNumber
  <1>2. n # 0 /\ n - 1 \in Nat /\ n - 1 \in S
    BY <1>1
  <1>3. (n - 1) + 1 \in S
    BY <1>2
  <1>. QED
    BY <1>1, <1>3

\* The sums of the first k of F[1], ..., F[n], by recursion on k.
IsSums(s, n, F) == s = [k \in 0 .. n |-> IF k = 0 THEN 0 ELSE s[k - 1] + F[k]]

\* The recursion defines them.
LEMMA SumsDefined ==
  ASSUME NEW n \in Nat, NEW F
  PROVE  \E s : IsSums(s, n, F)
  <1>. DEFINE S == {m \in Nat : \E s : IsSums(s, m, F)}
  <1>1. 0 \in S
    <2>. DEFINE s == [k \in 0 .. 0 |-> 0]
    <2>1. IsSums(s, 0, F)
      BY DEF IsSums
    <2>. QED
      BY <2>1
  <1>2. ASSUME NEW m \in Nat, m \in S
        PROVE  m + 1 \in S
    <2>1. PICK s : IsSums(s, m, F)
      BY <1>2
    <2>. DEFINE g == [k \in 0 .. m + 1 |-> IF k = m + 1 THEN s[m] + F[m + 1] ELSE s[k]]
    <2>2. \A k \in 0 .. m + 1 : g[k] = IF k = 0 THEN 0 ELSE g[k - 1] + F[k]
      <3>. SUFFICES ASSUME NEW k \in 0 .. m + 1
                    PROVE  g[k] = IF k = 0 THEN 0 ELSE g[k - 1] + F[k]
        OBVIOUS
      <3>1. k # 0 => k - 1 \in 0 .. m + 1 /\ g[k - 1] = s[k - 1]
        OBVIOUS
      <3>2. k # m + 1 => g[k] = s[k] /\ s[k] = IF k = 0 THEN 0 ELSE s[k - 1] + F[k]
        BY <2>1 DEF IsSums
      <3>3. k = m + 1 => g[k] = s[m] + F[k] /\ k - 1 = m /\ k # 0
        OBVIOUS
      <3>. QED
        BY <3>1, <3>2, <3>3
    <2>3. g = [k \in 0 .. m + 1 |-> g[k]]
      OBVIOUS
    <2>. HIDE DEF g
    <2>4. IsSums(g, m + 1, F)
      BY <2>2, <2>3 DEF IsSums
    <2>. QED
      BY <2>4
  <1>. HIDE DEF S
  <1>3. n \in S
    BY <1>1, <1>2, SetInduction
  <1>. QED
    BY <1>3 DEF S

\* Sums of integers are integers, each got from the one before.
LEMMA SumsStep ==
  ASSUME NEW n \in Nat, NEW F, \A k \in 1 .. n : F[k] \in Int, NEW s, IsSums(s, n, F)
  PROVE  /\ s[0] = 0
         /\ \A k \in 1 .. n : s[k] = s[k - 1] + F[k]
         /\ s \in [0 .. n -> Int]
  <1>1. s[0] = 0 /\ DOMAIN s = 0 .. n /\ s = [k \in 0 .. n |-> s[k]]
    BY DEF IsSums
  <1>2. \A k \in 1 .. n : s[k] = s[k - 1] + F[k]
    BY DEF IsSums
  <1>. DEFINE S == {m \in Nat : m <= n => s[m] \in Int}
  <1>3. 0 \in S
    BY <1>1
  <1>4. ASSUME NEW m \in Nat, m \in S
        PROVE  m + 1 \in S
    <2>1. m + 1 <= n => s[m + 1] = s[m] + F[m + 1] /\ s[m] \in Int /\ F[m + 1] \in Int
      <3>. SUFFICES ASSUME m + 1 <= n
                    PROVE  s[m + 1] = s[m] + F[m + 1] /\ s[m] \in Int /\ F[m + 1] \in Int
        OBVIOUS
      <3>1. m + 1 \in 1 .. n /\ (m + 1) - 1 = m /\ m <= n
        OBVIOUS
      <3>. QED
        BY <1>2, <1>4, <3>1
    <2>. QED
      BY <2>1
  <1>. HIDE DEF S
  <1>5. Nat \subseteq S
    BY <1>3, <1>4, SetInduction
  <1>6. \A k \in 0 .. n : s[k] \in Int
    BY <1>5 DEF S
  <1>. QED
    BY <1>1, <1>2, <1>6

\* One of the numbers raised by a raises the sum of all of them by a.
LEMMA SumsRaised ==
  ASSUME NEW n \in Nat, NEW F, NEW G, NEW s, NEW t, NEW x \in 1 .. n, NEW a \in Int,
         IsSums(s, n, F), IsSums(t, n, G), \A k \in 1 .. n : F[k] \in Int,
         G[x] = F[x] + a, \A k \in 1 .. n : k # x => G[k] = F[k]
  PROVE  s[n] \in Int /\ t[n] = s[n] + a
  <1>1. \A k \in 1 .. n : G[k] \in Int
    OBVIOUS
  <1>2. /\ s[0] = 0 /\ \A k \in 1 .. n : s[k] = s[k - 1] + F[k]
        /\ s \in [0 .. n -> Int]
    BY SumsStep
  <1>3. /\ t[0] = 0 /\ \A k \in 1 .. n : t[k] = t[k - 1] + G[k]
        /\ t \in [0 .. n -> Int]
    BY <1>1, SumsStep
  <1>. DEFINE S == {m \in Nat : m <= n => t[m] = IF m < x THEN s[m] ELSE s[m] + a}
  <1>4. 0 \in S
    BY <1>2, <1>3
  <1>5. ASSUME NEW m \in Nat, m \in S
        PROVE  m + 1 \in S
    <2>. SUFFICES ASSUME m + 1 <= n
                  PROVE  t[m + 1] = IF m + 1 < x THEN s[m + 1] ELSE s[m + 1] + a
      OBVIOUS
    <2>1. m + 1 \in 1 .. n /\ (m + 1) - 1 = m /\ m \in 0 .. n /\ m <= n
      OBVIOUS
    <2>2. t[m + 1] = t[m] + G[m + 1] /\ s[m + 1] = s[m] + F[m + 1]
      BY <1>2, <1>3, <2>1
    <2>3. t[m] = IF m < x THEN s[m] ELSE s[m] + a
      BY <1>5, <2>1
    <2>4. t[m] \in Int /\ s[m] \in Int /\ G[m + 1] \in Int /\ F[m + 1] \in Int
      BY <1>1, <1>2, <1>3, <2>1
    <2>5. CASE m + 1 = x
      BY <2>2, <2>3, <2>4, <2>5
    <2>6. CASE m + 1 # x
      <3>1. G[m + 1] = F[m + 1]
        BY <2>1, <2>6
      <3>. QED
        BY <2>1, <2>2, <2>3, <2>4, <2>6, <3>1
    <2>. QED
      BY <2>5, <2>6
  <1>. HIDE DEF S
  <1>6. n \in S
    BY <1>4, <1>5, SetInduction
  <1>. QED
    BY <1>2, <1>6 DEF S

-----------------------------------------------------------------------------
(* The threads, and the sets of threads at given steps *)

\* Producers and consumers are numbered apart and there are finitely many.
LEMMA ThreadsFacts ==
  /\ Threads = 0 .. NumThreads - 1
  /\ Producers \cap Consumers = {}
  /\ NumThreads \in Nat
  /\ NumOperations \in Nat
  /\ IsFiniteSet(Threads)
  <1>1. NumProducers \in Nat \ {0} /\ NumConsumers \in Nat \ {0} /\ NumThreads \in Nat
    BY ParametersAssumption DEF NumThreads
  <1>2. Threads = 0 .. NumThreads - 1 /\ Producers \cap Consumers = {}
    BY <1>1 DEF Threads, Producers, Consumers, NumThreads
  <1>3. IsFiniteSet(0 .. NumThreads - 1)
    BY <1>1, FS_Interval
  <1>4. NumOperations \in Nat
    BY ParametersAssumption DEF NumOperations
  <1>. QED
    BY <1>1, <1>2, <1>3, <1>4

\* A thread that steps leaves the sets its old step is in and joins those of its
\* new one; nobody else moves.
LEMMA StepMoves ==
  ASSUME TypeOK, NEW t \in Threads, NEW from, NEW to, Step(t, from, to), NEW S
  PROVE  /\ IsFiniteSet(At(S))
         /\ Cardinality(At(S)) \in Nat
         /\ t \in At(S) <=> from \in S
         /\ At(S)' = (At(S) \ {t}) \cup IF to \in S THEN {t} ELSE {}
         /\ Cardinality(At(S))' = Cardinality(At(S))
              + (IF to \in S THEN 1 ELSE 0) - (IF from \in S THEN 1 ELSE 0)
  <1>1. pc' = [pc EXCEPT ![t] = to] /\ pc[t] = from /\ DOMAIN pc = Threads
    BY DEF Step, TypeOK, PcOK
  <1>2. At(S) \subseteq Threads
    BY DEF At
  <1>3. IsFiniteSet(At(S)) /\ Cardinality(At(S)) \in Nat
    BY <1>2, ThreadsFacts, FS_Subset, FS_CardinalityType
  <1>4. t \in At(S) <=> from \in S
    BY <1>1 DEF At
  <1>5. At(S)' = (At(S) \ {t}) \cup IF to \in S THEN {t} ELSE {}
    BY <1>1 DEF At
  <1>. DEFINE rest == At(S) \ {t}
              joins == IF to \in S THEN {t} ELSE {}
  <1>6. /\ IsFiniteSet(rest)
        /\ Cardinality(rest) = Cardinality(At(S)) - IF from \in S THEN 1 ELSE 0
    BY <1>3, <1>4, FS_RemoveElement
  <1>7. Cardinality(rest \cup joins) = Cardinality(rest) + IF to \in S THEN 1 ELSE 0
    <2>1. t \notin rest
      OBVIOUS
    <2>2. Cardinality(rest \cup {t}) = Cardinality(rest) + 1
      BY <1>6, <2>1, FS_AddElement
    <2>3. Cardinality(rest) \in Nat /\ rest \cup {} = rest
      BY <1>6, FS_CardinalityType
    <2>. QED
      BY <2>2, <2>3
  <1>8. Cardinality(At(S))' = Cardinality(At(S)')
    OBVIOUS
  <1>. QED
    BY <1>3, <1>4, <1>5, <1>6, <1>7, <1>8

\* The three things that can happen to one of those sets.
LEMMA Stays ==
  ASSUME TypeOK, NEW t \in Threads, NEW from, NEW to, Step(t, from, to), NEW S,
         from \in S <=> to \in S
  PROVE  At(S)' = At(S)
  <1>1. CASE from \in S
    <2>1. t \in At(S) /\ At(S)' = (At(S) \ {t}) \cup {t}
      BY <1>1, StepMoves
    <2>. QED
      BY <2>1
  <1>2. CASE from \notin S
    <2>1. t \notin At(S) /\ At(S)' = (At(S) \ {t}) \cup {}
      BY <1>2, StepMoves
    <2>. QED
      BY <2>1
  <1>. QED
    BY <1>1, <1>2

LEMMA Enters ==
  ASSUME TypeOK, NEW t \in Threads, NEW from, NEW to, Step(t, from, to), NEW S,
         from \notin S, to \in S
  PROVE  At(S)' = At(S) \cup {t}
  BY StepMoves

LEMMA Leaves ==
  ASSUME TypeOK, NEW t \in Threads, NEW from, NEW to, Step(t, from, to), NEW S,
         from \in S, to \notin S
  PROVE  t \in At(S) /\ At(S)' = At(S) \ {t}
  BY StepMoves

\* Every draw is one of finitely many.
LEMMA ToDrawFinite ==
  ASSUME TypeOK
  PROVE  IsFiniteSet(ToDraw) /\ Cardinality(ToDraw) \in Nat
  <1>1. IsFiniteSet(Producers) /\ IsFiniteSet(1 .. OpsPerProducer)
    BY ParametersAssumption, FS_Interval DEF Producers
  <1>2. IsFiniteSet(Producers \X (1 .. OpsPerProducer))
    BY <1>1, FS_Product
  <1>3. ToDraw \subseteq Producers \X (1 .. OpsPerProducer)
    BY DEF ToDraw
  <1>. QED
    BY <1>2, <1>3, FS_Subset, FS_CardinalityType

\* The value of an item is an integer.
LEMMA ValueType ==
  ASSUME NEW i \in Items
  PROVE  Value(i) \in Int
  BY ParametersAssumption, ThreadsFacts DEF Items, Value

\* A draw of producer p is the last of those it has still to make.
LEMMA DrawCounts ==
  ASSUME TypeOK, DrawInv, NEW p \in Producers, Draw(p)
  PROVE  /\ drawn' \in 1 .. NumOperations
         /\ drawn' + Cardinality(ToDraw)' = NumOperations
  <1>. DEFINE d == <<p, numOps[p]>>
  <1>1. /\ p \in Threads /\ OpsPerProducer \in Nat
        /\ numOps \in [Threads -> Nat] /\ DOMAIN pc = Threads
        /\ drawn \in 0 .. NumOperations
    BY ParametersAssumption DEF TypeOK, PcOK, Threads, Items
  <1>2. /\ pc[p] = "draw"
        /\ pc' = [pc EXCEPT ![p] = IF DrawsInLock THEN "store" ELSE "waitEmpty"]
        /\ numOps' = numOps
        /\ drawn' = drawn + 1
    BY DEF Draw, Step
  <1>. numOps[p] \in 1 .. OpsPerProducer
    BY <1>1, <1>2 DEF DrawInv
  <1>3. pc[p] \notin HoldsItem /\ pc'[p] \in HoldsItem
    BY <1>1, <1>2 DEF HoldsItem
  <1>4. \A q \in Producers : q \in Threads /\ (q # p => pc'[q] = pc[q])
    BY <1>2 DEF Threads
  <1>5. d \in ToDraw
    BY <1>1, <1>3 DEF ToDraw
  <1>6. ToDraw' = ToDraw \ {d}
    BY <1>1, <1>2, <1>3, <1>4 DEF ToDraw
  <1>7. Cardinality(ToDraw \ {d}) = Cardinality(ToDraw) - 1
    BY <1>5, ToDrawFinite, FS_RemoveElement
  <1>8. IsFiniteSet(ToDraw \ {d}) /\ Cardinality(ToDraw \ {d}) \in Nat
    BY ToDrawFinite, FS_RemoveElement, FS_CardinalityType
  <1>9. drawn + Cardinality(ToDraw) = NumOperations /\ NumOperations \in Nat
    BY ThreadsFacts DEF DrawInv
  <1>. HIDE DEF d
  <1>10. Cardinality(ToDraw)' = Cardinality(ToDraw) - 1
    BY <1>6, <1>7
  <1>11. Cardinality(ToDraw) - 1 \in Nat
    BY <1>7, <1>8
  <1>. QED
    BY <1>1, <1>2, <1>9, <1>10, <1>11, ToDrawFinite

-----------------------------------------------------------------------------
(* Types *)

\* A thread that steps to a step of its own kind keeps PcOK.
LEMMA PcTypes ==
  ASSUME PcOK, NEW t \in Threads, NEW from, NEW to, Step(t, from, to),
         t \in Producers => to \in ProducerSteps \cup {"done"},
         t \in Consumers => to \in ConsumerSteps \cup {"done"}
  PROVE  PcOK'
  <1>1. /\ pc' = [pc EXCEPT ![t] = to]
        /\ pc \in [Threads -> ProducerSteps \cup ConsumerSteps \cup {"unborn", "done"}]
    BY DEF PcOK, Step
  <1>2. "done" \notin ProducerSteps /\ "done" \notin ConsumerSteps
    BY DEF ProducerSteps, ConsumerSteps
  <1>3. ProducerSteps \cap ConsumerSteps = {}
    BY DEF ProducerSteps, ConsumerSteps
  <1>4. pc' \in [Threads -> ProducerSteps \cup ConsumerSteps \cup {"unborn", "done"}]
    BY <1>1 DEF Threads
  <1>5. \A p \in Producers : pc'[p] \notin ConsumerSteps
    BY <1>1, <1>2, <1>3 DEF PcOK, Threads
  <1>6. \A c \in Consumers : pc'[c] \notin ProducerSteps
    BY <1>1, <1>2, <1>3 DEF PcOK, Threads
  <1>. QED
    BY <1>4, <1>5, <1>6 DEF PcOK

\* Every step keeps the types of the variables.
LEMMA TypeStep ==
  ASSUME IndInv, [Next]_vars
  PROVE  TypeOK'
  <1>. USE DEF shared, sems, locals, mainVars, history
  <1>1. TypeOK /\ DrawInv /\ LockInv /\ PcOK
    BY DEF IndInv, TypeOK
  <1>2. /\ \A p \in Producers : p \in Threads /\ p \notin Consumers
        /\ \A c \in Consumers : c \in Threads /\ c \notin Producers
        /\ BufferSize \in Nat \ {0}
    BY ThreadsFacts, ParametersAssumption DEF Threads
  <1>3. ASSUME NEW p \in Producers, Draw(p) PROVE TypeOK'
    <2>1. PcOK'
      <3>1. Step(p, "draw", IF DrawsInLock THEN "store" ELSE "waitEmpty")
        BY <1>3 DEF Draw
      <3>. QED
        BY <1>1, <1>2, <3>1, PcTypes DEF ProducerSteps
    <2>2. drawn' \in 1 .. NumOperations
      BY <1>1, <1>3, DrawCounts
    <2>3. drawn' = drawn + 1 /\ drawn' \in Items
      BY <1>3, <2>2, ThreadsFacts DEF Draw, Items
    <2>. QED
      BY <1>1, <1>2, <1>3, <2>1, <2>3 DEF TypeOK, Draw
  <1>4. ASSUME NEW p \in Producers, WaitEmpty(p) PROVE TypeOK'
    <2>1. PcOK'
      <3>1. Step(p, "waitEmpty", "waitWrite")
        BY <1>4 DEF WaitEmpty
      <3>. QED
        BY <1>1, <1>2, <3>1, PcTypes DEF ProducerSteps
    <2>. QED
      BY <1>1, <1>2, <1>4, <2>1 DEF TypeOK, WaitEmpty
  <1>5. ASSUME NEW p \in Producers, WaitWrite(p) PROVE TypeOK'
    <2>1. PcOK'
      <3>1. Step(p, "waitWrite", IF DrawsInLock THEN "draw" ELSE "store")
        BY <1>5 DEF WaitWrite
      <3>. QED
        BY <1>1, <1>2, <3>1, PcTypes DEF ProducerSteps
    <2>. QED
      BY <1>1, <1>2, <1>5, <2>1 DEF TypeOK, WaitWrite
  <1>6. ASSUME NEW p \in Producers, StoreItem(p) PROVE TypeOK'
    <2>1. PcOK'
      <3>1. Step(p, "store", "advanceWrite")
        BY <1>6 DEF StoreItem
      <3>. QED
        BY <1>1, <1>2, <3>1, PcTypes DEF ProducerSteps
    <2>. QED
      BY <1>1, <1>2, <1>6, <2>1 DEF TypeOK, StoreItem
  <1>7. ASSUME NEW p \in Producers, AdvanceWrite(p) PROVE TypeOK'
    <2>1. PcOK'
      <3>1. Step(p, "advanceWrite", "postWrite")
        BY <1>7 DEF AdvanceWrite
      <3>. QED
        BY <1>1, <1>2, <3>1, PcTypes DEF ProducerSteps
    <2>2. write_index' \in 0 .. BufferSize - 1
      BY <1>1, <1>2, <1>7 DEF TypeOK, AdvanceWrite
    <2>3. sent' \in Seq(Items)
      BY <1>1, <1>2, <1>7 DEF TypeOK, AdvanceWrite
    <2>. QED
      BY <1>1, <1>2, <1>7, <2>1, <2>2, <2>3 DEF TypeOK, AdvanceWrite
  <1>8. ASSUME NEW p \in Producers, PostWrite(p) PROVE TypeOK'
    <2>1. PcOK'
      <3>1. Step(p, "postWrite", "postFill")
        BY <1>8 DEF PostWrite
      <3>. QED
        BY <1>1, <1>2, <3>1, PcTypes DEF ProducerSteps
    <2>2. p \in At(Writing)
      BY <1>2, <1>8 DEF PostWrite, Step, At, Writing
    <2>3. UsesWriteSem => write_sem = 0
      BY <1>1, <2>2 DEF LockInv, TypeOK
    <2>. QED
      BY <1>1, <1>2, <1>8, <2>1, <2>3 DEF TypeOK, PostWrite
  <1>9. ASSUME NEW p \in Producers, PostFill(p) PROVE TypeOK'
    <2>1. PcOK'
      <3>1. Step(p, "postFill", IF numOps[p] > 1 THEN FirstStep(p) ELSE "done")
        BY <1>9 DEF PostFill, NextRound
      <3>2. FirstStep(p) \in ProducerSteps
        BY <1>2 DEF FirstStep, ProducerSteps
      <3>. QED
        BY <1>1, <1>2, <3>1, <3>2, PcTypes
    <2>2. numOps' \in [Threads -> Nat]
      <3>1. numOps[p] > 0
        BY <1>1, <1>2, <1>9 DEF DrawInv, PostFill, NextRound, Step
      <3>. QED
        BY <1>1, <1>2, <1>9, <3>1 DEF TypeOK, PostFill, NextRound
    <2>. QED
      BY <1>1, <1>2, <1>9, <2>1, <2>2 DEF TypeOK, PostFill, NextRound
  <1>10. ASSUME NEW c \in Consumers, WaitFill(c) PROVE TypeOK'
    <2>1. PcOK'
      <3>1. Step(c, "waitFill", "waitRead")
        BY <1>10 DEF WaitFill
      <3>. QED
        BY <1>1, <1>2, <3>1, PcTypes DEF ConsumerSteps
    <2>. QED
      BY <1>1, <1>2, <1>10, <2>1 DEF TypeOK, WaitFill
  <1>11. ASSUME NEW c \in Consumers, WaitRead(c) PROVE TypeOK'
    <2>1. PcOK'
      <3>1. Step(c, "waitRead", "load")
        BY <1>11 DEF WaitRead
      <3>. QED
        BY <1>1, <1>2, <3>1, PcTypes DEF ConsumerSteps
    <2>. QED
      BY <1>1, <1>2, <1>11, <2>1 DEF TypeOK, WaitRead
  <1>12. ASSUME NEW c \in Consumers, LoadItem(c) PROVE TypeOK'
    <2>1. PcOK'
      <3>1. Step(c, "load", "addDeposit")
        BY <1>12 DEF LoadItem
      <3>. QED
        BY <1>1, <1>2, <3>1, PcTypes DEF ConsumerSteps
    <2>2. transactions[read_index] \in Items
      BY <1>1 DEF TypeOK
    <2>3. deposit + Value(transactions[read_index]) \in Int
      BY <1>1, <2>2, ValueType DEF TypeOK
    <2>. QED
      BY <1>1, <1>2, <1>12, <2>1, <2>2, <2>3 DEF TypeOK, LoadItem
  <1>13. ASSUME NEW c \in Consumers, StoreDeposit(c) PROVE TypeOK'
    <2>1. PcOK'
      <3>1. Step(c, "addDeposit", "advanceRead")
        BY <1>13 DEF StoreDeposit
      <3>. QED
        BY <1>1, <1>2, <3>1, PcTypes DEF ConsumerSteps
    <2>. QED
      BY <1>1, <1>2, <1>13, <2>1 DEF TypeOK, StoreDeposit
  <1>14. ASSUME NEW c \in Consumers, AdvanceRead(c) PROVE TypeOK'
    <2>1. PcOK'
      <3>1. Step(c, "advanceRead", "postRead")
        BY <1>14 DEF AdvanceRead
      <3>. QED
        BY <1>1, <1>2, <3>1, PcTypes DEF ConsumerSteps
    <2>2. read_index' \in 0 .. BufferSize - 1
      BY <1>1, <1>2, <1>14 DEF TypeOK, AdvanceRead
    <2>3. received' \in Seq(Items) /\ Len(received') \in Nat
      BY <1>1, <1>2, <1>14 DEF TypeOK, AdvanceRead
    <2>. QED
      BY <1>1, <1>2, <1>14, <2>1, <2>2, <2>3 DEF TypeOK, AdvanceRead
  <1>15. ASSUME NEW c \in Consumers, PostRead(c) PROVE TypeOK'
    <2>1. PcOK'
      <3>1. Step(c, "postRead", "postEmpty")
        BY <1>15 DEF PostRead
      <3>. QED
        BY <1>1, <1>2, <3>1, PcTypes DEF ConsumerSteps
    <2>2. c \in At(Reading)
      BY <1>2, <1>15 DEF PostRead, Step, At, Reading
    <2>3. UsesReadSem => read_sem = 0
      BY <1>1, <2>2 DEF LockInv, TypeOK
    <2>. QED
      BY <1>1, <1>2, <1>15, <2>1, <2>3 DEF TypeOK, PostRead
  <1>16. ASSUME NEW c \in Consumers, PostEmpty(c) PROVE TypeOK'
    <2>1. PcOK'
      <3>1. Step(c, "postEmpty", IF numOps[c] > 1 THEN FirstStep(c) ELSE "done")
        BY <1>16 DEF PostEmpty, NextRound
      <3>2. FirstStep(c) \in ConsumerSteps
        BY <1>2 DEF FirstStep, ConsumerSteps
      <3>. QED
        BY <1>1, <1>2, <3>1, <3>2, PcTypes
    <2>2. numOps' \in [Threads -> Nat]
      <3>1. numOps[c] > 0
        BY <1>1, <1>2, <1>16 DEF DrawInv, PostEmpty, NextRound, Step
      <3>. QED
        BY <1>1, <1>2, <1>16, <3>1 DEF TypeOK, PostEmpty, NextRound
    <2>. QED
      BY <1>1, <1>2, <1>16, <2>1, <2>2 DEF TypeOK, PostEmpty, NextRound
  <1>17. ASSUME CreateThread PROVE TypeOK'
    <2>1. created \in Threads /\ created + 1 \in 0 .. NumThreads
      BY <1>1, <1>17, ThreadsFacts DEF TypeOK, CreateThread
    <2>2. /\ created \in Producers => FirstStep(created) \in ProducerSteps
          /\ created \in Consumers => FirstStep(created) \in ConsumerSteps
      BY <1>2 DEF FirstStep, ProducerSteps, ConsumerSteps
    <2>3. Step(created, "unborn", FirstStep(created))
      BY <1>17 DEF CreateThread
    <2>4. PcOK'
      BY <1>1, <2>1, <2>2, <2>3, PcTypes
    <2>. QED
      BY <1>1, <1>17, <2>1, <2>4 DEF TypeOK, CreateThread
  <1>18. ASSUME JoinThread PROVE TypeOK'
    BY <1>1, <1>18, ThreadsFacts DEF TypeOK, PcOK, JoinThread
  <1>19. ASSUME PrintDeposit PROVE TypeOK'
    BY <1>1, <1>19 DEF TypeOK, PcOK, PrintDeposit
  <1>20. ASSUME DestroySems PROVE TypeOK'
    BY <1>1, <1>20 DEF TypeOK, PcOK, DestroySems
  <1>21. ASSUME UNCHANGED vars PROVE TypeOK'
    BY <1>1, <1>21 DEF TypeOK, PcOK, vars
  <1>. QED
    BY <1>3, <1>4, <1>5, <1>6, <1>7, <1>8, <1>9, <1>10, <1>11, <1>12,
       <1>13, <1>14, <1>15, <1>16, <1>17, <1>18, <1>19, <1>20, <1>21
    DEF Next, MainNext, ProducerNext, ConsumerNext, Exited

-----------------------------------------------------------------------------
(* Locks *)

\* Every step keeps the locks exclusive, and free when nobody is inside.
LEMMA LockStep ==
  ASSUME IndInv, [Next]_vars
  PROVE  MutualExclusion' /\ LockInv'
  <1>1. TypeOK /\ MutualExclusion /\ LockInv
    BY DEF IndInv
  <1>2. \A p \in Producers : pc[p] \notin Reading /\ p \in Threads
    BY <1>1 DEF TypeOK, PcOK, Reading, ConsumerSteps, Threads
  <1>3. \A c \in Consumers : pc[c] \notin Writing /\ c \in Threads
    BY <1>1 DEF TypeOK, PcOK, Writing, ProducerSteps, Threads
  <1>4. ASSUME UNCHANGED <<pc, write_sem, read_sem>>
        PROVE  MutualExclusion' /\ LockInv'
    BY <1>1, <1>4 DEF MutualExclusion, LockInv, At
  \* A step that neither enters nor leaves a critical section.
  <1>5. ASSUME NEW t \in Threads, NEW from, NEW to, Step(t, from, to),
               from \in Writing <=> to \in Writing,
               from \in Reading <=> to \in Reading,
               UNCHANGED <<write_sem, read_sem>>
        PROVE  MutualExclusion' /\ LockInv'
    <2>1. At(Writing)' = At(Writing) /\ At(Reading)' = At(Reading)
      BY <1>1, <1>5, Stays
    <2>. QED
      BY <1>1, <1>5, <2>1 DEF MutualExclusion, LockInv
  \* A thread that enters its critical section finds it empty.
  <1>6. ASSUME NEW p \in Producers, WaitWrite(p)
        PROVE  MutualExclusion' /\ LockInv'
    <2>. DEFINE to == IF DrawsInLock THEN "draw" ELSE "store"
    <2>1. Step(p, "waitWrite", to) /\ read_sem' = read_sem /\ p \in Threads
      BY <1>2, <1>6 DEF WaitWrite
    <2>2. to \in Writing /\ "waitWrite" \notin Writing
      BY DEF Writing
    <2>3. to \notin Reading /\ "waitWrite" \notin Reading
      BY DEF Reading
    <2>. HIDE DEF to
    <2>4. At(Reading)' = At(Reading) /\ At(Writing)' = At(Writing) \cup {p}
      <3>1. At(Reading)' = At(Reading)
        BY <1>1, <2>1, <2>3, Stays
      <3>2. At(Writing)' = At(Writing) \cup {p}
        BY <1>1, <2>1, <2>2, Enters
      <3>. QED
        BY <3>1, <3>2
    <2>5. At(Writing) = {}
      <3>1. CASE UsesWriteSem
        BY <1>1, <1>6, <3>1 DEF LockInv, TypeOK, WaitWrite
      <3>2. CASE ~UsesWriteSem
        <4>1. NumProducers = 1
          BY <3>2, ParametersAssumption
        <4>2. Producers = {p}
          BY <4>1 DEF Producers
        <4>. QED
          BY <1>3, <2>1, <2>2, <4>2 DEF At, Threads, Step
      <3>. QED
        BY <3>1, <3>2
    <2>6. UsesWriteSem => write_sem' = 0
      BY <1>1, <1>6 DEF WaitWrite, TypeOK
    <2>. QED
      BY <1>1, <2>1, <2>4, <2>5, <2>6 DEF MutualExclusion, LockInv
  <1>7. ASSUME NEW c \in Consumers, WaitRead(c)
        PROVE  MutualExclusion' /\ LockInv'
    <2>1. Step(c, "waitRead", "load") /\ write_sem' = write_sem /\ c \in Threads
      BY <1>3, <1>7 DEF WaitRead
    <2>2. "load" \in Reading /\ "waitRead" \notin Reading
      BY DEF Reading
    <2>3. "load" \notin Writing /\ "waitRead" \notin Writing
      BY DEF Writing
    <2>4. At(Writing)' = At(Writing) /\ At(Reading)' = At(Reading) \cup {c}
      <3>1. At(Writing)' = At(Writing)
        BY <1>1, <2>1, <2>3, Stays
      <3>2. At(Reading)' = At(Reading) \cup {c}
        BY <1>1, <2>1, <2>2, Enters
      <3>. QED
        BY <3>1, <3>2
    <2>5. At(Reading) = {}
      <3>1. CASE UsesReadSem
        BY <1>1, <1>7, <3>1 DEF LockInv, TypeOK, WaitRead
      <3>2. CASE ~UsesReadSem
        <4>1. NumConsumers = 1
          BY <3>2, ParametersAssumption
        <4>2. Consumers = {c}
          BY <4>1, ParametersAssumption DEF Consumers, NumThreads
        <4>. QED
          BY <1>2, <2>1, <2>2, <4>2 DEF At, Threads, Step
      <3>. QED
        BY <3>1, <3>2
    <2>6. UsesReadSem => read_sem' = 0
      BY <1>1, <1>7 DEF WaitRead, TypeOK
    <2>. QED
      BY <1>1, <2>1, <2>4, <2>5, <2>6 DEF MutualExclusion, LockInv
  \* A thread that leaves it leaves it empty.
  <1>8. ASSUME NEW p \in Producers, PostWrite(p)
        PROVE  MutualExclusion' /\ LockInv'
    <2>1. Step(p, "postWrite", "postFill") /\ read_sem' = read_sem /\ p \in Threads
      BY <1>2, <1>8 DEF PostWrite
    <2>2. "postWrite" \in Writing /\ "postFill" \notin Writing
      BY DEF Writing
    <2>3. "postWrite" \notin Reading /\ "postFill" \notin Reading
      BY DEF Reading
    <2>4. /\ At(Reading)' = At(Reading)
          /\ p \in At(Writing) /\ At(Writing)' = At(Writing) \ {p}
      <3>1. At(Reading)' = At(Reading)
        BY <1>1, <2>1, <2>3, Stays
      <3>2. p \in At(Writing) /\ At(Writing)' = At(Writing) \ {p}
        BY <1>1, <2>1, <2>2, Leaves
      <3>. QED
        BY <3>1, <3>2
    <2>5. At(Writing)' = {}
      BY <1>1, <2>4 DEF MutualExclusion
    <2>6. UsesWriteSem => write_sem' = 1
      BY <1>1, <1>8, <2>4 DEF PostWrite, TypeOK, LockInv
    <2>. QED
      BY <1>1, <2>1, <2>4, <2>5, <2>6 DEF MutualExclusion, LockInv
  <1>9. ASSUME NEW c \in Consumers, PostRead(c)
        PROVE  MutualExclusion' /\ LockInv'
    <2>1. Step(c, "postRead", "postEmpty") /\ write_sem' = write_sem /\ c \in Threads
      BY <1>3, <1>9 DEF PostRead
    <2>2. "postRead" \in Reading /\ "postEmpty" \notin Reading
      BY DEF Reading
    <2>3. "postRead" \notin Writing /\ "postEmpty" \notin Writing
      BY DEF Writing
    <2>4. /\ At(Writing)' = At(Writing)
          /\ c \in At(Reading) /\ At(Reading)' = At(Reading) \ {c}
      <3>1. At(Writing)' = At(Writing)
        BY <1>1, <2>1, <2>3, Stays
      <3>2. c \in At(Reading) /\ At(Reading)' = At(Reading) \ {c}
        BY <1>1, <2>1, <2>2, Leaves
      <3>. QED
        BY <3>1, <3>2
    <2>5. At(Reading)' = {}
      BY <1>1, <2>4 DEF MutualExclusion
    <2>6. UsesReadSem => read_sem' = 1
      BY <1>1, <1>9, <2>4 DEF PostRead, TypeOK, LockInv
    <2>. QED
      BY <1>1, <2>1, <2>4, <2>5, <2>6 DEF MutualExclusion, LockInv
  <1>10. ASSUME NEW p \in Producers, Draw(p)
        PROVE  MutualExclusion' /\ LockInv'
    <2>1. /\ Step(p, "draw", IF DrawsInLock THEN "store" ELSE "waitEmpty") /\ p \in Threads
          /\ UNCHANGED <<write_sem, read_sem>>
      BY <1>2, <1>10 DEF Draw, sems
    <2>. QED
      BY <2>1, <1>5 DEF Writing, Reading
  <1>11. ASSUME NEW p \in Producers, WaitEmpty(p)
        PROVE  MutualExclusion' /\ LockInv'
    <2>1. /\ Step(p, "waitEmpty", "waitWrite") /\ p \in Threads
          /\ UNCHANGED <<write_sem, read_sem>>
      BY <1>2, <1>11 DEF WaitEmpty, sems
    <2>. QED
      BY <2>1, <1>5 DEF Writing, Reading
  <1>12. ASSUME NEW p \in Producers, StoreItem(p)
        PROVE  MutualExclusion' /\ LockInv'
    <2>1. /\ Step(p, "store", "advanceWrite") /\ p \in Threads
          /\ UNCHANGED <<write_sem, read_sem>>
      BY <1>2, <1>12 DEF StoreItem, sems
    <2>. QED
      BY <2>1, <1>5 DEF Writing, Reading
  <1>13. ASSUME NEW p \in Producers, AdvanceWrite(p)
        PROVE  MutualExclusion' /\ LockInv'
    <2>1. /\ Step(p, "advanceWrite", "postWrite") /\ p \in Threads
          /\ UNCHANGED <<write_sem, read_sem>>
      BY <1>2, <1>13 DEF AdvanceWrite, sems
    <2>. QED
      BY <2>1, <1>5 DEF Writing, Reading
  <1>14. ASSUME NEW p \in Producers, PostFill(p)
        PROVE  MutualExclusion' /\ LockInv'
    <2>1. /\ Step(p, "postFill", IF numOps[p] > 1 THEN FirstStep(p) ELSE "done") /\ p \in Threads
          /\ UNCHANGED <<write_sem, read_sem>>
      BY <1>2, <1>14 DEF PostFill, sems, NextRound
    <2>. QED
      BY <2>1, <1>5 DEF Writing, Reading, FirstStep
  <1>15. ASSUME NEW c \in Consumers, WaitFill(c)
        PROVE  MutualExclusion' /\ LockInv'
    <2>1. /\ Step(c, "waitFill", "waitRead") /\ c \in Threads
          /\ UNCHANGED <<write_sem, read_sem>>
      BY <1>3, <1>15 DEF WaitFill, sems
    <2>. QED
      BY <2>1, <1>5 DEF Writing, Reading
  <1>16. ASSUME NEW c \in Consumers, LoadItem(c)
        PROVE  MutualExclusion' /\ LockInv'
    <2>1. /\ Step(c, "load", "addDeposit") /\ c \in Threads
          /\ UNCHANGED <<write_sem, read_sem>>
      BY <1>3, <1>16 DEF LoadItem, sems
    <2>. QED
      BY <2>1, <1>5 DEF Writing, Reading
  <1>17. ASSUME NEW c \in Consumers, StoreDeposit(c)
        PROVE  MutualExclusion' /\ LockInv'
    <2>1. /\ Step(c, "addDeposit", "advanceRead") /\ c \in Threads
          /\ UNCHANGED <<write_sem, read_sem>>
      BY <1>3, <1>17 DEF StoreDeposit, sems
    <2>. QED
      BY <2>1, <1>5 DEF Writing, Reading
  <1>18. ASSUME NEW c \in Consumers, AdvanceRead(c)
        PROVE  MutualExclusion' /\ LockInv'
    <2>1. /\ Step(c, "advanceRead", "postRead") /\ c \in Threads
          /\ UNCHANGED <<write_sem, read_sem>>
      BY <1>3, <1>18 DEF AdvanceRead, sems
    <2>. QED
      BY <2>1, <1>5 DEF Writing, Reading
  <1>19. ASSUME NEW c \in Consumers, PostEmpty(c)
        PROVE  MutualExclusion' /\ LockInv'
    <2>1. /\ Step(c, "postEmpty", IF numOps[c] > 1 THEN FirstStep(c) ELSE "done") /\ c \in Threads
          /\ UNCHANGED <<write_sem, read_sem>>
      BY <1>3, <1>19 DEF PostEmpty, sems, NextRound
    <2>. QED
      BY <2>1, <1>5 DEF Writing, Reading, FirstStep
  <1>20. ASSUME CreateThread
        PROVE  MutualExclusion' /\ LockInv'
    <2>1. /\ Step(created, "unborn", FirstStep(created)) /\ created \in Threads
          /\ UNCHANGED <<write_sem, read_sem>>
      BY <1>1, <1>20, ThreadsFacts DEF CreateThread, sems, TypeOK
    <2>. QED
      BY <2>1, <1>5 DEF Writing, Reading, FirstStep
  <1>. QED
    BY <1>4, <1>6, <1>7, <1>8, <1>9, <1>10, <1>11, <1>12, <1>13, <1>14, <1>15, <1>16, <1>17, <1>18, <1>19, <1>20
    DEF Next, MainNext, ProducerNext, ConsumerNext, Exited, JoinThread, PrintDeposit,
        DestroySems, vars, locals, sems

-----------------------------------------------------------------------------
(* Counting semaphores *)

\* How a step of a thread changes the number of threads that hold a cell.
LEMMA CountMoves ==
  ASSUME TypeOK, NEW t \in Threads, NEW from, NEW to, Step(t, from, to)
  PROVE  /\ Reserved \in Nat /\ Filled \in Nat /\ Claimed \in Nat /\ Emptied \in Nat
         /\ Reserved' = Reserved + (IF to \in ReservedSteps THEN 1 ELSE 0)
              - (IF from \in ReservedSteps THEN 1 ELSE 0)
         /\ Filled' = Filled + (IF to \in FilledSteps THEN 1 ELSE 0)
              - (IF from \in FilledSteps THEN 1 ELSE 0)
         /\ Claimed' = Claimed + (IF to \in ClaimedSteps THEN 1 ELSE 0)
              - (IF from \in ClaimedSteps THEN 1 ELSE 0)
         /\ Emptied' = Emptied + (IF to \in EmptiedSteps THEN 1 ELSE 0)
              - (IF from \in EmptiedSteps THEN 1 ELSE 0)
  BY StepMoves DEF Reserved, Filled, Claimed, Emptied

\* Every step keeps the semaphores in step with the indexes.
LEMMA CountStep ==
  ASSUME IndInv, [Next]_vars
  PROVE  CountInv'
  <1>1. TypeOK /\ CountInv
    BY DEF IndInv
  <1>2. /\ \A p \in Producers : p \in Threads
        /\ \A c \in Consumers : c \in Threads
        /\ empty_sem \in Nat /\ fill_sem \in Nat /\ BufferSize \in Nat
        /\ Len(sent) \in Nat /\ Len(received) \in Nat
    BY <1>1, ParametersAssumption DEF Threads, TypeOK, PcOK
  <1>3. ASSUME UNCHANGED <<pc, empty_sem, fill_sem, sent, received>>
        PROVE  CountInv'
    BY <1>1, <1>3
    DEF CountInv, Reserved, Filled, Claimed, Emptied, At
  <1>4. ASSUME NEW p \in Producers, Draw(p)
        PROVE  CountInv'
    <2>1. /\ Step(p, "draw", IF DrawsInLock THEN "store" ELSE "waitEmpty") /\ p \in Threads
          /\ UNCHANGED <<empty_sem, fill_sem, sent, received>>
      BY <1>1, <1>2, <1>4 DEF Draw, shared, sems, history, TypeOK
    <2>2. /\ Reserved' = Reserved /\ Filled' = Filled
          /\ Claimed' = Claimed /\ Emptied' = Emptied
          /\ Reserved \in Nat /\ Filled \in Nat /\ Claimed \in Nat /\ Emptied \in Nat
      BY <1>1, <2>1, CountMoves
      DEF ReservedSteps, FilledSteps, ClaimedSteps, EmptiedSteps, Writing, Reading
    <2>. QED
      BY <1>1, <1>2, <2>1, <2>2 DEF CountInv
  <1>5. ASSUME NEW p \in Producers, WaitEmpty(p)
        PROVE  CountInv'
    <2>1. /\ Step(p, "waitEmpty", "waitWrite") /\ p \in Threads
          /\ UNCHANGED <<fill_sem, sent, received>>
          /\ empty_sem' = empty_sem - 1
      BY <1>1, <1>2, <1>5 DEF WaitEmpty, shared, sems, history, TypeOK
    <2>2. /\ Reserved' = Reserved + 1 /\ Filled' = Filled
          /\ Claimed' = Claimed /\ Emptied' = Emptied
          /\ Reserved \in Nat /\ Filled \in Nat /\ Claimed \in Nat /\ Emptied \in Nat
      BY <1>1, <2>1, CountMoves
      DEF ReservedSteps, FilledSteps, ClaimedSteps, EmptiedSteps, Writing, Reading
    <2>. QED
      BY <1>1, <1>2, <2>1, <2>2 DEF CountInv
  <1>6. ASSUME NEW p \in Producers, WaitWrite(p)
        PROVE  CountInv'
    <2>1. /\ Step(p, "waitWrite", IF DrawsInLock THEN "draw" ELSE "store") /\ p \in Threads
          /\ UNCHANGED <<empty_sem, fill_sem, sent, received>>
      BY <1>1, <1>2, <1>6 DEF WaitWrite, shared, sems, history, TypeOK
    <2>2. /\ Reserved' = Reserved /\ Filled' = Filled
          /\ Claimed' = Claimed /\ Emptied' = Emptied
          /\ Reserved \in Nat /\ Filled \in Nat /\ Claimed \in Nat /\ Emptied \in Nat
      BY <1>1, <2>1, CountMoves
      DEF ReservedSteps, FilledSteps, ClaimedSteps, EmptiedSteps, Writing, Reading
    <2>. QED
      BY <1>1, <1>2, <2>1, <2>2 DEF CountInv
  <1>7. ASSUME NEW p \in Producers, StoreItem(p)
        PROVE  CountInv'
    <2>1. /\ Step(p, "store", "advanceWrite") /\ p \in Threads
          /\ UNCHANGED <<empty_sem, fill_sem, sent, received>>
      BY <1>1, <1>2, <1>7 DEF StoreItem, shared, sems, history, TypeOK
    <2>2. /\ Reserved' = Reserved /\ Filled' = Filled
          /\ Claimed' = Claimed /\ Emptied' = Emptied
          /\ Reserved \in Nat /\ Filled \in Nat /\ Claimed \in Nat /\ Emptied \in Nat
      BY <1>1, <2>1, CountMoves
      DEF ReservedSteps, FilledSteps, ClaimedSteps, EmptiedSteps, Writing, Reading
    <2>. QED
      BY <1>1, <1>2, <2>1, <2>2 DEF CountInv
  <1>8. ASSUME NEW p \in Producers, AdvanceWrite(p)
        PROVE  CountInv'
    <2>1. /\ Step(p, "advanceWrite", "postWrite") /\ p \in Threads
          /\ UNCHANGED <<empty_sem, fill_sem, received>>
          /\ Len(sent') = Len(sent) + 1 /\ Len(sent) \in Nat
      BY <1>1, <1>2, <1>8 DEF AdvanceWrite, shared, sems, history, TypeOK
    <2>0. /\ "advanceWrite" \in ReservedSteps /\ "advanceWrite" \notin FilledSteps
          /\ "postWrite" \notin ReservedSteps /\ "postWrite" \in FilledSteps
          /\ "advanceWrite" \notin ClaimedSteps /\ "postWrite" \notin ClaimedSteps
          /\ "advanceWrite" \notin EmptiedSteps /\ "postWrite" \notin EmptiedSteps
      BY DEF ReservedSteps, FilledSteps, ClaimedSteps, EmptiedSteps, Writing, Reading
    <2>2. /\ Reserved' = Reserved - 1 /\ Filled' = Filled + 1
          /\ Claimed' = Claimed /\ Emptied' = Emptied
          /\ Reserved \in Nat /\ Filled \in Nat /\ Claimed \in Nat /\ Emptied \in Nat
      BY <1>1, <2>0, <2>1, CountMoves
    <2>. QED
      BY <1>1, <1>2, <2>1, <2>2 DEF CountInv
  <1>9. ASSUME NEW p \in Producers, PostWrite(p)
        PROVE  CountInv'
    <2>1. /\ Step(p, "postWrite", "postFill") /\ p \in Threads
          /\ UNCHANGED <<empty_sem, fill_sem, sent, received>>
      BY <1>1, <1>2, <1>9 DEF PostWrite, shared, sems, history, TypeOK
    <2>2. /\ Reserved' = Reserved /\ Filled' = Filled
          /\ Claimed' = Claimed /\ Emptied' = Emptied
          /\ Reserved \in Nat /\ Filled \in Nat /\ Claimed \in Nat /\ Emptied \in Nat
      BY <1>1, <2>1, CountMoves
      DEF ReservedSteps, FilledSteps, ClaimedSteps, EmptiedSteps, Writing, Reading
    <2>. QED
      BY <1>1, <1>2, <2>1, <2>2 DEF CountInv
  <1>10. ASSUME NEW p \in Producers, PostFill(p)
        PROVE  CountInv'
    <2>. DEFINE to == IF numOps[p] > 1 THEN FirstStep(p) ELSE "done"
    <2>1. /\ Step(p, "postFill", to) /\ p \in Threads
          /\ UNCHANGED <<empty_sem, sent, received>>
          /\ fill_sem' = fill_sem + 1
      BY <1>1, <1>2, <1>10 DEF PostFill, shared, sems, history, NextRound, TypeOK
    <2>0. /\ to \notin ReservedSteps /\ to \notin FilledSteps
          /\ to \notin ClaimedSteps /\ to \notin EmptiedSteps
      BY DEF ReservedSteps, FilledSteps, ClaimedSteps, EmptiedSteps, Writing, Reading,
          FirstStep
    <2>. HIDE DEF to
    <2>2. /\ Reserved' = Reserved /\ Filled' = Filled - 1
          /\ Claimed' = Claimed /\ Emptied' = Emptied
          /\ Reserved \in Nat /\ Filled \in Nat /\ Claimed \in Nat /\ Emptied \in Nat
      BY <1>1, <2>0, <2>1, CountMoves
      DEF ReservedSteps, FilledSteps, ClaimedSteps, EmptiedSteps, Writing, Reading
    <2>. QED
      BY <1>1, <1>2, <2>1, <2>2 DEF CountInv
  <1>11. ASSUME NEW c \in Consumers, WaitFill(c)
        PROVE  CountInv'
    <2>1. /\ Step(c, "waitFill", "waitRead") /\ c \in Threads
          /\ UNCHANGED <<empty_sem, sent, received>>
          /\ fill_sem' = fill_sem - 1
      BY <1>1, <1>2, <1>11 DEF WaitFill, shared, sems, history, TypeOK
    <2>2. /\ Reserved' = Reserved /\ Filled' = Filled
          /\ Claimed' = Claimed + 1 /\ Emptied' = Emptied
          /\ Reserved \in Nat /\ Filled \in Nat /\ Claimed \in Nat /\ Emptied \in Nat
      BY <1>1, <2>1, CountMoves
      DEF ReservedSteps, FilledSteps, ClaimedSteps, EmptiedSteps, Writing, Reading
    <2>. QED
      BY <1>1, <1>2, <2>1, <2>2 DEF CountInv
  <1>12. ASSUME NEW c \in Consumers, WaitRead(c)
        PROVE  CountInv'
    <2>1. /\ Step(c, "waitRead", "load") /\ c \in Threads
          /\ UNCHANGED <<empty_sem, fill_sem, sent, received>>
      BY <1>1, <1>2, <1>12 DEF WaitRead, shared, sems, history, TypeOK
    <2>2. /\ Reserved' = Reserved /\ Filled' = Filled
          /\ Claimed' = Claimed /\ Emptied' = Emptied
          /\ Reserved \in Nat /\ Filled \in Nat /\ Claimed \in Nat /\ Emptied \in Nat
      BY <1>1, <2>1, CountMoves
      DEF ReservedSteps, FilledSteps, ClaimedSteps, EmptiedSteps, Writing, Reading
    <2>. QED
      BY <1>1, <1>2, <2>1, <2>2 DEF CountInv
  <1>13. ASSUME NEW c \in Consumers, LoadItem(c)
        PROVE  CountInv'
    <2>1. /\ Step(c, "load", "addDeposit") /\ c \in Threads
          /\ UNCHANGED <<empty_sem, fill_sem, sent, received>>
      BY <1>1, <1>2, <1>13 DEF LoadItem, shared, sems, history, TypeOK
    <2>2. /\ Reserved' = Reserved /\ Filled' = Filled
          /\ Claimed' = Claimed /\ Emptied' = Emptied
          /\ Reserved \in Nat /\ Filled \in Nat /\ Claimed \in Nat /\ Emptied \in Nat
      BY <1>1, <2>1, CountMoves
      DEF ReservedSteps, FilledSteps, ClaimedSteps, EmptiedSteps, Writing, Reading
    <2>. QED
      BY <1>1, <1>2, <2>1, <2>2 DEF CountInv
  <1>14. ASSUME NEW c \in Consumers, StoreDeposit(c)
        PROVE  CountInv'
    <2>1. /\ Step(c, "addDeposit", "advanceRead") /\ c \in Threads
          /\ UNCHANGED <<empty_sem, fill_sem, sent, received>>
      BY <1>1, <1>2, <1>14 DEF StoreDeposit, shared, sems, history, TypeOK
    <2>2. /\ Reserved' = Reserved /\ Filled' = Filled
          /\ Claimed' = Claimed /\ Emptied' = Emptied
          /\ Reserved \in Nat /\ Filled \in Nat /\ Claimed \in Nat /\ Emptied \in Nat
      BY <1>1, <2>1, CountMoves
      DEF ReservedSteps, FilledSteps, ClaimedSteps, EmptiedSteps, Writing, Reading
    <2>. QED
      BY <1>1, <1>2, <2>1, <2>2 DEF CountInv
  <1>15. ASSUME NEW c \in Consumers, AdvanceRead(c)
        PROVE  CountInv'
    <2>1. /\ Step(c, "advanceRead", "postRead") /\ c \in Threads
          /\ UNCHANGED <<empty_sem, fill_sem, sent>>
          /\ Len(received') = Len(received) + 1 /\ Len(received) \in Nat
      BY <1>1, <1>2, <1>15 DEF AdvanceRead, shared, sems, history, TypeOK
    <2>0. /\ "advanceRead" \in ClaimedSteps /\ "advanceRead" \notin EmptiedSteps
          /\ "postRead" \notin ClaimedSteps /\ "postRead" \in EmptiedSteps
          /\ "advanceRead" \notin ReservedSteps /\ "postRead" \notin ReservedSteps
          /\ "advanceRead" \notin FilledSteps /\ "postRead" \notin FilledSteps
      BY DEF ReservedSteps, FilledSteps, ClaimedSteps, EmptiedSteps, Writing, Reading
    <2>2. /\ Reserved' = Reserved /\ Filled' = Filled
          /\ Claimed' = Claimed - 1 /\ Emptied' = Emptied + 1
          /\ Reserved \in Nat /\ Filled \in Nat /\ Claimed \in Nat /\ Emptied \in Nat
      BY <1>1, <2>0, <2>1, CountMoves
    <2>. QED
      BY <1>1, <1>2, <2>1, <2>2 DEF CountInv
  <1>16. ASSUME NEW c \in Consumers, PostRead(c)
        PROVE  CountInv'
    <2>1. /\ Step(c, "postRead", "postEmpty") /\ c \in Threads
          /\ UNCHANGED <<empty_sem, fill_sem, sent, received>>
      BY <1>1, <1>2, <1>16 DEF PostRead, shared, sems, history, TypeOK
    <2>2. /\ Reserved' = Reserved /\ Filled' = Filled
          /\ Claimed' = Claimed /\ Emptied' = Emptied
          /\ Reserved \in Nat /\ Filled \in Nat /\ Claimed \in Nat /\ Emptied \in Nat
      BY <1>1, <2>1, CountMoves
      DEF ReservedSteps, FilledSteps, ClaimedSteps, EmptiedSteps, Writing, Reading
    <2>. QED
      BY <1>1, <1>2, <2>1, <2>2 DEF CountInv
  <1>17. ASSUME NEW c \in Consumers, PostEmpty(c)
        PROVE  CountInv'
    <2>. DEFINE to == IF numOps[c] > 1 THEN FirstStep(c) ELSE "done"
    <2>1. /\ Step(c, "postEmpty", to) /\ c \in Threads
          /\ UNCHANGED <<fill_sem, sent, received>>
          /\ empty_sem' = empty_sem + 1
      BY <1>1, <1>2, <1>17 DEF PostEmpty, shared, sems, history, NextRound, TypeOK
    <2>0. /\ to \notin ReservedSteps /\ to \notin FilledSteps
          /\ to \notin ClaimedSteps /\ to \notin EmptiedSteps
      BY DEF ReservedSteps, FilledSteps, ClaimedSteps, EmptiedSteps, Writing, Reading,
          FirstStep
    <2>. HIDE DEF to
    <2>2. /\ Reserved' = Reserved /\ Filled' = Filled
          /\ Claimed' = Claimed /\ Emptied' = Emptied - 1
          /\ Reserved \in Nat /\ Filled \in Nat /\ Claimed \in Nat /\ Emptied \in Nat
      BY <1>1, <2>0, <2>1, CountMoves
      DEF ReservedSteps, FilledSteps, ClaimedSteps, EmptiedSteps, Writing, Reading
    <2>. QED
      BY <1>1, <1>2, <2>1, <2>2 DEF CountInv
  <1>18. ASSUME CreateThread
        PROVE  CountInv'
    <2>1. /\ Step(created, "unborn", FirstStep(created)) /\ created \in Threads
          /\ UNCHANGED <<empty_sem, fill_sem, sent, received>>
      BY <1>1, <1>18, ThreadsFacts DEF CreateThread, sems, history, TypeOK
    <2>2. /\ Reserved' = Reserved /\ Filled' = Filled
          /\ Claimed' = Claimed /\ Emptied' = Emptied
          /\ Reserved \in Nat /\ Filled \in Nat /\ Claimed \in Nat /\ Emptied \in Nat
      BY <1>1, <2>1, CountMoves
      DEF ReservedSteps, FilledSteps, ClaimedSteps, EmptiedSteps, Writing, Reading, FirstStep
    <2>. QED
      BY <1>1, <1>2, <2>1, <2>2 DEF CountInv
  <1>. QED
    BY <1>3, <1>4, <1>5, <1>6, <1>7, <1>8, <1>9, <1>10, <1>11, <1>12, <1>13, <1>14, <1>15, <1>16, <1>17, <1>18
    DEF Next, MainNext, ProducerNext, ConsumerNext, Exited, JoinThread, PrintDeposit,
        DestroySems, vars, locals, sems, history

-----------------------------------------------------------------------------
(* Draws *)

\* Every step keeps the count of the draws.
LEMMA DrawStep ==
  ASSUME IndInv, [Next]_vars
  PROVE  DrawInv'
  <1>1. TypeOK /\ DrawInv
    BY DEF IndInv
  <1>2. /\ \A p \in Producers : p \in Threads /\ p \notin Consumers
        /\ \A c \in Consumers : c \in Threads /\ c \notin Producers
        /\ DOMAIN pc = Threads /\ numOps \in [Threads -> Nat]
        /\ OpsPerProducer \in Nat
    BY <1>1, ThreadsFacts, ParametersAssumption DEF Threads, TypeOK, PcOK
  <1>3. ASSUME UNCHANGED <<pc, numOps, drawn>>
        PROVE  DrawInv'
    BY <1>1, <1>3 DEF DrawInv, ToDraw
  \* A step inside a round, which is not a draw.
  <1>4. ASSUME NEW t \in Threads, NEW from, NEW to, Step(t, from, to), from # "done",
               t \in Producers => (from \in HoldsItem <=> to \in HoldsItem),
               UNCHANGED <<numOps, drawn>>
        PROVE  DrawInv'
    <2>1. pc' = [pc EXCEPT ![t] = to] /\ pc[t] = from
      BY <1>4 DEF Step
    <2>2. \A p \in Producers : pc'[p] \in HoldsItem <=> pc[p] \in HoldsItem
      BY <1>2, <1>4, <2>1
    <2>3. ToDraw' = ToDraw
      BY <1>4, <2>2 DEF ToDraw
    <2>. QED
      BY <1>1, <1>2, <1>4, <2>1, <2>3 DEF DrawInv
  \* The end of a round.
  <1>5. ASSUME NEW t \in Threads, NEW from, NextRound(t, from), from # "done",
               t \in Producers => from \in HoldsItem,
               UNCHANGED drawn
        PROVE  DrawInv'
    <2>. DEFINE to == IF numOps[t] > 1 THEN FirstStep(t) ELSE "done"
    <2>1. /\ pc' = [pc EXCEPT ![t] = to] /\ pc[t] = from
          /\ numOps' = [numOps EXCEPT ![t] = @ - 1]
      BY <1>5 DEF NextRound, Step
    <2>2. numOps[t] > 0 /\ (to # "done" => numOps[t] > 1)
      BY <1>1, <1>5, <2>1 DEF DrawInv
    <2>3. t \in Producers => to \notin HoldsItem
      BY <1>2 DEF FirstStep, HoldsItem
    <2>. HIDE DEF to
    <2>4. \A p \in Producers :
             numOps'[p] - (IF pc'[p] \in HoldsItem THEN 1 ELSE 0)
               = numOps[p] - (IF pc[p] \in HoldsItem THEN 1 ELSE 0)
      BY <1>2, <1>5, <2>1, <2>3
    <2>5. ToDraw' = ToDraw
      BY <2>4 DEF ToDraw
    <2>6. \A p \in Producers : numOps'[p] <= OpsPerProducer
      BY <1>1, <1>2, <2>1 DEF DrawInv
    <2>7. \A u \in Threads : pc'[u] # "done" => numOps'[u] > 0
      BY <1>1, <1>2, <2>1, <2>2 DEF DrawInv
    <2>. QED
      BY <1>1, <1>5, <2>5, <2>6, <2>7 DEF DrawInv
  <1>6. ASSUME NEW p \in Producers, Draw(p)
        PROVE  DrawInv'
    <2>1. drawn' + Cardinality(ToDraw)' = NumOperations
      BY <1>1, <1>6, DrawCounts
    <2>2. pc' = [pc EXCEPT ![p] = IF DrawsInLock THEN "store" ELSE "waitEmpty"]
          /\ pc[p] = "draw" /\ numOps' = numOps
      BY <1>6 DEF Draw, Step
    <2>. QED
      BY <1>1, <1>2, <2>1, <2>2 DEF DrawInv
  <1>7. ASSUME NEW p \in Producers, WaitEmpty(p)
        PROVE  DrawInv'
    <2>1. Step(p, "waitEmpty", "waitWrite") /\ p \in Threads /\ UNCHANGED <<numOps, drawn>>
      BY <1>2, <1>7 DEF WaitEmpty
    <2>. QED
      BY <1>2, <1>4, <2>1 DEF HoldsItem
  <1>8. ASSUME NEW p \in Producers, WaitWrite(p)
        PROVE  DrawInv'
    <2>1. Step(p, "waitWrite", IF DrawsInLock THEN "draw" ELSE "store") /\ p \in Threads /\ UNCHANGED <<numOps, drawn>>
      BY <1>2, <1>8 DEF WaitWrite
    <2>. QED
      BY <1>2, <1>4, <2>1 DEF HoldsItem
  <1>9. ASSUME NEW p \in Producers, StoreItem(p)
        PROVE  DrawInv'
    <2>1. Step(p, "store", "advanceWrite") /\ p \in Threads /\ UNCHANGED <<numOps, drawn>>
      BY <1>2, <1>9 DEF StoreItem
    <2>. QED
      BY <1>2, <1>4, <2>1 DEF HoldsItem
  <1>10. ASSUME NEW p \in Producers, AdvanceWrite(p)
        PROVE  DrawInv'
    <2>1. Step(p, "advanceWrite", "postWrite") /\ p \in Threads /\ UNCHANGED <<numOps, drawn>>
      BY <1>2, <1>10 DEF AdvanceWrite
    <2>. QED
      BY <1>2, <1>4, <2>1 DEF HoldsItem
  <1>11. ASSUME NEW p \in Producers, PostWrite(p)
        PROVE  DrawInv'
    <2>1. Step(p, "postWrite", "postFill") /\ p \in Threads /\ UNCHANGED <<numOps, drawn>>
      BY <1>2, <1>11 DEF PostWrite
    <2>. QED
      BY <1>2, <1>4, <2>1 DEF HoldsItem
  <1>12. ASSUME NEW p \in Producers, PostFill(p)
        PROVE  DrawInv'
    <2>1. NextRound(p, "postFill") /\ p \in Threads /\ UNCHANGED drawn
      BY <1>2, <1>12 DEF PostFill
    <2>. QED
      BY <1>2, <1>5, <2>1 DEF HoldsItem
  <1>13. ASSUME NEW c \in Consumers, WaitFill(c)
        PROVE  DrawInv'
    <2>1. Step(c, "waitFill", "waitRead") /\ c \in Threads /\ UNCHANGED <<numOps, drawn>>
      BY <1>2, <1>13 DEF WaitFill
    <2>. QED
      BY <1>2, <1>4, <2>1 DEF HoldsItem
  <1>14. ASSUME NEW c \in Consumers, WaitRead(c)
        PROVE  DrawInv'
    <2>1. Step(c, "waitRead", "load") /\ c \in Threads /\ UNCHANGED <<numOps, drawn>>
      BY <1>2, <1>14 DEF WaitRead
    <2>. QED
      BY <1>2, <1>4, <2>1 DEF HoldsItem
  <1>15. ASSUME NEW c \in Consumers, LoadItem(c)
        PROVE  DrawInv'
    <2>1. Step(c, "load", "addDeposit") /\ c \in Threads /\ UNCHANGED <<numOps, drawn>>
      BY <1>2, <1>15 DEF LoadItem
    <2>. QED
      BY <1>2, <1>4, <2>1 DEF HoldsItem
  <1>16. ASSUME NEW c \in Consumers, StoreDeposit(c)
        PROVE  DrawInv'
    <2>1. Step(c, "addDeposit", "advanceRead") /\ c \in Threads /\ UNCHANGED <<numOps, drawn>>
      BY <1>2, <1>16 DEF StoreDeposit
    <2>. QED
      BY <1>2, <1>4, <2>1 DEF HoldsItem
  <1>17. ASSUME NEW c \in Consumers, AdvanceRead(c)
        PROVE  DrawInv'
    <2>1. Step(c, "advanceRead", "postRead") /\ c \in Threads /\ UNCHANGED <<numOps, drawn>>
      BY <1>2, <1>17 DEF AdvanceRead
    <2>. QED
      BY <1>2, <1>4, <2>1 DEF HoldsItem
  <1>18. ASSUME NEW c \in Consumers, PostRead(c)
        PROVE  DrawInv'
    <2>1. Step(c, "postRead", "postEmpty") /\ c \in Threads /\ UNCHANGED <<numOps, drawn>>
      BY <1>2, <1>18 DEF PostRead
    <2>. QED
      BY <1>2, <1>4, <2>1 DEF HoldsItem
  <1>19. ASSUME NEW c \in Consumers, PostEmpty(c)
        PROVE  DrawInv'
    <2>1. NextRound(c, "postEmpty") /\ c \in Threads /\ UNCHANGED drawn
      BY <1>2, <1>19 DEF PostEmpty
    <2>. QED
      BY <1>2, <1>5, <2>1 DEF HoldsItem
  <1>20. ASSUME CreateThread
        PROVE  DrawInv'
    <2>1. /\ Step(created, "unborn", FirstStep(created)) /\ created \in Threads
          /\ UNCHANGED <<numOps, drawn>>
      BY <1>1, <1>20, ThreadsFacts DEF CreateThread, TypeOK
    <2>. QED
      BY <1>2, <1>4, <2>1 DEF HoldsItem, FirstStep
  <1>. QED
    BY <1>3, <1>6, <1>7, <1>8, <1>9, <1>10, <1>11, <1>12, <1>13, <1>14, <1>15, <1>16, <1>17, <1>18, <1>19, <1>20
    DEF Next, MainNext, ProducerNext, ConsumerNext, Exited, JoinThread, PrintDeposit,
        DestroySems, vars, locals

-----------------------------------------------------------------------------
(* Cells *)

\* The number of threads at some steps is positive when there is one.
LEMMA SomeThread ==
  ASSUME TypeOK, NEW S, NEW t \in At(S)
  PROVE  Cardinality(At(S)) \in Nat \ {0}
  <1>1. IsFiniteSet(At(S))
    BY ThreadsFacts, FS_Subset DEF At
  <1>. QED
    BY <1>1, FS_EmptySet, FS_CardinalityType

\* The channel holds between none and all of the cells; it is not full while a
\* producer has a cell to fill, and not empty while a consumer has one to read.
LEMMA WindowBounds ==
  ASSUME TypeOK, CountInv
  PROVE  /\ Len(sent) \in Nat /\ Len(received) \in Nat
         /\ Len(received) <= Len(sent)
         /\ Len(sent) - Len(received) <= BufferSize
         /\ \A p \in At({"store", "advanceWrite"}) :
               Len(sent) - Len(received) < BufferSize
         /\ \A c \in At({"load", "addDeposit", "advanceRead"}) :
               Len(received) < Len(sent)
  <1>1. \A S \in {ReservedSteps, FilledSteps, ClaimedSteps, EmptiedSteps} :
           /\ IsFiniteSet(At(S))
           /\ Cardinality(At(S)) \in Nat
    <2>1. \A S : At(S) \subseteq Threads
      BY DEF At
    <2>. QED
      BY <2>1, ThreadsFacts, FS_Subset, FS_CardinalityType
  <1>2. Reserved \in Nat /\ Filled \in Nat /\ Claimed \in Nat /\ Emptied \in Nat
    BY <1>1 DEF Reserved, Filled, Claimed, Emptied
  <1>3. /\ Len(sent) \in Nat /\ Len(received) \in Nat
        /\ empty_sem \in Nat /\ fill_sem \in Nat /\ BufferSize \in Nat
    BY ParametersAssumption DEF TypeOK
  <1>4. /\ Len(received) <= Len(sent)
        /\ Len(sent) - Len(received) <= BufferSize
    BY <1>2, <1>3 DEF CountInv
  <1>5. ASSUME NEW p \in At({"store", "advanceWrite"})
        PROVE  Len(sent) - Len(received) < BufferSize
    <2>1. p \in At(ReservedSteps)
      BY DEF At, ReservedSteps, Writing
    <2>2. Reserved \in Nat \ {0}
      BY <2>1, SomeThread DEF Reserved
    <2>. QED
      BY <1>2, <1>3, <2>2 DEF CountInv
  <1>6. ASSUME NEW c \in At({"load", "addDeposit", "advanceRead"})
        PROVE  Len(received) < Len(sent)
    <2>1. c \in At(ClaimedSteps)
      BY DEF At, ClaimedSteps, Reading
    <2>2. Claimed \in Nat \ {0}
      BY <2>1, SomeThread DEF Claimed
    <2>. QED
      BY <1>2, <1>3, <2>2 DEF CountInv
  <1>. QED
    BY <1>3, <1>4, <1>5, <1>6

\* The cell a producer fills is none of those that wait to be consumed.
LEMMA FreeCell ==
  ASSUME TypeOK, CountInv, WindowInv, Len(sent) - Len(received) < BufferSize
  PROVE  \A i \in Len(received) + 1 .. Len(sent) : (i - 1) % BufferSize # write_index
  <1>. TAKE i \in Len(received) + 1 .. Len(sent)
  <1>1. /\ i - 1 \in Nat /\ Len(sent) \in Nat
        /\ i - 1 < Len(sent) /\ Len(sent) < (i - 1) + BufferSize
    BY WindowBounds, ParametersAssumption
  <1>2. (i - 1) % BufferSize # Len(sent) % BufferSize
    BY <1>1, ParametersAssumption, ModDistinct
  <1>. QED
    BY <1>2 DEF WindowInv

\* Every step keeps the cells between the indexes, and the threads' copies.
LEMMA CellStep ==
  ASSUME IndInv, [Next]_vars
  PROVE  WindowInv' /\ HandInv'
  <1>1. TypeOK /\ MutualExclusion /\ CountInv /\ WindowInv /\ HandInv
    BY DEF IndInv
  <1>2. /\ \A p \in Producers : p \in Threads /\ p \notin Consumers
        /\ \A c \in Consumers : c \in Threads /\ c \notin Producers
        /\ DOMAIN pc = Threads /\ DOMAIN item = Threads
        /\ DOMAIN transactions = 0 .. BufferSize - 1
        /\ read_index \in 0 .. BufferSize - 1 /\ write_index \in 0 .. BufferSize - 1
        /\ BufferSize \in Nat \ {0}
        /\ sent \in Seq(Items) /\ received \in Seq(Items)
    BY <1>1, ThreadsFacts, ParametersAssumption DEF Threads, TypeOK, PcOK
  <1>. DEFINE cells == <<transactions, read_index, write_index, sent, received>>
              hands == {"advanceWrite", "addDeposit", "advanceRead"}
  \* A step that touches neither the cells nor what a thread holds.
  <1>3. ASSUME UNCHANGED cells, UNCHANGED <<pc, item>>
        PROVE  WindowInv' /\ HandInv'
    BY <1>1, <1>3 DEF WindowInv, HandInv, At
  <1>4. ASSUME NEW t \in Threads, NEW from, NEW to, Step(t, from, to),
               UNCHANGED cells, to \notin hands,
               \A u \in Threads : u # t => item'[u] = item[u]
        PROVE  WindowInv' /\ HandInv'
    <2>1. WindowInv'
      BY <1>1, <1>4 DEF WindowInv
    <2>2. \A u \in At(hands)' : u # t /\ u \in Threads /\ pc'[u] = pc[u]
      BY <1>2, <1>4 DEF At, Step
    <2>3. HandInv'
      BY <1>1, <1>4, <2>2 DEF HandInv, At
    <2>. QED
      BY <2>1, <2>3
  <1>5. ASSUME NEW p \in Producers, StoreItem(p)
        PROVE  WindowInv' /\ HandInv'
    <2>1. /\ pc[p] = "store" /\ pc' = [pc EXCEPT ![p] = "advanceWrite"]
          /\ transactions' = [transactions EXCEPT ![write_index] = item[p]]
          /\ UNCHANGED <<read_index, write_index, sent, received, item>>
      BY <1>5 DEF StoreItem, Step, history
    <2>2. p \in At({"store", "advanceWrite"}) /\ p \in At(Writing)
      BY <1>2, <2>1 DEF At, Writing
    <2>3. Len(sent) - Len(received) < BufferSize
      BY <1>1, <2>2, WindowBounds
    <2>4. WindowInv'
      <3>1. \A i \in Len(received) + 1 .. Len(sent) :
               /\ (i - 1) % BufferSize # write_index
               /\ (i - 1) % BufferSize \in 0 .. BufferSize - 1
        <4>1. Len(sent) \in Nat /\ Len(received) \in Nat
          BY <1>2
        <4>2. \A i \in Len(received) + 1 .. Len(sent) :
                 (i - 1) % BufferSize \in 0 .. BufferSize - 1
          <5>. TAKE i \in Len(received) + 1 .. Len(sent)
          <5>1. i - 1 \in Nat
            BY <4>1
          <5>. QED
            BY <1>2, <5>1, ModRange
        <4>. QED
          BY <1>1, <2>3, <4>2, FreeCell
      <3>2. \A i \in Len(received) + 1 .. Len(sent) :
               transactions'[(i - 1) % BufferSize] = transactions[(i - 1) % BufferSize]
        BY <1>2, <2>1, <3>1
      <3>. QED
        BY <1>1, <2>1, <3>2 DEF WindowInv
    <2>5. \A q \in At({"advanceWrite"})' : q = p
      BY <1>1, <1>2, <2>1, <2>2 DEF MutualExclusion, At, Writing
    <2>6. transactions'[write_index] = item[p]
      BY <1>2, <2>1
    <2>7. ASSUME NEW c \in At({"addDeposit", "advanceRead"})'
          PROVE  item[c] = transactions'[read_index]
      <3>1. c \in At({"addDeposit", "advanceRead"})
            /\ c \in At({"load", "addDeposit", "advanceRead"})
        BY <1>2, <2>1, <2>7 DEF At
      <3>2. Len(received) < Len(sent)
        BY <1>1, <3>1, WindowBounds
      <3>3. Len(sent) \in Nat /\ Len(received) \in Nat
        BY <1>2
      <3>4. /\ Len(received) + 1 \in Len(received) + 1 .. Len(sent)
            /\ (Len(received) + 1) - 1 = Len(received)
        BY <3>2, <3>3
      <3>5. PICK i \in Len(received) + 1 .. Len(sent) : i - 1 = Len(received)
        BY <3>4
      <3>6. read_index # write_index
        BY <1>1, <2>3, <3>5, FreeCell DEF WindowInv
      <3>. QED
        BY <1>1, <1>2, <2>1, <3>1, <3>6 DEF HandInv
    <2>8. HandInv'
      BY <2>1, <2>5, <2>6, <2>7 DEF HandInv
    <2>. QED
      BY <2>4, <2>8
  <1>6. ASSUME NEW p \in Producers, AdvanceWrite(p)
        PROVE  WindowInv' /\ HandInv'
    <2>1. /\ pc[p] = "advanceWrite" /\ pc' = [pc EXCEPT ![p] = "postWrite"]
          /\ write_index' = (write_index + 1) % BufferSize
          /\ sent' = Append(sent, item[p])
          /\ UNCHANGED <<transactions, read_index, received, item>>
      BY <1>6 DEF AdvanceWrite, Step
    <2>2. p \in At({"advanceWrite"}) /\ p \in At(Writing)
      BY <1>2, <2>1 DEF At, Writing
    <2>3. /\ item[p] \in Items /\ Len(sent) \in Nat /\ Len(received) \in Nat
          /\ Len(sent') = Len(sent) + 1
          /\ sent'[Len(sent) + 1] = item[p]
          /\ \A i \in 1 .. Len(sent) : sent'[i] = sent[i]
      BY <1>1, <1>2, <2>1 DEF TypeOK
    <2>4. write_index' = Len(sent') % BufferSize
      BY <1>1, <1>2, <2>1, <2>3, ModSucc DEF WindowInv
    <2>5. transactions[Len(sent) % BufferSize] = item[p]
      BY <1>1, <2>2 DEF HandInv, WindowInv
    <2>6. ASSUME NEW i \in Len(received) + 1 .. Len(sent')
          PROVE  transactions[(i - 1) % BufferSize] = sent'[i]
      <3>1. CASE i \in Len(received) + 1 .. Len(sent)
        BY <1>1, <2>3, <3>1 DEF WindowInv
      <3>2. CASE i = Len(sent) + 1
        BY <2>3, <2>5, <3>2
      <3>. QED
        BY <2>3, <3>1, <3>2
    <2>7. WindowInv'
      BY <1>1, <2>1, <2>4, <2>6 DEF WindowInv
    <2>8. At({"advanceWrite"})' = {}
      BY <1>1, <1>2, <2>1, <2>2 DEF MutualExclusion, At, Writing
    <2>9. At({"addDeposit", "advanceRead"})' \subseteq At({"addDeposit", "advanceRead"})
      BY <1>2, <2>1 DEF At
    <2>. QED
      BY <1>1, <2>1, <2>7, <2>8, <2>9 DEF HandInv
  <1>7. ASSUME NEW c \in Consumers, LoadItem(c)
        PROVE  WindowInv' /\ HandInv'
    <2>1. /\ pc[c] = "load" /\ pc' = [pc EXCEPT ![c] = "addDeposit"]
          /\ item' = [item EXCEPT ![c] = transactions[read_index]]
          /\ UNCHANGED cells
      BY <1>7 DEF LoadItem, Step, shared, history
    <2>2. WindowInv'
      BY <1>1, <2>1 DEF WindowInv
    <2>3. \A u \in At(hands)' : u # c => item'[u] = item[u] /\ u \in At(hands) /\ pc'[u] = pc[u]
      BY <1>2, <2>1 DEF At
    <2>4. item'[c] = transactions[read_index] /\ pc'[c] = "addDeposit"
      BY <1>2, <2>1
    <2>5. \A p \in At({"advanceWrite"})' : p \in At({"advanceWrite"}) /\ item'[p] = item[p]
      BY <1>2, <2>1 DEF At
    <2>6. \A d \in At({"addDeposit", "advanceRead"})' :
             d # c => d \in At({"addDeposit", "advanceRead"}) /\ item'[d] = item[d]
      BY <1>2, <2>1 DEF At
    <2>. QED
      BY <1>1, <2>1, <2>2, <2>4, <2>5, <2>6 DEF HandInv
  <1>8. ASSUME NEW c \in Consumers, StoreDeposit(c)
        PROVE  WindowInv' /\ HandInv'
    <2>1. /\ pc[c] = "addDeposit" /\ pc' = [pc EXCEPT ![c] = "advanceRead"]
          /\ UNCHANGED <<cells, item>>
      BY <1>8 DEF StoreDeposit, Step, history
    <2>2. /\ At({"advanceWrite"})' = At({"advanceWrite"})
          /\ At({"addDeposit", "advanceRead"})' = At({"addDeposit", "advanceRead"})
      BY <1>2, <2>1 DEF At
    <2>. QED
      BY <1>1, <2>1, <2>2 DEF HandInv, WindowInv
  <1>9. ASSUME NEW c \in Consumers, AdvanceRead(c)
        PROVE  WindowInv' /\ HandInv'
    <2>1. /\ pc[c] = "advanceRead" /\ pc' = [pc EXCEPT ![c] = "postRead"]
          /\ read_index' = (read_index + 1) % BufferSize
          /\ received' = Append(received, item[c])
          /\ UNCHANGED <<transactions, write_index, sent, item>>
      BY <1>9 DEF AdvanceRead, Step
    <2>2. c \in At(Reading)
      BY <1>2, <2>1 DEF At, Reading
    <2>3. /\ item[c] \in Items /\ Len(sent) \in Nat /\ Len(received) \in Nat
          /\ Len(received') = Len(received) + 1
      BY <1>1, <1>2, <2>1 DEF TypeOK
    <2>4. read_index' = Len(received') % BufferSize
      BY <1>1, <1>2, <2>1, <2>3, ModSucc DEF WindowInv
    <2>5. WindowInv'
      BY <1>1, <2>1, <2>3, <2>4 DEF WindowInv
    <2>6. At({"addDeposit", "advanceRead"})' = {}
      BY <1>1, <1>2, <2>1, <2>2 DEF MutualExclusion, At, Reading
    <2>7. At({"advanceWrite"})' \subseteq At({"advanceWrite"})
      BY <1>2, <2>1 DEF At
    <2>. QED
      BY <1>1, <2>1, <2>5, <2>6, <2>7 DEF HandInv
  <1>10. ASSUME NEW p \in Producers, Draw(p)
        PROVE  WindowInv' /\ HandInv'
    <2>1. /\ Step(p, "draw", IF DrawsInLock THEN "store" ELSE "waitEmpty") /\ p \in Threads
          /\ UNCHANGED cells /\ \A u \in Threads : u # p => item'[u] = item[u]
      BY <1>2, <1>10 DEF Draw, shared, history
    <2>. QED
      BY <1>4, <2>1
  <1>11. ASSUME NEW p \in Producers, WaitEmpty(p)
        PROVE  WindowInv' /\ HandInv'
    <2>1. /\ Step(p, "waitEmpty", "waitWrite") /\ p \in Threads
          /\ UNCHANGED cells /\ \A u \in Threads : u # p => item'[u] = item[u]
      BY <1>2, <1>11 DEF WaitEmpty, shared, history
    <2>. QED
      BY <1>4, <2>1
  <1>12. ASSUME NEW p \in Producers, WaitWrite(p)
        PROVE  WindowInv' /\ HandInv'
    <2>1. /\ Step(p, "waitWrite", IF DrawsInLock THEN "draw" ELSE "store") /\ p \in Threads
          /\ UNCHANGED cells /\ \A u \in Threads : u # p => item'[u] = item[u]
      BY <1>2, <1>12 DEF WaitWrite, shared, history
    <2>. QED
      BY <1>4, <2>1
  <1>13. ASSUME NEW p \in Producers, PostWrite(p)
        PROVE  WindowInv' /\ HandInv'
    <2>1. /\ Step(p, "postWrite", "postFill") /\ p \in Threads
          /\ UNCHANGED cells /\ \A u \in Threads : u # p => item'[u] = item[u]
      BY <1>2, <1>13 DEF PostWrite, shared, history
    <2>. QED
      BY <1>4, <2>1
  <1>14. ASSUME NEW p \in Producers, PostFill(p)
        PROVE  WindowInv' /\ HandInv'
    <2>1. /\ Step(p, "postFill", IF numOps[p] > 1 THEN FirstStep(p) ELSE "done") /\ p \in Threads
          /\ UNCHANGED cells /\ \A u \in Threads : u # p => item'[u] = item[u]
      BY <1>2, <1>14 DEF PostFill, shared, history, NextRound
    <2>. QED
      BY <1>4, <2>1 DEF FirstStep
  <1>15. ASSUME NEW c \in Consumers, WaitFill(c)
        PROVE  WindowInv' /\ HandInv'
    <2>1. /\ Step(c, "waitFill", "waitRead") /\ c \in Threads
          /\ UNCHANGED cells /\ \A u \in Threads : u # c => item'[u] = item[u]
      BY <1>2, <1>15 DEF WaitFill, shared, history
    <2>. QED
      BY <1>4, <2>1
  <1>16. ASSUME NEW c \in Consumers, WaitRead(c)
        PROVE  WindowInv' /\ HandInv'
    <2>1. /\ Step(c, "waitRead", "load") /\ c \in Threads
          /\ UNCHANGED cells /\ \A u \in Threads : u # c => item'[u] = item[u]
      BY <1>2, <1>16 DEF WaitRead, shared, history
    <2>. QED
      BY <1>4, <2>1
  <1>17. ASSUME NEW c \in Consumers, PostRead(c)
        PROVE  WindowInv' /\ HandInv'
    <2>1. /\ Step(c, "postRead", "postEmpty") /\ c \in Threads
          /\ UNCHANGED cells /\ \A u \in Threads : u # c => item'[u] = item[u]
      BY <1>2, <1>17 DEF PostRead, shared, history
    <2>. QED
      BY <1>4, <2>1
  <1>18. ASSUME NEW c \in Consumers, PostEmpty(c)
        PROVE  WindowInv' /\ HandInv'
    <2>1. /\ Step(c, "postEmpty", IF numOps[c] > 1 THEN FirstStep(c) ELSE "done") /\ c \in Threads
          /\ UNCHANGED cells /\ \A u \in Threads : u # c => item'[u] = item[u]
      BY <1>2, <1>18 DEF PostEmpty, shared, history, NextRound
    <2>. QED
      BY <1>4, <2>1 DEF FirstStep
  <1>19. ASSUME CreateThread
        PROVE  WindowInv' /\ HandInv'
    <2>1. /\ Step(created, "unborn", FirstStep(created)) /\ created \in Threads
          /\ UNCHANGED cells /\ item' = item
      BY <1>1, <1>19, ThreadsFacts DEF CreateThread, TypeOK, shared, history
    <2>. QED
      BY <1>4, <2>1 DEF FirstStep
  <1>. QED
    BY <1>3, <1>5, <1>6, <1>7, <1>8, <1>9, <1>10, <1>11, <1>12, <1>13, <1>14, <1>15, <1>16, <1>17, <1>18, <1>19
    DEF Next, MainNext, ProducerNext, ConsumerNext, Exited, JoinThread, PrintDeposit,
        DestroySems, vars, locals, shared, history

-----------------------------------------------------------------------------
(* The theorems *)

\* The initial state satisfies the invariant.
LEMMA InitInd == Init => IndInv
  <1>. SUFFICES ASSUME Init PROVE IndInv
    OBVIOUS
  <1>1. /\ BufferSize \in Nat \ {0} /\ 0 % BufferSize = 0
        /\ NumProducers \in Nat \ {0} /\ NumConsumers \in Nat \ {0}
        /\ OpsPerProducer \in Nat \ {0} /\ OpsPerConsumer \in Nat \ {0}
        /\ NumThreads \in Nat /\ NumOperations \in Nat
    BY ParametersAssumption, ThreadsFacts
  <1>2. TypeOK
    <2>1. Len(<< >>) = 0 /\ << >> \in Seq(Items) /\ << >> \in Seq(Int) /\ << >> \in Seq(Nat)
      OBVIOUS
    <2>. QED
      BY <1>1, <2>1 DEF Init, TypeOK, PcOK, Items, ProducerSteps, ConsumerSteps, Threads
  <1>3. \A S : "unborn" \notin S => At(S) = {}
    BY DEF Init, At
  <1>4. At(Writing) = {} /\ At(Reading) = {}
    BY <1>3 DEF Writing, Reading
  <1>5. MutualExclusion /\ LockInv
    BY <1>4 DEF MutualExclusion, LockInv, Init
  <1>6. Reserved = 0 /\ Filled = 0 /\ Claimed = 0 /\ Emptied = 0
    <2>1. /\ At(ReservedSteps) = {} /\ At(FilledSteps) = {}
          /\ At(ClaimedSteps) = {} /\ At(EmptiedSteps) = {}
      BY <1>3 DEF ReservedSteps, FilledSteps, ClaimedSteps, EmptiedSteps, Writing, Reading
    <2>. QED
      BY <2>1, FS_EmptySet DEF Reserved, Filled, Claimed, Emptied
  <1>7. CountInv
    BY <1>1, <1>6 DEF CountInv, Init
  <1>8. WindowInv
    BY <1>1 DEF WindowInv, Init
  <1>9. HandInv
    BY <1>3 DEF HandInv
  <1>10. DrawInv
    <2>1. ToDraw = Producers \X (1 .. OpsPerProducer)
      BY <1>1 DEF ToDraw, Init, HoldsItem, Threads
    <2>2. /\ IsFiniteSet(Producers) /\ Cardinality(Producers) = NumProducers
          /\ IsFiniteSet(1 .. OpsPerProducer)
          /\ Cardinality(1 .. OpsPerProducer) = OpsPerProducer
      BY <1>1, FS_Interval DEF Producers
    <2>3. Cardinality(ToDraw) = NumOperations
      BY <2>1, <2>2, FS_Product DEF NumOperations
    <2>. QED
      BY <1>1, <2>3 DEF DrawInv, Init, Threads
  <1>. QED
    BY <1>2, <1>5, <1>7, <1>8, <1>9, <1>10 DEF IndInv

\* IndInv holds in every reachable state.
THEOREM Inductive == Spec => []IndInv
  <1>1. IndInv /\ [Next]_vars => IndInv'
    BY TypeStep, LockStep, DrawStep, CountStep, CellStep DEF IndInv
  <1>. QED
    BY InitInd, <1>1, PTL DEF Spec

\* The variables keep their types: the indexes stay inside the buffer and no
\* more than NUM_OPERATIONS numbers are drawn, for every number of threads.
THEOREM Types == Spec => []TypeOK
  <1>1. IndInv => TypeOK
    BY DEF IndInv
  <1>. QED
    BY Inductive, <1>1, PTL

\* At most one producer and at most one consumer are in their critical sections,
\* with a lock or, where there is a single thread of the kind, without.
THEOREM Exclusion == Spec => []MutualExclusion
  <1>1. IndInv => MutualExclusion
    BY DEF IndInv
  <1>. QED
    BY Inductive, <1>1, PTL

\* A consumer never loads the cell that a producer is storing.
THEOREM NoRace == Spec => []NoCellRace
  <1>1. ASSUME IndInv PROVE NoCellRace
    <2>1. TypeOK /\ CountInv /\ WindowInv
      BY <1>1 DEF IndInv
    <2>2. SUFFICES ASSUME NEW p \in Producers, NEW c \in Consumers,
                          pc[p] = "store", pc[c] = "load"
                   PROVE  write_index # read_index
      BY DEF NoCellRace
    <2>3. /\ p \in At({"store", "advanceWrite"})
          /\ c \in At({"load", "addDeposit", "advanceRead"})
      BY <2>2 DEF At, Threads
    <2>4. Len(received) < Len(sent) /\ Len(sent) - Len(received) < BufferSize
      BY <2>1, <2>3, WindowBounds
    <2>5. PICK i \in Len(received) + 1 .. Len(sent) : i - 1 = Len(received)
      BY <2>1, <2>4, WindowBounds
    <2>. QED
      BY <2>1, <2>4, <2>5, FreeCell DEF WindowInv
  <1>. QED
    BY Inductive, <1>1, PTL

\* No cell is ever lost or counted twice by the semaphores.
THEOREM Conservation == Spec => []CellsConserved
  <1>1. ASSUME IndInv PROVE CellsConserved
    <2>1. TypeOK /\ CountInv
      BY <1>1 DEF IndInv
    <2>2. \A S : IsFiniteSet(At(S)) /\ Cardinality(At(S)) \in Nat
      <3>1. \A S : At(S) \subseteq Threads
        BY DEF At
      <3>. QED
        BY <3>1, ThreadsFacts, FS_Subset, FS_CardinalityType
    <2>3. Reserved \in Nat /\ Filled \in Nat /\ Claimed \in Nat /\ Emptied \in Nat
      BY <2>2 DEF Reserved, Filled, Claimed, Emptied
    <2>4. /\ empty_sem \in Nat /\ fill_sem \in Nat /\ BufferSize \in Nat
          /\ Len(sent) \in Nat /\ Len(received) \in Nat
      BY <2>1, ParametersAssumption DEF TypeOK
    <2>. QED
      BY <2>1, <2>3, <2>4 DEF CountInv, CellsConserved
  <1>. QED
    BY Inductive, <1>1, PTL

\* The threads implement a first-in first-out channel of BUFFER_SIZE items.
THEOREM ImplementsFifo == Spec => FifoRefinement
  <1>1. Init => Fifo!FifoInit
    BY DEF Init, Fifo!FifoInit
  <1>2. ASSUME IndInv, [Next]_vars
        PROVE  [Fifo!FifoNext]_(Fifo!fifoVars)
    <2>1. TypeOK /\ CountInv /\ WindowInv /\ HandInv
      BY <1>2 DEF IndInv
    <2>2. ASSUME NEW p \in Producers, AdvanceWrite(p)
          PROVE  Fifo!FifoNext
      <3>1. /\ p \in At({"store", "advanceWrite"}) /\ item[p] \in Items
            /\ sent' = Append(sent, item[p]) /\ received' = received
        BY <2>1, <2>2 DEF AdvanceWrite, Step, At, Threads, TypeOK
      <3>2. Len(sent) - Len(received) < BufferSize
        BY <2>1, <3>1, WindowBounds
      <3>. QED
        BY <3>1, <3>2 DEF Fifo!FifoNext, Fifo!Put, Fifo!Backlog
    <2>3. ASSUME NEW c \in Consumers, AdvanceRead(c)
          PROVE  Fifo!FifoNext
      <3>1. /\ c \in At({"load", "addDeposit", "advanceRead"})
            /\ c \in At({"addDeposit", "advanceRead"})
            /\ received' = Append(received, item[c]) /\ sent' = sent
        BY <2>3 DEF AdvanceRead, Step, At, Threads
      <3>2. Len(received) < Len(sent) /\ Len(sent) \in Nat /\ Len(received) \in Nat
        BY <2>1, <3>1, WindowBounds
      <3>3. PICK i \in Len(received) + 1 .. Len(sent) : i = Len(received) + 1
        BY <3>2
      <3>4. item[c] = sent[Len(received) + 1]
        BY <2>1, <3>1, <3>2, <3>3 DEF HandInv, WindowInv
      <3>. QED
        BY <3>1, <3>2, <3>4 DEF Fifo!FifoNext, Fifo!Get, Fifo!Backlog
    <2>4. \/ \E p \in Producers : AdvanceWrite(p)
          \/ \E c \in Consumers : AdvanceRead(c)
          \/ UNCHANGED <<sent, received>>
      BY <1>2
      DEF Next, MainNext, ProducerNext, ConsumerNext, Exited, vars, history,
          CreateThread, JoinThread, PrintDeposit, DestroySems, Draw, WaitEmpty,
          WaitWrite, StoreItem, PostWrite, PostFill, WaitFill, WaitRead, LoadItem,
          StoreDeposit, PostRead, PostEmpty
    <2>. QED
      BY <2>2, <2>3, <2>4 DEF Fifo!fifoVars
  <1>. QED
    BY Inductive, <1>1, <1>2, PTL DEF Spec, FifoRefinement, Fifo!FifoSpec
-----------------------------------------------------------------------------
(* The end of main *)

\* main prints when it has joined all threads, which have ended then, and only
\* after that destroys the semaphores.
JoinInv ==
  /\ \A t \in Threads : t < joined => pc[t] = "done"
  /\ printed # << >> => joined = NumThreads

\* A thread that has ended makes no step.
LEMMA DoneStays ==
  ASSUME TypeOK, Next, NEW t \in Threads, pc[t] = "done"
  PROVE  pc'[t] = "done"
  <1>1. ASSUME NEW u, NEW from, NEW to, Step(u, from, to), from # "done"
        PROVE  pc'[t] = "done"
    BY <1>1 DEF Step, TypeOK, PcOK
  <1>2. ASSUME NEW p \in Producers, ProducerNext(p)
        PROVE  pc'[t] = "done"
    BY <1>1, <1>2
    DEF ProducerNext, Draw, WaitEmpty, WaitWrite, StoreItem, AdvanceWrite, PostWrite,
        PostFill, NextRound
  <1>3. ASSUME NEW c \in Consumers, ConsumerNext(c)
        PROVE  pc'[t] = "done"
    BY <1>1, <1>3
    DEF ConsumerNext, WaitFill, WaitRead, LoadItem, StoreDeposit, AdvanceRead, PostRead,
        PostEmpty, NextRound
  <1>4. ASSUME MainNext \/ Exited
        PROVE  pc'[t] = "done"
    BY <1>1, <1>4
    DEF MainNext, CreateThread, JoinThread, PrintDeposit, DestroySems, Exited, vars, locals
  <1>. QED
    BY <1>2, <1>3, <1>4 DEF Next

LEMMA JoinStep ==
  ASSUME TypeOK, JoinInv, [Next]_vars
  PROVE  JoinInv'
  <1>1. CASE UNCHANGED vars
    BY <1>1 DEF JoinInv, vars, locals, mainVars
  <1>2. CASE Next
    <2>1. \A t \in Threads : pc[t] = "done" => pc'[t] = "done"
      BY <1>2, DoneStays
    <2>2. \A t \in Threads : t \in Nat
      BY ParametersAssumption DEF Threads, Producers, Consumers, NumThreads
    <2>3. joined \in Nat
      BY DEF TypeOK
    <2>4. CASE JoinThread
      <3>1. joined' = joined + 1 /\ pc[joined] = "done" /\ printed' = printed
            /\ joined < NumThreads
        BY <2>4 DEF JoinThread
      <3>2. \A t \in Threads : t < joined' => t < joined \/ t = joined
        BY <2>2, <2>3, <3>1
      <3>3. printed' = << >>
        BY <2>3, <3>1 DEF JoinInv
      <3>. QED
        BY <2>1, <3>1, <3>2, <3>3 DEF JoinInv
    <2>5. CASE PrintDeposit
      BY <2>1, <2>5 DEF PrintDeposit, JoinInv
    <2>6. (joined' = joined /\ printed' = printed) \/ JoinThread \/ PrintDeposit
      BY <1>2
      DEF Next, MainNext, ProducerNext, ConsumerNext, Exited, vars, mainVars,
          CreateThread, DestroySems, Draw, WaitEmpty, WaitWrite, StoreItem, AdvanceWrite,
          PostWrite, PostFill, WaitFill, WaitRead, LoadItem, StoreDeposit, AdvanceRead,
          PostRead, PostEmpty
    <2>. QED
      BY <2>1, <2>4, <2>5, <2>6 DEF JoinInv
  <1>. QED
    BY <1>1, <1>2

\* The semaphores live as long as main has not printed.
PrintedFirst == ~semsAlive => printed # << >>

\* When main destroys the semaphores no thread has one left to use, however many
\* threads there are and however long they take.
THEOREM SemsLast == Spec => []SemsOutliveThreads
  <1>1. Init => JoinInv /\ PrintedFirst
    <2>1. \A t \in Threads : t \in Nat
      BY ParametersAssumption DEF Threads, Producers, Consumers, NumThreads
    <2>. QED
      BY <2>1 DEF Init, JoinInv, PrintedFirst
  <1>2. ASSUME PrintedFirst, [Next]_vars
        PROVE  PrintedFirst'
    <2>1. \/ semsAlive' = semsAlive /\ printed' = printed
          \/ semsAlive' = semsAlive /\ printed' = <<deposit>>
          \/ printed # << >> /\ printed' = printed
      BY <1>2
      DEF Next, MainNext, ProducerNext, ConsumerNext, Exited, vars, mainVars, CreateThread,
          JoinThread, PrintDeposit, DestroySems, Draw, WaitEmpty, WaitWrite, StoreItem,
          AdvanceWrite, PostWrite, PostFill, WaitFill, WaitRead, LoadItem, StoreDeposit,
          AdvanceRead, PostRead, PostEmpty
    <2>. QED
      BY <1>2, <2>1 DEF PrintedFirst
  <1>3. JoinInv /\ PrintedFirst => SemsOutliveThreads
    <2>1. \A t \in Threads : t < NumThreads
      BY ParametersAssumption DEF Threads, Producers, Consumers, NumThreads
    <2>. QED
      BY <2>1 DEF JoinInv, PrintedFirst, SemsOutliveThreads
  <1>. QED
    BY Types, <1>1, <1>2, <1>3, JoinStep, PTL DEF Spec

-----------------------------------------------------------------------------
(* The order in which _global consumes *)

\* The producer that has drawn and not yet advanced the index.
Drew == At({"store", "advanceWrite"})

\* Items are drawn, sent and received in one order; the one that is drawn and not
\* yet sent is in the hands of the producer that has the lock.
OrderInv ==
  /\ \A k \in 1 .. Len(sent) : sent[k] = k
  /\ \A k \in 1 .. Len(received) : received[k] = k
  /\ Drew = {} => drawn = Len(sent)
  /\ \A p \in Drew : item[p] = drawn /\ drawn = Len(sent) + 1

\* Where the number is drawn inside the lock, every step keeps that order.
LEMMA OrderStep ==
  ASSUME DrawsInLock, IndInv, OrderInv, [Next]_vars
  PROVE  OrderInv'
  <1>1. TypeOK /\ MutualExclusion /\ CountInv /\ WindowInv /\ HandInv
    BY DEF IndInv
  <1>2. /\ Len(sent) \in Nat /\ Len(received) \in Nat /\ Len(received) <= Len(sent)
        /\ drawn \in Nat /\ sent \in Seq(Items) /\ received \in Seq(Items)
    BY <1>1, WindowBounds DEF TypeOK, Items
  <1>3. ASSUME NEW p \in Producers, Draw(p)
        PROVE  OrderInv'
    <2>1. pc[p] = "draw" /\ p \in At(Writing)
      BY <1>3 DEF Draw, Step, At, Writing, Threads
    <2>2. Drew \subseteq At(Writing)
      BY DEF Drew, At, Writing
    <2>3. Drew = {}
      BY <1>1, <2>1, <2>2 DEF MutualExclusion, Drew, At
    <2>4. Drew' = {p}
      BY <1>1, <1>3, <2>3 DEF Draw, Step, Drew, At, TypeOK, PcOK, Threads
    <2>5. /\ item'[p] = drawn + 1 /\ drawn' = drawn + 1
          /\ sent' = sent /\ received' = received
      BY <1>1, <1>3 DEF Draw, history, TypeOK, Threads
    <2>. QED
      BY <2>3, <2>4, <2>5 DEF OrderInv
  <1>4. ASSUME NEW p \in Producers, AdvanceWrite(p)
        PROVE  OrderInv'
    <2>1. p \in Drew
      BY <1>4 DEF AdvanceWrite, Step, Drew, At, Threads
    <2>2. Drew \subseteq At(Writing)
      BY DEF Drew, At, Writing
    <2>3. Drew = {p}
      BY <1>1, <2>1, <2>2 DEF MutualExclusion
    <2>4. Drew' = {}
      BY <1>1, <1>4, <2>3 DEF AdvanceWrite, Step, Drew, At, TypeOK, PcOK
    <2>5. /\ item[p] = Len(sent) + 1 /\ drawn = Len(sent) + 1
          /\ sent' = Append(sent, item[p]) /\ received' = received /\ drawn' = drawn
      BY <1>4, <2>1 DEF AdvanceWrite, OrderInv
    <2>6. /\ Len(sent') = Len(sent) + 1 /\ sent'[Len(sent) + 1] = Len(sent) + 1
          /\ \A k \in 1 .. Len(sent) : sent'[k] = sent[k]
      BY <1>1, <1>2, <2>5 DEF TypeOK
    <2>7. \A k \in 1 .. Len(sent') : k \in 1 .. Len(sent) \/ k = Len(sent) + 1
      BY <1>2, <2>6
    <2>. QED
      BY <2>4, <2>5, <2>6, <2>7 DEF OrderInv
  <1>5. ASSUME NEW c \in Consumers, AdvanceRead(c)
        PROVE  OrderInv'
    <2>1. /\ c \in At({"load", "addDeposit", "advanceRead"})
          /\ c \in At({"addDeposit", "advanceRead"})
          /\ received' = Append(received, item[c]) /\ sent' = sent /\ drawn' = drawn
          /\ item' = item
      BY <1>5 DEF AdvanceRead, Step, At, Threads
    <2>2. Len(received) < Len(sent)
      BY <1>1, <2>1, WindowBounds
    <2>3. PICK i \in Len(received) + 1 .. Len(sent) : i = Len(received) + 1
      BY <1>2, <2>2
    <2>4. item[c] = Len(received) + 1
      <3>1. item[c] = sent[Len(received) + 1]
        BY <1>1, <2>1, <2>3 DEF HandInv, WindowInv
      <3>2. Len(received) + 1 \in 1 .. Len(sent)
        BY <1>2, <2>2
      <3>. QED
        BY <3>1, <3>2 DEF OrderInv
    <2>5. /\ Len(received') = Len(received) + 1
          /\ received'[Len(received) + 1] = Len(received) + 1
          /\ \A k \in 1 .. Len(received) : received'[k] = received[k]
      BY <1>2, <2>1, <2>4
    <2>6. \A k \in 1 .. Len(received') : k \in 1 .. Len(received) \/ k = Len(received) + 1
      BY <1>2, <2>5
    <2>7. Drew' = Drew
      BY <1>1, <1>5 DEF AdvanceRead, Step, Drew, At, TypeOK, PcOK
    <2>. QED
      BY <2>1, <2>5, <2>6, <2>7 DEF OrderInv
  <1>6. ASSUME NEW c \in Consumers, LoadItem(c)
        PROVE  OrderInv'
    <2>1. Drew' = Drew /\ c \notin Drew
      BY <1>1, <1>6 DEF LoadItem, Step, Drew, At, TypeOK, PcOK
    <2>2. /\ \A t \in Drew : item'[t] = item[t]
          /\ drawn' = drawn /\ sent' = sent /\ received' = received
      BY <1>1, <1>6, <2>1 DEF LoadItem, history, Drew, At, TypeOK
    <2>. QED
      BY <2>1, <2>2 DEF OrderInv
  <1>7. ASSUME NEW p \in Producers,
               WaitEmpty(p) \/ WaitWrite(p) \/ StoreItem(p) \/ PostWrite(p) \/ PostFill(p)
        PROVE  OrderInv'
    <2>1. /\ item' = item /\ drawn' = drawn /\ sent' = sent /\ received' = received
      BY <1>7 DEF WaitEmpty, WaitWrite, StoreItem, PostWrite, PostFill, history
    <2>2. Drew' = Drew
      BY <1>1, <1>7
      DEF WaitEmpty, WaitWrite, StoreItem, PostWrite, PostFill, NextRound, FirstStep, Step,
          Drew, At, TypeOK, PcOK
    <2>. QED
      BY <2>1, <2>2 DEF OrderInv
  <1>8. ASSUME NEW c \in Consumers,
               WaitFill(c) \/ WaitRead(c) \/ StoreDeposit(c) \/ PostRead(c) \/ PostEmpty(c)
        PROVE  OrderInv'
    <2>1. /\ item' = item /\ drawn' = drawn /\ sent' = sent /\ received' = received
      BY <1>8 DEF WaitFill, WaitRead, StoreDeposit, PostRead, PostEmpty, history
    <2>2. Drew' = Drew
      BY <1>1, <1>8
      DEF WaitFill, WaitRead, StoreDeposit, PostRead, PostEmpty, NextRound, FirstStep, Step,
          Drew, At, TypeOK, PcOK
    <2>. QED
      BY <2>1, <2>2 DEF OrderInv
  <1>9. CASE MainNext \/ Exited \/ UNCHANGED vars
    <2>1. /\ item' = item /\ drawn' = drawn /\ sent' = sent /\ received' = received
      BY <1>9
      DEF MainNext, CreateThread, JoinThread, PrintDeposit, DestroySems, Exited, vars,
          locals, history
    <2>2. Drew' = Drew
      BY <1>1, <1>9
      DEF MainNext, CreateThread, JoinThread, PrintDeposit, DestroySems, Exited, vars,
          locals, FirstStep, Step, Drew, At, TypeOK, PcOK
    <2>. QED
      BY <2>1, <2>2 DEF OrderInv
  <1>. QED
    BY <1>3, <1>4, <1>5, <1>6, <1>7, <1>8, <1>9 DEF Next, ProducerNext, ConsumerNext

\* In _global the consumers get the numbers in the order of the seeded sequence, for
\* every number of producers and of consumers.
THEOREM InDrawnOrder ==
  ASSUME DrawsInLock
  PROVE  Spec => []ConsumedAsDrawn
  <1>1. Init => OrderInv
    BY DEF Init, OrderInv, Drew, At
  <1>2. OrderInv => ConsumedAsDrawn
    BY DEF OrderInv, ConsumedAsDrawn
  <1>3. IndInv /\ OrderInv /\ [Next]_vars => OrderInv'
    BY OrderStep
  <1>. QED
    BY Inductive, <1>1, <1>2, <1>3, PTL DEF Spec

-----------------------------------------------------------------------------
(* The sum that main prints *)

\* The numbers of the items in S, one to each place of the sequence.
Counted(S) == [k \in 1 .. NumOperations |-> IF k \in S THEN Amount[k] ELSE 0]

TotalOf(S) ==
    LET sum[k \in 0 .. NumOperations] ==
            IF k = 0 THEN 0 ELSE sum[k - 1] + Counted(S)[k]
    IN  sum[NumOperations]

\* The steps of a producer that holds an item it has drawn and not sent, and the items
\* among the first k that were sent.
Holding == HoldsItem \ {"postWrite", "postFill"}
Holders == At(Holding)
SentUpTo(k) == {sent[i] : i \in 1 .. k}

\* An item is drawn once, and is in one place.
ItemInv ==
  /\ \A i \in 1 .. Len(sent) : sent[i] \in 1 .. drawn
  /\ \A i, j \in 1 .. Len(sent) : sent[i] = sent[j] => i = j
  /\ \A p \in Holders : item[p] \in 1 .. drawn /\ item[p] \notin SentUpTo(Len(sent))
  /\ \A p, q \in Holders : item[p] = item[q] => p = q

\* The rounds that consumers have still to count, up to the index they have moved.
ToTake ==
    {d \in Consumers \X (1 .. OpsPerConsumer) :
        d[2] <= numOps[d[1]] - IF pc[d[1]] \in EmptiedSteps THEN 1 ELSE 0}

\* Each of the consumers' rounds takes an item, and none is left at the end.
TakeInv ==
  /\ Len(received) + Cardinality(ToTake) = NumOperations
  /\ \A c \in Consumers : numOps[c] <= OpsPerConsumer
  /\ \A c \in Consumers : pc[c] = "done" => numOps[c] = 0

\* deposit is the sum of what the consumers have taken, the last of which may still
\* be at the index; what one of them is about to store has one item more.
DepositInv ==
  /\ At({"advanceRead"}) = {} => deposit = TotalOf(SentUpTo(Len(received)))
  /\ At({"advanceRead"}) # {} => deposit = TotalOf(SentUpTo(Len(received) + 1))
  /\ \A c \in At({"addDeposit"}) : balance[c] = deposit + Value(item[c])

\* The recursion defines a total, an integer, which is 0 of nothing.
LEMMA TotalEmpty == TotalOf({}) = 0 /\ \A S : TotalOf(S) \in Int
  <1>. DEFINE N == NumOperations
  <1>1. N \in Nat \ {0}
    BY ParametersAssumption DEF NumOperations
  <1>2. \A S : \A k \in 1 .. N : Counted(S)[k] \in Int
    BY ParametersAssumption DEF Counted
  <1>3. ASSUME NEW S
        PROVE  \E s : IsSums(s, N, Counted(S)) /\ TotalOf(S) = s[N]
    <2>1. TotalOf(S) = (CHOOSE s : IsSums(s, N, Counted(S)))[N]
      BY DEF TotalOf, IsSums
    <2>. QED
      BY <1>1, <2>1, SumsDefined
  <1>. HIDE DEF N
  <1>4. ASSUME NEW S
        PROVE  TotalOf(S) \in Int
    <2>1. PICK s : IsSums(s, N, Counted(S)) /\ TotalOf(S) = s[N]
      BY <1>3
    <2>2. s \in [0 .. N -> Int]
      BY <1>1, <1>2, <2>1, SumsStep
    <2>. QED
      BY <1>1, <2>1, <2>2
  <1>5. TotalOf({}) = 0
    <2>1. PICK s : IsSums(s, N, Counted({})) /\ TotalOf({}) = s[N]
      BY <1>3
    <2>2. s[0] = 0 /\ (\A k \in 1 .. N : s[k] = s[k - 1] + Counted({})[k])
          /\ s \in [0 .. N -> Int]
      BY <1>1, <1>2, <2>1, SumsStep
    <2>3. \A k \in 1 .. N : Counted({})[k] = 0
      BY DEF Counted, N
    <2>. DEFINE Z == {m \in Nat : m <= N => s[m] = 0}
    <2>4. 0 \in Z
      BY <2>2
    <2>5. ASSUME NEW m \in Nat, m \in Z
          PROVE  m + 1 \in Z
      <3>. SUFFICES ASSUME m + 1 <= N
                    PROVE  s[m + 1] = 0
        OBVIOUS
      <3>1. m + 1 \in 1 .. N /\ (m + 1) - 1 = m /\ s[m] = 0
        BY <1>1, <2>5
      <3>. QED
        BY <2>2, <2>3, <3>1
    <2>. HIDE DEF Z
    <2>6. N \in Z
      BY <1>1, <2>4, <2>5, SetInduction
    <2>. QED
      BY <1>1, <2>1, <2>6 DEF Z
  <1>. QED
    BY <1>4, <1>5

\* An item more raises the total by its value.
LEMMA TotalAdds ==
  ASSUME NEW S, NEW x \in 1 .. NumOperations, x \notin S
  PROVE  TotalOf(S \cup {x}) = TotalOf(S) + Value(x)
  <1>. DEFINE T == S \cup {x}
  <1>1. NumOperations \in Nat /\ Amount[x] \in Int
    BY ParametersAssumption DEF NumOperations
  <1>2. /\ \A k \in 1 .. NumOperations : Counted(S)[k] \in Int
        /\ Counted(T)[x] = Counted(S)[x] + Amount[x]
        /\ \A k \in 1 .. NumOperations : k # x => Counted(T)[k] = Counted(S)[k]
    BY ParametersAssumption DEF Counted
  <1>3. /\ TotalOf(S) = (CHOOSE s : IsSums(s, NumOperations, Counted(S)))[NumOperations]
        /\ TotalOf(T) = (CHOOSE s : IsSums(s, NumOperations, Counted(T)))[NumOperations]
    BY DEF TotalOf, IsSums
  <1>4. PICK s : IsSums(s, NumOperations, Counted(S)) /\ TotalOf(S) = s[NumOperations]
    BY <1>1, <1>3, SumsDefined
  <1>. HIDE DEF T
  <1>5. PICK t : IsSums(t, NumOperations, Counted(T)) /\ TotalOf(T) = t[NumOperations]
    BY <1>1, <1>3, SumsDefined
  <1>6. t[NumOperations] = s[NumOperations] + Amount[x]
    <2>. DEFINE n == NumOperations
                F == Counted(S)
                G == Counted(T)
                a == Amount[x]
    <2>1. n \in Nat /\ x \in 1 .. n /\ a \in Int
      BY <1>1
    <2>2. IsSums(s, n, F) /\ IsSums(t, n, G)
      BY <1>4, <1>5
    <2>3. (\A k \in 1 .. n : F[k] \in Int) /\ G[x] = F[x] + a
          /\ (\A k \in 1 .. n : k # x => G[k] = F[k])
      BY <1>2
    <2>. HIDE DEF n, F, G, a
    <2>4. t[n] = s[n] + a
      BY <2>1, <2>2, <2>3, SumsRaised
    <2>. QED
      BY <2>4 DEF n, a
  <1>7. Value(x) = Amount[x]
    BY DEF Value
  <1>. QED
    BY <1>4, <1>5, <1>6, <1>7 DEF T

\* The sum of the sequence of all items is their total.
LEMMA TotalAll == SumOf([k \in 1 .. NumOperations |-> k]) = TotalOf(1 .. NumOperations)
  <1>. DEFINE N == NumOperations
              items == [k \in 1 .. N |-> k]
              C == Counted(1 .. N)
              IsSumOf(s) == s = [n \in 0 .. Len(items) |->
                                    IF n = 0 THEN 0 ELSE s[n - 1] + Value(items[n])]
  <1>1. N \in Nat \ {0} /\ 1 \in 1 .. N /\ 0 \in Int
    BY ParametersAssumption DEF NumOperations
  <1>2. Len(items) = N
    BY <1>1
  <1>3. \A k \in 1 .. N : C[k] \in Int /\ C[k] = Value(items[k]) /\ C[k] = C[k] + 0
    BY ParametersAssumption DEF Counted, Value
  <1>4. SumOf(items) = (CHOOSE s : IsSumOf(s))[Len(items)]
    BY DEF SumOf
  <1>5. TotalOf(1 .. N) = (CHOOSE s : IsSums(s, N, C))[N]
    BY DEF TotalOf, IsSums
  <1>. HIDE DEF N, C
  <1>6. PICK t : IsSums(t, N, C) /\ TotalOf(1 .. N) = t[N]
    BY <1>1, <1>5, SumsDefined
  <1>7. \A s : IsSumOf(s) <=> IsSums(s, N, C)
    <2>. TAKE s
    <2>1. \A n \in 0 .. N : (IF n = 0 THEN 0 ELSE s[n - 1] + Value(items[n]))
                               = IF n = 0 THEN 0 ELSE s[n - 1] + C[n]
      BY <1>1, <1>3
    <2>. HIDE DEF items
    <2>. QED
      BY <1>2, <2>1 DEF IsSums
  <1>8. PICK s : IsSumOf(s) /\ SumOf(items) = s[Len(items)]
    <2>1. IsSumOf(t)
      BY <1>6, <1>7
    <2>2. IsSumOf(CHOOSE s : IsSumOf(s))
      BY <2>1
    <2>. QED
      BY <1>4, <2>2
  <1>. HIDE DEF items
  <1>9. IsSums(s, N, C)
    BY <1>7, <1>8
  <1>. HIDE DEF IsSumOf
  <1>10. s[N] = t[N] + 0 /\ t[N] \in Int
    <2>1. IsSums(s, N, C) /\ IsSums(t, N, C)
      BY <1>6, <1>9
    <2>2. (\A k \in 1 .. N : C[k] \in Int) /\ C[1] = C[1] + 0
          /\ (\A k \in 1 .. N : k # 1 => C[k] = C[k])
      BY <1>1, <1>3
    <2>3. s[N] \in Int /\ t[N] = s[N] + 0
      BY <1>1, <2>1, <2>2, SumsRaised
    <2>. QED
      BY <2>3
  <1>11. SumOf(items) = TotalOf(1 .. N)
    BY <1>2, <1>6, <1>8, <1>10
  <1>. QED
    BY <1>11 DEF N, items

\* A step inside a round that neither makes, moves nor takes an item.
Plain(from, to) ==
  /\ {from, to} \cap {"done", "addDeposit", "advanceRead"} = {}
  /\ from \in Holding <=> to \in Holding
  /\ from \in EmptiedSteps <=> to \in EmptiedSteps

\* The items, where they are, and the sum.
sums == <<item, balance, deposit, drawn, sent, received>>

\* Of the steps five kinds matter to the items, the rounds and the sum.
LEMMA StepKinds ==
  ASSUME TypeOK, [Next]_vars
  PROVE  \/ UNCHANGED <<pc, numOps, sums>>
         \/ \E p \in Producers : Draw(p) \/ AdvanceWrite(p)
         \/ \E c \in Consumers : LoadItem(c) \/ StoreDeposit(c) \/ AdvanceRead(c)
         \/ \E t \in Threads : /\ NextRound(t, IF t \in Producers THEN "postFill"
                                               ELSE "postEmpty")
                               /\ UNCHANGED sums
         \/ \E t \in Threads : \E from, to : /\ Step(t, from, to) /\ Plain(from, to)
                                             /\ UNCHANGED <<numOps, sums>>
  <1>. DEFINE PlainStep == \E t \in Threads : \E from, to :
                              /\ Step(t, from, to) /\ Plain(from, to)
                              /\ UNCHANGED <<numOps, sums>>
  <1>1. /\ \A p \in Producers : p \in Threads
        /\ \A c \in Consumers : c \in Threads /\ c \notin Producers
    BY ThreadsFacts DEF Threads
  <1>2. ASSUME NEW p \in Producers, WaitEmpty(p)
        PROVE  PlainStep
    <2>1. Step(p, "waitEmpty", "waitWrite") /\ UNCHANGED <<numOps, sums>>
      BY <1>2 DEF WaitEmpty, shared, history, sums
    <2>2. Plain("waitEmpty", "waitWrite")
      BY DEF Plain, Holding, HoldsItem, EmptiedSteps
    <2>. QED
      BY <1>1, <2>1, <2>2
  <1>3. ASSUME NEW p \in Producers, WaitWrite(p)
        PROVE  PlainStep
    <2>1. Step(p, "waitWrite", IF DrawsInLock THEN "draw" ELSE "store")
          /\ UNCHANGED <<numOps, sums>>
      BY <1>3 DEF WaitWrite, shared, history, sums
    <2>2. Plain("waitWrite", IF DrawsInLock THEN "draw" ELSE "store")
      BY DEF Plain, Holding, HoldsItem, EmptiedSteps
    <2>. QED
      BY <1>1, <2>1, <2>2
  <1>4. ASSUME NEW p \in Producers, StoreItem(p)
        PROVE  PlainStep
    <2>1. Step(p, "store", "advanceWrite") /\ UNCHANGED <<numOps, sums>>
      BY <1>4 DEF StoreItem, history, sums
    <2>2. Plain("store", "advanceWrite")
      BY DEF Plain, Holding, HoldsItem, EmptiedSteps
    <2>. QED
      BY <1>1, <2>1, <2>2
  <1>5. ASSUME NEW p \in Producers, PostWrite(p)
        PROVE  PlainStep
    <2>1. Step(p, "postWrite", "postFill") /\ UNCHANGED <<numOps, sums>>
      BY <1>5 DEF PostWrite, shared, history, sums
    <2>2. Plain("postWrite", "postFill")
      BY DEF Plain, Holding, HoldsItem, EmptiedSteps
    <2>. QED
      BY <1>1, <2>1, <2>2
  <1>6. ASSUME NEW c \in Consumers, WaitFill(c)
        PROVE  PlainStep
    <2>1. Step(c, "waitFill", "waitRead") /\ UNCHANGED <<numOps, sums>>
      BY <1>6 DEF WaitFill, shared, history, sums
    <2>2. Plain("waitFill", "waitRead")
      BY DEF Plain, Holding, HoldsItem, EmptiedSteps
    <2>. QED
      BY <1>1, <2>1, <2>2
  <1>7. ASSUME NEW c \in Consumers, WaitRead(c)
        PROVE  PlainStep
    <2>1. Step(c, "waitRead", "load") /\ UNCHANGED <<numOps, sums>>
      BY <1>7 DEF WaitRead, shared, history, sums
    <2>2. Plain("waitRead", "load")
      BY DEF Plain, Holding, HoldsItem, EmptiedSteps
    <2>. QED
      BY <1>1, <2>1, <2>2
  <1>8. ASSUME NEW c \in Consumers, PostRead(c)
        PROVE  PlainStep
    <2>1. Step(c, "postRead", "postEmpty") /\ UNCHANGED <<numOps, sums>>
      BY <1>8 DEF PostRead, shared, history, sums
    <2>2. Plain("postRead", "postEmpty")
      BY DEF Plain, Holding, HoldsItem, EmptiedSteps
    <2>. QED
      BY <1>1, <2>1, <2>2
  <1>9. ASSUME CreateThread
        PROVE  PlainStep
    <2>1. Step(created, "unborn", FirstStep(created)) /\ UNCHANGED <<numOps, sums>>
          /\ created < NumThreads
      BY <1>9 DEF CreateThread, shared, history, sums
    <2>2. created \in Threads
      BY <2>1, ThreadsFacts DEF TypeOK
    <2>3. Plain("unborn", FirstStep(created))
      BY DEF Plain, Holding, HoldsItem, EmptiedSteps, FirstStep
    <2>. QED
      BY <2>1, <2>2, <2>3
  <1>10. ASSUME JoinThread \/ PrintDeposit \/ DestroySems \/ Exited \/ UNCHANGED vars
         PROVE  UNCHANGED <<pc, numOps, sums>>
    BY <1>10
    DEF JoinThread, PrintDeposit, DestroySems, Exited, vars, shared, locals, history, sums
  <1>11. ASSUME NEW p \in Producers, PostFill(p)
         PROVE  NextRound(p, "postFill") /\ UNCHANGED sums
    BY <1>11 DEF PostFill, shared, history, sums
  <1>12. ASSUME NEW c \in Consumers, PostEmpty(c)
         PROVE  NextRound(c, "postEmpty") /\ UNCHANGED sums
    BY <1>12 DEF PostEmpty, shared, history, sums
  <1>13. ASSUME NEW p \in Producers, PostFill(p)
         PROVE  \E t \in Threads : /\ NextRound(t, IF t \in Producers THEN "postFill"
                                                   ELSE "postEmpty")
                                   /\ UNCHANGED sums
    BY <1>1, <1>11, <1>13
  <1>14. ASSUME NEW c \in Consumers, PostEmpty(c)
         PROVE  \E t \in Threads : /\ NextRound(t, IF t \in Producers THEN "postFill"
                                                   ELSE "postEmpty")
                                   /\ UNCHANGED sums
    BY <1>1, <1>12, <1>14
  <1>. HIDE DEF PlainStep
  <1>15. ASSUME Next
         PROVE  \/ PlainStep
                \/ UNCHANGED <<pc, numOps, sums>>
                \/ \E p \in Producers : Draw(p) \/ AdvanceWrite(p) \/ PostFill(p)
                \/ \E c \in Consumers : LoadItem(c) \/ StoreDeposit(c) \/ AdvanceRead(c)
                                        \/ PostEmpty(c)
    <2>1. CASE MainNext \/ Exited
      BY <1>9, <1>10, <2>1 DEF MainNext
    <2>2. ASSUME NEW p \in Producers, ProducerNext(p)
          PROVE  PlainStep \/ Draw(p) \/ AdvanceWrite(p) \/ PostFill(p)
      BY <1>2, <1>3, <1>4, <1>5, <2>2 DEF ProducerNext
    <2>3. ASSUME NEW c \in Consumers, ConsumerNext(c)
          PROVE  PlainStep \/ LoadItem(c) \/ StoreDeposit(c) \/ AdvanceRead(c) \/ PostEmpty(c)
      BY <1>6, <1>7, <1>8, <2>3 DEF ConsumerNext
    <2>. QED
      BY <1>15, <2>1, <2>2, <2>3 DEF Next
  <1>. QED
    BY <1>10, <1>13, <1>14, <1>15 DEF PlainStep

\* The end of a round leaves who holds an item, and who adds one, alone.
LEMMA RoundMoves ==
  ASSUME TypeOK, NEW t \in Threads,
         NextRound(t, IF t \in Producers THEN "postFill" ELSE "postEmpty")
  PROVE  At(Holding)' = At(Holding) /\ At({"addDeposit"})' = At({"addDeposit"})
         /\ At({"advanceRead"})' = At({"advanceRead"})
  <1>. DEFINE from == IF t \in Producers THEN "postFill" ELSE "postEmpty"
              to == IF numOps[t] > 1 THEN FirstStep(t) ELSE "done"
  <1>1. Step(t, from, to)
    BY DEF NextRound
  <1>2. from \notin Holding /\ from \notin {"addDeposit"} /\ from \notin {"advanceRead"}
    BY DEF Holding, HoldsItem
  <1>3. to \notin Holding /\ to \notin {"addDeposit"} /\ to \notin {"advanceRead"}
    BY DEF Holding, HoldsItem, FirstStep
  <1>. HIDE DEF from, to
  <1>4. At(Holding)' = At(Holding)
    BY <1>1, <1>2, <1>3, Stays
  <1>5. At({"addDeposit"})' = At({"addDeposit"})
    BY <1>1, <1>2, <1>3, Stays
  <1>6. At({"advanceRead"})' = At({"advanceRead"})
    BY <1>1, <1>2, <1>3, Stays
  <1>. QED
    BY <1>4, <1>5, <1>6

\* So does a plain step.
LEMMA PlainMoves ==
  ASSUME TypeOK, NEW t \in Threads, NEW from, NEW to, Step(t, from, to), Plain(from, to)
  PROVE  At(Holding)' = At(Holding) /\ At({"addDeposit"})' = At({"addDeposit"})
         /\ At({"advanceRead"})' = At({"advanceRead"})
  <1>1. /\ from \in Holding <=> to \in Holding
        /\ from \in {"addDeposit"} <=> to \in {"addDeposit"}
        /\ from \in {"advanceRead"} <=> to \in {"advanceRead"}
    BY DEF Plain
  <1>2. At(Holding)' = At(Holding)
    BY <1>1, Stays
  <1>3. At({"addDeposit"})' = At({"addDeposit"})
    BY <1>1, Stays
  <1>4. At({"advanceRead"})' = At({"advanceRead"})
    BY <1>1, Stays
  <1>. QED
    BY <1>2, <1>3, <1>4

\* An item is in the hands of the producer that has drawn it, or sent.
LEMMA ItemStep ==
  ASSUME IndInv, ItemInv, [Next]_vars
  PROVE  ItemInv'
  <1>1. TypeOK
    BY DEF IndInv
  <1>2. /\ Len(sent) \in Nat /\ sent \in Seq(Items) /\ drawn \in Nat
        /\ DOMAIN item = Threads /\ Holders \subseteq Threads
        /\ \A p \in Producers : p \in Threads
        /\ \A c \in Consumers : c \in Threads
    BY <1>1 DEF TypeOK, Items, Threads, Holders, At
  <1>3. ASSUME UNCHANGED <<sent, drawn>>, Holders' = Holders,
               \A p \in Holders : item'[p] = item[p]
        PROVE  ItemInv'
    BY <1>3 DEF ItemInv, SentUpTo
  <1>4. ASSUME NEW p \in Producers, Draw(p)
        PROVE  ItemInv'
    <2>1. /\ Step(p, "draw", IF DrawsInLock THEN "store" ELSE "waitEmpty")
          /\ drawn' = drawn + 1 /\ item' = [item EXCEPT ![p] = drawn + 1]
          /\ sent' = sent
      BY <1>4 DEF Draw, history
    <2>2. /\ "draw" \notin Holding
          /\ (IF DrawsInLock THEN "store" ELSE "waitEmpty") \in Holding
      BY DEF Holding, HoldsItem
    <2>3. Holders' = Holders \cup {p}
      BY <1>1, <1>2, <2>1, <2>2, Enters DEF Holders
    <2>4. p \notin Holders
      BY <2>1, <2>2 DEF Step, Holders, At
    <2>5. item'[p] = drawn + 1 /\ \A q \in Holders : item'[q] = item[q]
      BY <1>2, <2>1, <2>4
    <2>6. \A i \in 1 .. drawn : i \in 1 .. drawn' /\ i # drawn + 1
      BY <1>2, <2>1
    <2>7. \A i \in 1 .. Len(sent) : sent[i] \in 1 .. drawn /\ sent[i] # drawn + 1
      BY <2>6 DEF ItemInv
    <2>8. drawn + 1 \in 1 .. drawn' /\ drawn + 1 \notin SentUpTo(Len(sent))
      BY <1>2, <2>1, <2>7 DEF SentUpTo
    <2>9. \A q \in Holders' : item'[q] \in 1 .. drawn' /\ item'[q] \notin SentUpTo(Len(sent))
      BY <2>3, <2>5, <2>6, <2>8 DEF ItemInv
    <2>10. \A q, r \in Holders' : item'[q] = item'[r] => q = r
      BY <2>3, <2>5, <2>6 DEF ItemInv
    <2>11. SentUpTo(Len(sent))' = SentUpTo(Len(sent))
      BY <2>1 DEF SentUpTo
    <2>. QED
      BY <2>1, <2>6, <2>7, <2>9, <2>10, <2>11 DEF ItemInv
  <1>5. ASSUME NEW p \in Producers, AdvanceWrite(p)
        PROVE  ItemInv'
    <2>1. /\ Step(p, "advanceWrite", "postWrite")
          /\ sent' = Append(sent, item[p]) /\ UNCHANGED <<item, drawn>>
      BY <1>5 DEF AdvanceWrite
    <2>2. "advanceWrite" \in Holding /\ "postWrite" \notin Holding
      BY DEF Holding, HoldsItem
    <2>3. p \in Holders /\ Holders' = Holders \ {p}
      BY <1>1, <1>2, <2>1, <2>2, Leaves DEF Holders
    <2>4. /\ item[p] \in 1 .. drawn
          /\ \A i \in 1 .. Len(sent) : sent[i] # item[p]
          /\ \A q \in Holders : q # p => item[q] # item[p]
      BY <2>3 DEF ItemInv, SentUpTo
    <2>5. /\ Len(sent') = Len(sent) + 1 /\ sent'[Len(sent) + 1] = item[p]
          /\ \A i \in 1 .. Len(sent) : sent'[i] = sent[i]
          /\ \A i \in 1 .. Len(sent') : i \in 1 .. Len(sent) \/ i = Len(sent) + 1
      <3>1. item[p] \in Items
        BY <1>1, <1>2 DEF TypeOK
      <3>. QED
        BY <1>2, <2>1, <3>1
    <2>6. \A i \in 1 .. Len(sent') : sent'[i] \in 1 .. drawn
      BY <2>4, <2>5 DEF ItemInv
    <2>7. \A i, j \in 1 .. Len(sent') : sent'[i] = sent'[j] => i = j
      BY <2>4, <2>5 DEF ItemInv
    <2>8. \A q \in Holders' : item[q] \in 1 .. drawn /\ q \in Holders
                              /\ \A i \in 1 .. Len(sent') : sent'[i] # item[q]
      BY <2>3, <2>4, <2>5 DEF ItemInv, SentUpTo
    <2>9. \A q, r \in Holders' : item[q] = item[r] => q = r
      BY <2>8 DEF ItemInv
    <2>10. \A q \in Holders' : item[q] \notin SentUpTo(Len(sent))'
      BY <2>8 DEF SentUpTo
    <2>. QED
      BY <2>1, <2>6, <2>7, <2>8, <2>9, <2>10 DEF ItemInv
  <1>6. ASSUME NEW c \in Consumers, LoadItem(c) \/ StoreDeposit(c) \/ AdvanceRead(c)
        PROVE  ItemInv'
    <2>1. /\ UNCHANGED <<sent, drawn>>
          /\ item' = item \/ item' = [item EXCEPT ![c] = transactions[read_index]]
          /\ \/ Step(c, "load", "addDeposit")
             \/ Step(c, "addDeposit", "advanceRead")
             \/ Step(c, "advanceRead", "postRead")
      BY <1>6 DEF LoadItem, StoreDeposit, AdvanceRead, history
    <2>2. {"load", "addDeposit", "advanceRead", "postRead"} \cap Holding = {}
      BY DEF Holding, HoldsItem
    <2>3. Holders' = Holders
      <3>1. "load" \notin Holding /\ "addDeposit" \notin Holding
            /\ "advanceRead" \notin Holding /\ "postRead" \notin Holding
        BY <2>2
      <3>. QED
        BY <1>1, <1>2, <2>1, <3>1, Stays DEF Holders
    <2>4. c \notin Holders
      BY <2>1, <2>2 DEF Step, Holders, At
    <2>5. \A p \in Holders : item'[p] = item[p]
      BY <1>2, <2>1, <2>4
    <2>. QED
      BY <1>3, <2>1, <2>3, <2>5
  <1>7. ASSUME NEW t \in Threads, UNCHANGED sums,
               NextRound(t, IF t \in Producers THEN "postFill" ELSE "postEmpty")
        PROVE  ItemInv'
    BY <1>1, <1>3, <1>7, RoundMoves DEF sums, Holders
  <1>8. ASSUME NEW t \in Threads, NEW from, NEW to, Step(t, from, to), Plain(from, to),
               UNCHANGED sums
        PROVE  ItemInv'
    BY <1>1, <1>3, <1>8, PlainMoves DEF sums, Holders
  <1>9. CASE UNCHANGED <<pc, numOps, sums>>
    BY <1>3, <1>9 DEF sums, Holders, At
  <1>. QED
    BY <1>1, <1>4, <1>5, <1>6, <1>7, <1>8, <1>9, StepKinds

\* Every round of a consumer is one of finitely many.
LEMMA ToTakeFinite ==
  IsFiniteSet(ToTake) /\ Cardinality(ToTake) \in Nat
  <1>1. IsFiniteSet(Consumers) /\ IsFiniteSet(1 .. OpsPerConsumer)
    BY ParametersAssumption, FS_Interval DEF Consumers, NumThreads
  <1>2. IsFiniteSet(Consumers \X (1 .. OpsPerConsumer))
    BY <1>1, FS_Product
  <1>3. ToTake \subseteq Consumers \X (1 .. OpsPerConsumer)
    BY DEF ToTake
  <1>. QED
    BY <1>2, <1>3, FS_Subset, FS_CardinalityType

\* Whoever moves the read index takes the item of the round it is in.
LEMMA TakeCounts ==
  ASSUME IndInv, TakeInv, NEW c \in Consumers, AdvanceRead(c)
  PROVE  Len(received)' + Cardinality(ToTake)' = NumOperations
  <1>. DEFINE d == <<c, numOps[c]>>
  <1>1. /\ c \in Threads /\ OpsPerConsumer \in Nat
        /\ numOps \in [Threads -> Nat] /\ DOMAIN pc = Threads
        /\ \A e \in Consumers : e \in Threads
        /\ received \in Seq(Items) /\ item[c] \in Items /\ NumOperations \in Nat
    BY ParametersAssumption, ThreadsFacts DEF IndInv, TypeOK, PcOK, Threads
  <1>2. /\ pc[c] = "advanceRead" /\ pc' = [pc EXCEPT ![c] = "postRead"]
        /\ numOps' = numOps /\ received' = Append(received, item[c])
    BY DEF AdvanceRead, Step
  <1>3. numOps[c] \in 1 .. OpsPerConsumer
    BY <1>1, <1>2 DEF IndInv, DrawInv, TakeInv
  <1>4. pc[c] \notin EmptiedSteps /\ pc'[c] \in EmptiedSteps
    BY <1>1, <1>2 DEF EmptiedSteps
  <1>5. \A e \in Consumers : e # c => pc'[e] = pc[e]
    BY <1>1, <1>2
  <1>6. d \in ToTake
    BY <1>1, <1>3, <1>4 DEF ToTake
  <1>7. ToTake' = ToTake \ {d}
    BY <1>1, <1>2, <1>3, <1>4, <1>5 DEF ToTake
  <1>. HIDE DEF d
  <1>8. Cardinality(ToTake \ {d}) = Cardinality(ToTake) - 1
    BY <1>6, ToTakeFinite, FS_RemoveElement
  <1>9. Cardinality(ToTake)' = Cardinality(ToTake) - 1
    BY <1>7, <1>8
  <1>10. Len(received)' = Len(received) + 1 /\ Len(received) \in Nat
    BY <1>1, <1>2
  <1>11. Len(received) + Cardinality(ToTake) = NumOperations
    BY DEF TakeInv
  <1>. QED
    BY <1>1, <1>9, <1>10, <1>11, ToTakeFinite

\* Every step keeps the count of the consumers' rounds.
LEMMA TakeStep ==
  ASSUME IndInv, TakeInv, [Next]_vars
  PROVE  TakeInv'
  <1>1. TypeOK /\ DrawInv
    BY DEF IndInv
  <1>2. /\ \A c \in Consumers : c \in Threads /\ c \notin Producers
        /\ \A p \in Producers : p \in Threads /\ p \notin Consumers
        /\ DOMAIN pc = Threads /\ numOps \in [Threads -> Nat] /\ OpsPerConsumer \in Nat
    BY <1>1, ThreadsFacts, ParametersAssumption DEF Threads, TypeOK, PcOK
  \* A step inside a round, which does not move the read index.
  <1>3. ASSUME NEW t \in Threads, NEW from, NEW to, Step(t, from, to),
               t \in Consumers => (from \in EmptiedSteps <=> to \in EmptiedSteps),
               to # "done", UNCHANGED <<numOps, received>>
        PROVE  TakeInv'
    <2>1. pc' = [pc EXCEPT ![t] = to] /\ pc[t] = from
      BY <1>3 DEF Step
    <2>2. \A c \in Consumers : /\ pc'[c] \in EmptiedSteps <=> pc[c] \in EmptiedSteps
                               /\ pc'[c] = "done" => pc[c] = "done"
      BY <1>2, <1>3, <2>1
    <2>3. ToTake' = ToTake
      BY <1>3, <2>2 DEF ToTake
    <2>. QED
      BY <1>3, <2>2, <2>3 DEF TakeInv
  <1>4. ASSUME NEW p \in Producers, Draw(p) \/ AdvanceWrite(p)
        PROVE  TakeInv'
    <2>1. /\ UNCHANGED <<numOps, received>>
          /\ \/ Step(p, "draw", IF DrawsInLock THEN "store" ELSE "waitEmpty")
             \/ Step(p, "advanceWrite", "postWrite")
      BY <1>4 DEF Draw, AdvanceWrite, history
    <2>2. CASE Step(p, "advanceWrite", "postWrite")
      BY <1>2, <1>3, <2>1, <2>2
    <2>3. CASE Step(p, "draw", IF DrawsInLock THEN "store" ELSE "waitEmpty")
      <3>1. (IF DrawsInLock THEN "store" ELSE "waitEmpty") # "done"
        OBVIOUS
      <3>. QED
        BY <1>2, <1>3, <2>1, <2>3, <3>1
    <2>. QED
      BY <2>1, <2>2, <2>3
  <1>5. ASSUME NEW c \in Consumers, LoadItem(c) \/ StoreDeposit(c)
        PROVE  TakeInv'
    <2>1. /\ UNCHANGED <<numOps, received>>
          /\ \/ Step(c, "load", "addDeposit")
             \/ Step(c, "addDeposit", "advanceRead")
      BY <1>5 DEF LoadItem, StoreDeposit, history
    <2>2. "load" \notin EmptiedSteps /\ "addDeposit" \notin EmptiedSteps
          /\ "advanceRead" \notin EmptiedSteps
      BY DEF EmptiedSteps
    <2>. QED
      BY <1>2, <1>3, <2>1, <2>2
  <1>6. ASSUME NEW c \in Consumers, AdvanceRead(c)
        PROVE  TakeInv'
    <2>1. Len(received)' + Cardinality(ToTake)' = NumOperations
      BY <1>6, TakeCounts
    <2>2. pc' = [pc EXCEPT ![c] = "postRead"] /\ numOps' = numOps
      BY <1>6 DEF AdvanceRead, Step
    <2>3. \A e \in Consumers : pc'[e] = "done" => pc[e] = "done"
      BY <1>2, <2>2
    <2>. QED
      BY <2>1, <2>2, <2>3 DEF TakeInv
  <1>7. ASSUME NEW t \in Threads, UNCHANGED sums,
               NextRound(t, IF t \in Producers THEN "postFill" ELSE "postEmpty")
        PROVE  TakeInv'
    <2>. DEFINE to == IF numOps[t] > 1 THEN FirstStep(t) ELSE "done"
    <2>1. /\ pc' = [pc EXCEPT ![t] = to] /\ numOps' = [numOps EXCEPT ![t] = @ - 1]
          /\ pc[t] = IF t \in Producers THEN "postFill" ELSE "postEmpty"
      BY <1>7 DEF NextRound, Step
    <2>2. numOps[t] > 0 /\ (to = "done" => numOps[t] = 1) /\ numOps[t] \in Nat
      BY <1>1, <1>2, <2>1 DEF DrawInv, FirstStep
    <2>3. t \in Consumers => to \notin EmptiedSteps /\ pc[t] \in EmptiedSteps
      BY <1>2, <2>1 DEF FirstStep, EmptiedSteps
    <2>. HIDE DEF to
    <2>4. \A c \in Consumers :
             numOps'[c] - (IF pc'[c] \in EmptiedSteps THEN 1 ELSE 0)
               = numOps[c] - (IF pc[c] \in EmptiedSteps THEN 1 ELSE 0)
      BY <1>2, <2>1, <2>2, <2>3
    <2>5. ToTake' = ToTake
      BY <2>4 DEF ToTake
    <2>6. \A c \in Consumers : numOps'[c] <= OpsPerConsumer
      BY <1>2, <2>1 DEF TakeInv
    <2>7. \A c \in Consumers : pc'[c] = "done" => numOps'[c] = 0
      BY <1>2, <2>1, <2>2 DEF TakeInv
    <2>. QED
      BY <1>7, <2>5, <2>6, <2>7 DEF TakeInv, sums
  <1>8. ASSUME NEW t \in Threads, NEW from, NEW to, Step(t, from, to), Plain(from, to),
               UNCHANGED <<numOps, sums>>
        PROVE  TakeInv'
    BY <1>3, <1>8 DEF Plain, sums
  <1>9. CASE UNCHANGED <<pc, numOps, sums>>
    BY <1>9 DEF TakeInv, ToTake, sums
  <1>. QED
    BY <1>1, <1>4, <1>5, <1>6, <1>7, <1>8, <1>9, StepKinds

\* What a consumer has loaded is the next item sent, of which no other is a copy.
LEMMA NextTaken ==
  ASSUME IndInv, ItemInv, NEW c \in At({"load", "addDeposit", "advanceRead"})
  PROVE  /\ Len(received) \in Nat /\ Len(received) + 1 \in 1 .. Len(sent)
         /\ sent[Len(received) + 1] \in 1 .. NumOperations
         /\ sent[Len(received) + 1] \notin SentUpTo(Len(received))
         /\ SentUpTo(Len(received) + 1)
               = SentUpTo(Len(received)) \cup {sent[Len(received) + 1]}
         /\ transactions[read_index] = sent[Len(received) + 1]
  <1>1. TypeOK /\ CountInv /\ WindowInv /\ drawn \in 0 .. NumOperations
    BY DEF IndInv, TypeOK, Items
  <1>2. Len(received) \in Nat /\ Len(sent) \in Nat /\ Len(received) < Len(sent)
    BY <1>1, WindowBounds
  <1>3. PICK n \in Len(received) + 1 .. Len(sent) : n = Len(received) + 1
    BY <1>2
  <1>4. n - 1 = Len(received) /\ n \in 1 .. Len(sent) /\ NumOperations \in Nat
    BY <1>2, <1>3, ThreadsFacts
  <1>5. transactions[read_index] = sent[n]
    BY <1>1, <1>3, <1>4 DEF WindowInv
  <1>6. sent[n] \in 1 .. NumOperations
    <2>1. sent[n] \in 1 .. drawn
      BY <1>4 DEF ItemInv
    <2>. QED
      BY <1>1, <1>4, <2>1
  <1>7. \A i \in 1 .. Len(received) : i \in 1 .. Len(sent) /\ i # n
    BY <1>2, <1>3
  <1>8. sent[n] \notin SentUpTo(Len(received))
    BY <1>4, <1>7 DEF ItemInv, SentUpTo
  <1>9. SentUpTo(n) = SentUpTo(Len(received)) \cup {sent[n]}
    <2>1. 1 .. n = (1 .. Len(received)) \cup {n}
      BY <1>2, <1>3
    <2>. QED
      BY <2>1 DEF SentUpTo
  <1>. QED
    BY <1>2, <1>3, <1>4, <1>5, <1>6, <1>8, <1>9

\* Every step keeps deposit the sum of what was taken.
LEMMA DepositStep ==
  ASSUME IndInv, ItemInv, DepositInv, [Next]_vars
  PROVE  DepositInv'
  <1>1. TypeOK /\ MutualExclusion /\ HandInv /\ CountInv
    BY DEF IndInv
  <1>2. /\ Len(received) \in Nat /\ Len(sent) \in Nat /\ Len(received) <= Len(sent)
        /\ sent \in Seq(Items) /\ received \in Seq(Items)
        /\ DOMAIN item = Threads /\ DOMAIN balance = Consumers
        /\ \A c \in Consumers : c \in Threads
        /\ \A p \in Producers : p \in Threads /\ p \notin Consumers
    BY <1>1, WindowBounds, ThreadsFacts DEF TypeOK, Threads
  \* One consumer at most is at these steps.
  <1>3. ASSUME NEW c \in At({"load", "addDeposit", "advanceRead"}),
               NEW d \in At({"load", "addDeposit", "advanceRead"})
        PROVE  c = d
    BY <1>1 DEF MutualExclusion, At, Reading
  \* A step that takes no item.
  <1>4. ASSUME UNCHANGED <<deposit, balance, received>>,
               \A c \in At({"addDeposit"}) : item'[c] = item[c],
               At({"addDeposit"})' = At({"addDeposit"}),
               At({"advanceRead"})' = At({"advanceRead"}),
               SentUpTo(Len(received))' = SentUpTo(Len(received)),
               At({"advanceRead"}) # {} =>
                  SentUpTo(Len(received) + 1)' = SentUpTo(Len(received) + 1)
        PROVE  DepositInv'
    BY <1>4 DEF DepositInv
  <1>5. ASSUME NEW p \in Producers, Draw(p)
        PROVE  DepositInv'
    <2>1. /\ Step(p, "draw", IF DrawsInLock THEN "store" ELSE "waitEmpty")
          /\ item' = [item EXCEPT ![p] = drawn + 1]
          /\ UNCHANGED <<deposit, balance, received, sent>>
      BY <1>5 DEF Draw, shared, history
    <2>. DEFINE to == IF DrawsInLock THEN "store" ELSE "waitEmpty"
    <2>2. "draw" \notin {"addDeposit"} /\ to \notin {"addDeposit"}
          /\ "draw" \notin {"advanceRead"} /\ to \notin {"advanceRead"}
      OBVIOUS
    <2>. HIDE DEF to
    <2>3. Step(p, "draw", to)
      BY <2>1 DEF to
    <2>4. At({"addDeposit"})' = At({"addDeposit"})
      BY <1>1, <1>2, <2>2, <2>3, Stays
    <2>5. At({"advanceRead"})' = At({"advanceRead"})
      BY <1>1, <1>2, <2>2, <2>3, Stays
    <2>6. \A c \in At({"addDeposit"}) : item'[c] = item[c]
      BY <1>2, <2>1, <2>3 DEF At, Step
    <2>7. \A k : SentUpTo(k)' = SentUpTo(k)
      BY <2>1 DEF SentUpTo
    <2>. QED
      BY <1>4, <2>1, <2>4, <2>5, <2>6, <2>7 DEF SentUpTo
  <1>6. ASSUME NEW p \in Producers, AdvanceWrite(p)
        PROVE  DepositInv'
    <2>1. /\ Step(p, "advanceWrite", "postWrite")
          /\ sent' = Append(sent, item[p])
          /\ UNCHANGED <<deposit, balance, received, item>>
      BY <1>6 DEF AdvanceWrite
    <2>2. At({"addDeposit"})' = At({"addDeposit"})
      BY <1>1, <1>2, <2>1, Stays
    <2>3. At({"advanceRead"})' = At({"advanceRead"})
      BY <1>1, <1>2, <2>1, Stays
    <2>4. \A i \in 1 .. Len(sent) : sent'[i] = sent[i]
      BY <1>1, <1>2, <2>1 DEF TypeOK
    <2>5. \A i \in 1 .. Len(received) : i \in 1 .. Len(sent)
      BY <1>2
    <2>6. {sent'[i] : i \in 1 .. Len(received)} = {sent[i] : i \in 1 .. Len(received)}
      BY <2>4, <2>5
    <2>7. ASSUME At({"advanceRead"}) # {}
          PROVE  {sent'[i] : i \in 1 .. Len(received) + 1}
                    = {sent[i] : i \in 1 .. Len(received) + 1}
      <3>1. PICK c : c \in At({"load", "addDeposit", "advanceRead"})
        BY <2>7 DEF At
      <3>2. Len(received) + 1 \in 1 .. Len(sent)
        BY <3>1, NextTaken
      <3>3. \A i \in 1 .. Len(received) + 1 : i \in 1 .. Len(sent)
        BY <1>2, <3>2
      <3>. QED
        BY <2>4, <3>3
    <2>. QED
      BY <1>4, <2>1, <2>2, <2>3, <2>6, <2>7 DEF SentUpTo
  <1>7. ASSUME NEW c \in Consumers, LoadItem(c)
        PROVE  DepositInv'
    <2>1. /\ Step(c, "load", "addDeposit")
          /\ item' = [item EXCEPT ![c] = transactions[read_index]]
          /\ balance' = [balance EXCEPT ![c] = deposit + Value(transactions[read_index])]
          /\ UNCHANGED <<deposit, received, sent>>
      BY <1>7 DEF LoadItem, shared, history
    <2>2. c \in At({"load", "addDeposit", "advanceRead"})
      BY <1>2, <2>1 DEF At, Step
    <2>3. pc[c] = "load"
      BY <2>1 DEF Step
    <2>4. At({"addDeposit"}) = {}
      BY <1>3, <2>2, <2>3 DEF At
    <2>5. At({"addDeposit"})' = {c}
      <3>1. At({"addDeposit"})' = At({"addDeposit"}) \cup {c}
        BY <1>1, <1>2, <2>1, Enters
      <3>. QED
        BY <2>4, <3>1
    <2>6. At({"advanceRead"})' = At({"advanceRead"})
      BY <1>1, <1>2, <2>1, Stays
    <2>7. item'[c] = transactions[read_index]
          /\ balance'[c] = deposit + Value(transactions[read_index])
      BY <1>2, <2>1
    <2>. QED
      BY <2>1, <2>5, <2>6, <2>7 DEF DepositInv, SentUpTo, Value
  <1>8. ASSUME NEW c \in Consumers, StoreDeposit(c)
        PROVE  DepositInv'
    <2>1. /\ Step(c, "addDeposit", "advanceRead") /\ deposit' = balance[c]
          /\ UNCHANGED <<item, balance, received, sent>>
      BY <1>8 DEF StoreDeposit, history
    <2>2. /\ c \in At({"load", "addDeposit", "advanceRead"}) /\ c \in At({"addDeposit"})
          /\ c \in At({"addDeposit", "advanceRead"}) /\ pc[c] = "addDeposit"
      BY <1>2, <2>1 DEF At, Step
    <2>3. At({"advanceRead"}) = {} /\ At({"addDeposit"}) \subseteq {c}
      BY <1>3, <2>2 DEF At
    <2>4. At({"advanceRead"})' # {}
      <3>1. At({"advanceRead"})' = At({"advanceRead"}) \cup {c}
        BY <1>1, <1>2, <2>1, Enters
      <3>. QED
        BY <3>1
    <2>5. At({"addDeposit"})' = {}
      <3>1. At({"addDeposit"})' = At({"addDeposit"}) \ {c}
        BY <1>1, <1>2, <2>1, Leaves
      <3>. QED
        BY <2>3, <3>1
    <2>6. item[c] = sent[Len(received) + 1]
      BY <1>1, <2>2, NextTaken DEF HandInv
    <2>7. deposit' = TotalOf(SentUpTo(Len(received))) + Value(sent[Len(received) + 1])
      BY <2>1, <2>2, <2>3, <2>6 DEF DepositInv
    <2>8. TotalOf(SentUpTo(Len(received) + 1))
            = TotalOf(SentUpTo(Len(received))) + Value(sent[Len(received) + 1])
      <3>. DEFINE S == SentUpTo(Len(received))
                  x == sent[Len(received) + 1]
      <3>1. x \in 1 .. NumOperations /\ x \notin S
            /\ SentUpTo(Len(received) + 1) = S \cup {x}
        BY <2>2, NextTaken
      <3>. HIDE DEF S, x
      <3>2. TotalOf(S \cup {x}) = TotalOf(S) + Value(x)
        BY <3>1, TotalAdds
      <3>. QED
        BY <3>1, <3>2 DEF S, x
    <2>9. SentUpTo(Len(received) + 1)' = SentUpTo(Len(received) + 1)
      BY <2>1 DEF SentUpTo
    <2>10. TotalOf(SentUpTo(Len(received) + 1))' = TotalOf(SentUpTo(Len(received) + 1))
      BY <2>9
    <2>. QED
      BY <2>4, <2>5, <2>7, <2>8, <2>10 DEF DepositInv
  <1>9. ASSUME NEW c \in Consumers, AdvanceRead(c)
        PROVE  DepositInv'
    <2>1. /\ Step(c, "advanceRead", "postRead") /\ received' = Append(received, item[c])
          /\ UNCHANGED <<item, balance, deposit, sent>>
      BY <1>9 DEF AdvanceRead
    <2>2. /\ c \in At({"load", "addDeposit", "advanceRead"}) /\ c \in At({"advanceRead"})
          /\ pc[c] = "advanceRead"
      BY <1>2, <2>1 DEF At, Step
    <2>3. At({"advanceRead"}) \subseteq {c} /\ At({"addDeposit"}) = {}
      BY <1>3, <2>2 DEF At
    <2>4. At({"advanceRead"})' = {}
      <3>1. At({"advanceRead"})' = At({"advanceRead"}) \ {c}
        BY <1>1, <1>2, <2>1, Leaves
      <3>. QED
        BY <2>3, <3>1
    <2>5. At({"addDeposit"})' = {}
      <3>1. At({"addDeposit"})' = At({"addDeposit"})
        BY <1>1, <1>2, <2>1, Stays
      <3>. QED
        BY <2>3, <3>1
    <2>6. Len(received') = Len(received) + 1
      BY <1>2, <2>1
    <2>7. SentUpTo(Len(received))' = SentUpTo(Len(received) + 1)
      BY <2>1, <2>6 DEF SentUpTo
    <2>8. deposit = TotalOf(SentUpTo(Len(received) + 1))
      BY <2>2 DEF DepositInv
    <2>. QED
      BY <2>1, <2>4, <2>5, <2>7, <2>8 DEF DepositInv
  <1>10. ASSUME NEW t \in Threads, UNCHANGED sums,
                NextRound(t, IF t \in Producers THEN "postFill" ELSE "postEmpty")
         PROVE  DepositInv'
    BY <1>1, <1>4, <1>10, RoundMoves DEF sums, SentUpTo
  <1>11. ASSUME NEW t \in Threads, NEW from, NEW to, Step(t, from, to), Plain(from, to),
                UNCHANGED sums
         PROVE  DepositInv'
    BY <1>1, <1>4, <1>11, PlainMoves DEF sums, SentUpTo
  <1>12. CASE UNCHANGED <<pc, numOps, sums>>
    BY <1>4, <1>12 DEF sums, SentUpTo, At
  <1>. QED
    BY <1>1, <1>5, <1>6, <1>7, <1>8, <1>9, <1>10, <1>11, <1>12, StepKinds

\* The first k items sent are k items.
LEMMA SentCount ==
  ASSUME TypeOK, ItemInv, NEW k \in 0 .. Len(sent)
  PROVE  IsFiniteSet(SentUpTo(k)) /\ Cardinality(SentUpTo(k)) = k
  <1>1. Len(sent) \in Nat
    BY DEF TypeOK
  <1>. DEFINE S == {n \in Nat : n <= Len(sent) =>
                       IsFiniteSet(SentUpTo(n)) /\ Cardinality(SentUpTo(n)) = n}
  <1>2. 0 \in S
    <2>1. SentUpTo(0) = {}
      BY DEF SentUpTo
    <2>. QED
      BY <2>1, FS_EmptySet
  <1>3. ASSUME NEW n \in Nat, n \in S
        PROVE  n + 1 \in S
    <2>. SUFFICES ASSUME n + 1 <= Len(sent)
                  PROVE  IsFiniteSet(SentUpTo(n + 1)) /\ Cardinality(SentUpTo(n + 1)) = n + 1
      OBVIOUS
    <2>1. IsFiniteSet(SentUpTo(n)) /\ Cardinality(SentUpTo(n)) = n
      BY <1>1, <1>3
    <2>2. SentUpTo(n + 1) = SentUpTo(n) \cup {sent[n + 1]}
      <3>1. 1 .. n + 1 = (1 .. n) \cup {n + 1}
        OBVIOUS
      <3>. QED
        BY <3>1 DEF SentUpTo
    <2>3. sent[n + 1] \notin SentUpTo(n)
      <3>1. n + 1 \in 1 .. Len(sent) /\ \A i \in 1 .. n : i \in 1 .. Len(sent) /\ i # n + 1
        BY <1>1
      <3>. QED
        BY <3>1 DEF ItemInv, SentUpTo
    <2>. HIDE DEF S
    <2>4. Cardinality(SentUpTo(n) \cup {sent[n + 1]}) = n + 1
      BY <2>1, <2>3, FS_AddElement
    <2>5. IsFiniteSet(SentUpTo(n) \cup {sent[n + 1]})
      BY <2>1, FS_AddElement
    <2>. QED
      BY <2>2, <2>4, <2>5
  <1>. HIDE DEF S
  <1>4. k \in S
    BY <1>1, <1>2, <1>3, SetInduction
  <1>. QED
    BY <1>1, <1>4 DEF S

\* Nothing has been drawn or taken to begin with, and all the rounds are left.
LEMMA SumInit == Init => ItemInv /\ TakeInv /\ DepositInv
  <1>. SUFFICES ASSUME Init
                PROVE  ItemInv /\ TakeInv /\ DepositInv
    OBVIOUS
  <1>1. /\ NumConsumers \in Nat \ {0} /\ OpsPerConsumer \in Nat \ {0}
        /\ NumProducers \in Nat \ {0}
        /\ OpsPerConsumer * NumConsumers = NumOperations
    BY ParametersAssumption
  <1>2. /\ Len(sent) = 0 /\ Len(received) = 0 /\ deposit = 0
        /\ \A t \in Threads : pc[t] = "unborn"
        /\ \A c \in Consumers : c \in Threads /\ c \notin Producers
    BY ThreadsFacts DEF Init, Threads
  <1>3. Holders = {} /\ At({"addDeposit"}) = {} /\ At({"advanceRead"}) = {}
    BY <1>2 DEF Holders, At, Holding, HoldsItem
  <1>4. ItemInv
    BY <1>2, <1>3 DEF ItemInv
  <1>5. TakeInv
    <2>1. \A c \in Consumers : numOps[c] = OpsPerConsumer
      BY <1>2 DEF Init
    <2>2. ToTake = Consumers \X (1 .. OpsPerConsumer)
      <3>1. \A c \in Consumers : pc[c] \notin EmptiedSteps
        BY <1>2 DEF EmptiedSteps
      <3>. QED
        BY <1>1, <2>1, <3>1 DEF ToTake
    <2>3. IsFiniteSet(Consumers) /\ Cardinality(Consumers) = NumConsumers
      BY <1>1, FS_Interval DEF Consumers, NumThreads
    <2>4. IsFiniteSet(1 .. OpsPerConsumer) /\ Cardinality(1 .. OpsPerConsumer) = OpsPerConsumer
      BY <1>1, FS_Interval
    <2>5. Cardinality(ToTake) = NumConsumers * OpsPerConsumer
      BY <2>2, <2>3, <2>4, FS_Product
    <2>6. Cardinality(ToTake) = NumOperations
      BY <1>1, <2>5
    <2>. QED
      BY <1>1, <1>2, <2>1, <2>6, ThreadsFacts DEF TakeInv
  <1>6. DepositInv
    <2>1. SentUpTo(Len(received)) = {}
      BY <1>2 DEF SentUpTo
    <2>. QED
      BY <1>2, <1>3, <2>1, TotalEmpty DEF DepositInv
  <1>. QED
    BY <1>4, <1>5, <1>6

\* When all threads have ended every number has been added.
LEMMA AllTaken ==
  ASSUME IndInv, ItemInv, TakeInv, DepositInv, \A t \in Threads : pc[t] = "done"
  PROVE  deposit = SumOf([k \in 1 .. NumOperations |-> k])
  <1>1. TypeOK /\ CountInv /\ NumOperations \in Nat /\ drawn \in 0 .. NumOperations
    BY ThreadsFacts DEF IndInv, TypeOK, Items
  <1>2. Len(received) \in Nat /\ Len(sent) \in Nat /\ Len(received) <= Len(sent)
    BY <1>1, WindowBounds
  <1>3. ToTake = {}
    <2>1. \A c \in Consumers : numOps[c] = 0 /\ pc[c] \notin EmptiedSteps
      BY DEF TakeInv, EmptiedSteps, Threads
    <2>. QED
      BY <2>1 DEF ToTake
  <1>4. Len(received) = NumOperations
    BY <1>1, <1>2, <1>3, FS_EmptySet DEF TakeInv
  <1>5. SentUpTo(NumOperations) \subseteq 1 .. NumOperations
    <2>1. \A i \in 1 .. NumOperations : i \in 1 .. Len(sent)
      BY <1>1, <1>2, <1>4
    <2>2. \A i \in 1 .. NumOperations : sent[i] \in 1 .. drawn
      BY <2>1 DEF ItemInv
    <2>3. 1 .. drawn \subseteq 1 .. NumOperations
      BY <1>1
    <2>. QED
      BY <2>2, <2>3 DEF SentUpTo
  <1>6. Cardinality(SentUpTo(NumOperations)) = NumOperations
    <2>1. NumOperations \in 0 .. Len(sent)
      BY <1>1, <1>2, <1>4
    <2>. QED
      BY <1>1, <2>1, SentCount
  <1>7. SentUpTo(NumOperations) = 1 .. NumOperations
    <2>1. IsFiniteSet(1 .. NumOperations) /\ Cardinality(1 .. NumOperations) = NumOperations
      BY <1>1, FS_Interval
    <2>. QED
      BY <1>5, <1>6, <2>1, FS_Subset
  <1>8. deposit = TotalOf(SentUpTo(Len(received)))
    BY DEF DepositInv, At
  <1>. QED
    BY <1>4, <1>7, <1>8, TotalAll

\* What main prints is the sum of the seeded sequence, whatever the interleaving, for
\* any number of threads and operations, all five programs, and any amounts.
THEOREM SameResult == Spec => []FinalDeposit
  <1>1. Init => JoinInv /\ FinalDeposit
    <2>1. \A t \in Threads : t \in Nat
      BY ParametersAssumption DEF Threads, Producers, Consumers, NumThreads
    <2>. QED
      BY <2>1 DEF Init, JoinInv, FinalDeposit
  <1>2. ASSUME IndInv, ItemInv, TakeInv, DepositInv, JoinInv, FinalDeposit, [Next]_vars
        PROVE  FinalDeposit'
    <2>1. CASE PrintDeposit
      <3>1. printed' = <<deposit>> /\ joined = NumThreads
        BY <2>1 DEF PrintDeposit
      <3>2. \A t \in Threads : t < NumThreads
        BY ParametersAssumption DEF Threads, Producers, Consumers, NumThreads
      <3>3. \A t \in Threads : pc[t] = "done"
        BY <1>2, <3>1, <3>2 DEF JoinInv
      <3>4. deposit = SumOf([k \in 1 .. NumOperations |-> k])
        BY <1>2, <3>3, AllTaken
      <3>5. printed'[1] = deposit
        BY <3>1
      <3>. QED
        BY <3>4, <3>5 DEF FinalDeposit
    <2>2. printed' = printed \/ PrintDeposit
      BY <1>2
      DEF Next, MainNext, ProducerNext, ConsumerNext, Exited, vars, mainVars, CreateThread,
          JoinThread, DestroySems, Draw, WaitEmpty, WaitWrite, StoreItem, AdvanceWrite,
          PostWrite, PostFill, WaitFill, WaitRead, LoadItem, StoreDeposit, AdvanceRead,
          PostRead, PostEmpty
    <2>. QED
      BY <1>2, <2>1, <2>2 DEF FinalDeposit
  <1>3. IndInv => TypeOK
    BY DEF IndInv
  <1>. QED
    BY Inductive, SumInit, ItemStep, TakeStep, DepositStep, JoinStep, <1>1, <1>2, <1>3, PTL
    DEF Spec

-----------------------------------------------------------------------------
(* No deadlock *)

\* Thread t is at a step whose wait, if it is one, returns at once.
CanStep(t) ==
  /\ pc[t] \notin {"unborn", "done"}
  /\ pc[t] = "waitEmpty" => empty_sem > 0
  /\ pc[t] = "waitFill" => fill_sem > 0
  /\ pc[t] = "waitWrite" /\ UsesWriteSem => write_sem > 0
  /\ pc[t] = "waitRead" /\ UsesReadSem => read_sem > 0

\* main is at a call that returns at once: pthread_create, the join of a thread that
\* has ended, or what comes after the last.
MainCanStep ==
  \/ created < NumThreads
  \/ joined < NumThreads /\ pc[joined] = "done"
  \/ joined = NumThreads

SomeoneCanStep == MainCanStep \/ \E t \in Threads : CanStep(t)

\* What was drawn is sent or in somebody's hands, what is not created has no step, and
\* a producer that has ended has made all its rounds.
EndInv ==
  /\ Len(sent) + Cardinality(Holders) = drawn
  /\ \A t \in Threads : pc[t] = "unborn" => t >= created
  /\ \A p \in Producers : pc[p] = "done" => numOps[p] = 0

\* An item more that is drawn is one more in somebody's hands, until it is sent.
LEMMA HolderStep ==
  ASSUME TypeOK, EndInv, [Next]_vars
  PROVE  (Len(sent) + Cardinality(Holders) = drawn)'
  <1>1. /\ Len(sent) \in Nat /\ sent \in Seq(Items) /\ drawn \in Nat
        /\ \A p \in Producers : p \in Threads
        /\ \A c \in Consumers : c \in Threads
        /\ Len(sent) + Cardinality(Holders) = drawn
    BY DEF TypeOK, Items, Threads, EndInv
  <1>2. ASSUME UNCHANGED <<sent, drawn>>, Holders' = Holders
        PROVE  (Len(sent) + Cardinality(Holders) = drawn)'
    BY <1>1, <1>2
  <1>3. ASSUME NEW p \in Producers, Draw(p)
        PROVE  (Len(sent) + Cardinality(Holders) = drawn)'
    <2>. DEFINE to == IF DrawsInLock THEN "store" ELSE "waitEmpty"
    <2>1. Step(p, "draw", to) /\ drawn' = drawn + 1 /\ sent' = sent
      BY <1>3 DEF Draw, history
    <2>2. "draw" \notin Holding /\ to \in Holding
      BY DEF Holding, HoldsItem
    <2>. HIDE DEF to
    <2>3. Cardinality(Holders)' = Cardinality(Holders) + 1 /\ Cardinality(Holders) \in Nat
      <3>1. Cardinality(Holders)' = Cardinality(Holders)
               + (IF to \in Holding THEN 1 ELSE 0) - (IF "draw" \in Holding THEN 1 ELSE 0)
            /\ Cardinality(Holders) \in Nat
        BY <1>1, <2>1, StepMoves DEF Holders
      <3>. QED
        BY <2>2, <3>1
    <2>. QED
      BY <1>1, <2>1, <2>3
  <1>4. ASSUME NEW p \in Producers, AdvanceWrite(p)
        PROVE  (Len(sent) + Cardinality(Holders) = drawn)'
    <2>1. Step(p, "advanceWrite", "postWrite") /\ drawn' = drawn
          /\ sent' = Append(sent, item[p]) /\ item[p] \in Items
      BY <1>1, <1>4 DEF AdvanceWrite, TypeOK
    <2>2. "advanceWrite" \in Holding /\ "postWrite" \notin Holding
      BY DEF Holding, HoldsItem
    <2>3. Cardinality(Holders)' = Cardinality(Holders) - 1 /\ Cardinality(Holders) \in Nat
      <3>1. Cardinality(Holders)' = Cardinality(Holders)
               + (IF "postWrite" \in Holding THEN 1 ELSE 0)
               - (IF "advanceWrite" \in Holding THEN 1 ELSE 0)
            /\ Cardinality(Holders) \in Nat
        BY <1>1, <2>1, StepMoves DEF Holders
      <3>. QED
        BY <2>2, <3>1
    <2>4. Len(sent)' = Len(sent) + 1
      BY <1>1, <2>1
    <2>. QED
      BY <1>1, <2>1, <2>3, <2>4
  <1>5. ASSUME NEW c \in Consumers, LoadItem(c) \/ StoreDeposit(c) \/ AdvanceRead(c)
        PROVE  (Len(sent) + Cardinality(Holders) = drawn)'
    <2>1. /\ UNCHANGED <<sent, drawn>>
          /\ \/ Step(c, "load", "addDeposit")
             \/ Step(c, "addDeposit", "advanceRead")
             \/ Step(c, "advanceRead", "postRead")
      BY <1>5 DEF LoadItem, StoreDeposit, AdvanceRead, history
    <2>2. "load" \notin Holding /\ "addDeposit" \notin Holding
          /\ "advanceRead" \notin Holding /\ "postRead" \notin Holding
      BY DEF Holding, HoldsItem
    <2>3. Holders' = Holders
      BY <1>1, <2>1, <2>2, Stays DEF Holders
    <2>. QED
      BY <1>2, <2>1, <2>3
  <1>6. ASSUME NEW t \in Threads, UNCHANGED sums,
               NextRound(t, IF t \in Producers THEN "postFill" ELSE "postEmpty")
        PROVE  (Len(sent) + Cardinality(Holders) = drawn)'
    BY <1>2, <1>6, RoundMoves DEF sums, Holders
  <1>7. ASSUME NEW t \in Threads, NEW from, NEW to, Step(t, from, to), Plain(from, to),
               UNCHANGED sums
        PROVE  (Len(sent) + Cardinality(Holders) = drawn)'
    BY <1>2, <1>7, PlainMoves DEF sums, Holders
  <1>8. CASE UNCHANGED <<pc, numOps, sums>>
    BY <1>2, <1>8 DEF sums, Holders, At
  <1>. QED
    BY <1>3, <1>4, <1>5, <1>6, <1>7, <1>8, StepKinds

\* A thread is unborn until main creates it, and a producer ends with its rounds.
LEMMA EndStep ==
  ASSUME IndInv, EndInv, [Next]_vars
  PROVE  EndInv'
  <1>1. TypeOK /\ DrawInv
    BY DEF IndInv
  <1>2. /\ DOMAIN pc = Threads /\ numOps \in [Threads -> Nat] /\ created \in Nat
        /\ \A p \in Producers : p \in Threads
        /\ \A t \in Threads : t \in Nat
    <2>1. NumThreads \in Nat
      BY ParametersAssumption DEF NumThreads
    <2>2. Threads \subseteq Nat /\ \A p \in Producers : p \in Threads
      BY ParametersAssumption DEF Threads, Producers, Consumers
    <2>3. created \in Nat
      BY <1>1, <2>1 DEF TypeOK
    <2>. QED
      BY <1>1, <2>2, <2>3 DEF TypeOK, PcOK
  <1>3. (Len(sent) + Cardinality(Holders) = drawn)'
    BY <1>1, HolderStep
  <1>4. ASSUME NEW t \in Threads, pc'[t] = "unborn"
        PROVE  t >= created'
    <2>1. ASSUME NEW u, NEW from, NEW to, Step(u, from, to), to # "unborn"
          PROVE  pc[t] = "unborn" /\ t # u
      BY <1>2, <1>4, <2>1 DEF Step
    <2>2. ASSUME NEW p \in Producers, ProducerNext(p)
          PROVE  pc[t] = "unborn" /\ created' = created
      BY <2>1, <2>2
      DEF ProducerNext, Draw, WaitEmpty, WaitWrite, StoreItem, AdvanceWrite, PostWrite,
          PostFill, NextRound, FirstStep, mainVars
    <2>3. ASSUME NEW c \in Consumers, ConsumerNext(c)
          PROVE  pc[t] = "unborn" /\ created' = created
      BY <2>1, <2>3
      DEF ConsumerNext, WaitFill, WaitRead, LoadItem, StoreDeposit, AdvanceRead, PostRead,
          PostEmpty, NextRound, FirstStep, mainVars
    <2>4. CASE CreateThread
      <3>1. Step(created, "unborn", FirstStep(created)) /\ created' = created + 1
            /\ FirstStep(created) # "unborn"
        BY <2>4 DEF CreateThread, FirstStep
      <3>2. pc[t] = "unborn" /\ t # created
        BY <2>1, <3>1
      <3>3. t >= created
        BY <3>2 DEF EndInv
      <3>. QED
        BY <1>2, <3>1, <3>2, <3>3
    <2>5. CASE JoinThread \/ PrintDeposit \/ DestroySems \/ Exited \/ UNCHANGED vars
      <3>1. pc' = pc /\ created' = created
        BY <2>5
        DEF JoinThread, PrintDeposit, DestroySems, Exited, vars, locals, mainVars
      <3>. QED
        BY <1>4, <3>1 DEF EndInv
    <2>6. CASE pc[t] = "unborn" /\ created' = created
      BY <2>6 DEF EndInv
    <2>. QED
      BY <2>2, <2>3, <2>4, <2>5, <2>6 DEF Next, MainNext
  <1>5. ASSUME NEW p \in Producers, pc'[p] = "done"
        PROVE  numOps'[p] = 0
    <2>1. ASSUME NEW t \in Threads, NEW from, NEW to, Step(t, from, to), to # "done",
                 numOps' = numOps
          PROVE  numOps'[p] = 0
      <3>1. pc[p] = "done"
        BY <1>2, <1>5, <2>1 DEF Step
      <3>. QED
        BY <2>1, <3>1 DEF EndInv
    <2>2. ASSUME NEW q \in Producers, Draw(q) \/ AdvanceWrite(q)
          PROVE  numOps'[p] = 0
      <3>1. /\ numOps' = numOps
            /\ \/ Step(q, "draw", IF DrawsInLock THEN "store" ELSE "waitEmpty")
               \/ Step(q, "advanceWrite", "postWrite")
        BY <2>2 DEF Draw, AdvanceWrite
      <3>2. (IF DrawsInLock THEN "store" ELSE "waitEmpty") # "done"
        OBVIOUS
      <3>3. CASE Step(q, "advanceWrite", "postWrite")
        BY <1>2, <2>1, <3>1, <3>3
      <3>4. CASE Step(q, "draw", IF DrawsInLock THEN "store" ELSE "waitEmpty")
        BY <1>2, <2>1, <3>1, <3>2, <3>4
      <3>. QED
        BY <3>1, <3>3, <3>4
    <2>3. ASSUME NEW c \in Consumers, LoadItem(c) \/ StoreDeposit(c) \/ AdvanceRead(c)
          PROVE  numOps'[p] = 0
      <3>1. /\ numOps' = numOps /\ c \in Threads
            /\ \/ Step(c, "load", "addDeposit")
               \/ Step(c, "addDeposit", "advanceRead")
               \/ Step(c, "advanceRead", "postRead")
        BY <2>3 DEF LoadItem, StoreDeposit, AdvanceRead, Threads
      <3>. QED
        BY <2>1, <3>1
    <2>4. ASSUME NEW t \in Threads,
                 NextRound(t, IF t \in Producers THEN "postFill" ELSE "postEmpty")
          PROVE  numOps'[p] = 0
      <3>. DEFINE to == IF numOps[t] > 1 THEN FirstStep(t) ELSE "done"
      <3>1. /\ pc' = [pc EXCEPT ![t] = to] /\ numOps' = [numOps EXCEPT ![t] = @ - 1]
            /\ pc[t] # "done"
        BY <2>4 DEF NextRound, Step
      <3>2. numOps[t] > 0 /\ (to = "done" => numOps[t] = 1) /\ numOps[t] \in Nat
        BY <1>1, <1>2, <3>1 DEF DrawInv, FirstStep
      <3>. HIDE DEF to
      <3>3. CASE p = t
        BY <1>2, <1>5, <3>1, <3>2, <3>3
      <3>4. CASE p # t
        BY <1>2, <1>5, <3>1, <3>4 DEF EndInv
      <3>. QED
        BY <3>3, <3>4
    <2>5. ASSUME NEW t \in Threads, NEW from, NEW to, Step(t, from, to), Plain(from, to),
                 numOps' = numOps
          PROVE  numOps'[p] = 0
      BY <2>1, <2>5 DEF Plain
    <2>6. CASE UNCHANGED <<pc, numOps>>
      BY <1>5, <2>6 DEF EndInv
    <2>. QED
      BY <1>1, <2>2, <2>3, <2>4, <2>5, <2>6, StepKinds
  <1>. QED
    BY <1>3, <1>4, <1>5 DEF EndInv

\* Nobody is born to begin with.
LEMMA EndInit == Init => EndInv
  <1>. SUFFICES ASSUME Init
                PROVE  EndInv
    OBVIOUS
  <1>1. Holders = {}
    BY DEF Init, Holders, Holding, HoldsItem, At
  <1>2. /\ created = 0 /\ Len(sent) = 0 /\ drawn = 0
        /\ \A p \in Producers : p \in Threads
        /\ \A t \in Threads : t >= 0 /\ pc[t] = "unborn"
    BY ParametersAssumption DEF Init, Threads, Producers, Consumers, NumThreads
  <1>. QED
    BY <1>1, <1>2, FS_EmptySet DEF EndInv

\* If nobody can step, whoever has not ended waits for a cell that is not free, or for
\* one that is not full: a lock that is taken is held by somebody who can step.
LEMMA StuckAtCells ==
  ASSUME IndInv, EndInv, ~SomeoneCanStep
  PROVE  /\ \A t \in Threads : pc[t] \in {"done", "waitEmpty", "waitFill"}
         /\ \A t \in Threads : pc[t] = "waitEmpty" => empty_sem = 0
         /\ \A t \in Threads : pc[t] = "waitFill" => fill_sem = 0
  <1>1. /\ TypeOK /\ LockInv /\ empty_sem \in Nat /\ fill_sem \in Nat
        /\ write_sem \in {0, 1} /\ read_sem \in {0, 1}
    BY DEF IndInv, TypeOK
  <1>2. \A t \in Threads : ~CanStep(t)
    BY DEF SomeoneCanStep
  <1>3. \A t \in Threads : pc[t] # "unborn"
    <2>1. \A t \in Threads : t < NumThreads /\ t \in Nat
      BY ParametersAssumption DEF Threads, Producers, Consumers, NumThreads
    <2>2. ~(created < NumThreads) /\ created \in 0 .. NumThreads
      BY <1>1 DEF SomeoneCanStep, MainCanStep, TypeOK
    <2>. QED
      BY <2>1, <2>2, ThreadsFacts DEF EndInv
  <1>4. \A t \in Threads :
           \/ pc[t] = "done"
           \/ pc[t] = "waitEmpty" /\ empty_sem = 0
           \/ pc[t] = "waitFill" /\ fill_sem = 0
           \/ pc[t] = "waitWrite" /\ UsesWriteSem /\ write_sem = 0
           \/ pc[t] = "waitRead" /\ UsesReadSem /\ read_sem = 0
    BY <1>1, <1>2, <1>3 DEF CanStep
  <1>5. At(Writing) = {} /\ At(Reading) = {}
    <2>1. {"done", "waitEmpty", "waitFill", "waitWrite", "waitRead"} \cap Writing = {}
          /\ {"done", "waitEmpty", "waitFill", "waitWrite", "waitRead"} \cap Reading = {}
      BY DEF Writing, Reading
    <2>2. \A t \in Threads :
             pc[t] \in {"done", "waitEmpty", "waitFill", "waitWrite", "waitRead"}
      BY <1>4
    <2>. QED
      BY <2>1, <2>2 DEF At
  <1>6. (UsesWriteSem => write_sem = 1) /\ (UsesReadSem => read_sem = 1)
    BY <1>1, <1>5 DEF LockInv
  <1>. QED
    BY <1>4, <1>6

\* Then all cells are free or full, which is not so for both kinds of thread; and with
\* one kind ended, the other has nothing left to wait for.
LEMMA NobodyStuck ==
  ASSUME IndInv, ItemInv, TakeInv, EndInv, JoinInv
  PROVE  SomeoneCanStep
  <1>. SUFFICES ASSUME ~SomeoneCanStep
                PROVE  FALSE
    OBVIOUS
  <1>1. /\ TypeOK /\ CountInv /\ DrawInv
        /\ BufferSize \in Nat \ {0} /\ NumOperations \in Nat /\ drawn \in 0 .. NumOperations
        /\ joined \in 0 .. NumThreads /\ NumThreads \in Nat
        /\ OpsPerConsumer \in Nat \ {0}
    BY ParametersAssumption, ThreadsFacts DEF IndInv, TypeOK, Items
  <1>2. Len(received) \in Nat /\ Len(sent) \in Nat /\ Len(received) <= Len(sent)
    BY <1>1, WindowBounds
  <1>3. /\ \A t \in Threads : pc[t] \in {"done", "waitEmpty", "waitFill"}
        /\ \A t \in Threads : pc[t] = "waitEmpty" => empty_sem = 0
        /\ \A t \in Threads : pc[t] = "waitFill" => fill_sem = 0
    BY StuckAtCells
  <1>4. PICK t \in Threads : pc[t] # "done"
    <2>1. joined < NumThreads /\ pc[joined] # "done"
      BY <1>1 DEF SomeoneCanStep, MainCanStep
    <2>. QED
      BY <1>1, <2>1, ThreadsFacts
  <1>5. Reserved = 0 /\ Filled = 0 /\ Claimed = 0 /\ Emptied = 0
    <2>1. \A u \in Threads : /\ pc[u] \notin ReservedSteps /\ pc[u] \notin FilledSteps
                             /\ pc[u] \notin ClaimedSteps /\ pc[u] \notin EmptiedSteps
      BY <1>3 DEF ReservedSteps, FilledSteps, ClaimedSteps, EmptiedSteps, Writing, Reading
    <2>2. /\ At(ReservedSteps) = {} /\ At(FilledSteps) = {}
          /\ At(ClaimedSteps) = {} /\ At(EmptiedSteps) = {}
      BY <2>1 DEF At
    <2>. QED
      BY <2>2, FS_EmptySet DEF Reserved, Filled, Claimed, Emptied
  <1>6. /\ empty_sem = BufferSize - (Len(sent) - Len(received))
        /\ fill_sem = Len(sent) - Len(received)
    BY <1>1, <1>2, <1>5 DEF CountInv, TypeOK
  <1>7. Len(sent) <= drawn
    <2>1. Cardinality(Holders) \in Nat
      <3>1. IsFiniteSet(Holders)
        BY ThreadsFacts, FS_Subset DEF Holders, At
      <3>. QED
        BY <3>1, FS_CardinalityType
    <2>. QED
      BY <1>1, <1>2, <2>1 DEF EndInv
  <1>8. /\ \A p \in Producers : pc[p] \in {"done", "waitEmpty"}
        /\ \A c \in Consumers : pc[c] \in {"done", "waitFill"}
    BY <1>1, <1>3 DEF TypeOK, PcOK, ProducerSteps, ConsumerSteps, Threads
  \* A consumer that waits still has an item to take.
  <1>9. ASSUME NEW c \in Consumers, pc[c] = "waitFill"
        PROVE  Len(received) < NumOperations
    <2>1. numOps[c] > 0 /\ c \in Threads /\ numOps[c] \in Nat
      BY <1>1, <1>9 DEF DrawInv, Threads, TypeOK
    <2>2. <<c, 1>> \in ToTake
      BY <1>1, <1>9, <2>1 DEF ToTake, EmptiedSteps
    <2>3. Cardinality(ToTake) # 0
      BY <2>2, ToTakeFinite, FS_EmptySet
    <2>. QED
      BY <1>1, <1>2, <2>3, ToTakeFinite DEF TakeInv
  <1>10. CASE \E p \in Producers : pc[p] = "waitEmpty"
    <2>1. empty_sem = 0
      BY <1>3, <1>10 DEF Threads
    <2>2. Len(sent) - Len(received) = BufferSize
      BY <1>1, <1>2, <1>6, <2>1
    <2>3. \A c \in Consumers : pc[c] = "done"
      <3>1. fill_sem # 0
        BY <1>1, <1>6, <2>2
      <3>. QED
        BY <1>3, <1>8, <1>10, <3>1 DEF Threads
    <2>4. ToTake = {}
      BY <2>3 DEF TakeInv, ToTake, EmptiedSteps
    <2>5. Len(received) = NumOperations
      BY <1>1, <1>2, <2>4, FS_EmptySet DEF TakeInv
    <2>. QED
      BY <1>1, <1>2, <1>7, <2>2, <2>5
  <1>11. CASE \A p \in Producers : pc[p] = "done"
    <2>1. PICK c \in Consumers : pc[c] = "waitFill"
      BY <1>4, <1>8, <1>11 DEF Threads
    <2>2. fill_sem = 0
      BY <1>3, <2>1 DEF Threads
    <2>3. Len(sent) = Len(received)
      BY <1>2, <1>6, <2>2
    <2>4. ToDraw = {} /\ Holders = {}
      <3>1. \A p \in Producers : numOps[p] = 0
        BY <1>11 DEF EndInv
      <3>2. "done" \notin HoldsItem /\ "waitFill" \notin HoldsItem
        BY DEF HoldsItem
      <3>3. ToDraw = {}
        BY <1>11, <3>1, <3>2 DEF ToDraw
      <3>4. Holders = {}
        BY <1>8, <1>11, <3>2 DEF Holders, Holding, At, Threads
      <3>. QED
        BY <3>3, <3>4
    <2>5. drawn = NumOperations /\ Len(sent) = drawn
      BY <1>1, <1>2, <2>4, FS_EmptySet DEF DrawInv, EndInv
    <2>. QED
      BY <1>9, <2>1, <2>3, <2>5, <1>1
  <1>. QED
    BY <1>8, <1>10, <1>11

\* The waits never end in a deadlock: with BUFFER_SIZE and the numbers of threads and
\* operations that the preprocessor's check admits, somebody can go on until main exits.
THEOREM DeadlockFree == Spec => []SomeoneCanStep
  <1>1. Init => JoinInv
    <2>1. \A t \in Threads : t \in Nat
      BY ParametersAssumption DEF Threads, Producers, Consumers, NumThreads
    <2>. QED
      BY <2>1 DEF Init, JoinInv
  <1>2. IndInv => TypeOK
    BY DEF IndInv
  <1>. QED
    BY Inductive, SumInit, ItemStep, TakeStep, DepositStep, EndInit, EndStep, JoinStep,
       NobodyStuck, <1>1, <1>2, PTL
    DEF Spec
=============================================================================
