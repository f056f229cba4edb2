------------------------ MODULE ConnectionServerProofs ------------------------
(* What ConnectionServer promises for every number of clients, lines, slots,   *)
(* resources and places in the backlog, with clients that close at any time    *)
(* and forks that fail: the slots of "slots" are conserved; the replies answer *)
(* the lines; and the counts of "resource" are told once.                      *)
EXTENDS ConnectionServer, FiniteSetTheorems, TLAPS

-----------------------------------------------------------------------------
(* The inductive invariant *)

\* The steps of the handlers, those of "slots" first, and of these the last five with
\* a slot.
Waiting == {"none", "missing", "waitSlot", "closed"}
Slot == {"recv", "reply", "close", "post", "died"}
Steps == Waiting \cup Slot \cup {"greet", "wait", "load", "store", "postResource"}

\* The types of the variables, as far as each step keeps them.
Types ==
  /\ program \in Programs /\ backlog \in Seq(Clients)
  /\ handler \in [Clients -> Steps]
  /\ clientPc \in [Clients -> {"idle", "welcome", "ready", "terminate", "await",
                              "stuck", "done", "closed", "failed"}]
  /\ sem_connections \in Nat

\* A connection that waits to be accepted has no handler, and waits once; a client
\* that has not connected has neither.
BacklogInv ==
  /\ \A i \in 1 .. Len(backlog) :
        handler[backlog[i]] = "none" /\ clientPc[backlog[i]] # "idle"
  /\ \A i, k \in 1 .. Len(backlog) : backlog[i] = backlog[k] => i = k
  /\ \A c \in Clients : clientPc[c] = "idle" => handler[c] = "none"

\* The handlers of "slots" take their own steps only.
StepsInv == program = "slots" => \A c \in Clients : handler[c] \in Waiting \cup Slot

Inv == Types /\ BacklogInv /\ StepsInv /\ SlotsConserved

-----------------------------------------------------------------------------
(* Finitely many clients *)

LEMMA ClientsFinite == IsFiniteSet(Clients)
  <1>. DEFINE Numbers(p) == IF p \in Programs THEN 1 .. NumClients[p] ELSE {}
              Lines == Numbers("echo") \cup Numbers("attempt")
              Forked == Numbers("slots") \cup Numbers("reverse")
              Rest == Numbers("resource") \cup Numbers("time")
  <1>1. \A p : IsFiniteSet(Numbers(p))
    <2>. SUFFICES ASSUME NEW p PROVE IsFiniteSet(Numbers(p))
      OBVIOUS
    <2>1. CASE p \in Programs
      <3>1. NumClients[p] \in Int
        BY <2>1, ServerAssumption
      <3>. QED
        BY <2>1, <3>1, FS_Interval
    <2>2. CASE p \notin Programs
      BY <2>2, FS_EmptySet
    <2>. QED
      BY <2>1, <2>2
  <1>2. IsFiniteSet(Lines) /\ IsFiniteSet(Forked) /\ IsFiniteSet(Rest)
    <2>. HIDE DEF Numbers
    <2>. QED
      BY <1>1, FS_Union
  <1>3. IsFiniteSet((Lines \cup Forked) \cup Rest)
    <2>. HIDE DEF Numbers, Lines, Forked, Rest
    <2>1. IsFiniteSet(Lines \cup Forked)
      BY <1>2, FS_Union
    <2>. QED
      BY <1>2, <2>1, FS_Union
  <1>4. Clients \subseteq (Lines \cup Forked) \cup Rest
    BY ServerAssumption DEF Clients
  <1>. HIDE DEF Numbers, Lines, Forked, Rest
  <1>. QED
    BY <1>3, <1>4, FS_Subset, Zenon

\* So the handlers at given steps are finitely many.
LEMMA AtFinite ==
  ASSUME NEW steps
  PROVE  IsFiniteSet(At(steps)) /\ Cardinality(At(steps)) \in Nat
  <1>1. At(steps) \subseteq Clients
    BY DEF At
  <1>. QED
    BY <1>1, ClientsFinite, FS_Subset, FS_CardinalityType

-----------------------------------------------------------------------------
(* The initial states *)

LEMMA InitInv == Init => Inv
  <1>. SUFFICES ASSUME Init
                PROVE  Inv
    OBVIOUS
  <1>. USE DEF Init
  <1>1. Types /\ BacklogInv /\ StepsInv
    <2>1. backlog = << >> /\ backlog \in Seq(Clients)
      OBVIOUS
    <2>2. sem_connections \in Nat
      BY ServerAssumption
    <2>3. \A c \in Clients : handler[c] = "none"
      OBVIOUS
    <2>4. Types
      BY <2>1, <2>2 DEF Types, Steps, Waiting
    <2>5. BacklogInv
      BY <2>1, <2>3 DEF BacklogInv
    <2>. QED
      BY <2>3, <2>4, <2>5 DEF StepsInv, Waiting
  <1>2. SlotsConserved
    <2>1. At(Slot) = {}
      BY DEF At, Slot
    <2>2. Cardinality(At(Slot)) = 0
      BY <2>1, FS_EmptySet
    <2>. QED
      BY <2>2, ServerAssumption DEF SlotsConserved, Slot
  <1>. QED
    BY <1>1, <1>2 DEF Inv

-----------------------------------------------------------------------------
(* What a step does to a handler *)

\* A handler that had not begun, or one that had, goes on to its next step.
LEMMA HandlerMoves ==
  ASSUME Inv, NEW c \in Clients, NEW to \in Steps,
         handler' = [handler EXCEPT ![c] = to],
         handler[c] # "none",
         program = "slots" => to \in Waiting \cup Slot,
         UNCHANGED <<program, backlog, clientPc>>
  PROVE  /\ handler' \in [Clients -> Steps] /\ BacklogInv' /\ StepsInv'
         /\ \A d \in Clients : handler'[d] = IF d = c THEN to ELSE handler[d]
  <1>. USE DEF Inv
  <1>1. \A d \in Clients : handler'[d] = IF d = c THEN to ELSE handler[d]
    BY DEF Types
  <1>2. \A i \in 1 .. Len(backlog) : backlog[i] \in Clients
    BY DEF Types
  <1>3. BacklogInv'
    BY <1>1, <1>2 DEF BacklogInv
  <1>4. StepsInv'
    BY <1>1 DEF StepsInv
  <1>. QED
    BY <1>1, <1>3, <1>4 DEF Types

\* Such a step that neither takes a slot nor gives one back.
LEMMA SlotKept ==
  ASSUME Inv, NEW c \in Clients, NEW to \in Steps,
         handler' = [handler EXCEPT ![c] = to],
         handler[c] # "none",
         program = "slots" => /\ to \in Waiting \cup Slot
                              /\ handler[c] \in Slot <=> to \in Slot,
         UNCHANGED <<program, backlog, clientPc, sem_connections>>
  PROVE  Inv'
  <1>1. /\ handler' \in [Clients -> Steps] /\ BacklogInv' /\ StepsInv'
        /\ \A d \in Clients : handler'[d] = IF d = c THEN to ELSE handler[d]
    BY HandlerMoves
  <1>2. Types'
    BY <1>1 DEF Inv, Types
  <1>3. ASSUME program = "slots"
        PROVE  At(Slot)' = At(Slot)
    BY <1>1, <1>3 DEF At
  <1>4. SlotsConserved'
    BY <1>3 DEF Inv, SlotsConserved, Slot
  <1>. QED
    BY <1>1, <1>2, <1>4 DEF Inv

\* The slot that a child takes is the one that the semaphore has less.
LEMMA WaitSlotStep ==
  ASSUME Inv, NEW c \in Clients, WaitSlot(c)
  PROVE  Inv'
  <1>1. /\ handler[c] = "waitSlot" /\ handler' = [handler EXCEPT ![c] = "recv"]
        /\ sem_connections > 0 /\ sem_connections' = sem_connections - 1
        /\ UNCHANGED <<program, backlog, clientPc>>
    BY DEF WaitSlot, HandlerStep, server, clientVars
  <1>2. /\ handler' \in [Clients -> Steps] /\ BacklogInv' /\ StepsInv'
        /\ \A d \in Clients : handler'[d] = IF d = c THEN "recv" ELSE handler[d]
    <2>1. "recv" \in Steps /\ "recv" \in Waiting \cup Slot
      BY DEF Steps, Waiting, Slot
    <2>. QED
      BY <1>1, <2>1, HandlerMoves
  <1>3. Types'
    BY <1>1, <1>2 DEF Inv, Types
  <1>4. At(Slot)' = At(Slot) \cup {c} /\ c \notin At(Slot)
    BY <1>1, <1>2 DEF At, Slot
  <1>5. Cardinality(At(Slot)') = Cardinality(At(Slot)) + 1
    BY <1>4, AtFinite, FS_AddElement
  <1>6. program = "slots" => sem_connections + Cardinality(At(Slot)) = MaxConnections
    BY DEF Inv, SlotsConserved, Slot
  <1>7. program' = "slots" =>
           sem_connections' + Cardinality(At(Slot)') = MaxConnections
    BY <1>1, <1>5, <1>6, AtFinite DEF Inv, Types
  <1>8. SlotsConserved'
    BY <1>7 DEF SlotsConserved, Slot
  <1>. QED
    BY <1>2, <1>3, <1>8 DEF Inv

\* The slot that a child gives back is the one that the semaphore has more.
LEMMA PostSlotStep ==
  ASSUME Inv, NEW c \in Clients, PostSlot(c)
  PROVE  Inv'
  <1>1. /\ handler[c] = "post" /\ handler' = [handler EXCEPT ![c] = "closed"]
        /\ sem_connections' = sem_connections + 1
        /\ UNCHANGED <<program, backlog, clientPc>>
    BY DEF PostSlot, HandlerStep, server, clientVars
  <1>2. /\ handler' \in [Clients -> Steps] /\ BacklogInv' /\ StepsInv'
        /\ \A d \in Clients : handler'[d] = IF d = c THEN "closed" ELSE handler[d]
    <2>1. "closed" \in Steps /\ "closed" \in Waiting \cup Slot
      BY DEF Steps, Waiting, Slot
    <2>. QED
      BY <1>1, <2>1, HandlerMoves
  <1>3. Types'
    BY <1>1, <1>2 DEF Inv, Types
  <1>4. At(Slot)' = At(Slot) \ {c} /\ c \in At(Slot)
    BY <1>1, <1>2 DEF At, Slot
  <1>5. Cardinality(At(Slot)') = Cardinality(At(Slot)) - 1
    BY <1>4, AtFinite, FS_RemoveElement
  <1>6. program = "slots" => sem_connections + Cardinality(At(Slot)) = MaxConnections
    BY DEF Inv, SlotsConserved, Slot
  <1>7. program' = "slots" =>
           sem_connections' + Cardinality(At(Slot)') = MaxConnections
    BY <1>1, <1>5, <1>6, AtFinite DEF Inv, Types
  <1>8. SlotsConserved'
    BY <1>7 DEF SlotsConserved, Slot
  <1>. QED
    BY <1>2, <1>3, <1>8 DEF Inv

-----------------------------------------------------------------------------
(* The steps of main *)

\* The first of the backlog leaves it, and no other place has it.
LEMMA HeadLeaves ==
  ASSUME Inv, NEW c \in Clients, NEW to \in Steps,
         backlog # << >>, Head(backlog) = c, backlog' = Tail(backlog),
         handler' = [handler EXCEPT ![c] = to],
         program = "slots" => to \in Waiting,
         UNCHANGED <<program, clientPc, sem_connections>>
  PROVE  Inv'
  <1>. USE DEF Inv
  <1>1. /\ backlog \in Seq(Clients) /\ Len(backlog) \in Nat /\ Len(backlog) > 0
        /\ backlog[1] = c
    BY DEF Types
  <1>2. /\ backlog' \in Seq(Clients) /\ Len(backlog') = Len(backlog) - 1
        /\ \A i \in 1 .. Len(backlog') : backlog'[i] = backlog[i + 1]
    BY <1>1
  <1>3. handler[c] = "none" /\ clientPc[c] # "idle"
    BY <1>1 DEF BacklogInv
  <1>4. \A d \in Clients : handler'[d] = IF d = c THEN to ELSE handler[d]
    BY DEF Types
  <1>5. Types'
    BY <1>2 DEF Types
  <1>6. BacklogInv'
    <2>1. ASSUME NEW i \in 1 .. Len(backlog')
          PROVE  /\ i + 1 \in 1 .. Len(backlog) /\ backlog'[i] = backlog[i + 1]
                 /\ backlog[i + 1] \in Clients /\ backlog[i + 1] # c
      <3>1. i + 1 \in 1 .. Len(backlog) /\ i + 1 # 1 /\ 1 \in 1 .. Len(backlog)
        BY <1>1, <1>2
      <3>2. backlog[i + 1] # backlog[1]
        BY <3>1 DEF BacklogInv
      <3>. QED
        BY <1>1, <1>2, <3>1, <3>2
    <2>2. \A i \in 1 .. Len(backlog') :
             handler'[backlog'[i]] = "none" /\ clientPc'[backlog'[i]] # "idle"
      BY <1>4, <2>1 DEF BacklogInv
    <2>3. \A i, k \in 1 .. Len(backlog') : backlog'[i] = backlog'[k] => i = k
      <3>. SUFFICES ASSUME NEW i \in 1 .. Len(backlog'), NEW k \in 1 .. Len(backlog'),
                           backlog'[i] = backlog'[k]
                    PROVE  i = k
        OBVIOUS
      <3>1. i + 1 = k + 1
        BY <2>1 DEF BacklogInv
      <3>. QED
        BY <3>1
    <2>4. \A d \in Clients : clientPc'[d] = "idle" => handler'[d] = "none"
      BY <1>3, <1>4 DEF BacklogInv
    <2>. QED
      BY <2>2, <2>3, <2>4 DEF BacklogInv
  <1>7. StepsInv'
    BY <1>4 DEF StepsInv
  <1>8. ASSUME program = "slots"
        PROVE  At(Slot)' = At(Slot)
    BY <1>3, <1>4, <1>8 DEF At, Slot, Waiting
  <1>9. SlotsConserved'
    BY <1>8 DEF SlotsConserved, Slot
  <1>. QED
    BY <1>5, <1>6, <1>7, <1>9

\* main accepts a connection, which gets a handler or none.
LEMMA MainStep ==
  ASSUME Inv, NEW c \in Clients, Accept(c) \/ CreateFails(c) \/ AcceptLast(c)
  PROVE  Inv'
  <1>1. /\ FirstStep \in Steps
        /\ program = "slots" => FirstStep = "waitSlot"
        /\ "missing" \in Steps /\ {"missing", "waitSlot"} \subseteq Waiting
    <2>1. program \in Programs
      BY DEF Inv, Types
    <2>. QED
      BY <2>1, ServerAssumption DEF FirstStep, Steps, Slot, Waiting, Echo
  <1>2. PICK to \in {FirstStep, "missing"} : handler' = [handler EXCEPT ![c] = to]
    BY DEF Accept, CreateFails, AcceptLast
  <1>3. /\ backlog # << >> /\ Head(backlog) = c /\ backlog' = Tail(backlog)
        /\ UNCHANGED <<program, clientPc, sem_connections>>
    BY DEF Accept, CreateFails, AcceptLast, clientVars
  <1>4. to \in Steps /\ (program = "slots" => to \in Waiting)
    BY <1>1, <1>2
  <1>. QED
    BY <1>2, <1>3, <1>4, HeadLeaves

-----------------------------------------------------------------------------
(* The steps of the clients *)

\* A client that has connected does not go back to before.
LEMMA ClientKept ==
  ASSUME Inv, clientPc' \in [Clients -> {"idle", "welcome", "ready", "terminate",
                                         "await", "stuck", "done", "closed", "failed"}],
         \A c \in Clients : clientPc'[c] = "idle" => clientPc[c] = "idle",
         UNCHANGED <<program, backlog, handler, sem_connections>>
  PROVE  Inv'
  <1>. USE DEF Inv
  <1>1. \A i \in 1 .. Len(backlog) : backlog[i] \in Clients
    BY DEF Types
  <1>2. Types'
    BY DEF Types
  <1>3. BacklogInv'
    BY <1>1 DEF BacklogInv
  <1>4. StepsInv'
    BY DEF StepsInv
  <1>5. SlotsConserved'
    BY DEF SlotsConserved, At
  <1>. QED
    BY <1>2, <1>3, <1>4, <1>5

\* A client that connects is put at the end of the backlog.
LEMMA ConnectStep ==
  ASSUME Inv, NEW c \in Clients, Connect(c)
  PROVE  Inv'
  <1>. USE DEF Inv
  <1>1. /\ clientPc[c] = "idle" /\ clientPc' = [clientPc EXCEPT ![c] = clientPc'[c]]
        /\ clientPc'[c] \in {"welcome", "ready"}
        /\ backlog' = Append(backlog, c)
        /\ UNCHANGED <<program, handler, sem_connections>>
    BY DEF Connect, ClientStep, Types
  <1>2. \A d \in Clients : d # c => clientPc'[d] = clientPc[d]
    BY <1>1 DEF Types
  <1>3. /\ Len(backlog) \in Nat /\ backlog' \in Seq(Clients)
        /\ Len(backlog') = Len(backlog) + 1 /\ backlog'[Len(backlog) + 1] = c
        /\ \A i \in 1 .. Len(backlog) : /\ backlog[i] \in Clients
                                        /\ backlog'[i] = backlog[i]
    BY <1>1 DEF Types
  <1>4. Types'
    BY <1>1, <1>3 DEF Types
  <1>5. BacklogInv'
    <2>1. \A i \in 1 .. Len(backlog) : backlog[i] # c
      BY <1>1 DEF BacklogInv
    <2>2. \A i \in 1 .. Len(backlog') : i \in 1 .. Len(backlog) \/ i = Len(backlog) + 1
      BY <1>3
    <2>3. handler[c] = "none"
      BY <1>1 DEF BacklogInv
    <2>4. \A i \in 1 .. Len(backlog') :
             handler'[backlog'[i]] = "none" /\ clientPc'[backlog'[i]] # "idle"
      BY <1>1, <1>2, <1>3, <2>1, <2>2, <2>3 DEF BacklogInv
    <2>5. \A i, k \in 1 .. Len(backlog') : backlog'[i] = backlog'[k] => i = k
      BY <1>3, <2>1, <2>2 DEF BacklogInv
    <2>6. \A d \in Clients : clientPc'[d] = "idle" => handler'[d] = "none"
      BY <1>1, <1>2 DEF BacklogInv
    <2>. QED
      BY <2>4, <2>5, <2>6 DEF BacklogInv
  <1>6. StepsInv'
    BY <1>1 DEF StepsInv
  <1>7. SlotsConserved'
    BY <1>1 DEF SlotsConserved, At
  <1>. QED
    BY <1>4, <1>5, <1>6, <1>7

LEMMA ClientStepKeeps ==
  ASSUME Inv, NEW c \in Clients,
         \/ ClientNext(c) \/ LeaveLineOpen(c) \/ SendEmpty(c) \/ CloseEarly(c)
  PROVE  Inv'
  <1>1. CASE Connect(c)
    BY <1>1, ConnectStep
  <1>2. ASSUME NEW to \in {"ready", "terminate", "await", "stuck", "done", "closed",
                           "failed"},
               clientPc' = [clientPc EXCEPT ![c] = to],
               UNCHANGED <<program, backlog, handler, sem_connections>>
        PROVE  Inv'
    <2>1. \A d \in Clients : clientPc'[d] = IF d = c THEN to ELSE clientPc[d]
      BY <1>2 DEF Inv, Types
    <2>2. clientPc' \in [Clients -> {"idle", "welcome", "ready", "terminate",
                                     "await", "stuck", "done", "closed", "failed"}]
      BY <1>2 DEF Inv, Types
    <2>. QED
      BY <1>2, <2>1, <2>2, ClientKept
  <1>. USE DEF ClientStep, server
  <1>3. CASE SendContents(c)
    BY <1>2, <1>3 DEF SendContents
  <1>4. CASE SendTerminator(c)
    BY <1>2, <1>4 DEF SendTerminator
  <1>5. CASE ReceiveReply(c)
    BY <1>2, <1>5 DEF ReceiveReply
  <1>6. CASE ReceiveWelcome(c)
    BY <1>2, <1>6 DEF ReceiveWelcome
  <1>7. CASE Leave(c)
    BY <1>2, <1>7 DEF Leave
  <1>8. CASE LoseServer(c)
    BY <1>2, <1>8 DEF LoseServer
  <1>9. CASE LeaveLineOpen(c)
    BY <1>2, <1>9 DEF LeaveLineOpen
  <1>10. CASE SendEmpty(c)
    BY <1>2, <1>10 DEF SendEmpty
  <1>11. CASE CloseEarly(c)
    BY <1>2, <1>11 DEF CloseEarly
  <1>. QED
    BY <1>1, <1>3, <1>4, <1>5, <1>6, <1>7, <1>8, <1>9, <1>10, <1>11
    DEF ClientNext, LineClient, CommandClient, Exchange

-----------------------------------------------------------------------------
(* The steps of the handlers *)

\* Only "reverse" is told to stop by a signal.
LEMMA SignalStep ==
  ASSUME Inv, Signal
  PROVE  Inv'
  <1>. USE DEF Inv
  <1>1. /\ program = "reverse"
        /\ UNCHANGED <<program, backlog, clientPc, sem_connections>>
    BY DEF Signal
  <1>2. PICK hit \in SUBSET {c \in Clients : handler[c] = "recv"} :
          handler' = [c \in Clients |-> IF c \in hit THEN "reply" ELSE handler[c]]
    BY DEF Signal
  <1>3. Types'
    BY <1>1, <1>2 DEF Types, Steps, Slot
  <1>4. BacklogInv'
    <2>1. \A c \in Clients : handler[c] = "none" => handler'[c] = "none"
      BY <1>2
    <2>2. \A i \in 1 .. Len(backlog) : backlog[i] \in Clients
      BY DEF Types
    <2>. QED
      BY <1>1, <2>1, <2>2 DEF BacklogInv
  <1>. QED
    BY <1>1, <1>3, <1>4 DEF StepsInv, SlotsConserved

LEMMA HandlerStepKeeps ==
  ASSUME Inv, NEW c \in Clients, ConnectionNext(c)
  PROVE  Inv'
  <1>0. ASSUME NEW from \in Steps \ {"none"}, NEW to \in Steps,
               HandlerStep(c, from, to),
               program = "slots" /\ from \in Waiting \cup Slot =>
                  to \in Waiting \cup Slot /\ (from \in Slot <=> to \in Slot),
               UNCHANGED <<program, backlog, clientPc, sem_connections>>
        PROVE  Inv'
    <2>1. handler[c] = from /\ handler' = [handler EXCEPT ![c] = to]
      BY <1>0 DEF HandlerStep
    <2>2. program = "slots" => from \in Waiting \cup Slot
      BY <2>1 DEF Inv, StepsInv
    <2>. QED
      BY <1>0, <2>1, <2>2, SlotKept
  <1>. USE DEF server, clientVars
  <1>1. CASE Greet(c)
    BY <1>0, <1>1 DEF Greet, SendTo, Steps, Waiting, Slot
  <1>2. CASE WaitSlot(c)
    BY <1>2, WaitSlotStep
  <1>3. CASE PostSlot(c)
    BY <1>3, PostSlotStep
  <1>4. CASE RecvContents(c)
    BY <1>0, <1>4 DEF RecvContents, Steps, Waiting, Slot
  <1>5. CASE EndOfLine(c)
    BY <1>0, <1>5 DEF EndOfLine, AfterLine, Steps, Waiting, Slot
  <1>6. CASE Die(c, "recv")
    BY <1>0, <1>6 DEF Die, Steps, Waiting, Slot
  <1>7. CASE RecvNothing(c)
    <2>1. CASE \E to \in AfterClose(c) : HandlerStep(c, "recv", to)
               /\ UNCHANGED <<program, backlog, clientPc, sem_connections>>
      <3>1. PICK to \in AfterClose(c) :
              HandlerStep(c, "recv", to)
              /\ UNCHANGED <<program, backlog, clientPc, sem_connections>>
        BY <2>1
      <3>2. to \in {"reply", "close"}
        BY <3>1 DEF AfterClose
      <3>. QED
        BY <1>0, <3>1, <3>2 DEF Steps, Waiting, Slot
    <2>. QED
      BY <1>6, <1>7, <2>1 DEF RecvNothing
  <1>8. CASE RecvFails(c)
    BY <1>6, <1>8 DEF RecvFails
  <1>9. CASE Reply(c)
    BY <1>0, <1>9 DEF Reply, SendTo, Steps, Waiting, Slot
  <1>10. CASE CloseConnection(c)
    BY <1>0, <1>10 DEF CloseConnection, Steps, Waiting, Slot
  <1>11. CASE WaitResource(c)
    BY <1>0, <1>11 DEF WaitResource, Steps, Waiting, Slot
  <1>12. CASE LoadCounter(c)
    BY <1>0, <1>12 DEF LoadCounter, Steps, Waiting, Slot
  <1>13. CASE StoreCounter(c)
    BY <1>0, <1>13 DEF StoreCounter, Steps, Waiting, Slot
  <1>14. CASE PostResource(c)
    BY <1>0, <1>14 DEF PostResource, Steps, Waiting, Slot
  <1>15. CASE ResetArrives(c)
    BY <1>15, ClientKept DEF ResetArrives, Inv, Types
  <1>. QED
    BY <1>1, <1>2, <1>3, <1>4, <1>5, <1>7, <1>8, <1>9, <1>10, <1>11, <1>12, <1>13,
       <1>14, <1>15
    DEF ConnectionNext, HandlerNext, LineHandler, CommandHandler, Receive, Answer

-----------------------------------------------------------------------------
(* Every step *)

LEMMA InvStep ==
  ASSUME Inv, [Next]_vars
  PROVE  Inv'
  <1>1. CASE UNCHANGED vars
    <2>1. UNCHANGED <<program, backlog, handler, clientPc, sem_connections>>
      BY <1>1 DEF vars, server, clientVars
    <2>. QED
      BY <2>1, ClientKept DEF Inv, Types
  <1>. QED
    BY <1>1, MainStep, SignalStep, HandlerStepKeeps, ClientStepKeeps
    DEF Next, MainNext

\* Slots are neither made nor lost, but with a child that dies: the sem_wait of the
\* child and the sem_post after its close go by pairs.
THEOREM Slots == Spec => []SlotsConserved
  <1>1. Init => Inv
    BY InitInv
  <1>2. Inv /\ [Next]_vars => Inv'
    BY InvStep
  <1>3. Inv => SlotsConserved
    BY DEF Inv
  <1>. QED
    BY <1>1, <1>2, <1>3, PTL DEF Spec
-----------------------------------------------------------------------------
(* The lines and their replies: what is on its way on a connection             *)

\* The steps of a client, and the types of what the connections carry.
ClientSteps == {"idle", "welcome", "ready", "terminate", "await", "stuck", "done",
                "closed", "failed"}

LineTypes ==
  /\ line \in [Clients -> Int] /\ counter_updated \in [Clients -> Nat]
  /\ toServer \in [Clients -> Seq(Int)] /\ toClient \in [Clients -> Seq(Int \X Nat)]
  /\ requests \in [Clients -> Seq(Nat)] /\ replies \in [Clients -> Seq(Int \X Nat)]
  /\ shared_res_sem \in [Resources -> Nat] /\ shared_counters \in [Resources -> Nat]
  /\ peer \in [Clients -> {"open", "fin", "resetting", "reset"}]

\* The servers that greet, the line a client sent last, and what its reply says.
Greeting == Echo \cup {"reverse"}
Sent(c) == requests[c][Len(requests[c])]
Expected(contents) ==
  IF program = "resource" THEN ResourceOf(contents) ELSE contents

\* The clients that may still receive a reply, and those whose lines and replies
\* agree: a signal confuses a client of "reverse".
Live(c) == clientPc[c] \in {"idle", "welcome", "ready", "terminate", "await", "stuck"}
Ordered(c) == program = "reverse" => c \notin disorderly

\* The handler is in front of a line, or it has replied to one.
BeforeLine(c) ==
  \/ handler[c] = "recv"
  \/ handler[c] \in {"none", "missing", "waitSlot"} /\ program \notin Greeting
AfterReply(c) ==
  \/ handler[c] = "recv"
  \/ handler[c] \in {"close", "post", "closed"} /\ program \in OneRequest

\* Nothing is on its way.
Alone(c) == toServer[c] = << >> /\ toClient[c] = << >> /\ line[c] = None
NoLines(c) == requests[c] = << >> /\ replies[c] = << >>

\* The stages of a connection: not yet greeted, greeted, at rest ...
AtStart(c) ==
  /\ program \in Greeting /\ handler[c] \in {"none", "missing", "greet"}
  /\ clientPc[c] \in {"idle", "welcome"} /\ Alone(c) /\ NoLines(c)
Greeted(c) ==
  /\ program \in Greeting /\ handler[c] = "recv" /\ clientPc[c] = "welcome"
  /\ toServer[c] = << >> /\ toClient[c] = <<Welcome>> /\ line[c] = None /\ NoLines(c)
Quiet(c) ==
  /\ clientPc[c] = "ready" \/ (clientPc[c] = "idle" /\ program \notin Greeting)
  /\ Alone(c) /\ Len(requests[c]) = Len(replies[c])
  /\ BeforeLine(c) \/ (AfterReply(c) /\ replies[c] # << >>)

\* ... or with one line under way: written by the client, its contents received by
\* the handler, received to its end, and answered.
Written(c) ==
  /\ BeforeLine(c) /\ line[c] = None /\ toClient[c] = << >>
  /\ \/ /\ clientPc[c] \in {"terminate", "stuck"} /\ program # "time"
        /\ toServer[c] = <<Sent(c)>>
     \/ /\ clientPc[c] = "await"
        /\ toServer[c] = IF program = "time" THEN <<Sent(c)>> ELSE <<Sent(c), End>>
Received(c) ==
  /\ handler[c] = "recv" /\ line[c] = Sent(c) /\ toClient[c] = << >>
  /\ program # "time"
  /\ \/ clientPc[c] \in {"terminate", "stuck"} /\ toServer[c] = << >>
     \/ clientPc[c] = "await" /\ toServer[c] = <<End>>
Complete(c) ==
  /\ handler[c] \in {"wait", "load", "store", "postResource", "reply"}
  /\ clientPc[c] = "await" /\ toServer[c] = << >> /\ line[c] = Sent(c)
  /\ toClient[c] = << >>
Answered(c) ==
  /\ AfterReply(c) /\ clientPc[c] = "await" /\ toServer[c] = << >> /\ line[c] = None
  /\ Len(toClient[c]) = 1 /\ toClient[c][1][1] = Expected(Sent(c))
UnderWay(c) ==
  /\ Len(requests[c]) = Len(replies[c]) + 1
  /\ Written(c) \/ Received(c) \/ Complete(c) \/ Answered(c)

\* A client never has more than one line without a reply, and the bytes of that line
\* are the only ones that anybody has.
Frame(c) ==
  peer[c] = "open" /\ (AtStart(c) \/ Greeted(c) \/ Quiet(c) \/ UnderWay(c))
FrameInv == \A c \in Clients : Live(c) /\ Ordered(c) => Frame(c)

LineInv == LineTypes /\ FrameInv /\ RepliesInOrder

\* What a client writes is a number.
LEMMA ContentsAreNumbers ==
  ASSUME NEW c \in Clients, LineTypes, program \in Programs
  PROVE  Contents(c) \subseteq Nat
  <1>1. Len(requests[c]) + 1 \in Nat
    BY DEF LineTypes
  <1>2. 1 .. N \subseteq Nat
    BY ServerAssumption
  <1>3. \/ program \in Echo \cup {"reverse"}
        \/ program = "resource"
        \/ program \in OneRequest
    BY ServerAssumption DEF Echo, OneRequest
  <1>4. Contents(c) \in {{Len(requests[c]) + 1}, 1 .. N, {0}}
    BY <1>3, Zenon DEF Contents
  <1>5. {Len(requests[c]) + 1} \subseteq Nat /\ {0} \subseteq Nat
    BY <1>1
  <1>. QED
    BY <1>2, <1>4, <1>5, Zenon

\* SendTo changes the queue to the client by at most one message.
LEMMA SendToTypes ==
  ASSUME LineTypes, NEW c \in Clients, NEW from, NEW to, NEW message \in Int \X Nat,
         SendTo(c, from, to, message)
  PROVE  /\ toClient' \in [Clients -> Seq(Int \X Nat)]
         /\ line' \in [Clients -> Int]
         /\ peer' \in [Clients -> {"open", "fin", "resetting", "reset"}]
  <1>1. toClient' \in [Clients -> Seq(Int \X Nat)]
    BY DEF LineTypes, SendTo
  <1>. QED
    BY <1>1 DEF LineTypes, SendTo, None

\* Resources are numbered.
LEMMA ResourceOfType ==
  ASSUME NEW n \in Int
  PROVE  ResourceOf(n) \in Resources /\ ResourceOf(n) \in Nat
  BY ServerAssumption DEF ResourceOf, Resources

\* Every step keeps the types.
LEMMA LineTypesStep ==
  ASSUME LineTypes, program \in Programs, [Next]_vars
  PROVE  LineTypes'
  <1>. USE DEF server, resources, queues, clientVars
  <1>1. CASE UNCHANGED vars
    BY <1>1 DEF vars, LineTypes
  <1>2. CASE MainNext \/ Signal
    BY <1>2 DEF MainNext, Signal, Accept, CreateFails, AcceptLast, LineTypes
  <1>. SUFFICES ASSUME NEW c \in Clients,
                       \/ ConnectionNext(c) \/ ClientNext(c)
                       \/ LeaveLineOpen(c) \/ SendEmpty(c) \/ CloseEarly(c)
                PROVE  LineTypes'
    BY <1>1, <1>2 DEF Next
  <1>3. CASE Greet(c)
    <2>1. Welcome \in Int \X Nat
      BY DEF Welcome, None
    <2>. QED
      BY <1>3, <2>1, SendToTypes DEF Greet, SendTo, LineTypes
  <1>4. CASE Reply(c)
    <2>1. /\ <<ResourceOf(line[c]), counter_updated[c]>> \in Int \X Nat
          /\ <<line[c], 0>> \in Int \X Nat
      <3>1. line[c] \in Int /\ counter_updated[c] \in Nat
        BY DEF LineTypes
      <3>2. ResourceOf(line[c]) \in Int
        BY <3>1, ResourceOfType
      <3>. QED
        BY <3>1, <3>2
    <2>2. PICK to : \E message \in Int \X Nat : SendTo(c, "reply", to, message)
      BY <1>4, <2>1 DEF Reply
    <2>3. PICK message \in Int \X Nat : SendTo(c, "reply", to, message)
      BY <2>2
    <2>. QED
      BY <2>3, SendToTypes DEF SendTo, LineTypes
  <1>5. CASE RecvContents(c) \/ EndOfLine(c)
    <2>1. toServer[c] \in Seq(Int) /\ toServer[c] # << >>
      BY <1>5 DEF RecvContents, EndOfLine, LineTypes
    <2>2. Head(toServer[c]) \in Int /\ Tail(toServer[c]) \in Seq(Int)
      BY <2>1
    <2>. QED
      BY <1>5, <2>2 DEF RecvContents, EndOfLine, LineTypes
  <1>6. CASE RecvNothing(c) \/ RecvFails(c)
    BY <1>6 DEF RecvNothing, RecvFails, Die, LineTypes
  <1>7. CASE WaitResource(c)
    <2>1. ResourceOf(line[c]) \in Resources
      BY ResourceOfType DEF LineTypes
    <2>. QED
      BY <1>7, <2>1 DEF WaitResource, LineTypes
  <1>8. CASE PostResource(c)
    <2>1. ResourceOf(line[c]) \in Resources
      BY ResourceOfType DEF LineTypes
    <2>. QED
      BY <1>8, <2>1 DEF PostResource, LineTypes
  <1>9. CASE LoadCounter(c) \/ StoreCounter(c)
    <2>1. ResourceOf(line[c]) \in Resources
      BY ResourceOfType DEF LineTypes
    <2>2. CASE LoadCounter(c)
      <3>1. shared_counters[ResourceOf(line[c])] + 1 \in Nat
        BY <2>1 DEF LineTypes
      <3>. QED
        BY <2>2, <3>1 DEF LoadCounter, LineTypes
    <2>3. CASE StoreCounter(c)
      BY <2>1, <2>3 DEF StoreCounter, LineTypes
    <2>. QED
      BY <1>9, <2>2, <2>3
  <1>10. CASE CloseConnection(c) \/ WaitSlot(c) \/ PostSlot(c) \/ ResetArrives(c)
    BY <1>10 DEF CloseConnection, WaitSlot, PostSlot, ResetArrives, LineTypes
  <1>11. CASE Connect(c) \/ LoseServer(c) \/ LeaveLineOpen(c)
    BY <1>11 DEF Connect, LoseServer, LeaveLineOpen, LineTypes
  <1>12. CASE ReceiveWelcome(c) \/ ReceiveReply(c)
    <2>1. toClient[c] \in Seq(Int \X Nat) /\ toClient[c] # << >>
      BY <1>12 DEF ReceiveWelcome, ReceiveReply, LineTypes
    <2>2. Head(toClient[c]) \in Int \X Nat /\ Tail(toClient[c]) \in Seq(Int \X Nat)
      BY <2>1
    <2>3. Append(replies[c], Head(toClient[c])) \in Seq(Int \X Nat)
      BY <2>2 DEF LineTypes
    <2>4. CASE ReceiveWelcome(c)
      BY <2>2, <2>4 DEF ReceiveWelcome, LineTypes
    <2>5. CASE ReceiveReply(c)
      BY <2>2, <2>3, <2>5 DEF ReceiveReply, LineTypes
    <2>. QED
      BY <1>12, <2>4, <2>5
  <1>13. CASE SendContents(c)
    <2>1. PICK contents \in Nat :
            /\ toServer' = [toServer EXCEPT ![c] = @ \o <<contents>> \o Terminator]
            /\ requests' = [requests EXCEPT ![c] = Append(@, contents)]
      BY <1>13, ContentsAreNumbers DEF SendContents
    <2>2. toServer[c] \o <<contents>> \o Terminator \in Seq(Int)
      <3>1. toServer[c] \in Seq(Int) /\ <<contents>> \in Seq(Int)
            /\ Terminator \in Seq(Int)
        BY DEF LineTypes, Terminator, End
      <3>. QED
        BY <3>1
    <2>3. Append(requests[c], contents) \in Seq(Nat)
      BY DEF LineTypes
    <2>. QED
      BY <1>13, <2>1, <2>2, <2>3 DEF SendContents, LineTypes
  <1>14. CASE SendTerminator(c) \/ SendEmpty(c)
    <2>1. Append(toServer[c], End) \in Seq(Int)
      BY DEF LineTypes, End
    <2>. QED
      BY <1>14, <2>1 DEF SendTerminator, SendEmpty, LineTypes
  <1>15. CASE Leave(c)
    <2>1. toServer[c] \o <<Quit, End>> \in Seq(Int)
      <3>1. <<Quit, End>> \in Seq(Int) /\ toServer[c] \in Seq(Int)
        BY DEF LineTypes, Quit, End
      <3>. QED
        BY <3>1
    <2>. QED
      BY <1>15, <2>1 DEF Leave, LineTypes
  <1>16. CASE CloseEarly(c)
    <2>1. << >> \in Seq(Int \X Nat)
      OBVIOUS
    <2>. QED
      BY <1>16, <2>1 DEF CloseEarly, LineTypes
  <1>. QED
    BY <1>3, <1>4, <1>5, <1>6, <1>7, <1>8, <1>9, <1>10, <1>11, <1>12, <1>13, <1>14,
       <1>15, <1>16
    DEF ConnectionNext, HandlerNext, LineHandler, CommandHandler, Receive, Answer,
        ClientNext, LineClient, CommandClient, Exchange

\* Sequences of no, one or two elements.
LEMMA NoElement ==
  ASSUME NEW S, NEW s \in Seq(S)
  PROVE  Len(s) \in Nat /\ (Len(s) = 0 <=> s = << >>)
  OBVIOUS

LEMMA OneElement ==
  ASSUME NEW S, NEW s \in Seq(S), Len(s) = 1
  PROVE  /\ s # << >> /\ Head(s) = s[1] /\ Tail(s) = << >> /\ s[1] \in S
         /\ s = <<s[1]>>
  <1>1. s # << >>
    BY NoElement
  <1>2. Tail(s) \in Seq(S) /\ Len(Tail(s)) = 0
    BY <1>1
  <1>3. Tail(s) = << >>
    BY <1>2, NoElement
  <1>. QED
    BY <1>1, <1>3

LEMMA TwoElements ==
  ASSUME NEW S, NEW s \in Seq(S), Len(s) = 2
  PROVE  s # << >> /\ Head(s) = s[1] /\ Tail(s) = <<s[2]>> /\ s = <<s[1], s[2]>>
  <1>1. s # << >>
    <2>1. Len(s) # 0
      OBVIOUS
    <2>. QED
      BY <2>1, NoElement
  <1>2. Tail(s) \in Seq(S) /\ Len(Tail(s)) = 1 /\ Tail(s)[1] = s[2]
    BY <1>1
  <1>3. Tail(s) = <<s[2]>>
    BY <1>2, OneElement
  <1>4. s = <<s[1], s[2]>>
    <2>1. s[1] \in S /\ s[2] \in S
      <3>1. Head(s) \in S /\ Head(s) = s[1]
        BY <1>1
      <3>. QED
        BY <1>2, <3>1, OneElement
    <2>2. /\ <<s[1], s[2]>> \in Seq(S) /\ Len(<<s[1], s[2]>>) = 2
          /\ <<s[1], s[2]>>[1] = s[1] /\ <<s[1], s[2]>>[2] = s[2]
      BY <2>1
    <2>3. \A i \in 1 .. Len(s) : s[i] = <<s[1], s[2]>>[i]
      <3>1. \A i \in 1 .. Len(s) : i = 1 \/ i = 2
        OBVIOUS
      <3>. QED
        BY <2>2, <3>1
    <2>4. \A t \in Seq(S) : /\ Len(s) = Len(t)
                            /\ \A i \in 1 .. Len(s) : s[i] = t[i]
                            => s = t
      OBVIOUS
    <2>. QED
      BY <2>2, <2>3, <2>4
  <1>. QED
    BY <1>1, <1>3, <1>4

LEMMA ShortSequences ==
  ASSUME NEW S, NEW a \in S, NEW b \in S
  PROVE  /\ <<a>> # << >> /\ Head(<<a>>) = a /\ Tail(<<a>>) = << >>
         /\ <<a, b>> # << >> /\ Head(<<a, b>>) = a /\ Tail(<<a, b>>) = <<b>>
         /\ << >> \o <<a>> \o << >> = <<a>> /\ << >> \o <<a>> \o <<b>> = <<a, b>>
         /\ Append(<< >>, a) = <<a>> /\ Append(<<a>>, b) = <<a, b>>
         /\ Len(<<a>>) = 1 /\ <<a>>[1] = a
  <1>1. <<a>> \in Seq(S) /\ Len(<<a>>) = 1 /\ <<a>>[1] = a /\ <<b>> \in Seq(S)
        /\ Len(<<b>>) = 1 /\ <<b>>[1] = b
    OBVIOUS
  <1>2. <<a>> # << >> /\ Head(<<a>>) = a /\ Tail(<<a>>) = << >>
    BY <1>1, OneElement
  <1>3. <<a, b>> \in Seq(S) /\ Len(<<a, b>>) = 2 /\ <<a, b>>[1] = a /\ <<a, b>>[2] = b
    OBVIOUS
  <1>4. <<a, b>> # << >> /\ Head(<<a, b>>) = a /\ Tail(<<a, b>>) = <<b>>
    BY <1>3, TwoElements
  <1>5. << >> \o <<a>> \o << >> = <<a>> /\ Append(<< >>, a) = <<a>>
    OBVIOUS
  <1>6. << >> \o <<a>> \o <<b>> = <<a, b>>
    <2>1. << >> \o <<a>> = <<a>>
      OBVIOUS
    <2>2. /\ <<a>> \o <<b>> \in Seq(S) /\ Len(<<a>> \o <<b>>) = 2
          /\ (<<a>> \o <<b>>)[1] = a /\ (<<a>> \o <<b>>)[2] = b
      BY <1>1
    <2>. QED
      BY <2>1, <2>2, TwoElements
  <1>7. Append(<<a>>, b) = <<a, b>>
    <2>1. /\ Append(<<a>>, b) \in Seq(S) /\ Len(Append(<<a>>, b)) = 2
          /\ Append(<<a>>, b)[1] = a /\ Append(<<a>>, b)[2] = b
      BY <1>1
    <2>. QED
      BY <2>1, TwoElements
  <1>. QED
    BY <1>1, <1>2, <1>4, <1>5, <1>6, <1>7

\* The last line of a client is a number, and none of the marks.
LEMMA SentType ==
  ASSUME LineTypes, NEW c \in Clients, Len(requests[c]) = Len(replies[c]) + 1
  PROVE  /\ Sent(c) \in Nat /\ Sent(c) \notin {None, Quit, End}
         /\ Sent(c) = requests[c][Len(replies[c]) + 1] /\ Len(replies[c]) \in Nat
  <1>1. /\ requests[c] \in Seq(Nat) /\ Len(replies[c]) \in Nat
    BY DEF LineTypes
  <1>2. Sent(c) \in Nat
    BY <1>1 DEF Sent
  <1>. QED
    BY <1>1, <1>2 DEF Sent, None, Quit, End

\* The connection of a client that no step touches stays as it is.
Untouched(d) ==
  /\ handler'[d] = handler[d] /\ line'[d] = line[d] /\ clientPc'[d] = clientPc[d]
  /\ toServer'[d] = toServer[d] /\ toClient'[d] = toClient[d] /\ peer'[d] = peer[d]
  /\ requests'[d] = requests[d] /\ replies'[d] = replies[d]
  /\ d \in disorderly => d \in disorderly'

LEMMA FrameUntouched ==
  ASSUME FrameInv, program' = program, NEW d \in Clients, Untouched(d),
         Live(d)', Ordered(d)'
  PROVE  Frame(d)'
  <1>1. Live(d) /\ Ordered(d)
    BY DEF Live, Ordered, Untouched
  <1>2. Frame(d)
    BY <1>1 DEF FrameInv
  <1>3. Sent(d)' = Sent(d)
    BY DEF Sent, Untouched
  <1>4. /\ AtStart(d)' <=> AtStart(d)
        /\ Greeted(d)' <=> Greeted(d)
        /\ Quiet(d)' <=> Quiet(d)
        /\ Written(d)' <=> Written(d)
        /\ Received(d)' <=> Received(d)
        /\ Complete(d)' <=> Complete(d)
        /\ Answered(d)' <=> Answered(d)
    BY <1>3
    DEF Untouched, AtStart, Greeted, Quiet, Written, Received, Complete, Answered,
        Greeting, NoLines, Alone, BeforeLine, AfterReply, Expected, Echo
  <1>. QED
    BY <1>2, <1>4 DEF Frame, UnderWay, Untouched

\* The stages in which the handler, or the client, is at a given step.
LEMMA StageOfHandler ==
  ASSUME FrameInv, NEW c \in Clients, Live(c), Ordered(c), peer[c] = "open"
  PROVE  /\ handler[c] = "none" => AtStart(c) \/ Quiet(c) \/ (UnderWay(c) /\ Written(c))
         /\ handler[c] = "greet" => AtStart(c)
         /\ handler[c] = "waitSlot" => Quiet(c) \/ (UnderWay(c) /\ Written(c))
         /\ handler[c] = "recv" =>
               \/ Greeted(c) \/ Quiet(c)
               \/ UnderWay(c) /\ (Written(c) \/ Received(c) \/ Answered(c))
         /\ handler[c] \in {"wait", "load", "store", "postResource", "reply"} =>
               UnderWay(c) /\ Complete(c)
         /\ handler[c] \in {"close", "post", "closed"} =>
               /\ program \in OneRequest /\ AfterReply(c)
               /\ Quiet(c) \/ (UnderWay(c) /\ Answered(c))
         /\ handler[c] # "died"
  <1>1. AtStart(c) \/ Greeted(c) \/ Quiet(c) \/ UnderWay(c)
    BY DEF FrameInv, Frame
  <1>. USE DEF AtStart, Greeted, Quiet, UnderWay, Written, Received, Complete, Answered,
               BeforeLine, AfterReply
  <1>. QED
    BY <1>1

LEMMA StageOfClient ==
  ASSUME FrameInv, NEW c \in Clients, Ordered(c)
  PROVE  /\ Live(c) => peer[c] = "open"
         /\ clientPc[c] = "idle" => AtStart(c) \/ Quiet(c)
         /\ clientPc[c] = "welcome" => AtStart(c) \/ Greeted(c)
         /\ clientPc[c] = "ready" => Quiet(c)
         /\ clientPc[c] = "terminate" => UnderWay(c) /\ (Written(c) \/ Received(c))
         /\ clientPc[c] = "await" => UnderWay(c)
  <1>1. Live(c) => Frame(c)
    BY DEF FrameInv
  <1>. USE DEF Frame, AtStart, Greeted, Quiet, UnderWay, Written, Received, Complete,
               Answered, Live
  <1>. QED
    BY <1>1

-----------------------------------------------------------------------------
(* What a step does to the one connection that it touches *)

LEMMA OneConnection ==
  ASSUME FrameInv, program' = program, NEW c \in Clients,
         \A d \in Clients \ {c} : Untouched(d),
         Live(c)' /\ Ordered(c)' => Frame(c)'
  PROVE  FrameInv'
  BY FrameUntouched DEF FrameInv

\* The handler alone goes on.
LEMMA HandlerFrame ==
  ASSUME FrameInv, NEW c \in Clients, NEW to, program' = program,
         handler \in [Clients -> Steps],
         handler' = [handler EXCEPT ![c] = to],
         UNCHANGED <<line, queues, peer, clientPc, requests, replies>>,
         disorderly \subseteq disorderly',
         Live(c) /\ Ordered(c) /\ Frame(c) =>
            \/ AtStart(c) /\ to \in {"missing", "greet"}
            \/ /\ (UnderWay(c) /\ Written(c)) \/ (Quiet(c) /\ BeforeLine(c))
               /\ to = "recv" \/ (to \in {"missing", "waitSlot"} /\ program \notin Greeting)
            \/ UnderWay(c) /\ Complete(c) /\ to \in {"load", "store", "postResource", "reply"}
            \/ /\ handler[c] \in {"close", "post"} /\ to \in {"post", "closed"}
               /\ AfterReply(c)
               /\ (UnderWay(c) /\ Answered(c)) \/ (Quiet(c) /\ replies[c] # << >>)
  PROVE  FrameInv'
  <1>1. handler'[c] = to /\ \A d \in Clients \ {c} : handler'[d] = handler[d]
    OBVIOUS
  <1>2. \A d \in Clients \ {c} : Untouched(d)
    BY <1>1 DEF Untouched, queues
  <1>3. ASSUME Live(c)', Ordered(c)'
        PROVE  Frame(c)'
    <2>1. Live(c) /\ Ordered(c) /\ Frame(c)
      BY <1>3 DEF FrameInv, Live, Ordered
    <2>2. Sent(c)' = Sent(c) /\ (Greeting' = Greeting)
      BY DEF Sent, Greeting, Echo
    <2>3. peer[c]' = "open" /\ Alone(c)' = Alone(c) /\ NoLines(c)' = NoLines(c)
      BY <2>1 DEF Frame, Alone, NoLines, queues
    <2>4. CASE AtStart(c) /\ to \in {"missing", "greet"}
      <3>1. AtStart(c)'
        BY <1>1, <2>2, <2>3, <2>4 DEF AtStart
      <3>. QED
        BY <2>3, <3>1 DEF Frame
    <2>5. CASE /\ (UnderWay(c) /\ Written(c)) \/ (Quiet(c) /\ BeforeLine(c))
               /\ to = "recv" \/ (to \in {"missing", "waitSlot"} /\ program \notin Greeting)
      <3>1. BeforeLine(c)'
        BY <1>1, <2>2, <2>5 DEF BeforeLine
      <3>2. CASE UnderWay(c) /\ Written(c)
        <4>1. UnderWay(c)'
          BY <2>2, <3>1, <3>2 DEF UnderWay, Written, queues
        <4>. QED
          BY <2>3, <4>1 DEF Frame
      <3>3. CASE Quiet(c) /\ BeforeLine(c)
        <4>1. Quiet(c)'
          BY <2>2, <2>3, <3>1, <3>3 DEF Quiet, queues
        <4>. QED
          BY <2>3, <4>1 DEF Frame
      <3>. QED
        BY <2>5, <3>2, <3>3
    <2>6. CASE /\ UnderWay(c) /\ Complete(c)
               /\ to \in {"load", "store", "postResource", "reply"}
      <3>1. UnderWay(c)'
        BY <1>1, <2>2, <2>6 DEF UnderWay, Complete, queues
      <3>. QED
        BY <2>3, <3>1 DEF Frame
    <2>7. CASE /\ handler[c] \in {"close", "post"} /\ to \in {"post", "closed"}
               /\ AfterReply(c)
               /\ (UnderWay(c) /\ Answered(c)) \/ (Quiet(c) /\ replies[c] # << >>)
      <3>1. AfterReply(c)'
        BY <1>1, <2>7 DEF AfterReply, OneRequest
      <3>2. CASE UnderWay(c) /\ Answered(c)
        <4>1. UnderWay(c)'
          BY <2>2, <3>1, <3>2 DEF UnderWay, Answered, Expected, ResourceOf, queues
        <4>. QED
          BY <2>3, <4>1 DEF Frame
      <3>3. CASE Quiet(c) /\ replies[c] # << >>
        <4>1. Quiet(c)'
          BY <2>2, <2>3, <3>1, <3>3 DEF Quiet, queues
        <4>. QED
          BY <2>3, <4>1 DEF Frame
      <3>. QED
        BY <2>7, <3>2, <3>3
    <2>. QED
      BY <2>1, <2>4, <2>5, <2>6, <2>7
  <1>. QED
    BY <1>2, <1>3, OneConnection

\* main gives the connection its handler, or loses it.
LEMMA MainFrame ==
  ASSUME Inv, LineInv, NEW c \in Clients, Accept(c) \/ CreateFails(c) \/ AcceptLast(c)
  PROVE  FrameInv'
  <1>1. handler[c] = "none" /\ handler \in [Clients -> Steps] /\ program \in Programs
    <2>1. /\ backlog \in Seq(Clients) /\ backlog # << >> /\ Head(backlog) = c
      BY DEF Accept, CreateFails, AcceptLast, Inv, Types
    <2>2. 1 \in 1 .. Len(backlog) /\ backlog[1] = c
      BY <2>1
    <2>. QED
      BY <2>2 DEF Inv, BacklogInv, Types
  <1>2. /\ program \in Greeting => FirstStep = "greet"
        /\ program \notin Greeting => FirstStep \in {"recv", "waitSlot"}
    BY <1>1, ServerAssumption DEF FirstStep, Greeting, Echo
  <1>3. PICK to \in {FirstStep, "missing"} : handler' = [handler EXCEPT ![c] = to]
    BY DEF Accept, CreateFails, AcceptLast
  <1>4. /\ program' = program
        /\ UNCHANGED <<line, queues, peer, clientPc, requests, replies, disorderly>>
    BY DEF Accept, CreateFails, AcceptLast, clientVars
  <1>5. ASSUME Live(c), Ordered(c), Frame(c)
        PROVE  \/ AtStart(c) /\ to \in {"missing", "greet"}
               \/ /\ (UnderWay(c) /\ Written(c)) \/ (Quiet(c) /\ BeforeLine(c))
                  /\ \/ to = "recv"
                     \/ to \in {"missing", "waitSlot"} /\ program \notin Greeting
    <2>1. AtStart(c) \/ Quiet(c) \/ (UnderWay(c) /\ Written(c))
      BY <1>1, <1>5, StageOfHandler DEF LineInv, Frame
    <2>2. CASE AtStart(c)
      BY <1>2, <2>2 DEF AtStart
    <2>3. CASE Quiet(c) \/ (UnderWay(c) /\ Written(c))
      <3>1. BeforeLine(c) /\ program \notin Greeting
        BY <1>1, <2>3 DEF Quiet, Written, BeforeLine, AfterReply
      <3>. QED
        BY <1>2, <2>3, <3>1
    <2>. QED
      BY <2>1, <2>2, <2>3
  <1>. QED
    BY <1>1, <1>3, <1>4, <1>5, HandlerFrame DEF LineInv

LEMMA SignalFrame ==
  ASSUME Inv, LineInv, Signal
  PROVE  FrameInv'
  <1>1. PICK hit \in SUBSET Clients :
          /\ handler' = [c \in Clients |-> IF c \in hit THEN "reply" ELSE handler[c]]
          /\ disorderly' = disorderly \cup hit
    BY DEF Signal
  <1>2. /\ program' = program /\ program = "reverse"
        /\ UNCHANGED <<line, queues, peer, clientPc, requests, replies>>
    BY DEF Signal
  <1>3. ASSUME NEW d \in Clients, Live(d)', Ordered(d)'
        PROVE  Frame(d)'
    <2>1. d \notin hit
      BY <1>1, <1>2, <1>3 DEF Ordered
    <2>2. Untouched(d)
      BY <1>1, <1>2, <2>1 DEF Untouched, queues
    <2>. QED
      BY <1>2, <1>3, <2>2, FrameUntouched DEF LineInv
  <1>. QED
    BY <1>3 DEF FrameInv

\* The welcome message and the reply.
LEMMA SendToFrame ==
  ASSUME LineInv, NEW c \in Clients, NEW from, NEW to, NEW message \in Int \X Nat,
         handler \in [Clients -> Steps], SendTo(c, from, to, message)
  PROVE  /\ \A d \in Clients \ {c} : Untouched(d)
         /\ handler[c] = from /\ handler'[c] = to /\ line'[c] = None
         /\ UNCHANGED <<program, toServer, clientPc, requests, replies, disorderly>>
         /\ peer[c] = "open" /\ toClient[c] = << >> =>
               peer'[c] = "open" /\ toClient'[c] = <<message>>
  <1>1. /\ handler[c] = from /\ handler' = [handler EXCEPT ![c] = to]
        /\ line' = [line EXCEPT ![c] = None]
        /\ UNCHANGED <<program, toServer, clientPc, requests, replies, disorderly>>
    BY DEF SendTo, HandlerStep, clientVars
  <1>2. \A d \in Clients \ {c} : peer'[d] = peer[d] /\ toClient'[d] = toClient[d]
    BY DEF SendTo, LineInv, LineTypes
  <1>3. \A d \in Clients \ {c} : Untouched(d)
    BY <1>1, <1>2 DEF Untouched
  <1>4. peer[c] = "open" /\ toClient[c] = << >> =>
           peer'[c] = "open" /\ toClient'[c] = <<message>>
    <2>1. Append(<< >>, message) = <<message>>
      BY ShortSequences
    <2>. QED
      BY <2>1 DEF SendTo, LineInv, LineTypes
  <1>5. handler'[c] = to /\ line'[c] = None
    BY <1>1 DEF LineInv, LineTypes
  <1>. QED
    BY <1>1, <1>3, <1>4, <1>5

LEMMA GreetFrame ==
  ASSUME LineInv, NEW c \in Clients, handler \in [Clients -> Steps], Greet(c),
         clientPc[c] # "idle"
  PROVE  FrameInv'
  <1>1. Welcome \in Int \X Nat
    BY DEF Welcome, None
  <1>2. /\ \A d \in Clients \ {c} : Untouched(d)
        /\ handler[c] = "greet" /\ handler'[c] = "recv" /\ line'[c] = None
        /\ UNCHANGED <<program, toServer, clientPc, requests, replies, disorderly>>
        /\ peer[c] = "open" /\ toClient[c] = << >> =>
              peer'[c] = "open" /\ toClient'[c] = <<Welcome>>
    BY <1>1, SendToFrame DEF Greet
  <1>3. ASSUME Live(c)', Ordered(c)'
        PROVE  Frame(c)'
    <2>1. Live(c) /\ Ordered(c)
      BY <1>2, <1>3 DEF Live, Ordered
    <2>2. peer[c] = "open" /\ AtStart(c)
      BY <1>2, <2>1, StageOfHandler, StageOfClient DEF LineInv
    <2>3. Greeted(c)'
      BY <1>2, <2>2 DEF AtStart, Greeted, Alone, NoLines, Welcome, None
    <2>. QED
      BY <1>2, <2>2, <2>3 DEF AtStart, Alone, Frame
  <1>. QED
    BY <1>2, <1>3, OneConnection DEF LineInv

LEMMA ReplyFrame ==
  ASSUME LineInv, NEW c \in Clients, handler \in [Clients -> Steps], Reply(c)
  PROVE  FrameInv'
  <1>1. PICK message \in Int \X Nat :
          /\ SendTo(c, "reply", IF program \in OneRequest THEN "close" ELSE "recv",
                    message)
          /\ message[1] = Expected(line[c])
    <2>1. line[c] \in Int /\ counter_updated[c] \in Nat
      BY DEF LineInv, LineTypes
    <2>2. ResourceOf(line[c]) \in Int
      BY <2>1, ResourceOfType
    <2>3. /\ <<ResourceOf(line[c]), counter_updated[c]>> \in Int \X Nat
          /\ <<line[c], 0>> \in Int \X Nat
      BY <2>1, <2>2
    <2>. QED
      BY <2>3 DEF Reply, Expected
  <1>2. /\ \A d \in Clients \ {c} : Untouched(d)
        /\ handler[c] = "reply" /\ line'[c] = None
        /\ handler'[c] = IF program \in OneRequest THEN "close" ELSE "recv"
        /\ UNCHANGED <<program, toServer, clientPc, requests, replies, disorderly>>
        /\ peer[c] = "open" /\ toClient[c] = << >> =>
              peer'[c] = "open" /\ toClient'[c] = <<message>>
    BY <1>1, SendToFrame
  <1>3. ASSUME Live(c)', Ordered(c)'
        PROVE  Frame(c)'
    <2>1. Live(c) /\ Ordered(c)
      BY <1>2, <1>3 DEF Live, Ordered
    <2>2. peer[c] = "open" /\ UnderWay(c) /\ Complete(c)
      BY <1>2, <2>1, StageOfHandler, StageOfClient DEF LineInv
    <2>3. peer'[c] = "open" /\ toClient'[c] = <<message>> /\ line[c] = Sent(c)
      BY <1>2, <2>2 DEF Complete
    <2>4. Len(toClient'[c]) = 1 /\ toClient'[c][1] = message
      BY <2>3, ShortSequences
    <2>5. AfterReply(c)'
      BY <1>2 DEF AfterReply
    <2>6. Expected(Sent(c))' = message[1]
      BY <1>1, <1>2, <2>3 DEF Expected, Sent, ResourceOf
    <2>7. Answered(c)'
      BY <1>2, <2>2, <2>4, <2>5, <2>6 DEF Answered, Complete
    <2>8. UnderWay(c)'
      BY <1>2, <2>2, <2>7 DEF UnderWay
    <2>. QED
      BY <2>3, <2>8 DEF Frame
  <1>. QED
    BY <1>2, <1>3, OneConnection DEF LineInv

\* The handler receives the contents of a line that the client wrote.
LEMMA RecvContentsFrame ==
  ASSUME LineInv, NEW c \in Clients, handler \in [Clients -> Steps], RecvContents(c)
  PROVE  FrameInv'
  <1>1. /\ handler[c] = "recv" /\ toServer[c] # << >> /\ Head(toServer[c]) # End
        /\ handler' = [handler EXCEPT ![c] = IF program = "time" THEN "reply" ELSE "recv"]
        /\ line' = [line EXCEPT ![c] = IF @ = None THEN Head(toServer[c]) ELSE @]
        /\ toServer' = [toServer EXCEPT ![c] = Tail(@)]
        /\ UNCHANGED <<program, toClient, peer, clientPc, requests, replies, disorderly>>
    BY DEF RecvContents, HandlerStep, clientVars
  <1>2. /\ handler'[c] = IF program = "time" THEN "reply" ELSE "recv"
        /\ line'[c] = IF line[c] = None THEN Head(toServer[c]) ELSE line[c]
        /\ toServer'[c] = Tail(toServer[c])
        /\ \A d \in Clients \ {c} : Untouched(d)
    BY <1>1 DEF LineInv, LineTypes, Untouched
  <1>3. ASSUME Live(c)', Ordered(c)'
        PROVE  Frame(c)'
    <2>1. Live(c) /\ Ordered(c) /\ peer[c] = "open"
      BY <1>1, <1>3, StageOfClient DEF LineInv, Live, Ordered
    <2>2. UnderWay(c) /\ Written(c)
      <3>1. toServer[c] # <<End>>
        BY <1>1, ShortSequences
      <3>. QED
        BY <1>1, <2>1, <3>1, StageOfHandler
        DEF LineInv, Greeted, Quiet, Alone, Received, Answered
    <2>3. Sent(c) \in Nat
      BY <2>2, SentType DEF LineInv, UnderWay
    <2>4. /\ Head(<<Sent(c)>>) = Sent(c) /\ Tail(<<Sent(c)>>) = << >>
          /\ Head(<<Sent(c), End>>) = Sent(c) /\ Tail(<<Sent(c), End>>) = <<End>>
      <3>1. Sent(c) \in Int /\ End \in Int
        BY <2>3 DEF End
      <3>. QED
        BY <3>1, ShortSequences
    <2>5. Sent(c)' = Sent(c)
      BY <1>1 DEF Sent
    <2>6. line'[c] = Sent(c)
      BY <1>2, <2>2, <2>4 DEF Written
    <2>7. CASE program = "time"
      <3>1. Complete(c)'
        BY <1>1, <1>2, <2>2, <2>4, <2>5, <2>6, <2>7 DEF Complete, Written
      <3>. QED
        BY <1>1, <2>1, <2>2, <3>1 DEF Frame, UnderWay
    <2>8. CASE program # "time"
      <3>1. Received(c)'
        BY <1>1, <1>2, <2>2, <2>4, <2>5, <2>6, <2>8 DEF Received, Written
      <3>. QED
        BY <1>1, <2>1, <2>2, <3>1 DEF Frame, UnderWay
    <2>. QED
      BY <2>7, <2>8
  <1>. QED
    BY <1>1, <1>2, <1>3, OneConnection DEF LineInv

\* The handler receives the end of a line, and goes where its contents say.
LEMMA EndOfLineFrame ==
  ASSUME LineInv, NEW c \in Clients, handler \in [Clients -> Steps], EndOfLine(c)
  PROVE  FrameInv'
  <1>1. /\ handler[c] = "recv" /\ toServer[c] # << >> /\ Head(toServer[c]) = End
        /\ handler' = [handler EXCEPT ![c] = AfterLine(c)]
        /\ toServer' = [toServer EXCEPT ![c] = Tail(@)]
        /\ UNCHANGED <<program, line, toClient, peer, clientPc, requests, replies,
                       disorderly>>
    BY DEF EndOfLine, HandlerStep, clientVars
  <1>2. /\ handler'[c] = AfterLine(c)
        /\ toServer'[c] = Tail(toServer[c])
        /\ \A d \in Clients \ {c} : Untouched(d)
    BY <1>1 DEF LineInv, LineTypes, Untouched
  <1>3. ASSUME Live(c)', Ordered(c)'
        PROVE  Frame(c)'
    <2>1. Live(c) /\ Ordered(c) /\ peer[c] = "open"
      BY <1>1, <1>3, StageOfClient DEF LineInv, Live, Ordered
    <2>2. UnderWay(c) /\ Received(c)
      <3>1. ASSUME UnderWay(c), Written(c)
            PROVE  FALSE
        <4>1. Sent(c) \in Int /\ End \in Int /\ Sent(c) # End
          BY <3>1, SentType DEF LineInv, UnderWay, End
        <4>2. Head(<<Sent(c)>>) = Sent(c) /\ Head(<<Sent(c), End>>) = Sent(c)
          BY <4>1, ShortSequences
        <4>. QED
          BY <1>1, <3>1, <4>1, <4>2 DEF Written
      <3>. QED
        BY <1>1, <2>1, <3>1, StageOfHandler
        DEF LineInv, Greeted, Quiet, Alone, Answered
    <2>3. Sent(c) \notin {None, Quit} /\ line[c] = Sent(c)
      BY <2>2, SentType DEF LineInv, UnderWay, Received
    <2>4. AfterLine(c) \in {"wait", "reply"}
      BY <2>3 DEF AfterLine
    <2>5. Tail(<<End>>) = << >>
      BY ShortSequences
    <2>6. Sent(c)' = Sent(c)
      BY <1>1 DEF Sent
    <2>7. Complete(c)'
      BY <1>1, <1>2, <2>2, <2>3, <2>4, <2>5, <2>6 DEF Complete, Received
    <2>. QED
      BY <1>1, <2>1, <2>2, <2>7 DEF Frame, UnderWay
  <1>. QED
    BY <1>1, <1>2, <1>3, OneConnection DEF LineInv

\* A client that is there has not closed, so that its handler does not see an end.
LEMMA GoneFrame ==
  ASSUME LineInv, NEW c \in Clients, peer[c] # "open", program' = program,
         \A d \in Clients \ {c} : Untouched(d),
         clientPc' = clientPc, disorderly \subseteq disorderly'
  PROVE  FrameInv'
  <1>1. ASSUME Live(c)', Ordered(c)'
        PROVE  FALSE
    BY <1>1, StageOfClient DEF LineInv, Live, Ordered
  <1>. QED
    BY <1>1, OneConnection DEF LineInv

LEMMA ConnectionFrame ==
  ASSUME Inv, LineInv, NEW c \in Clients, ConnectionNext(c)
  PROVE  FrameInv'
  <1>. handler \in [Clients -> Steps] /\ program \in Programs
    BY DEF Inv, Types
  <1>. USE DEF server, resources, queues, clientVars
  <1>1. ASSUME NEW from, NEW to, HandlerStep(c, from, to),
               UNCHANGED <<program, line, queues, peer, clientPc, requests, replies,
                           disorderly>>,
               \/ from = "waitSlot" /\ to = "recv"
               \/ from = "wait" /\ to = "load"
               \/ from = "load" /\ to = "store"
               \/ from = "store" /\ to = "postResource"
               \/ from = "postResource" /\ to = "reply"
               \/ from = "close" /\ to \in {"post", "closed"}
               \/ from = "post" /\ to = "closed"
        PROVE  FrameInv'
    <2>1. handler[c] = from /\ handler' = [handler EXCEPT ![c] = to]
      BY <1>1 DEF HandlerStep
    <2>2. ASSUME Live(c), Ordered(c), Frame(c)
          PROVE  \/ /\ (UnderWay(c) /\ Written(c)) \/ (Quiet(c) /\ BeforeLine(c))
                    /\ to = "recv"
                 \/ /\ UnderWay(c) /\ Complete(c)
                    /\ to \in {"load", "store", "postResource", "reply"}
                 \/ /\ handler[c] \in {"close", "post"} /\ to \in {"post", "closed"}
                    /\ AfterReply(c)
                    /\ (UnderWay(c) /\ Answered(c)) \/ (Quiet(c) /\ replies[c] # << >>)
      <3>1. peer[c] = "open"
        BY <2>2 DEF Frame
      <3>2. CASE from = "waitSlot" /\ to = "recv"
        BY <2>1, <2>2, <3>1, <3>2, StageOfHandler DEF LineInv, Quiet, AfterReply
      <3>3. CASE from \in {"wait", "load", "store", "postResource"}
                 /\ to \in {"load", "store", "postResource", "reply"}
        BY <2>1, <2>2, <3>1, <3>3, StageOfHandler DEF LineInv
      <3>4. CASE from \in {"close", "post"} /\ to \in {"post", "closed"}
        BY <2>1, <2>2, <3>1, <3>4, StageOfHandler DEF LineInv, Quiet, BeforeLine
      <3>. QED
        BY <1>1, <3>2, <3>3, <3>4
    <2>. QED
      BY <1>1, <2>1, <2>2, HandlerFrame DEF LineInv
  <1>2. CASE Greet(c)
    <2>1. clientPc[c] # "idle"
      BY <1>2 DEF Greet, SendTo, HandlerStep, Inv, BacklogInv
    <2>. QED
      BY <1>2, <2>1, GreetFrame
  <1>3. CASE WaitSlot(c)
    BY <1>1, <1>3 DEF WaitSlot
  <1>4. CASE PostSlot(c)
    BY <1>1, <1>4 DEF PostSlot
  <1>5. CASE WaitResource(c)
    BY <1>1, <1>5 DEF WaitResource
  <1>6. CASE LoadCounter(c)
    BY <1>1, <1>6 DEF LoadCounter
  <1>7. CASE StoreCounter(c)
    BY <1>1, <1>7 DEF StoreCounter
  <1>8. CASE PostResource(c)
    BY <1>1, <1>8 DEF PostResource
  <1>9. CASE CloseConnection(c)
    BY <1>1, <1>9 DEF CloseConnection
  <1>10. CASE RecvNothing(c) \/ RecvFails(c)
    <2>1. /\ peer[c] # "open" /\ \A d \in Clients \ {c} : handler'[d] = handler[d]
          /\ UNCHANGED <<program, line, queues, peer, clientPc, requests, replies,
                         disorderly>>
      BY <1>10 DEF RecvNothing, RecvFails, Die, HandlerStep
    <2>. QED
      BY <2>1, GoneFrame DEF Untouched
  <1>11. CASE ResetArrives(c)
    <2>1. /\ peer[c] # "open" /\ \A d \in Clients \ {c} : peer'[d] = peer[d]
          /\ UNCHANGED <<program, handler, line, queues, clientPc, requests, replies,
                         disorderly>>
      BY <1>11 DEF ResetArrives
    <2>. QED
      BY <2>1, GoneFrame DEF Untouched
  <1>12. CASE Reply(c)
    BY <1>12, ReplyFrame
  <1>13. CASE RecvContents(c)
    BY <1>13, RecvContentsFrame
  <1>14. CASE EndOfLine(c)
    BY <1>14, EndOfLineFrame
  <1>. QED
    BY <1>2, <1>3, <1>4, <1>5, <1>6, <1>7, <1>8, <1>9, <1>10, <1>11, <1>12, <1>13, <1>14
    DEF ConnectionNext, HandlerNext, LineHandler, CommandHandler, Receive, Answer

-----------------------------------------------------------------------------
(* What a client does to its own connection *)

LEMMA SendContentsFrame ==
  ASSUME LineInv, NEW c \in Clients, program \in Programs,
         clientPc \in [Clients -> ClientSteps], SendContents(c)
  PROVE  FrameInv'
  <1>1. PICK contents \in Nat :
          /\ toServer' = [toServer EXCEPT ![c] = @ \o <<contents>> \o Terminator]
          /\ requests' = [requests EXCEPT ![c] = Append(@, contents)]
    BY ContentsAreNumbers DEF SendContents, LineInv
  <1>2. /\ clientPc[c] = "ready"
        /\ clientPc' = [clientPc EXCEPT ![c] = IF program \in Forking \cup {"time"}
                                               THEN "await" ELSE "terminate"]
        /\ Len(requests[c]) < MaxRequests[program]
        /\ UNCHANGED <<program, handler, line, toClient, peer, replies, disorderly>>
    BY DEF SendContents, ClientStep
  <1>3. /\ clientPc'[c] = IF program \in Forking \cup {"time"} THEN "await" ELSE "terminate"
        /\ requests'[c] = Append(requests[c], contents)
        /\ toServer'[c] = toServer[c] \o <<contents>> \o Terminator
        /\ \A d \in Clients \ {c} : Untouched(d)
    BY <1>1, <1>2 DEF LineInv, LineTypes, Untouched
  <1>4. ASSUME Live(c)', Ordered(c)'
        PROVE  Frame(c)'
    <2>1. Quiet(c) /\ peer[c] = "open"
      BY <1>2, <1>4, StageOfClient DEF LineInv, Live, Ordered
    <2>2. Len(requests[c]) \in Nat /\ Len(replies[c]) \in Nat
      BY DEF LineInv, LineTypes
    <2>3. /\ Len(requests'[c]) = Len(requests[c]) + 1 /\ Sent(c)' = contents
      BY <1>3, <2>2 DEF Sent, LineInv, LineTypes
    <2>4. BeforeLine(c)
      <3>1. CASE program \in OneRequest
        <4>1. Len(requests[c]) = 0
          BY <1>2, <2>2, <3>1, ServerAssumption DEF OneRequest
        <4>2. replies[c] = << >>
          BY <2>1, <4>1, NoElement DEF Quiet, LineInv, LineTypes
        <4>. QED
          BY <2>1, <4>2 DEF Quiet
      <3>2. CASE program \notin OneRequest
        BY <2>1, <3>2 DEF Quiet, AfterReply, BeforeLine
      <3>. QED
        BY <3>1, <3>2
    <2>5. BeforeLine(c)'
      BY <1>2, <2>4 DEF BeforeLine, Greeting, Echo
    <2>6. /\ << >> \o <<contents>> \o << >> = <<contents>>
          /\ << >> \o <<contents>> \o <<End>> = <<contents, End>>
      <3>1. contents \in Int /\ End \in Int
        BY DEF End
      <3>. QED
        BY <3>1, ShortSequences
    <2>7. /\ program \in Forking => toServer'[c] = <<contents, End>>
          /\ program \notin Forking => toServer'[c] = <<contents>>
      BY <1>3, <2>1, <2>6 DEF Quiet, Alone, Terminator
    <2>8. Written(c)'
      BY <1>2, <1>3, <2>1, <2>3, <2>5, <2>7 DEF Written, Quiet, Alone, Forking
    <2>9. UnderWay(c)'
      BY <1>2, <2>1, <2>3, <2>8 DEF UnderWay, Quiet
    <2>. QED
      BY <1>2, <2>1, <2>9 DEF Frame
  <1>. QED
    BY <1>2, <1>3, <1>4, OneConnection DEF LineInv

LEMMA SendTerminatorFrame ==
  ASSUME LineInv, NEW c \in Clients, clientPc \in [Clients -> ClientSteps],
         SendTerminator(c)
  PROVE  FrameInv'
  <1>1. /\ clientPc[c] = "terminate" /\ clientPc'[c] = "await"
        /\ toServer'[c] = Append(toServer[c], End)
        /\ \A d \in Clients \ {c} : Untouched(d)
        /\ UNCHANGED <<program, handler, line, toClient, peer, requests, replies,
                       disorderly>>
    BY DEF SendTerminator, ClientStep, LineInv, LineTypes, Untouched
  <1>2. ASSUME Live(c)', Ordered(c)'
        PROVE  Frame(c)'
    <2>1. UnderWay(c) /\ (Written(c) \/ Received(c)) /\ peer[c] = "open"
      BY <1>1, <1>2, StageOfClient DEF LineInv, Live, Ordered
    <2>2. Sent(c)' = Sent(c)
      BY <1>1 DEF Sent
    <2>3. Sent(c) \in Int /\ End \in Int
      BY <2>1, SentType DEF LineInv, UnderWay, End
    <2>4. Append(<< >>, End) = <<End>> /\ Append(<<Sent(c)>>, End) = <<Sent(c), End>>
      BY <2>3, ShortSequences
    <2>5. CASE Written(c)
      <3>1. Written(c)'
        BY <1>1, <2>2, <2>4, <2>5 DEF Written, BeforeLine, Greeting, Echo
      <3>. QED
        BY <1>1, <2>1, <3>1 DEF Frame, UnderWay
    <2>6. CASE Received(c)
      <3>1. Received(c)'
        BY <1>1, <2>2, <2>4, <2>6 DEF Received
      <3>. QED
        BY <1>1, <2>1, <3>1 DEF Frame, UnderWay
    <2>. QED
      BY <2>1, <2>5, <2>6
  <1>. QED
    BY <1>1, <1>2, OneConnection DEF LineInv

\* A line that is left open stays without a reply.
LEMMA LeaveLineOpenFrame ==
  ASSUME LineInv, NEW c \in Clients, clientPc \in [Clients -> ClientSteps],
         LeaveLineOpen(c)
  PROVE  FrameInv'
  <1>1. /\ clientPc[c] = "terminate" /\ clientPc'[c] = "stuck"
        /\ disorderly' = disorderly \cup {c}
        /\ \A d \in Clients \ {c} : Untouched(d)
        /\ UNCHANGED <<program, handler, line, queues, peer, requests, replies>>
    BY DEF LeaveLineOpen, ClientStep, Untouched, queues
  <1>2. ASSUME Live(c)', Ordered(c)'
        PROVE  Frame(c)'
    <2>1. UnderWay(c) /\ (Written(c) \/ Received(c)) /\ peer[c] = "open"
      BY <1>1, <1>2, StageOfClient DEF LineInv, Live, Ordered
    <2>2. Sent(c)' = Sent(c)
      BY <1>1 DEF Sent
    <2>3. Written(c)' \/ Received(c)'
      BY <1>1, <2>1, <2>2 DEF Written, Received, BeforeLine, Greeting, Echo, queues
    <2>. QED
      BY <1>1, <2>1, <2>3 DEF Frame, UnderWay
  <1>. QED
    BY <1>1, <1>2, OneConnection DEF LineInv

LEMMA ConnectFrame ==
  ASSUME LineInv, NEW c \in Clients, program \in Programs,
         clientPc \in [Clients -> ClientSteps], Connect(c)
  PROVE  FrameInv'
  <1>1. /\ program \in Greeting => FirstStep = "greet"
        /\ program \notin Greeting => FirstStep # "greet"
    BY ServerAssumption DEF FirstStep, Greeting, Echo
  <1>2. /\ clientPc[c] = "idle"
        /\ clientPc'[c] = IF FirstStep = "greet" THEN "welcome" ELSE "ready"
        /\ \A d \in Clients \ {c} : Untouched(d)
        /\ UNCHANGED <<program, handler, line, queues, peer, requests, replies,
                       disorderly>>
    BY DEF Connect, ClientStep, Untouched, queues
  <1>3. ASSUME Live(c)', Ordered(c)'
        PROVE  Frame(c)'
    <2>1. (AtStart(c) \/ Quiet(c)) /\ peer[c] = "open"
      BY <1>2, <1>3, StageOfClient DEF LineInv, Live, Ordered
    <2>2. CASE AtStart(c)
      <3>1. AtStart(c)'
        BY <1>1, <1>2, <2>2 DEF AtStart, Greeting, Echo, Alone, NoLines, queues
      <3>. QED
        BY <1>2, <2>1, <3>1 DEF Frame
    <2>3. CASE Quiet(c)
      <3>1. Quiet(c)'
        BY <1>1, <1>2, <2>3
        DEF Quiet, Greeting, Echo, Alone, BeforeLine, AfterReply, queues
      <3>. QED
        BY <1>2, <2>1, <3>1 DEF Frame
    <2>. QED
      BY <2>1, <2>2, <2>3
  <1>. QED
    BY <1>2, <1>3, OneConnection DEF LineInv

LEMMA ReceiveWelcomeFrame ==
  ASSUME LineInv, NEW c \in Clients, clientPc \in [Clients -> ClientSteps],
         ReceiveWelcome(c)
  PROVE  FrameInv'
  <1>1. /\ clientPc[c] = "welcome" /\ clientPc'[c] = "ready"
        /\ toClient[c] # << >> /\ toClient'[c] = Tail(toClient[c])
        /\ \A d \in Clients \ {c} : Untouched(d)
        /\ UNCHANGED <<program, handler, line, toServer, peer, requests, replies,
                       disorderly>>
    BY DEF ReceiveWelcome, ClientStep, LineInv, LineTypes, Untouched
  <1>2. ASSUME Live(c)', Ordered(c)'
        PROVE  Frame(c)'
    <2>1. Greeted(c) /\ peer[c] = "open"
      BY <1>1, <1>2, StageOfClient DEF LineInv, Live, Ordered, AtStart, Alone
    <2>2. Tail(<<Welcome>>) = << >>
      BY ShortSequences
    <2>3. Quiet(c)'
      BY <1>1, <2>1, <2>2 DEF Quiet, Greeted, Alone, NoLines, BeforeLine, Welcome, None
    <2>. QED
      BY <1>1, <2>1, <2>3 DEF Frame
  <1>. QED
    BY <1>1, <1>2, OneConnection DEF LineInv

LEMMA ReceiveReplyFrame ==
  ASSUME LineInv, NEW c \in Clients, clientPc \in [Clients -> ClientSteps],
         ReceiveReply(c)
  PROVE  FrameInv'
  <1>1. /\ clientPc[c] = "await" /\ clientPc'[c] = "ready"
        /\ toClient[c] # << >> /\ toClient'[c] = Tail(toClient[c])
        /\ replies'[c] = Append(replies[c], Head(toClient[c]))
        /\ \A d \in Clients \ {c} : Untouched(d)
        /\ UNCHANGED <<program, handler, line, toServer, peer, requests, disorderly>>
    BY DEF ReceiveReply, ClientStep, LineInv, LineTypes, Untouched
  <1>2. ASSUME Live(c)', Ordered(c)'
        PROVE  Frame(c)'
    <2>1. UnderWay(c) /\ Answered(c) /\ peer[c] = "open"
      BY <1>1, <1>2, StageOfClient
      DEF LineInv, Live, Ordered, UnderWay, Written, Received, Complete
    <2>2. /\ toClient[c] \in Seq(Int \X Nat) /\ replies[c] \in Seq(Int \X Nat)
      BY DEF LineInv, LineTypes
    <2>3. /\ Head(toClient[c]) \in Int \X Nat /\ toClient'[c] = << >>
      BY <1>1, <2>1, <2>2, OneElement DEF Answered
    <2>4. Len(replies'[c]) = Len(replies[c]) + 1 /\ replies'[c] # << >>
      <3>1. /\ Len(replies[c]) \in Nat /\ Len(replies'[c]) = Len(replies[c]) + 1
            /\ replies'[c] \in Seq(Int \X Nat)
        BY <1>1, <2>2, <2>3
      <3>2. Len(replies'[c]) # 0
        BY <3>1
      <3>. QED
        BY <3>1, <3>2, NoElement
    <2>5. Quiet(c)'
      BY <1>1, <2>1, <2>3, <2>4 DEF Quiet, Answered, UnderWay, Alone, AfterReply
    <2>. QED
      BY <1>1, <2>1, <2>5 DEF Frame
  <1>. QED
    BY <1>1, <1>2, OneConnection DEF LineInv

\* A client that leaves, or whose server is gone, receives no more.
LEMMA EndedFrame ==
  ASSUME LineInv, NEW c \in Clients, clientPc \in [Clients -> ClientSteps],
         Leave(c) \/ CloseEarly(c) \/ LoseServer(c)
  PROVE  FrameInv'
  <1>. USE DEF ClientStep, Untouched, queues, LineInv, LineTypes
  <1>1. /\ program' = program /\ clientPc'[c] \in {"done", "closed", "failed"}
        /\ \A d \in Clients \ {c} : Untouched(d)
    <2>1. CASE Leave(c)
      BY <2>1 DEF Leave
    <2>2. CASE CloseEarly(c)
      BY <2>2 DEF CloseEarly
    <2>3. CASE LoseServer(c)
      BY <2>3 DEF LoseServer
    <2>. QED
      BY <2>1, <2>2, <2>3
  <1>2. ~ Live(c)'
    BY <1>1 DEF Live
  <1>. QED
    BY <1>1, <1>2, OneConnection DEF LineInv

LEMMA SendEmptyFrame ==
  ASSUME LineInv, NEW c \in Clients, clientPc \in [Clients -> ClientSteps], SendEmpty(c)
  PROVE  FrameInv'
  <1>1. /\ program = "reverse" /\ program' = program /\ c \in disorderly'
        /\ \A d \in Clients \ {c} : Untouched(d)
    BY DEF SendEmpty, ClientStep, Untouched
  <1>2. ~ Ordered(c)'
    BY <1>1 DEF Ordered
  <1>. QED
    BY <1>1, <1>2, OneConnection DEF LineInv

-----------------------------------------------------------------------------
(* The replies answer the lines *)

LEMMA FrameStep ==
  ASSUME Inv, LineInv, [Next]_vars
  PROVE  FrameInv'
  <1>. clientPc \in [Clients -> ClientSteps] /\ program \in Programs
    BY DEF Inv, Types, ClientSteps
  <1>1. CASE UNCHANGED vars
    <2>1. /\ program' = program /\ \A d \in Clients : Untouched(d)
      BY <1>1 DEF vars, Untouched, queues, clientVars
    <2>2. ASSUME NEW d \in Clients, Live(d)', Ordered(d)'
          PROVE  Frame(d)'
      BY <2>1, <2>2, FrameUntouched DEF LineInv
    <2>. QED
      BY <2>2 DEF FrameInv
  <1>2. CASE MainNext
    BY <1>2, MainFrame DEF MainNext
  <1>3. CASE Signal
    BY <1>3, SignalFrame
  <1>4. ASSUME NEW c \in Clients, ConnectionNext(c)
        PROVE  FrameInv'
    BY <1>4, ConnectionFrame
  <1>5. ASSUME NEW c \in Clients,
               \/ ClientNext(c)
               \/ LeaveLineOpen(c) \/ SendEmpty(c) \/ CloseEarly(c)
        PROVE  FrameInv'
    BY <1>5, SendContentsFrame, SendTerminatorFrame, LeaveLineOpenFrame, ConnectFrame,
       ReceiveWelcomeFrame, ReceiveReplyFrame, EndedFrame, SendEmptyFrame
    DEF ClientNext, LineClient, CommandClient, Exchange
  <1>. QED
    BY <1>1, <1>2, <1>3, <1>4, <1>5 DEF Next

\* What RepliesInOrder says of one client.
InOrderFor(c) ==
  /\ Len(replies[c]) <= Len(requests[c])
  /\ \A i \in 1 .. Len(replies[c]) : replies[c][i][1] = Expected(requests[c][i])

LEMMA InOrderForAll ==
  RepliesInOrder <=> \A c \in Clients : Ordered(c) => InOrderFor(c)
  BY DEF RepliesInOrder, InOrderFor, Ordered, Expected

\* Only a client that writes a line, or receives a reply, changes what it has.
LEMMA OnlyTwoSteps ==
  ASSUME LineTypes, [Next]_vars
  PROVE  /\ program' = program /\ disorderly \subseteq disorderly'
         /\ \/ UNCHANGED <<requests, replies>>
            \/ \E c \in Clients : SendContents(c) \/ ReceiveReply(c)
  <1>. USE DEF clientVars
  <1>1. CASE UNCHANGED vars
    BY <1>1 DEF vars
  <1>2. CASE MainNext \/ Signal
    BY <1>2 DEF MainNext, Signal, Accept, CreateFails, AcceptLast
  <1>3. ASSUME NEW c \in Clients, ConnectionNext(c)
        PROVE  UNCHANGED <<program, disorderly, requests, replies>>
    BY <1>3 DEF ConnectionNext, HandlerNext, LineHandler, CommandHandler, Receive, Answer,
       Greet, SendTo, RecvContents, EndOfLine, RecvNothing, RecvFails, Die, Reply,
       CloseConnection, WaitSlot, PostSlot, WaitResource, LoadCounter, StoreCounter,
       PostResource, ResetArrives
  <1>4. ASSUME NEW c \in Clients,
               \/ ClientNext(c)
               \/ LeaveLineOpen(c) \/ SendEmpty(c) \/ CloseEarly(c)
        PROVE  /\ program' = program /\ disorderly \subseteq disorderly'
               /\ \/ UNCHANGED <<requests, replies>>
                  \/ SendContents(c) \/ ReceiveReply(c)
    BY <1>4 DEF ClientNext, LineClient, CommandClient, Exchange, Connect, ReceiveWelcome,
       SendContents, SendTerminator, ReceiveReply, Leave, LoseServer, LeaveLineOpen,
       SendEmpty, CloseEarly
  <1>. QED
    BY <1>1, <1>2, <1>3, <1>4 DEF Next

\* The reply that a client receives is that to its last line.
LEMMA RepliesInOrderStep ==
  ASSUME Inv, LineInv, [Next]_vars
  PROVE  RepliesInOrder'
  <1>. LineTypes /\ program \in Programs
    BY DEF Inv, Types, LineInv
  <1>1. program' = program /\ disorderly \subseteq disorderly'
    BY OnlyTwoSteps
  <1>2. \A n : Expected(n)' = Expected(n)
    BY <1>1 DEF Expected, ResourceOf
  <1>3. \A d \in Clients : Ordered(d)' => Ordered(d)
    BY <1>1 DEF Ordered
  <1>4. \A d \in Clients : Ordered(d) => InOrderFor(d)
    BY InOrderForAll DEF LineInv
  <1>5. ASSUME NEW d \in Clients, Ordered(d)',
               requests'[d] = requests[d], replies'[d] = replies[d]
        PROVE  InOrderFor(d)'
    BY <1>2, <1>3, <1>4, <1>5 DEF InOrderFor
  <1>6. ASSUME NEW c \in Clients, SendContents(c), Ordered(c)'
        PROVE  InOrderFor(c)'
    <2>1. PICK contents \in Nat : requests'[c] = Append(requests[c], contents)
      BY <1>6, ContentsAreNumbers DEF SendContents, LineTypes
    <2>2. replies'[c] = replies[c] /\ InOrderFor(c)
      BY <1>3, <1>4, <1>6 DEF SendContents
    <2>3. /\ requests[c] \in Seq(Nat) /\ replies[c] \in Seq(Int \X Nat)
      BY DEF LineTypes
    <2>4. /\ Len(requests'[c]) = Len(requests[c]) + 1
          /\ \A i \in 1 .. Len(requests[c]) : requests'[c][i] = requests[c][i]
      BY <2>1, <2>3
    <2>5. \A i \in 1 .. Len(replies[c]) : i \in 1 .. Len(requests[c])
      BY <2>2, <2>3 DEF InOrderFor
    <2>. QED
      BY <1>2, <2>2, <2>3, <2>4, <2>5 DEF InOrderFor
  <1>7. ASSUME NEW c \in Clients, ReceiveReply(c), Ordered(c)'
        PROVE  InOrderFor(c)'
    <2>1. /\ replies'[c] = Append(replies[c], Head(toClient[c]))
          /\ requests'[c] = requests[c] /\ InOrderFor(c)
          /\ clientPc[c] = "await" /\ toClient[c] # << >>
      BY <1>3, <1>4, <1>7 DEF ReceiveReply, ClientStep, LineTypes
    <2>2. UnderWay(c) /\ Answered(c)
      BY <1>3, <1>7, <2>1, StageOfClient
      DEF LineInv, UnderWay, Written, Received, Complete
    <2>3. /\ replies[c] \in Seq(Int \X Nat) /\ toClient[c] \in Seq(Int \X Nat)
      BY DEF LineTypes
    <2>4. /\ Head(toClient[c]) \in Int \X Nat
          /\ Head(toClient[c])[1] = Expected(requests[c][Len(replies[c]) + 1])
      BY <2>2, <2>3, OneElement, SentType DEF Answered, UnderWay
    <2>5. /\ Len(replies'[c]) = Len(replies[c]) + 1
          /\ replies'[c][Len(replies[c]) + 1] = Head(toClient[c])
          /\ \A i \in 1 .. Len(replies[c]) : replies'[c][i] = replies[c][i]
      BY <2>1, <2>3, <2>4
    <2>6. \A i \in 1 .. Len(replies'[c]) :
             i \in 1 .. Len(replies[c]) \/ i = Len(replies[c]) + 1
      BY <2>3, <2>5
    <2>. QED
      BY <1>2, <2>1, <2>2, <2>4, <2>5, <2>6 DEF InOrderFor, UnderWay
  <1>8. \A d \in Clients : Ordered(d)' => InOrderFor(d)'
    <2>1. CASE UNCHANGED <<requests, replies>>
      BY <1>5, <2>1
    <2>2. ASSUME NEW c \in Clients, SendContents(c) \/ ReceiveReply(c)
          PROVE  \A d \in Clients : Ordered(d)' => InOrderFor(d)'
      <3>1. \A d \in Clients \ {c} : requests'[d] = requests[d] /\ replies'[d] = replies[d]
        BY <2>2 DEF SendContents, ReceiveReply, LineTypes
      <3>. QED
        BY <1>5, <1>6, <1>7, <2>2, <3>1
    <2>. QED
      BY <2>1, <2>2, OnlyTwoSteps
  <1>. QED
    <2>1. RepliesInOrder' <=> \A c \in Clients : Ordered(c)' => InOrderFor(c)'
      BY DEF RepliesInOrder, InOrderFor, Ordered, Expected
    <2>. QED
      BY <1>8, <2>1

LEMMA LineInvInit == Init => LineInv
  <1>. SUFFICES ASSUME Init
                PROVE  LineInv
    OBVIOUS
  <1>. USE DEF Init
  <1>1. LineTypes
    BY DEF LineTypes, None
  <1>2. \A c \in Clients : requests[c] = << >> /\ replies[c] = << >>
    OBVIOUS
  <1>3. FrameInv
    <2>. SUFFICES ASSUME NEW c \in Clients
                  PROVE  Frame(c)
      BY DEF FrameInv
    <2>1. peer[c] = "open" /\ handler[c] = "none" /\ clientPc[c] = "idle" /\ Alone(c)
      BY DEF Alone
    <2>2. CASE program \in Greeting
      BY <1>2, <2>1, <2>2 DEF Frame, AtStart, NoLines
    <2>3. CASE program \notin Greeting
      BY <1>2, <2>1, <2>3 DEF Frame, Quiet, BeforeLine
    <2>. QED
      BY <2>2, <2>3
  <1>4. RepliesInOrder
    BY <1>2 DEF RepliesInOrder
  <1>. QED
    BY <1>1, <1>3, <1>4 DEF LineInv

LEMMA LineInvStep ==
  ASSUME Inv, LineInv, [Next]_vars
  PROVE  LineInv'
  <1>1. LineTypes'
    BY LineTypesStep DEF Inv, Types, LineInv
  <1>. QED
    BY <1>1, FrameStep, RepliesInOrderStep DEF LineInv

\* No line of a client is skipped, answered twice or merged with the next one, for
\* all six servers, however the bytes and the steps of the two ends interleave.
THEOREM RepliesAnswerLines == Spec => []RepliesInOrder
  <1>1. Init => Inv /\ LineInv
    BY InitInv, LineInvInit
  <1>2. (Inv /\ LineInv) /\ [Next]_vars => (Inv /\ LineInv)'
    BY InvStep, LineInvStep
  <1>3. LineInv => RepliesInOrder
    BY DEF LineInv
  <1>. QED
    BY <1>1, <1>2, <1>3, PTL DEF Spec

-----------------------------------------------------------------------------
(* The counts of "resource": one thread at a time at each counter              *)

InCount == {"load", "store", "postResource"}

\* The thread between the two operations on the semaphore of a resource is alone
\* there, and what it has loaded is still what the counter holds.
LockInv ==
  program = "resource" =>
    /\ \A r \in Resources : shared_res_sem[r] \in {0, 1}
    /\ \A c \in Clients :
          /\ handler[c] \in InCount => shared_res_sem[ResourceOf(line[c])] = 0
          /\ handler[c] = "store" =>
                counter_updated[c] = shared_counters[ResourceOf(line[c])] + 1
    /\ \A c, d \in Clients :
          /\ handler[c] \in InCount /\ handler[d] \in InCount
          /\ ResourceOf(line[c]) = ResourceOf(line[d])
          => c = d

AtResource(c) ==
  WaitResource(c) \/ LoadCounter(c) \/ StoreCounter(c) \/ PostResource(c)

\* No other step comes near the counters.
LEMMA OtherSteps ==
  ASSUME Inv, LineTypes, [Next]_vars, \A c \in Clients : ~ AtResource(c)
  PROVE  /\ UNCHANGED <<program, resources>>
         /\ \A d \in Clients : handler'[d] \in InCount =>
               handler'[d] = handler[d] /\ line'[d] = line[d]
  <1>. /\ handler \in [Clients -> Steps] /\ line \in [Clients -> Int]
       /\ program \in Programs
    BY DEF Inv, Types, LineTypes
  <1>. USE DEF InCount, HandlerStep
  <1>1. CASE UNCHANGED vars
    BY <1>1 DEF vars, resources
  <1>2. CASE MainNext
    <2>1. FirstStep \in {"greet", "recv", "waitSlot"}
      BY ServerAssumption DEF FirstStep, Echo
    <2>. QED
      BY <1>2, <2>1 DEF MainNext, Accept, CreateFails, AcceptLast
  <1>3. CASE Signal
    BY <1>3 DEF Signal
  <1>. SUFFICES ASSUME NEW c \in Clients,
                       \/ ConnectionNext(c) \/ ClientNext(c)
                       \/ LeaveLineOpen(c) \/ SendEmpty(c) \/ CloseEarly(c)
                PROVE  /\ UNCHANGED <<program, resources>>
                       /\ \A d \in Clients : handler'[d] \in InCount =>
                             handler'[d] = handler[d] /\ line'[d] = line[d]
    BY <1>1, <1>2, <1>3 DEF Next
  <1>4. CASE Greet(c) \/ Reply(c)
    BY <1>4 DEF Greet, Reply, SendTo
  <1>5. CASE RecvContents(c)
    BY <1>5 DEF RecvContents
  <1>6. CASE EndOfLine(c)
    BY <1>6 DEF EndOfLine, AfterLine
  <1>7. CASE RecvNothing(c) \/ RecvFails(c)
    <2>1. AfterClose(c) \subseteq {"reply", "close"}
      BY DEF AfterClose
    <2>. QED
      BY <1>7, <2>1 DEF RecvNothing, RecvFails, Die
  <1>8. CASE CloseConnection(c) \/ WaitSlot(c) \/ PostSlot(c)
    BY <1>8 DEF CloseConnection, WaitSlot, PostSlot
  <1>9. CASE ResetArrives(c)
    BY <1>9 DEF ResetArrives
  <1>10. CASE \/ ClientNext(c) \/ LeaveLineOpen(c) \/ SendEmpty(c) \/ CloseEarly(c)
    BY <1>10 DEF ClientNext, LineClient, CommandClient, Exchange, Connect, ReceiveWelcome,
       SendContents, SendTerminator, ReceiveReply, Leave, LoseServer, LeaveLineOpen,
       SendEmpty, CloseEarly
  <1>. QED
    BY <1>4, <1>5, <1>6, <1>7, <1>8, <1>9, <1>10
    DEF ConnectionNext, HandlerNext, LineHandler, CommandHandler, Receive, Answer,
        AtResource

\* What the four steps at a resource do to their handler.
LEMMA AtResourceMoves ==
  ASSUME Inv, LineTypes, NEW c \in Clients, AtResource(c)
  PROVE  /\ ResourceOf(line[c]) \in Resources
         /\ \A d \in Clients \ {c} : handler'[d] = handler[d]
         /\ UNCHANGED <<program, line>>
         /\ WaitResource(c) => handler[c] = "wait" /\ handler'[c] = "load"
         /\ LoadCounter(c) => handler[c] = "load" /\ handler'[c] = "store"
         /\ StoreCounter(c) => handler[c] = "store" /\ handler'[c] = "postResource"
         /\ PostResource(c) => handler[c] = "postResource" /\ handler'[c] = "reply"
  <1>. handler \in [Clients -> Steps] /\ line[c] \in Int
    BY DEF Inv, Types, LineTypes
  <1>1. ResourceOf(line[c]) \in Resources
    BY ResourceOfType
  <1>. QED
    BY <1>1 DEF AtResource, WaitResource, LoadCounter, StoreCounter, PostResource,
       HandlerStep

LEMMA LockInvStep ==
  ASSUME Inv, LineTypes, LockInv, [Next]_vars
  PROVE  LockInv'
  <1>. SUFFICES ASSUME program = "resource"
                PROVE  LockInv'
    <2>1. program' = program
      BY OnlyTwoSteps
    <2>. QED
      BY <2>1 DEF LockInv
  <1>. USE DEF LockInv
  <1>1. CASE \A c \in Clients : ~ AtResource(c)
    <2>1. /\ UNCHANGED <<program, shared_res_sem, shared_counters, counter_updated>>
          /\ \A d \in Clients : handler'[d] \in InCount =>
                handler'[d] = handler[d] /\ line'[d] = line[d]
      BY <1>1, OtherSteps DEF resources
    <2>2. \A d \in Clients : handler'[d] \in InCount =>
             ResourceOf(line[d])' = ResourceOf(line[d])
      BY <2>1 DEF ResourceOf
    <2>3. "store" \in InCount
      BY DEF InCount
    <2>. QED
      BY <2>1, <2>2, <2>3
  <1>. SUFFICES ASSUME NEW c \in Clients, AtResource(c)
                PROVE  LockInv'
    BY <1>1
  <1>. DEFINE r == ResourceOf(line[c])
  <1>2. /\ r \in Resources
        /\ \A d \in Clients \ {c} : handler'[d] = handler[d]
        /\ UNCHANGED <<program, line>>
        /\ WaitResource(c) => handler[c] = "wait" /\ handler'[c] = "load"
        /\ LoadCounter(c) => handler[c] = "load" /\ handler'[c] = "store"
        /\ StoreCounter(c) => handler[c] = "store" /\ handler'[c] = "postResource"
        /\ PostResource(c) => handler[c] = "postResource" /\ handler'[c] = "reply"
    BY AtResourceMoves
  <1>3. \A d \in Clients : /\ ResourceOf(line[d])' = ResourceOf(line[d])
                           /\ ResourceOf(line[d]) \in Resources
    BY <1>2, ResourceOfType DEF ResourceOf, LineTypes
  <1>. HIDE DEF r
  <1>4. CASE WaitResource(c)
    <2>1. /\ shared_res_sem[r] > 0
          /\ shared_res_sem' = [shared_res_sem EXCEPT ![r] = @ - 1]
          /\ UNCHANGED <<shared_counters, counter_updated>>
      BY <1>4 DEF WaitResource, r
    <2>2. \A s \in Resources : shared_res_sem'[s] = IF s = r THEN shared_res_sem[r] - 1
                                                    ELSE shared_res_sem[s]
      BY <2>1 DEF LineTypes
    <2>3. shared_res_sem[r] = 1 /\ shared_res_sem'[r] = 0
      BY <1>2, <2>1, <2>2
    <2>4. \A d \in Clients : handler[d] \in InCount => ResourceOf(line[d]) # r
      BY <2>3
    <2>. QED
      BY <1>2, <1>3, <1>4, <2>1, <2>2, <2>3, <2>4 DEF InCount, r
  <1>5. CASE LoadCounter(c)
    <2>1. /\ counter_updated' = [counter_updated EXCEPT ![c] = shared_counters[r] + 1]
          /\ UNCHANGED <<shared_res_sem, shared_counters>>
      BY <1>5 DEF LoadCounter, r
    <2>2. \A d \in Clients : counter_updated'[d] = IF d = c THEN shared_counters[r] + 1
                                                   ELSE counter_updated[d]
      BY <2>1 DEF LineTypes
    <2>. QED
      BY <1>2, <1>3, <1>5, <2>1, <2>2 DEF InCount, r
  <1>6. CASE StoreCounter(c)
    <2>1. /\ shared_counters' = [shared_counters EXCEPT ![r] = counter_updated[c]]
          /\ UNCHANGED <<shared_res_sem, counter_updated>>
      BY <1>6 DEF StoreCounter, r
    <2>2. \A s \in Resources : s # r => shared_counters'[s] = shared_counters[s]
      BY <2>1 DEF LineTypes
    <2>3. \A d \in Clients \ {c} : handler[d] \in InCount => ResourceOf(line[d]) # r
      BY <1>2, <1>6 DEF InCount, r
    <2>. QED
      BY <1>2, <1>3, <1>6, <2>1, <2>2, <2>3 DEF InCount
  <1>7. CASE PostResource(c)
    <2>1. /\ shared_res_sem' = [shared_res_sem EXCEPT ![r] = @ + 1]
          /\ UNCHANGED <<shared_counters, counter_updated>>
      BY <1>7 DEF PostResource, r
    <2>2. \A s \in Resources : shared_res_sem'[s] = IF s = r THEN shared_res_sem[r] + 1
                                                    ELSE shared_res_sem[s]
      BY <2>1 DEF LineTypes
    <2>3. shared_res_sem[r] = 0 /\ shared_res_sem'[r] = 1
      BY <1>2, <1>7, <2>2 DEF InCount, r
    <2>4. \A d \in Clients \ {c} : handler[d] \in InCount => ResourceOf(line[d]) # r
      BY <1>2, <1>7 DEF InCount, r
    <2>. QED
      BY <1>2, <1>3, <1>7, <2>1, <2>2, <2>3, <2>4 DEF InCount
  <1>. QED
    BY <1>4, <1>5, <1>6, <1>7 DEF AtResource

-----------------------------------------------------------------------------
(* No count is told twice *)

\* The count that a client is to be told, or has been: its thread has it, or it is
\* on its way, or it was received.
Pending(c) == handler[c] \in {"postResource", "reply"}
ToldLen(c) ==
  IF Live(c) /\ (Pending(c) \/ toClient[c] # << >>)
  THEN Len(replies[c]) + 1 ELSE Len(replies[c])
Told(c, i) ==
  IF i <= Len(replies[c]) THEN replies[c][i]
  ELSE IF Pending(c) THEN <<ResourceOf(line[c]), counter_updated[c]>>
  ELSE toClient[c][1]

\* Each is one that its counter has had, and a client is told rising counts.
ToldInv ==
  program = "resource" =>
    /\ \A c \in Clients : \A i \in 1 .. ToldLen(c) :
          /\ Told(c, i)[1] \in Resources
          /\ Told(c, i)[2] \in 1 .. shared_counters[Told(c, i)[1]]
    /\ \A c, d \in Clients : \A i \in 1 .. ToldLen(c), k \in 1 .. ToldLen(d) :
          /\ Told(c, i) = Told(d, k) => c = d /\ i = k
          /\ c = d /\ i < k /\ Told(c, i)[1] = Told(d, k)[1] =>
                Told(c, i)[2] < Told(d, k)[2]

\* A client is told no more than before.
SameTold(c) ==
  /\ ToldLen(c)' <= ToldLen(c)
  /\ \A i \in 1 .. ToldLen(c)' : Told(c, i)' = Told(c, i)

LEMMA ToldLenType ==
  ASSUME NEW c \in Clients
  PROVE  /\ LineTypes => ToldLen(c) \in Nat /\ Len(replies[c]) \in Nat
         /\ LineTypes' => ToldLen(c)' \in Nat /\ Len(replies'[c]) \in Nat
  <1>1. LineTypes => Len(replies[c]) \in Nat
    BY DEF LineTypes
  <1>2. LineTypes' => Len(replies'[c]) \in Nat
    BY DEF LineTypes
  <1>. QED
    BY <1>1, <1>2 DEF ToldLen

\* No client is told more, and the counters stand still.
LEMMA ToldKept ==
  ASSUME LineTypes, LineTypes', ToldInv,
         UNCHANGED <<program, shared_counters>>, \A c \in Clients : SameTold(c)
  PROVE  ToldInv'
  <1>. SUFFICES ASSUME program = "resource"
                PROVE  ToldInv'
    BY DEF ToldInv
  <1>1. \A c \in Clients : \A i \in 1 .. ToldLen(c)' :
           i \in 1 .. ToldLen(c) /\ Told(c, i)' = Told(c, i)
    BY ToldLenType DEF SameTold
  <1>. QED
    BY <1>1 DEF ToldInv

\* One client is told the new value of a counter that has gone up by one.
LEMMA ToldGrows ==
  ASSUME LineTypes, LineTypes', ToldInv, program' = program, program = "resource",
         NEW c \in Clients, NEW r \in Resources,
         shared_counters' = [shared_counters EXCEPT ![r] = @ + 1],
         \A d \in Clients \ {c} : SameTold(d),
         ToldLen(c)' \in {ToldLen(c), ToldLen(c) + 1},
         \A i \in 1 .. ToldLen(c) : Told(c, i)' = Told(c, i),
         \A i \in Nat : i = ToldLen(c) + 1 /\ i = ToldLen(c)' =>
            Told(c, i)' = <<r, shared_counters[r] + 1>>
  PROVE  ToldInv'
  <1>1. \A s \in Resources : /\ shared_counters[s] \in Nat
                             /\ shared_counters'[s] = IF s = r THEN shared_counters[r] + 1
                                                      ELSE shared_counters[s]
    BY DEF LineTypes
  <1>2. ToldLen(c) \in Nat /\ ToldLen(c)' \in Nat
    BY ToldLenType
  <1>. DEFINE Old(d, i) == i \in 1 .. ToldLen(d) /\ Told(d, i)' = Told(d, i)
              New(d, i) == /\ d = c /\ i = ToldLen(c) + 1
                           /\ Told(d, i)' = <<r, shared_counters[r] + 1>>
  <1>3. ASSUME NEW d \in Clients, NEW i \in 1 .. ToldLen(d)'
        PROVE  Old(d, i) \/ New(d, i)
    <2>1. CASE d # c
      BY <2>1, ToldLenType DEF SameTold
    <2>2. CASE d = c
      <3>1. \A j \in 1 .. ToldLen(c)' : j \in 1 .. ToldLen(c) \/ j = ToldLen(c) + 1
        BY <1>2
      <3>2. \A j \in 1 .. ToldLen(c)' : Old(c, j) \/ New(c, j)
        BY <1>2, <3>1
      <3>. QED
        BY <2>2, <3>2
    <2>. QED
      BY <2>1, <2>2
  <1>4. \A d \in Clients : \A i : Old(d, i) =>
           /\ Told(d, i)[1] \in Resources
           /\ Told(d, i)[2] \in 1 .. shared_counters[Told(d, i)[1]]
    BY DEF ToldInv
  <1>5. \A d \in Clients : \A i : Old(d, i) =>
           /\ Told(d, i)'[1] \in Resources
           /\ Told(d, i)'[2] \in 1 .. shared_counters'[Told(d, i)'[1]]
           /\ Told(d, i)'[1] = r => Told(d, i)'[2] < shared_counters[r] + 1
    BY <1>1, <1>4
  <1>6. \A d \in Clients : \A i : New(d, i) =>
           /\ Told(d, i)'[1] = r /\ Told(d, i)'[2] = shared_counters[r] + 1
           /\ Told(d, i)'[2] \in 1 .. shared_counters'[r]
    BY <1>1
  <1>7. \A d \in Clients : \A i \in 1 .. ToldLen(d)' :
          /\ Told(d, i)'[1] \in Resources
          /\ Told(d, i)'[2] \in 1 .. shared_counters'[Told(d, i)'[1]]
    BY <1>3, <1>5, <1>6
  <1>8. ASSUME NEW b \in Clients, NEW d \in Clients,
               NEW i \in 1 .. ToldLen(b)', NEW k \in 1 .. ToldLen(d)'
        PROVE  /\ Told(b, i)' = Told(d, k)' => b = d /\ i = k
               /\ b = d /\ i < k /\ Told(b, i)'[1] = Told(d, k)'[1] =>
                     Told(b, i)'[2] < Told(d, k)'[2]
    <2>1. CASE Old(b, i) /\ Old(d, k)
      BY <2>1 DEF ToldInv
    <2>2. CASE Old(b, i) /\ New(d, k)
      BY <1>5, <1>6, <2>2
    <2>3. CASE New(b, i) /\ Old(d, k)
      <3>1. Told(b, i)' # Told(d, k)'
        BY <1>5, <1>6, <2>3
      <3>2. ~ (b = d /\ i < k)
        BY <1>2, <2>3
      <3>. QED
        BY <3>1, <3>2
    <2>4. CASE New(b, i) /\ New(d, k)
      <3>1. b = d /\ i = k /\ ~ i < k
        BY <1>2, <2>4
      <3>. QED
        BY <3>1
    <2>. QED
      BY <1>3, <2>1, <2>2, <2>3, <2>4
  <1>. QED
    BY <1>7, <1>8 DEF ToldInv

\* A step that leaves a connection alone, or ends it, tells its client nothing.
LEMMA ToldUntouched ==
  ASSUME NEW d \in Clients, LineTypes, program' = program, replies'[d] = replies[d],
         \/ ~ Live(d)'
         \/ /\ Live(d) /\ toClient'[d] = toClient[d]
            /\ \/ ~ Pending(d) /\ ~ Pending(d)'
               \/ /\ Pending(d) /\ Pending(d)'
                  /\ line'[d] = line[d] /\ counter_updated'[d] = counter_updated[d]
  PROVE  SameTold(d)
  <1>1. Len(replies[d]) \in Nat /\ Len(replies'[d]) = Len(replies[d])
    BY DEF LineTypes
  <1>2. CASE ~ Live(d)'
    <2>1. ToldLen(d)' = Len(replies[d]) /\ ToldLen(d) >= Len(replies[d])
      BY <1>1, <1>2 DEF ToldLen
    <2>2. \A i \in 1 .. Len(replies[d]) : Told(d, i)' = Told(d, i)
      BY <1>1 DEF Told
    <2>. QED
      BY <1>1, <2>1, <2>2 DEF SameTold, ToldLen
  <1>3. CASE ~ Pending(d) /\ ~ Pending(d)' /\ Live(d) /\ toClient'[d] = toClient[d]
    <2>1. ToldLen(d)' <= ToldLen(d)
      BY <1>1, <1>3 DEF ToldLen
    <2>2. \A i : Told(d, i)' = Told(d, i)
      BY <1>1, <1>3 DEF Told
    <2>. QED
      BY <2>1, <2>2 DEF SameTold
  <1>4. CASE /\ Pending(d) /\ Pending(d)' /\ Live(d) /\ toClient'[d] = toClient[d]
             /\ line'[d] = line[d] /\ counter_updated'[d] = counter_updated[d]
    <2>1. ToldLen(d)' <= ToldLen(d)
      BY <1>1, <1>4 DEF ToldLen
    <2>2. ResourceOf(line[d])' = ResourceOf(line[d])
      BY <1>4 DEF ResourceOf
    <2>3. \A i : Told(d, i)' = Told(d, i)
      BY <1>1, <1>4, <2>2 DEF Told
    <2>. QED
      BY <2>1, <2>3 DEF SameTold
  <1>. QED
    BY <1>2, <1>3, <1>4

\* The reply takes the count from the thread to the connection ...
LEMMA ToldReply ==
  ASSUME LineInv, NEW c \in Clients, handler \in [Clients -> Steps],
         program = "resource", Reply(c)
  PROVE  SameTold(c)
  <1>. DEFINE message == <<ResourceOf(line[c]), counter_updated[c]>>
  <1>1. message \in Int \X Nat
    <2>1. line[c] \in Int /\ counter_updated[c] \in Nat
      BY DEF LineInv, LineTypes
    <2>2. ResourceOf(line[c]) \in Int
      BY <2>1, ResourceOfType
    <2>. QED
      BY <2>1, <2>2
  <1>2. SendTo(c, "reply", "recv", message)
    BY DEF Reply, OneRequest
  <1>. HIDE DEF message
  <1>3. /\ handler[c] = "reply" /\ handler'[c] = "recv"
        /\ UNCHANGED <<program, toServer, clientPc, requests, replies, disorderly>>
        /\ peer[c] = "open" /\ toClient[c] = << >> => toClient'[c] = <<message>>
    BY <1>1, <1>2, SendToFrame
  <1>4. CASE ~ Live(c)'
    BY <1>3, <1>4, ToldUntouched DEF LineInv
  <1>5. CASE Live(c)'
    <2>1. Live(c) /\ Ordered(c)
      BY <1>3, <1>5 DEF Live, Ordered
    <2>2. peer[c] = "open" /\ toClient[c] = << >>
      BY <1>3, <2>1, StageOfClient, StageOfHandler DEF LineInv, Complete
    <2>3. toClient'[c] # << >> /\ toClient'[c][1] = message
      BY <1>3, <2>2, ShortSequences
    <2>4. Pending(c) /\ ~ Pending(c)'
      BY <1>3 DEF Pending
    <2>5. Len(replies[c]) \in Nat
      BY DEF LineInv, LineTypes
    <2>6. ToldLen(c)' <= ToldLen(c)
      BY <1>3, <2>1, <2>3, <2>4, <2>5 DEF ToldLen
    <2>7. \A i : Told(c, i)' = Told(c, i)
      BY <1>3, <2>3, <2>4 DEF Told, message
    <2>. QED
      BY <2>6, <2>7 DEF SameTold
  <1>. QED
    BY <1>4, <1>5

\* ... and the client takes it from there.
LEMMA ToldReceived ==
  ASSUME LineInv, NEW c \in Clients, clientPc \in [Clients -> ClientSteps],
         program = "resource", ReceiveReply(c)
  PROVE  SameTold(c)
  <1>1. /\ clientPc[c] = "await" /\ clientPc'[c] = "ready" /\ toClient[c] # << >>
        /\ toClient'[c] = Tail(toClient[c])
        /\ replies'[c] = Append(replies[c], Head(toClient[c]))
        /\ UNCHANGED <<program, handler>>
    BY DEF ReceiveReply, ClientStep, LineInv, LineTypes
  <1>2. UnderWay(c) /\ Answered(c)
    BY <1>1, StageOfClient
    DEF LineInv, Ordered, UnderWay, Written, Received, Complete
  <1>3. ~ Pending(c) /\ ~ Pending(c)' /\ Live(c)
    BY <1>1, <1>2 DEF Answered, AfterReply, Pending, Live
  <1>4. replies[c] \in Seq(Int \X Nat) /\ toClient[c] \in Seq(Int \X Nat)
    BY DEF LineInv, LineTypes
  <1>5. /\ Head(toClient[c]) \in Int \X Nat /\ Head(toClient[c]) = toClient[c][1]
        /\ toClient'[c] = << >>
    BY <1>1, <1>2, <1>4, OneElement DEF Answered
  <1>6. /\ Len(replies[c]) \in Nat /\ Len(replies'[c]) = Len(replies[c]) + 1
        /\ replies'[c][Len(replies[c]) + 1] = toClient[c][1]
        /\ \A i \in 1 .. Len(replies[c]) : replies'[c][i] = replies[c][i]
    BY <1>1, <1>4, <1>5
  <1>7. ToldLen(c)' = Len(replies[c]) + 1 /\ ToldLen(c) = Len(replies[c]) + 1
    BY <1>1, <1>3, <1>5, <1>6 DEF ToldLen
  <1>8. ASSUME NEW i \in 1 .. Len(replies[c]) + 1
        PROVE  Told(c, i)' = Told(c, i)
    <2>1. i \in 1 .. Len(replies[c]) \/ i = Len(replies[c]) + 1
      BY <1>6
    <2>. QED
      BY <1>3, <1>6, <2>1 DEF Told
  <1>. QED
    BY <1>6, <1>7, <1>8 DEF SameTold

\* A step of one connection touches no other.
ConnectionStep(c) ==
  \/ Accept(c) \/ CreateFails(c) \/ AcceptLast(c)
  \/ ConnectionNext(c) \/ ClientNext(c)
  \/ LeaveLineOpen(c) \/ SendEmpty(c) \/ CloseEarly(c)

LEMMA OthersUntouched ==
  ASSUME Inv, LineTypes, NEW c \in Clients, ConnectionStep(c)
  PROVE  \A d \in Clients \ {c} : Untouched(d) /\ counter_updated'[d] = counter_updated[d]
  <1>. /\ handler \in [Clients -> Steps] /\ clientPc \in [Clients -> ClientSteps]
       /\ line \in [Clients -> Int] /\ counter_updated \in [Clients -> Nat]
       /\ toServer \in [Clients -> Seq(Int)] /\ toClient \in [Clients -> Seq(Int \X Nat)]
       /\ requests \in [Clients -> Seq(Nat)] /\ replies \in [Clients -> Seq(Int \X Nat)]
       /\ peer \in [Clients -> {"open", "fin", "resetting", "reset"}]
    BY DEF Inv, Types, LineTypes, ClientSteps
  <1>. USE DEF Untouched, HandlerStep, ClientStep, queues, resources, clientVars
  <1>1. CASE Accept(c) \/ CreateFails(c) \/ AcceptLast(c)
    BY <1>1 DEF Accept, CreateFails, AcceptLast
  <1>2. CASE Greet(c) \/ Reply(c)
    BY <1>2 DEF Greet, Reply, SendTo
  <1>3. CASE RecvContents(c) \/ EndOfLine(c)
    BY <1>3 DEF RecvContents, EndOfLine
  <1>4. CASE RecvNothing(c) \/ RecvFails(c)
    BY <1>4 DEF RecvNothing, RecvFails, Die
  <1>5. CASE CloseConnection(c) \/ WaitSlot(c) \/ PostSlot(c) \/ ResetArrives(c)
    BY <1>5 DEF CloseConnection, WaitSlot, PostSlot, ResetArrives
  <1>6. CASE AtResource(c)
    BY <1>6 DEF AtResource, WaitResource, LoadCounter, StoreCounter, PostResource
  <1>7. CASE Connect(c) \/ ReceiveWelcome(c) \/ LoseServer(c) \/ LeaveLineOpen(c)
    BY <1>7 DEF Connect, ReceiveWelcome, LoseServer, LeaveLineOpen
  <1>8. CASE SendContents(c)
    BY <1>8 DEF SendContents
  <1>9. CASE SendTerminator(c) \/ SendEmpty(c)
    BY <1>9 DEF SendTerminator, SendEmpty
  <1>10. CASE ReceiveReply(c)
    BY <1>10 DEF ReceiveReply
  <1>11. CASE Leave(c)
    BY <1>11 DEF Leave
  <1>12. CASE CloseEarly(c)
    BY <1>12 DEF CloseEarly
  <1>. QED
    BY <1>1, <1>2, <1>3, <1>4, <1>5, <1>6, <1>7, <1>8, <1>9, <1>10, <1>11, <1>12
    DEF ConnectionStep, ConnectionNext, HandlerNext, LineHandler, CommandHandler, Receive, Answer,
        AtResource, ClientNext, LineClient, CommandClient, Exchange

LEMMA OthersTold ==
  ASSUME Inv, LineTypes, NEW c \in Clients, ConnectionStep(c), program' = program
  PROVE  \A d \in Clients \ {c} : SameTold(d)
  <1>. SUFFICES ASSUME NEW d \in Clients \ {c}
                PROVE  SameTold(d)
    OBVIOUS
  <1>1. Untouched(d) /\ counter_updated'[d] = counter_updated[d]
    BY OthersUntouched
  <1>2. (Live(d)' <=> Live(d)) /\ (Pending(d)' <=> Pending(d))
    BY <1>1 DEF Untouched, Live, Pending
  <1>. QED
    BY <1>1, <1>2, ToldUntouched DEF Untouched

\* Only the store of the new count makes it one that will be told.
LEMMA OwnTold ==
  ASSUME Inv, LineInv, NEW c \in Clients, program = "resource", ConnectionStep(c),
         ~ StoreCounter(c)
  PROVE  SameTold(c)
  <1>. /\ handler \in [Clients -> Steps] /\ clientPc \in [Clients -> ClientSteps]
       /\ LineTypes /\ program \in Programs
    BY DEF Inv, Types, LineInv, ClientSteps
  <1>. USE DEF HandlerStep, ClientStep, clientVars, queues
  <1>0. program' = program
    BY DEF ConnectionStep, Accept, CreateFails, AcceptLast, ConnectionNext, HandlerNext,
       LineHandler, CommandHandler, Receive, Answer, Greet, SendTo, RecvContents,
       EndOfLine, RecvNothing, RecvFails, Die, Reply, CloseConnection, WaitSlot,
       PostSlot, WaitResource, LoadCounter, StoreCounter, PostResource, ResetArrives,
       ClientNext, LineClient, CommandClient, Exchange, Connect, ReceiveWelcome,
       SendContents, SendTerminator, ReceiveReply, Leave, LoseServer, LeaveLineOpen,
       SendEmpty, CloseEarly
  <1>1. ASSUME UNCHANGED <<toClient, clientPc, replies>>, ~ Pending(c), ~ Pending(c)'
        PROVE  SameTold(c)
    <2>1. Live(c)' <=> Live(c)
      BY <1>1 DEF Live
    <2>. QED
      BY <1>0, <1>1, <2>1, ToldUntouched
  <1>2. ASSUME UNCHANGED <<toClient, replies, handler, line, counter_updated>>,
               clientPc[c] \in {"idle", "ready", "terminate"}
        PROVE  SameTold(c)
    <2>1. Live(c) /\ (Pending(c)' <=> Pending(c))
      BY <1>2 DEF Live, Pending
    <2>. QED
      BY <1>0, <1>2, <2>1, ToldUntouched
  <1>3. ASSUME clientPc'[c] \in {"done", "closed", "failed"}, replies' = replies
        PROVE  SameTold(c)
    <2>1. ~ Live(c)'
      BY <1>3 DEF Live
    <2>. QED
      BY <1>0, <1>3, <2>1, ToldUntouched
  <1>4. CASE Accept(c) \/ CreateFails(c) \/ AcceptLast(c)
    <2>1. handler[c] = "none"
      <3>1. /\ backlog \in Seq(Clients) /\ backlog # << >> /\ Head(backlog) = c
        BY <1>4 DEF Accept, CreateFails, AcceptLast, Inv, Types
      <3>2. 1 \in 1 .. Len(backlog) /\ backlog[1] = c
        BY <3>1
      <3>. QED
        BY <3>2 DEF Inv, BacklogInv
    <2>2. FirstStep \in {"greet", "recv", "waitSlot"}
      BY ServerAssumption DEF FirstStep, Echo
    <2>. QED
      BY <1>1, <1>4, <2>1, <2>2 DEF Accept, CreateFails, AcceptLast, Pending
  <1>5. CASE Greet(c)
    <2>1. /\ handler[c] = "greet" /\ UNCHANGED <<clientPc, replies>>
      BY <1>5 DEF Greet, SendTo
    <2>2. ~ Live(c)
      <3>1. ASSUME Live(c)
            PROVE  FALSE
        <4>1. AtStart(c)
          BY <2>1, <3>1, StageOfClient, StageOfHandler DEF LineInv, Ordered
        <4>. QED
          BY <4>1 DEF AtStart, Greeting, Echo
      <3>. QED
        BY <3>1
    <2>. QED
      BY <1>0, <2>1, <2>2, ToldUntouched DEF Live
  <1>6. CASE Reply(c)
    BY <1>6, ToldReply
  <1>7. CASE RecvContents(c)
    BY <1>1, <1>7 DEF RecvContents, Pending
  <1>8. CASE EndOfLine(c)
    BY <1>1, <1>8 DEF EndOfLine, AfterLine, Pending
  <1>9. CASE RecvNothing(c) \/ RecvFails(c)
    <2>1. Die(c, "recv")
      BY <1>9, Zenon DEF RecvNothing, RecvFails, AfterClose
    <2>. QED
      BY <1>1, <2>1 DEF Die, Pending
  <1>10. CASE CloseConnection(c) \/ WaitSlot(c) \/ PostSlot(c)
    BY <1>1, <1>10 DEF CloseConnection, WaitSlot, PostSlot, Pending
  <1>11. CASE ResetArrives(c)
    <2>1. /\ UNCHANGED <<handler, line, resources, toClient, replies, clientPc>>
      BY <1>11 DEF ResetArrives
    <2>2. (Live(c)' <=> Live(c)) /\ (Pending(c)' <=> Pending(c))
      BY <2>1 DEF Live, Pending
    <2>. QED
      BY <1>0, <2>1, <2>2, ToldUntouched DEF resources
  <1>12. CASE WaitResource(c) \/ LoadCounter(c)
    BY <1>1, <1>12 DEF WaitResource, LoadCounter, Pending
  <1>13. CASE PostResource(c)
    <2>1. /\ UNCHANGED <<line, counter_updated, toClient, replies, clientPc>>
          /\ Pending(c) /\ Pending(c)'
      BY <1>13 DEF PostResource, Pending
    <2>2. Live(c)' <=> Live(c)
      BY <2>1 DEF Live
    <2>. QED
      BY <1>0, <2>1, <2>2, ToldUntouched
  <1>14. CASE Connect(c)
    BY <1>2, <1>14 DEF Connect, resources
  <1>15. CASE ReceiveWelcome(c)
    <2>1. clientPc[c] = "welcome" /\ toClient[c] # << >>
      BY <1>15 DEF ReceiveWelcome
    <2>2. AtStart(c) \/ Greeted(c)
      BY <2>1, StageOfClient DEF LineInv, Ordered
    <2>. QED
      BY <2>1, <2>2 DEF AtStart, Greeted, Greeting, Echo
  <1>16. CASE SendContents(c) \/ SendTerminator(c) \/ LeaveLineOpen(c) \/ SendEmpty(c)
    BY <1>2, <1>16 DEF SendContents, SendTerminator, LeaveLineOpen, SendEmpty, resources
  <1>17. CASE ReceiveReply(c)
    BY <1>17, ToldReceived
  <1>18. CASE Leave(c) \/ LoseServer(c) \/ CloseEarly(c)
    BY <1>3, <1>18 DEF Leave, LoseServer, CloseEarly
  <1>. QED
    BY <1>4, <1>5, <1>6, <1>7, <1>8, <1>9, <1>10, <1>11, <1>12, <1>13, <1>14, <1>15,
       <1>16, <1>17, <1>18
    DEF ConnectionStep, ConnectionNext, HandlerNext, LineHandler, CommandHandler, Receive, Answer,
        ClientNext, LineClient, CommandClient, Exchange

\* The count that a thread stores is one more than any that was told.
LEMMA StoreTold ==
  ASSUME Inv, LineInv, LineTypes', LockInv, ToldInv, NEW c \in Clients,
         program = "resource", StoreCounter(c)
  PROVE  ToldInv'
  <1>. DEFINE r == ResourceOf(line[c])
  <1>. /\ handler \in [Clients -> Steps] /\ LineTypes
    BY DEF Inv, Types, LineInv
  <1>1. /\ handler[c] = "store" /\ handler'[c] = "postResource" /\ r \in Resources
        /\ counter_updated[c] = shared_counters[r] + 1
    BY AtResourceMoves DEF AtResource, LockInv, InCount
  <1>2. /\ shared_counters' = [shared_counters EXCEPT ![r] = counter_updated[c]]
        /\ UNCHANGED <<program, line, counter_updated, toClient, clientPc, replies>>
    BY DEF StoreCounter, clientVars, queues
  <1>3. ResourceOf(line[c])' = r
    BY <1>2 DEF ResourceOf
  <1>. HIDE DEF r
  <1>4. shared_counters' = [shared_counters EXCEPT ![r] = @ + 1]
    BY <1>1, <1>2
  <1>5. \A d \in Clients \ {c} : SameTold(d)
    BY <1>2, OthersTold
    DEF ConnectionStep, ConnectionNext, HandlerNext
  <1>6. ~ Pending(c) /\ Pending(c)' /\ (Live(c)' <=> Live(c))
    BY <1>1, <1>2 DEF Pending, Live
  <1>7. Len(replies[c]) \in Nat /\ Len(replies'[c]) = Len(replies[c])
    BY <1>2 DEF LineTypes
  <1>8. CASE ~ Live(c)
    <2>1. ToldLen(c) = Len(replies[c]) /\ ToldLen(c)' = Len(replies[c])
      BY <1>6, <1>7, <1>8 DEF ToldLen
    <2>2. \A i \in 1 .. ToldLen(c) : Told(c, i)' = Told(c, i)
      BY <1>2, <1>7, <2>1 DEF Told
    <2>3. ToldLen(c)' = ToldLen(c) /\ ToldLen(c) # ToldLen(c) + 1
      BY <1>7, <2>1
    <2>. QED
      BY <1>1, <1>2, <1>4, <1>5, <2>2, <2>3, ToldGrows
  <1>9. CASE Live(c)
    <2>1. toClient[c] = << >>
      BY <1>1, <1>9, StageOfClient, StageOfHandler DEF LineInv, Ordered, Complete
    <2>2. ToldLen(c) = Len(replies[c]) /\ ToldLen(c)' = Len(replies[c]) + 1
      BY <1>6, <1>7, <1>9, <2>1 DEF ToldLen
    <2>3. \A i \in 1 .. ToldLen(c) : Told(c, i)' = Told(c, i)
      BY <1>2, <1>7, <2>2 DEF Told
    <2>4. \A i \in Nat : i = ToldLen(c) + 1 =>
             Told(c, i)' = <<r, shared_counters[r] + 1>>
      BY <1>1, <1>2, <1>3, <1>6, <1>7, <2>2 DEF Told
    <2>. QED
      BY <1>1, <1>2, <1>4, <1>5, <2>2, <2>3, <2>4, ToldGrows
  <1>. QED
    BY <1>8, <1>9

LEMMA ToldInvStep ==
  ASSUME Inv, LineInv, LineTypes', LockInv, ToldInv, [Next]_vars
  PROVE  ToldInv'
  <1>. LineTypes /\ program' = program
    BY OnlyTwoSteps DEF LineInv
  <1>. SUFFICES ASSUME program = "resource"
                PROVE  ToldInv'
    BY DEF ToldInv
  <1>1. CASE UNCHANGED vars
    <2>1. \A d \in Clients : SameTold(d)
      <3>. SUFFICES ASSUME NEW d \in Clients
                    PROVE  SameTold(d)
        OBVIOUS
      <3>1. UNCHANGED <<handler, line, toClient, clientPc, replies, counter_updated>>
        BY <1>1 DEF vars, queues, resources, clientVars
      <3>2. (Live(d)' <=> Live(d)) /\ (Pending(d)' <=> Pending(d))
        BY <3>1 DEF Live, Pending
      <3>. QED
        BY <3>1, <3>2, ToldUntouched
    <2>. QED
      BY <1>1, <2>1, ToldKept DEF vars, resources
  <1>2. ~ Signal
    BY DEF Signal
  <1>3. ASSUME NEW c \in Clients, ConnectionStep(c)
        PROVE  ToldInv'
    <2>1. CASE StoreCounter(c)
      BY <2>1, StoreTold
    <2>2. CASE ~ StoreCounter(c)
      <3>1. shared_counters' = shared_counters
        BY <1>3, <2>2
        DEF ConnectionStep, Accept, CreateFails, AcceptLast, ConnectionNext, HandlerNext,
            LineHandler, CommandHandler, Receive, Answer, Greet, SendTo, RecvContents,
            EndOfLine, RecvNothing, RecvFails, Die, Reply, CloseConnection, WaitSlot,
            PostSlot, WaitResource, LoadCounter, PostResource, ResetArrives,
            ClientNext, LineClient, CommandClient, Exchange, Connect, ReceiveWelcome,
            SendContents, SendTerminator, ReceiveReply, Leave, LoseServer, LeaveLineOpen,
            SendEmpty, CloseEarly, resources
      <3>. QED
        BY <1>3, <2>2, <3>1, OwnTold, OthersTold, ToldKept
    <2>. QED
      BY <2>1, <2>2
  <1>. QED
    BY <1>1, <1>2, <1>3 DEF Next, MainNext, ConnectionStep

LEMMA CountInvInit == Init => LockInv /\ ToldInv
  <1>. SUFFICES ASSUME Init
                PROVE  LockInv /\ ToldInv
    OBVIOUS
  <1>1. LockInv
    BY DEF Init, LockInv, InCount
  <1>2. \A c \in Clients : ToldLen(c) = 0
    BY DEF Init, ToldLen, Pending
  <1>3. ToldInv
    BY <1>2 DEF ToldInv
  <1>. QED
    BY <1>1, <1>3

\* What clients have received are counts they were told.
LEMMA ToldEnough ==
  ASSUME LineTypes, ToldInv
  PROVE  CountsHandedOutOnce
  <1>. SUFFICES ASSUME program = "resource", NEW a \in Answers, NEW b \in Answers
                PROVE  LET x == replies[a[1]][a[2]]
                           y == replies[b[1]][b[2]]
                       IN  /\ x[2] \in 1 .. shared_counters[x[1]]
                           /\ a # b => x # y
                           /\ a[1] = b[1] /\ a[2] < b[2] /\ x[1] = y[1] => x[2] < y[2]
    BY DEF CountsHandedOutOnce
  <1>1. \A e \in Answers : /\ e[1] \in Clients /\ e[2] \in 1 .. ToldLen(e[1])
                           /\ Told(e[1], e[2]) = replies[e[1]][e[2]]
    <2>. SUFFICES ASSUME NEW e \in Answers
                  PROVE  /\ e[1] \in Clients /\ e[2] \in 1 .. ToldLen(e[1])
                         /\ Told(e[1], e[2]) = replies[e[1]][e[2]]
      OBVIOUS
    <2>1. /\ e[1] \in Clients /\ e[2] \in 1 .. MaxRequests[program]
          /\ e[2] <= Len(replies[e[1]])
      BY DEF Answers
    <2>2. Len(replies[e[1]]) \in Nat
      BY <2>1 DEF LineTypes
    <2>3. ToldLen(e[1]) >= Len(replies[e[1]]) /\ ToldLen(e[1]) \in Nat
      BY <2>2 DEF ToldLen
    <2>. QED
      BY <2>1, <2>2, <2>3 DEF Told
  <1>2. a # b => a[1] # b[1] \/ a[2] # b[2]
    BY DEF Answers
  <1>. QED
    BY <1>1, <1>2 DEF ToldInv

\* No addition to a counter of "resource" is lost when threads meet there: each count is
\* told once, and to one client.
THEOREM CountsOnce == Spec => []CountsHandedOutOnce
  <1>. DEFINE I == Inv /\ LineInv /\ LockInv /\ ToldInv
  <1>1. Init => I
    BY InitInv, LineInvInit, CountInvInit
  <1>2. I /\ [Next]_vars => I'
    <2>. SUFFICES ASSUME I, [Next]_vars
                  PROVE  I'
      OBVIOUS
    <2>1. Inv' /\ LineInv'
      BY InvStep, LineInvStep
    <2>2. LockInv'
      BY LockInvStep DEF LineInv
    <2>3. ToldInv'
      BY <2>1, ToldInvStep DEF LineInv
    <2>. QED
      BY <2>1, <2>2, <2>3
  <1>3. I => CountsHandedOutOnce
    BY ToldEnough DEF LineInv
  <1>. HIDE DEF I
  <1>. QED
    BY <1>1, <1>2, <1>3, PTL DEF Spec
=============================================================================
