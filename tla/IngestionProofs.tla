-------------------------- MODULE IngestionProofs --------------------------
(***************************************************************************)
(* Proofs about Ingestion, for every set of events and messages: type      *)
(* correctness and the three invariants about what the stores hold.        *)
(***************************************************************************)
EXTENDS Ingestion, FoldTheorems, SequenceTheorems

(***************************************************************************)
(* The inductive invariant, one part per question.                         *)
(***************************************************************************)
\* How many messages were received, or lost with a process.
Received == Len(sent) - Len(queue)

\* The messages that wait are the last ones; the batch in hand came before them.
QueueInv ==
    /\ Received \in Nat
    /\ \A j \in DOMAIN queue : queue[j] = Received + j
    /\ at # NoEvent => at[1] = Received

\* An event that was sent.
IsEvent(id) ==
    /\ id \in EventIds /\ id[1] \in 1..Len(sent)
    /\ sent[id[1]] # Garbage /\ id[2] \in DOMAIN sent[id[1]]

\* The event in hand is one of the batch, and of the type its step is for.
StepInv ==
    /\ at # NoEvent => IsEvent(at)
    /\ step = "order" => Event.type \in {"execution", "order_update"}
    /\ step \in {"position", "execution"} => Event.type = "execution"
    /\ step = "log" => Event.type = "log"
    /\ step = "signal" => Event.type = "signal"
    /\ step = "unknown" => Event.type = "other"

\* What the tables hold is past.
HistoryInv == \A t \in Tables : Recorded(t) \subseteq Past

\* All executions of a position were complete and none was hit by a fault.
Clean(b) == \A id \in ExecutionsOf(b) : /\ id \notin disturbed.events
                                        /\ PositionAccepts(EventAt(id))
                                        /\ ExecutionAccepts(EventAt(id))

\* The executions QuestDB holds for a position, and their sum.
RowsOf(b) == {id \in Recorded("executions") : EventAt(id).book = b}
Total(b) == LET signed(id) == Signed(EventAt(id)) IN MapThenSumSet(signed, RowsOf(b))

\* Between the two writes of an execution the position is one event ahead.
IsAhead(b) == step = "execution" /\ Event.book = b
Agrees(b) ==
    IF IsAhead(b)
    THEN at \notin disturbed.events /\ PositionAccepts(Event) =>
            positions[b] = Total(b) + Signed(Event)
    ELSE positions[b] = Total(b)

PositionInv == \A b \in Books : Clean(b) => Agrees(b)

\* The row of an order shows the event in hand once it is written, and else the
\* last of the events that are past.
Shows(o, id) == orders[o] # NoOrder /\ orders[o].status = StatusOf(EventAt(id))
IsWritten(o) == step \in {"position", "execution"} /\ Event.order = o
CleanOrder(o) ==
    \A id \in UpdatesOf(o) : id \notin disturbed.events /\ OrderAccepts(EventAt(id))
ShowsLast(o) ==
    \E last \in UpdatesOf(o) :
       /\ \A id \in UpdatesOf(o) : id = last \/ Before(id, last)
       /\ Shows(o, last)

OrderInv ==
    \A o \in Orders :
       IF IsWritten(o)
       THEN at \notin disturbed.events /\ OrderAccepts(Event) => Shows(o, at)
       ELSE UpdatesOf(o) # {} /\ CleanOrder(o) => ShowsLast(o)

-----------------------------------------------------------------------------
(* The loop: what is sent, what waits, and the event in hand.              *)

LoopInv ==
    /\ sent \in Seq(Messages) /\ Len(sent) <= MaxSent
    /\ queue \in Seq(1..Len(sent))
    /\ at = NoEvent \/ (at[1] \in 1..Len(sent) /\ at[2] \in DOMAIN sent[at[1]])
    /\ step \in {"recv", "down"} <=> at = NoEvent
    /\ step \in {"recv", "down", "order", "position", "execution", "log", "signal", "unknown"}
    /\ QueueInv
    /\ StepInv

StoresInv ==
    /\ orders \in [Orders -> OrderRow \cup {NoOrder}]
    /\ positions \in [Books -> Int]
    /\ history \in [Tables -> Seq(EventIds)]
    /\ disturbed.events \subseteq EventIds
    /\ disturbed.faults \in 0..MaxFaults

\* The numbers of messages are numbers.
LEMMA Lengths ==
    ASSUME LoopInv
    PROVE  /\ Len(sent) \in Nat /\ DOMAIN sent = 1..Len(sent)
           /\ Len(queue) \in Nat /\ DOMAIN queue = 1..Len(queue)
           /\ Received \in Nat /\ Received <= Len(sent) /\ Len(sent) = Received + Len(queue)
<1>1. sent \in Seq(Messages) /\ queue \in Seq(1..Len(sent))
  BY DEF LoopInv
<1>2. Len(sent) \in Nat /\ DOMAIN sent = 1..Len(sent)
  BY <1>1
<1>3. Len(queue) \in Nat /\ DOMAIN queue = 1..Len(queue)
  BY <1>1
<1>4. Received \in Nat /\ Received <= Len(sent) /\ Len(sent) = Received + Len(queue)
  BY <1>2, <1>3 DEF LoopInv, QueueInv, Received
<1>5. QED BY <1>2, <1>3, <1>4

LEMMA BatchType ==
    ASSUME LoopInv, NEW n \in 1..Len(sent), sent[n] # Garbage
    PROVE  /\ sent[n] \in Seq(Events) /\ Len(sent[n]) \in Nat
           /\ DOMAIN sent[n] = 1..Len(sent[n])
           /\ n \in 1..MaxSent
<1>1. sent[n] \in Messages
  BY DEF LoopInv
<1>2. sent[n] \in Seq(Events)
  BY <1>1, IngestionAssumption
<1>3. n \in 1..MaxSent
  BY Lengths, IngestionAssumption DEF LoopInv
<1>4. QED BY <1>2, <1>3

LEMMA EventType ==
    ASSUME LoopInv, NEW id, IsEvent(id)
    PROVE  /\ EventAt(id) \in Events /\ id = <<id[1], id[2]>>
           /\ id[1] \in 1..Len(sent) /\ id[2] \in 1..Len(sent[id[1]]) /\ id[2] \in Nat
           /\ id \in EventIds /\ id # NoEvent
<1>1. /\ id[1] \in 1..Len(sent) /\ sent[id[1]] # Garbage /\ id[2] \in DOMAIN sent[id[1]]
      /\ id \in EventIds
  BY DEF IsEvent
<1>2. /\ sent[id[1]] \in Seq(Events) /\ Len(sent[id[1]]) \in Nat
      /\ DOMAIN sent[id[1]] = 1..Len(sent[id[1]])
  BY <1>1, BatchType
<1>3. sent[id[1]][id[2]] \in Events
  BY <1>1, <1>2
<1>4. id = <<id[1], id[2]>>
  BY <1>1 DEF EventIds
<1>5. id # NoEvent
  BY <1>1, Lengths DEF NoEvent
<1>6. QED BY <1>1, <1>2, <1>3, <1>4, <1>5 DEF EventAt

\* Where Take leads: to the event, or, past the end of the batch, to the socket.
LEMMA TakeEvent ==
    ASSUME LoopInv, NEW n \in 1..Len(sent), sent[n] # Garbage, NEW i \in Nat \ {0}, Take(n, i)
    PROVE  \/ /\ at' = <<n, i>> /\ i <= Len(sent[n]) /\ IsEvent(<<n, i>>)
              /\ step' = FirstStep(EventAt(<<n, i>>).type)
              /\ step' \in {"order", "log", "signal", "unknown"}
              /\ step' = "order" => EventAt(<<n, i>>).type \in {"execution", "order_update"}
              /\ step' = "log" => EventAt(<<n, i>>).type = "log"
              /\ step' = "signal" => EventAt(<<n, i>>).type = "signal"
              /\ step' = "unknown" => EventAt(<<n, i>>).type = "other"
           \/ at' = NoEvent /\ i > Len(sent[n]) /\ step' = "recv"
<1>1. /\ sent[n] \in Seq(Events) /\ Len(sent[n]) \in Nat /\ n \in 1..MaxSent
      /\ DOMAIN sent[n] = 1..Len(sent[n])
  BY BatchType
<1>2. CASE i <= Len(sent[n])
  <2>1. i \in DOMAIN sent[n]
    BY <1>1, <1>2
  <2>2. IsEvent(<<n, i>>)
    BY <1>1, <2>1 DEF IsEvent, EventIds
  <2>3. sent[n][i] \in Events /\ EventAt(<<n, i>>) = sent[n][i]
    BY <1>1, <2>1 DEF EventAt
  <2>4. sent[n][i].type \in {"execution", "order_update", "log", "signal", "other"}
    BY <2>3, IngestionAssumption DEF Types
  <2>5. at' = <<n, i>> /\ step' = FirstStep(sent[n][i].type)
    BY <1>2 DEF Take
  <2>6. QED BY <1>2, <2>2, <2>3, <2>4, <2>5 DEF FirstStep
<1>3. CASE ~(i <= Len(sent[n]))
  BY <1>1, <1>3 DEF Take
<1>4. QED BY <1>2, <1>3

-----------------------------------------------------------------------------
(* The kinds of steps.                                                     *)

\* The event in hand is done with: the loop takes the next one.
Advances == at # NoEvent /\ NextEvent /\ UNCHANGED <<sent, queue>>

\* An execution goes on to its next store.
GoesOn ==
    /\ UNCHANGED <<sent, queue, at>>
    /\ \/ step = "order" /\ Event.type = "execution" /\ step' = "position"
       \/ step = "position" /\ step' = "execution"

LEMMA WorkKinds ==
    ASSUME LoopInv,
           \/ IgnoreEvent \/ UpdateOrder \/ UpdatePosition
           \/ InsertExecution \/ InsertLog \/ InsertSignal
           \/ OrderFails \/ PositionFails \/ HistoryFails
    PROVE  Advances \/ GoesOn
<1>1. step \in {"order", "position", "execution", "log", "signal", "unknown"} => at # NoEvent
  BY DEF LoopInv
<1>2. CASE IgnoreEvent \/ InsertExecution \/ InsertLog \/ InsertSignal \/ HistoryFails
  BY <1>1, <1>2 DEF IgnoreEvent, InsertExecution, InsertLog, InsertSignal, HistoryFails, Advances
<1>3. CASE UpdateOrder \/ OrderFails
  BY <1>1, <1>3 DEF UpdateOrder, OrderFails, AfterOrder, Advances, GoesOn
<1>4. CASE UpdatePosition \/ PositionFails
  BY <1>1, <1>4 DEF UpdatePosition, PositionFails, GoesOn
<1>5. QED BY <1>2, <1>3, <1>4

\* The next event of the batch, or the end of it.
LEMMA AdvanceEvent ==
    ASSUME LoopInv, Advances
    PROVE  \/ /\ at' = <<at[1], at[2] + 1>> /\ at[2] + 1 <= Len(sent[at[1]]) /\ IsEvent(at')
              /\ step' = FirstStep(EventAt(at').type)
              /\ step' \in {"order", "log", "signal", "unknown"}
              /\ step' = "order" => EventAt(at').type \in {"execution", "order_update"}
              /\ step' = "log" => EventAt(at').type = "log"
              /\ step' = "signal" => EventAt(at').type = "signal"
              /\ step' = "unknown" => EventAt(at').type = "other"
           \/ at' = NoEvent /\ at[2] + 1 > Len(sent[at[1]]) /\ step' = "recv"
<1>1. IsEvent(at)
  BY DEF LoopInv, StepInv, Advances
<1>2. at[1] \in 1..Len(sent) /\ at[2] \in Nat /\ sent[at[1]] # Garbage
  BY <1>1, EventType DEF IsEvent
<1>3. at[2] + 1 \in Nat \ {0}
  BY <1>2
<1>4. Take(at[1], at[2] + 1)
  BY DEF Advances, NextEvent
<1>5. QED BY <1>2, <1>3, <1>4, TakeEvent

LEMMA SendStep ==
    ASSUME LoopInv, NEW m \in Messages, Send(m)
    PROVE  /\ LoopInv'
           /\ \A n \in 1..Len(sent) : sent'[n] = sent[n]
           /\ Received' = Received /\ Len(sent)' = Len(sent) + 1
<1>1. /\ sent \in Seq(Messages) /\ queue \in Seq(1..Len(sent))
      /\ Len(sent) \in Nat /\ Len(queue) \in Nat /\ MaxSent \in Nat
      /\ DOMAIN queue = 1..Len(queue)
  BY Lengths, IngestionAssumption DEF LoopInv
<1>2. /\ sent' \in Seq(Messages) /\ Len(sent') = Len(sent) + 1
      /\ \A n \in 1..Len(sent) : sent'[n] = sent[n]
  BY <1>1, AppendProperties DEF Send
<1>3. /\ Len(queue') = Len(queue) + 1
      /\ \A j \in 1..Len(queue) : queue'[j] = queue[j]
      /\ queue'[Len(queue) + 1] = Len(sent) + 1
      /\ DOMAIN queue' = 1..(Len(queue) + 1)
  BY <1>1, AppendProperties DEF Send
<1>4. queue' \in Seq(1..Len(sent'))
  <2>1. queue \in Seq(1..(Len(sent) + 1))
    <3>1. \A j \in 1..Len(queue) : queue[j] \in 1..(Len(sent) + 1)
      <4>1. \A j \in 1..Len(queue) : queue[j] \in 1..Len(sent)
        BY <1>1
      <4>2. QED BY <1>1, <4>1
    <3>2. QED BY <1>1, <3>1
  <2>2. Len(sent) + 1 \in 1..(Len(sent) + 1)
    BY <1>1
  <2>3. QED BY <1>2, <2>1, <2>2, AppendProperties DEF Send
<1>5. Received' = Received /\ Received \in Nat
  BY <1>1, <1>2, <1>3, Lengths DEF Received
<1>6. UNCHANGED <<at, step>> /\ Len(sent') <= MaxSent
  BY <1>1, <1>2 DEF Send
<1>7. QueueInv'
  <2>1. \A j \in DOMAIN queue' : queue'[j] = Received + j
    <3>1. \A j \in 1..Len(queue) : queue[j] = Received + j
      BY <1>1 DEF LoopInv, QueueInv
    <3>2. Len(sent) + 1 = Received + (Len(queue) + 1)
      BY <1>1 DEF Received
    <3>3. ASSUME NEW j \in 1..(Len(queue) + 1) PROVE queue'[j] = Received + j
      <4>1. CASE j \in 1..Len(queue)
        BY <1>3, <3>1, <4>1
      <4>2. CASE j \notin 1..Len(queue)
        <5>1. j = Len(queue) + 1
          BY <1>1, <4>2
        <5>2. QED BY <1>3, <3>2, <5>1
      <4>3. QED BY <4>1, <4>2
    <3>4. QED BY <1>3, <3>3
  <2>2. QED BY <1>5, <1>6, <2>1 DEF LoopInv, QueueInv
<1>8. ASSUME at # NoEvent
      PROVE  /\ sent'[at[1]] = sent[at[1]] /\ at[1] \in 1..Len(sent')
             /\ IsEvent(at) /\ IsEvent(at)' /\ Event' = Event
  <2>1. IsEvent(at) /\ at[1] \in 1..Len(sent)
    BY <1>8 DEF LoopInv, StepInv, IsEvent
  <2>2. sent'[at[1]] = sent[at[1]] /\ at[1] \in 1..Len(sent')
    BY <1>1, <1>2, <2>1
  <2>3. QED BY <1>6, <2>1, <2>2 DEF IsEvent, Event, EventAt
<1>9. StepInv'
  BY <1>6, <1>8 DEF LoopInv, StepInv
<1>10. at' = NoEvent \/ (at'[1] \in 1..Len(sent') /\ at'[2] \in DOMAIN sent'[at'[1]])
  BY <1>6, <1>8 DEF IsEvent
<1>11. QED BY <1>2, <1>4, <1>5, <1>6, <1>7, <1>9, <1>10 DEF LoopInv

LEMMA ReceiveStep ==
    ASSUME LoopInv, Receive
    PROVE  /\ LoopInv' /\ at = NoEvent /\ UNCHANGED sent /\ Received' = Received + 1
           /\ \/ at' = NoEvent /\ Len(sent[Received + 1]) = 0
              \/ at' = <<Received + 1, 1>> /\ IsEvent(at') /\ step' # "execution"
           /\ step' \notin {"position", "execution"}
           /\ Received + 1 \in 1..Len(sent)
<1>1. /\ queue \in Seq(1..Len(sent)) /\ queue # <<>> /\ at = NoEvent /\ UNCHANGED sent
      /\ queue' = Tail(queue)
  BY DEF LoopInv, Receive
<1>2. /\ Len(sent) \in Nat /\ Len(queue) \in Nat /\ DOMAIN queue = 1..Len(queue)
      /\ Received \in Nat /\ Len(sent) = Received + Len(queue)
  BY Lengths
<1>3. Len(queue) # 0 /\ Head(queue) = queue[1]
  BY <1>1
<1>4. Head(queue) = Received + 1 /\ Received + 1 \in 1..Len(sent)
  BY <1>2, <1>3 DEF LoopInv, QueueInv
<1>5. /\ queue' \in Seq(1..Len(sent)) /\ Len(queue') = Len(queue) - 1
      /\ \A j \in 1..(Len(queue) - 1) : queue'[j] = queue[j + 1]
      /\ DOMAIN queue' = 1..(Len(queue) - 1)
  <2>1. queue' \in Seq(1..Len(sent)) /\ Len(queue') = Len(queue) - 1
    BY <1>1, HeadTailProperties
  <2>2. \A j \in 1..(Len(queue) - 1) : queue'[j] = queue[j + 1]
    BY <1>1, HeadTailProperties
  <2>3. DOMAIN queue' = 1..Len(queue')
    BY <2>1, LenProperties
  <2>4. QED BY <2>1, <2>2, <2>3
<1>6. Received' = Received + 1
  BY <1>1, <1>2, <1>5 DEF Received
<1>7. \A j \in DOMAIN queue' : queue'[j] = (Received + 1) + j
  <2>1. \A j \in 1..Len(queue) : queue[j] = Received + j
    BY <1>2 DEF LoopInv, QueueInv
  <2>2. ASSUME NEW j \in 1..(Len(queue) - 1)
        PROVE  queue'[j] = (Received + 1) + j
    <3>1. j + 1 \in 1..Len(queue) /\ j \in Nat
      BY <1>2
    <3>2. queue'[j] = Received + (j + 1)
      BY <1>5, <2>1, <3>1
    <3>3. QED BY <1>2, <3>1, <3>2
  <2>3. QED BY <1>5, <2>2
<1>8. sent[Received + 1] # Garbage
  BY <1>4 DEF Receive
<1>9. CASE sent[Received + 1] # Garbage
  <2>1. Take(Received + 1, 1)
    BY <1>4, <1>9 DEF Receive
  <2>2. 1 \in Nat \ {0}
    OBVIOUS
  <2>3. CASE at' = <<Received + 1, 1>>
    <3>1. /\ IsEvent(at') /\ at' # NoEvent
          /\ step' \in {"order", "log", "signal", "unknown"}
          /\ step' = "order" => EventAt(at').type \in {"execution", "order_update"}
          /\ step' = "log" => EventAt(at').type = "log"
          /\ step' = "signal" => EventAt(at').type = "signal"
          /\ step' = "unknown" => EventAt(at').type = "other"
      <4>1. at' # NoEvent
        BY <1>2, <2>3 DEF NoEvent
      <4>2. QED BY <1>4, <1>9, <2>1, <2>2, <2>3, <4>1, TakeEvent
    <3>2. IsEvent(at)' /\ Event' = EventAt(at')
      BY <1>1, <3>1 DEF IsEvent, Event, EventAt
    <3>3. QueueInv'
      BY <1>2, <1>6, <1>7, <2>3 DEF QueueInv
    <3>4. StepInv'
      BY <3>1, <3>2 DEF StepInv
    <3>5. at'[1] \in 1..Len(sent') /\ at'[2] \in DOMAIN sent'[at'[1]]
      BY <1>1, <3>1 DEF IsEvent
    <3>6. LoopInv'
      BY <1>1, <1>5, <3>1, <3>3, <3>4, <3>5 DEF LoopInv
    <3>7. QED BY <1>1, <1>4, <1>6, <2>3, <3>1, <3>6
  <2>4. CASE at' # <<Received + 1, 1>>
    <3>1. at' = NoEvent /\ step' = "recv" /\ 1 > Len(sent[Received + 1])
      BY <1>4, <1>9, <2>1, <2>2, <2>4, TakeEvent
    <3>2. QueueInv' /\ StepInv'
      BY <1>2, <1>6, <1>7, <3>1 DEF QueueInv, StepInv
    <3>3. LoopInv'
      BY <1>1, <1>5, <3>1, <3>2 DEF LoopInv
    <3>4. Len(sent[Received + 1]) = 0
      BY <1>4, <1>9, <3>1, BatchType
    <3>5. QED BY <1>1, <1>4, <1>6, <3>1, <3>3, <3>4
  <2>5. QED BY <2>3, <2>4
<1>10. QED BY <1>8, <1>9

LEMMA AdvanceStep ==
    ASSUME LoopInv, Advances
    PROVE  LoopInv'
<1>1. at # NoEvent /\ UNCHANGED <<sent, queue>> /\ IsEvent(at)
  BY DEF LoopInv, StepInv, Advances
<1>2. at[1] = Received /\ Received' = Received
  BY <1>1 DEF LoopInv, QueueInv, Received
<1>3. CASE at' = NoEvent /\ step' = "recv"
  BY <1>1, <1>2, <1>3 DEF LoopInv, QueueInv, StepInv
<1>4. CASE /\ at' = <<at[1], at[2] + 1>> /\ IsEvent(at')
           /\ step' \in {"order", "log", "signal", "unknown"}
           /\ step' = "order" => EventAt(at').type \in {"execution", "order_update"}
           /\ step' = "log" => EventAt(at').type = "log"
           /\ step' = "signal" => EventAt(at').type = "signal"
           /\ step' = "unknown" => EventAt(at').type = "other"
  <2>1. at' # NoEvent
    BY <1>4, EventType
  <2>2. IsEvent(at)' /\ Event' = EventAt(at')
    BY <1>1, <1>4 DEF IsEvent, Event, EventAt
  <2>3. QueueInv' /\ StepInv'
    BY <1>1, <1>2, <1>4, <2>1, <2>2 DEF LoopInv, QueueInv, StepInv
  <2>4. at'[1] \in 1..Len(sent') /\ at'[2] \in DOMAIN sent'[at'[1]]
    BY <1>1, <1>4 DEF IsEvent
  <2>5. QED BY <1>1, <1>4, <2>1, <2>3, <2>4 DEF LoopInv
<1>5. QED BY <1>3, <1>4, AdvanceEvent

LEMMA GoOnStep ==
    ASSUME LoopInv, GoesOn
    PROVE  LoopInv' /\ at # NoEvent
<1>1. UNCHANGED <<sent, queue, at>> /\ at # NoEvent /\ step' \in {"position", "execution"}
  BY DEF LoopInv, GoesOn
<1>2. Event.type = "execution" /\ Event' = Event
  BY <1>1 DEF GoesOn, LoopInv, StepInv, Event, EventAt
<1>3. QueueInv'
  BY <1>1 DEF LoopInv, QueueInv, Received
<1>4. StepInv'
  BY <1>1, <1>2 DEF LoopInv, StepInv, IsEvent
<1>5. QED BY <1>1, <1>3, <1>4 DEF LoopInv

\* The process ends, by a fault or by garbage.
Ends == Crash \/ ReceiveGarbage

LEMMA EndStep ==
    ASSUME LoopInv, Ends
    PROVE  /\ LoopInv' /\ at' = NoEvent /\ UNCHANGED <<sent, stores>>
           /\ \E k \in 0..Len(queue) : \E fault \in {0, 1} :
                 /\ Received' = Received + k
                 /\ disturbed' = [events |-> disturbed.events \cup Lost(k),
                                  faults |-> disturbed.faults + fault]
                 /\ fault = 1 => disturbed.faults < MaxFaults
<1>1. PICK k \in 0..Len(queue), fault \in {0, 1} :
         End(k, fault) /\ (fault = 1 => disturbed.faults < MaxFaults)
  <2>1. CASE Crash
    BY <2>1 DEF Crash
  <2>2. CASE ReceiveGarbage
    <3>1. PICK k \in 1..Len(queue) : End(k, 0)
      BY <2>2 DEF ReceiveGarbage
    <3>2. k \in 0..Len(queue)
      BY Lengths
    <3>3. QED BY <3>1, <3>2
  <2>3. QED BY <2>1, <2>2 DEF Ends
<1>2. /\ Len(sent) \in Nat /\ Len(queue) \in Nat /\ DOMAIN queue = 1..Len(queue)
      /\ Received \in Nat /\ Len(sent) = Received + Len(queue)
      /\ queue \in Seq(1..Len(sent))
  BY Lengths DEF LoopInv
<1>3. /\ UNCHANGED <<sent, stores>> /\ at' = NoEvent /\ step' = "down"
      /\ queue' = SubSeq(queue, k + 1, Len(queue))
      /\ disturbed' = [events |-> disturbed.events \cup Lost(k), faults |-> disturbed.faults + fault]
  BY <1>1 DEF End
<1>4. /\ queue' \in Seq(1..Len(sent)) /\ Len(queue') = Len(queue) - k
      /\ \A j \in 1..(Len(queue) - k) : queue'[j] = queue[j + k]
  <2>1. k + 1 \in Int /\ Len(queue) \in Int /\ k \in Int
    BY <1>2
  <2>2. \A i \in (k + 1)..Len(queue) : queue[i] \in 1..Len(sent)
    <3>1. \A i \in (k + 1)..Len(queue) : i \in 1..Len(queue)
      BY <1>2
    <3>2. \A i \in 1..Len(queue) : queue[i] \in 1..Len(sent)
      BY <1>2
    <3>3. QED BY <3>1, <3>2
  <2> DEFINE m == k + 1
             n == Len(queue)
  <2>3. /\ SubSeq(queue, m, n) \in Seq(1..Len(sent))
        /\ Len(SubSeq(queue, m, n)) = IF m <= n THEN n - m + 1 ELSE 0
        /\ \A i \in 1..(n - m + 1) : SubSeq(queue, m, n)[i] = queue[m + i - 1]
    <3> HIDE DEF m, n
    <3>1. m \in Int /\ n \in Int /\ \A i \in m..n : queue[i] \in 1..Len(sent)
      BY <2>1, <2>2 DEF m, n
    <3>2. QED BY <3>1, SubSeqProperties
  <2>4. Len(queue') = Len(queue) - k
    <3>1. k \in Nat /\ k <= Len(queue)
      BY <1>2
    <3>2. CASE k < Len(queue)
      <4>1. m <= n /\ n - m + 1 = Len(queue) - k
        BY <1>2, <3>1, <3>2
      <4>2. QED BY <1>3, <2>3, <4>1
    <3>3. CASE k = Len(queue)
      <4>1. ~(m <= n) /\ Len(queue) - k = 0
        BY <1>2, <3>3
      <4>2. QED BY <1>3, <2>3, <4>1
    <3>4. k < Len(queue) \/ k = Len(queue)
      <4>1. \A x, y \in Nat : x <= y => x < y \/ x = y
        OBVIOUS
      <4>2. QED BY <1>2, <3>1, <4>1
    <3>5. QED BY <3>2, <3>3, <3>4
  <2>5. ASSUME NEW j \in 1..(Len(queue) - k)
        PROVE  queue'[j] = queue[j + k]
    <3>1. j \in 1..(n - m + 1) /\ m + j - 1 = j + k
      BY <2>1
    <3>2. SubSeq(queue, m, n)[j] = queue[m + j - 1]
      BY <2>3, <3>1
    <3>3. QED BY <1>3, <3>1, <3>2
  <2>6. QED BY <1>3, <2>3, <2>4, <2>5
<1>5. Received' = Received + k
  <2>1. Len(sent') = Len(sent)
    BY <1>3
  <2>2. Len(queue') = Len(queue) - k
    BY <1>4
  <2>3. QED BY <1>2, <2>1, <2>2 DEF Received
<1>6. \A j \in DOMAIN queue' : queue'[j] = (Received + k) + j
  <2>1. \A j \in 1..Len(queue) : queue[j] = Received + j
    BY <1>2 DEF LoopInv, QueueInv
  <2>2. ASSUME NEW j \in 1..(Len(queue) - k)
        PROVE  queue'[j] = (Received + k) + j
    <3>1. j + k \in 1..Len(queue) /\ j \in Nat
      BY <1>2
    <3>2. queue'[j] = Received + (j + k)
      BY <1>4, <2>1, <3>1
    <3>3. QED BY <1>2, <3>1, <3>2
  <2>3. DOMAIN queue' = 1..(Len(queue) - k)
    BY <1>2, <1>4
  <2>4. QED BY <2>2, <2>3
<1>7. QueueInv' /\ StepInv'
  BY <1>2, <1>3, <1>5, <1>6 DEF QueueInv, StepInv
<1>8. LoopInv'
  BY <1>3, <1>4, <1>7 DEF LoopInv
<1>9. QED BY <1>1, <1>3, <1>5, <1>8

\* Every step keeps what is known of the loop.
LEMMA LoopStep ==
    ASSUME LoopInv, [Next]_vars
    PROVE  LoopInv'
<1>1. CASE \E m \in Messages : Send(m)
  BY <1>1, SendStep
<1>2. CASE Receive
  BY <1>2, ReceiveStep
<1>3. CASE \/ IgnoreEvent \/ UpdateOrder \/ UpdatePosition
           \/ InsertExecution \/ InsertLog \/ InsertSignal
           \/ OrderFails \/ PositionFails \/ HistoryFails
  BY <1>3, WorkKinds, AdvanceStep, GoOnStep
<1>4. CASE Ends
  BY <1>4, EndStep
<1>5. CASE Start
  <2>1. UNCHANGED <<sent, queue, at>> /\ at = NoEvent /\ step' = "recv"
    BY <1>5 DEF Start, LoopInv
  <2>2. QueueInv' /\ StepInv'
    BY <2>1 DEF LoopInv, QueueInv, StepInv, Received
  <2>3. QED BY <2>1, <2>2 DEF LoopInv
<1>6. CASE UNCHANGED vars
  BY <1>6 DEF vars, stores, LoopInv, QueueInv, StepInv, Received, IsEvent, Event, EventAt
<1>7. QED BY <1>1, <1>2, <1>3, <1>4, <1>5, <1>6 DEF Next, Work, Ends

-----------------------------------------------------------------------------
(* Past, and how a step changes it.                                        *)

\* What is past: the events of the received messages that come before the one
\* in hand.
IsPast(id) ==
    IsEvent(id) /\ id[1] <= Received /\ (at # NoEvent => Before(id, at))

PastChar == \A id : id \in Past <=> IsPast(id)

LEMMA PastIs == LoopInv => PastChar
<1> SUFFICES ASSUME LoopInv, NEW id
             PROVE  id \in Past <=> IsPast(id)
  BY DEF PastChar
<1> DEFINE received == {m \in 1..Len(sent) : \A j \in DOMAIN queue : queue[j] # m}
           all == UNION {EventsOf(n) : n \in received}
<1>1. /\ Len(sent) \in Nat /\ Len(queue) \in Nat /\ Received \in Nat
      /\ DOMAIN queue = 1..Len(queue) /\ Len(sent) = Received + Len(queue)
  BY Lengths
<1>2. \A j \in 1..Len(queue) : queue[j] = Received + j
  BY <1>1 DEF LoopInv, QueueInv
<1>3. ASSUME NEW n \in 1..Len(sent)
      PROVE  (\A j \in DOMAIN queue : queue[j] # n) <=> n <= Received
  <2>1. CASE n <= Received
    BY <1>1, <1>2, <2>1
  <2>2. CASE n > Received
    <3>1. n - Received \in 1..Len(queue)
      BY <1>1, <2>2
    <3>2. queue[n - Received] = n
      BY <1>1, <1>2, <3>1
    <3>3. QED BY <1>1, <2>2, <3>1, <3>2
  <2>3. QED BY <1>1, <2>1, <2>2
<1>4. id \in all <=> IsEvent(id) /\ id[1] <= Received
  <2>1. ASSUME NEW n \in 1..Len(sent), id \in EventsOf(n), n <= Received
        PROVE  IsEvent(id) /\ id[1] <= Received
    <3>1. sent[n] # Garbage
      BY <2>1 DEF EventsOf
    <3>2. PICK i \in DOMAIN sent[n] : id = <<n, i>>
      BY <2>1, <3>1 DEF EventsOf
    <3>3. n \in 1..MaxSent /\ i \in Nat
      BY <3>1, <3>2, BatchType
    <3>4. QED BY <2>1, <3>1, <3>2, <3>3 DEF IsEvent, EventIds
  <2>2. ASSUME IsEvent(id), id[1] <= Received
        PROVE  id[1] \in 1..Len(sent) /\ id \in EventsOf(id[1])
    BY <2>2, EventType DEF IsEvent, EventsOf
  <2>3. QED BY <1>3, <2>1, <2>2
<1>5. ASSUME IsEvent(id), id[1] <= Received
      PROVE  id \notin RestOfBatch <=> (at # NoEvent => Before(id, at))
  <2>1. CASE at = NoEvent
    BY <2>1 DEF RestOfBatch
  <2>2. CASE at # NoEvent
    <3>1. /\ IsEvent(at) /\ at[1] = Received
      BY <2>2 DEF LoopInv, StepInv, QueueInv
    <3>2. /\ id = <<id[1], id[2]>> /\ id[1] \in Nat /\ id[2] \in Nat
          /\ at[1] \in Nat /\ at[2] \in Nat
          /\ id[2] \in 1..Len(sent[id[1]]) /\ Len(sent[id[1]]) \in Nat
      BY <1>1, <1>5, <3>1, EventType, BatchType DEF IsEvent
    <3>3. id \in RestOfBatch <=> id[1] = at[1] /\ id[2] \in at[2]..Len(sent[at[1]])
      BY <2>2, <3>2 DEF RestOfBatch
    <3>4. QED BY <1>1, <1>5, <2>2, <3>1, <3>2, <3>3 DEF Before
  <2>3. QED BY <2>1, <2>2
<1>6. Past = all \ RestOfBatch
  BY DEF Past
<1> HIDE DEF all
<1>7. id \in Past <=> id \in all /\ id \notin RestOfBatch
  BY <1>6
<1>8. QED BY <1>4, <1>5, <1>7 DEF IsPast

\* The same of the next state.
LEMMA PastIsNext ==
    ASSUME LoopInv'
    PROVE  \A id : (id \in Past)' <=> IsPast(id)'
<1>1. (LoopInv => PastChar)'
  BY PastIs, PTL
<1>2. QED BY <1>1 DEF PastChar

\* What was sent stays what it is.
LEMMA EventsStay ==
    ASSUME LoopInv, [Next]_vars, NEW id, IsEvent(id)
    PROVE  IsEvent(id)' /\ EventAt(id)' = EventAt(id)
<1>1. CASE UNCHANGED sent
  BY <1>1 DEF IsEvent, EventAt
<1>2. CASE \E m \in Messages : Send(m)
  <2>1. /\ \A n \in 1..Len(sent) : sent'[n] = sent[n]
        /\ Len(sent)' = Len(sent) + 1 /\ Len(sent) \in Nat
    BY <1>2, SendStep, Lengths
  <2>2. id[1] \in 1..Len(sent)' /\ sent'[id[1]] = sent[id[1]]
    BY <2>1 DEF IsEvent
  <2>3. QED BY <2>2 DEF IsEvent, EventAt
<1>3. UNCHANGED sent \/ \E m \in Messages : Send(m)
  BY DEF Next, Work, Receive, ReceiveGarbage, IgnoreEvent, UpdateOrder, UpdatePosition, InsertExecution,
         InsertLog, InsertSignal, OrderFails, PositionFails, HistoryFails, Crash, End, Start, vars
<1>4. QED BY <1>1, <1>2, <1>3

\* An event of a message that was received is one that was sent before.
LEMMA OldEvents ==
    ASSUME LoopInv, [Next]_vars, NEW id, IsEvent(id)', id[1] <= Received
    PROVE  IsEvent(id)
<1>1. CASE UNCHANGED sent
  BY <1>1 DEF IsEvent
<1>2. CASE \E m \in Messages : Send(m)
  <2>1. /\ \A n \in 1..Len(sent) : sent'[n] = sent[n]
        /\ Len(sent)' = Len(sent) + 1 /\ Len(sent) \in Nat
        /\ Received \in Nat /\ Received <= Len(sent)
    BY <1>2, SendStep, Lengths
  <2>2. id[1] \in 1..Len(sent) /\ sent'[id[1]] = sent[id[1]]
    BY <2>1 DEF IsEvent
  <2>3. QED BY <2>2 DEF IsEvent
<1>3. UNCHANGED sent \/ \E m \in Messages : Send(m)
  BY DEF Next, Work, Receive, ReceiveGarbage, IgnoreEvent, UpdateOrder, UpdatePosition, InsertExecution,
         InsertLog, InsertSignal, OrderFails, PositionFails, HistoryFails, Crash, End, Start, vars
<1>4. QED BY <1>1, <1>2, <1>3

\* Steps that finish no event.
LEMMA PastStays ==
    ASSUME LoopInv, [Next]_vars,
           (\E m \in Messages : Send(m)) \/ Receive \/ GoesOn \/ Start \/ UNCHANGED vars
    PROVE  Past' = Past
<1>1. LoopInv'
  BY LoopStep
<1>2. \A id : id \in Past <=> IsPast(id)
  BY PastIs DEF PastChar
<1>3. \A id : (id \in Past)' <=> IsPast(id)'
  BY <1>1, PastIsNext
<1>4. Received \in Nat
  BY Lengths
<1>5. ASSUME NEW id
      PROVE  IsPast(id)' <=> IsPast(id)
  <2>1. CASE \E m \in Messages : Send(m)
    <3>1. Received' = Received /\ at' = at
      BY <2>1, SendStep DEF Send
    <3>2. QED BY <3>1, EventsStay, OldEvents DEF IsPast, Before
  <2>2. CASE Receive
    <3>1. /\ at = NoEvent /\ UNCHANGED sent /\ Received' = Received + 1
          /\ \/ at' = NoEvent /\ Len(sent[Received + 1]) = 0
             \/ at' = <<Received + 1, 1>> /\ IsEvent(at')
          /\ Received + 1 \in 1..Len(sent)
      BY <2>2, ReceiveStep
    <3>2. IsEvent(id)' <=> IsEvent(id)
      BY <3>1 DEF IsEvent
    <3>3. ASSUME IsEvent(id), id[1] = Received + 1
          PROVE  at' = <<Received + 1, 1>> /\ ~Before(id, at')
      <4>1. id[2] \in 1..Len(sent[Received + 1]) /\ sent[Received + 1] # Garbage /\ id[2] \in Nat
        BY <3>3, EventType DEF IsEvent
      <4>2. at' = <<Received + 1, 1>>
        BY <3>1, <4>1, BatchType
      <4>3. QED BY <1>4, <3>3, <4>1, <4>2 DEF Before
    <3>4. ASSUME IsEvent(id), id[1] <= Received, at' = <<Received + 1, 1>>
          PROVE  Before(id, at')
      BY <1>4, <3>4, EventType DEF Before
    <3>5. IsEvent(id) => id[1] \in Nat
      BY EventType
    <3>6. ASSUME IsPast(id)' PROVE IsPast(id)
      <4>1. IsEvent(id) /\ id[1] <= Received + 1 /\ (at' # NoEvent => Before(id, at'))
        BY <3>1, <3>2, <3>6 DEF IsPast, Before
      <4>2. id[1] # Received + 1
        BY <1>4, <3>3, <4>1 DEF NoEvent
      <4>3. QED BY <1>4, <3>1, <3>5, <4>1, <4>2 DEF IsPast
    <3>7. ASSUME IsPast(id) PROVE IsPast(id)'
      <4>1. IsEvent(id)' /\ id[1] <= Received /\ id[1] \in Nat
        BY <3>2, <3>5, <3>7 DEF IsPast
      <4>2. at' # NoEvent => Before(id, at')
        BY <3>1, <3>2, <3>4, <4>1
      <4>3. QED BY <1>4, <3>1, <4>1, <4>2 DEF IsPast, Before
    <3>8. QED BY <3>6, <3>7
  <2>3. CASE GoesOn \/ Start \/ UNCHANGED vars
    <3>1. UNCHANGED <<sent, queue, at>>
      BY <2>3 DEF GoesOn, Start, vars
    <3>2. QED BY <3>1 DEF IsPast, IsEvent, Received, Before
  <2>4. QED BY <2>1, <2>2, <2>3
<1>6. QED BY <1>2, <1>3, <1>5

\* The event in hand is past when the loop takes the next one; it comes after
\* all that were past.
LEMMA PastAdvances ==
    ASSUME LoopInv, Advances
    PROVE  /\ Past' = Past \cup {at} /\ at \notin Past
           /\ \A id \in Past : Before(id, at)
<1>1. LoopInv'
  BY AdvanceStep
<1>2. \A id : id \in Past <=> IsPast(id)
  BY PastIs DEF PastChar
<1>3. \A id : (id \in Past)' <=> IsPast(id)'
  BY <1>1, PastIsNext
<1>4. /\ at # NoEvent /\ UNCHANGED <<sent, queue>> /\ IsEvent(at) /\ at[1] = Received
      /\ Received' = Received /\ Received \in Nat
  BY Lengths DEF Advances, LoopInv, StepInv, QueueInv, Received
<1>5. /\ at = <<at[1], at[2]>> /\ at[2] \in Nat /\ at[1] \in Nat
      /\ sent[at[1]] # Garbage
      /\ at[2] \in 1..Len(sent[at[1]]) /\ Len(sent[at[1]]) \in Nat
  BY <1>4, EventType, BatchType DEF IsEvent
<1>6. ASSUME NEW id, IsEvent(id), id[1] <= Received
      PROVE  (at' # NoEvent => Before(id, at')) <=> (Before(id, at) \/ id = at)
  <2>1. /\ id = <<id[1], id[2]>> /\ id[1] \in Nat /\ id[2] \in Nat
        /\ id[2] \in 1..Len(sent[id[1]])
    BY <1>6, EventType
  <2>2. CASE at' = <<at[1], at[2] + 1>>
    <3>1. at' # NoEvent
      BY <1>5, <2>2 DEF NoEvent
    <3>2. Before(id, at') <=> id[1] < at[1] \/ (id[1] = at[1] /\ id[2] < at[2] + 1)
      BY <2>2 DEF Before
    <3>3. (id = at) <=> id[1] = at[1] /\ id[2] = at[2]
      BY <1>5, <2>1
    <3>4. QED BY <1>5, <2>1, <3>1, <3>2, <3>3 DEF Before
  <2>3. CASE at' = NoEvent /\ at[2] + 1 > Len(sent[at[1]])
    <3>1. id[1] = at[1] => id[2] <= at[2]
      BY <1>5, <2>1, <2>3
    <3>2. (id = at) <=> id[1] = at[1] /\ id[2] = at[2]
      BY <1>5, <2>1
    <3>3. QED BY <1>4, <1>5, <1>6, <2>1, <2>3, <3>1, <3>2 DEF Before
  <2>4. QED BY <2>2, <2>3, AdvanceEvent
<1>7. ASSUME NEW id
      PROVE  IsPast(id)' <=> (IsPast(id) \/ id = at)
  <2>1. IsEvent(id)' <=> IsEvent(id)
    BY <1>4 DEF IsEvent
  <2>2. IsPast(id)' <=> /\ IsEvent(id) /\ id[1] <= Received
                        /\ (at' # NoEvent => Before(id, at'))
    BY <1>4, <2>1 DEF IsPast, Before
  <2>3. id = at => IsEvent(id) /\ id[1] <= Received
    BY <1>4
  <2>4. IsPast(id) <=> IsEvent(id) /\ id[1] <= Received /\ Before(id, at)
    BY <1>4 DEF IsPast
  <2>5. QED BY <1>6, <2>2, <2>3, <2>4
<1>8. ~Before(at, at)
  BY <1>5 DEF Before
<1>9. QED BY <1>2, <1>3, <1>4, <1>7, <1>8 DEF IsPast

\* A lost process adds to what is past only events hit by the fault.
LEMMA PastEnds ==
    ASSUME LoopInv, Ends
    PROVE  /\ Past \subseteq Past' /\ Past' \ Past \subseteq disturbed'.events
           /\ at # NoEvent => at \in Past' /\ at \in disturbed'.events
           /\ disturbed.events \subseteq disturbed'.events
<1>1. PICK k \in 0..Len(queue) :
         /\ Received' = Received + k
         /\ disturbed'.events = disturbed.events \cup Lost(k)
  <2>1. \A k, fault : [events |-> disturbed.events \cup Lost(k),
                      faults |-> disturbed.faults + fault].events
                     = disturbed.events \cup Lost(k)
    OBVIOUS
  <2>2. QED BY <2>1, EndStep
<1>2. LoopInv' /\ at' = NoEvent /\ UNCHANGED sent
  BY EndStep
<1>3. \A id : id \in Past <=> IsPast(id)
  BY PastIs DEF PastChar
<1>4. \A id : (id \in Past)' <=> IsPast(id)'
  BY <1>2, PastIsNext
<1>5. /\ Received \in Nat /\ Len(queue) \in Nat
      /\ \A j \in 1..Len(queue) : queue[j] = Received + j
  BY Lengths DEF LoopInv, QueueInv
<1>6. \A id : (id \in Past)' <=> IsEvent(id) /\ id[1] <= Received + k
  BY <1>1, <1>2, <1>4 DEF IsPast, IsEvent
<1>7. \A id : IsEvent(id) => id[1] \in Nat
  BY EventType
<1>8. disturbed'.events = disturbed.events \cup
                             (RestOfBatch \cup UNION {EventsOf(queue[j]) : j \in 1..k})
  BY <1>1 DEF Lost
<1>9. Past \subseteq Past'
  BY <1>3, <1>5, <1>6, <1>7 DEF IsPast
<1>10. ASSUME at # NoEvent PROVE at \in Past' /\ at \in disturbed'.events
  <2>1. /\ IsEvent(at) /\ at[1] = Received /\ at = <<at[1], at[2]>>
        /\ at[2] \in 1..Len(sent[at[1]]) /\ Len(sent[at[1]]) \in Nat
    BY <1>10, EventType, BatchType DEF LoopInv, StepInv, QueueInv, IsEvent
  <2>2. at \in Past'
    BY <1>5, <1>6, <2>1
  <2>3. at[2] \in at[2]..Len(sent[at[1]])
    BY <2>1
  <2>4. at \in RestOfBatch
    BY <1>10, <2>1, <2>3 DEF RestOfBatch
  <2>5. QED BY <1>8, <2>2, <2>4
<1>11. ASSUME NEW id \in Past', id \notin Past
       PROVE  id \in disturbed'.events
  <2>1. /\ IsEvent(id) /\ id[1] <= Received + k /\ id = <<id[1], id[2]>> /\ id[1] \in Nat
        /\ id[2] \in Nat /\ id[2] \in 1..Len(sent[id[1]]) /\ id[1] \in 1..Len(sent)
        /\ sent[id[1]] # Garbage
    BY <1>6, <1>11, EventType DEF IsEvent
  <2>2. CASE id[1] <= Received
    <3>1. at # NoEvent /\ ~Before(id, at)
      BY <1>3, <1>11, <2>1, <2>2 DEF IsPast
    <3>2. /\ IsEvent(at) /\ at[1] = Received /\ at[2] \in Nat
          /\ Len(sent[at[1]]) \in Nat
      BY <3>1, EventType, BatchType DEF LoopInv, StepInv, QueueInv, IsEvent
    <3>3. id[1] = at[1] /\ id[2] \in at[2]..Len(sent[at[1]])
      BY <1>5, <2>1, <2>2, <3>1, <3>2 DEF Before
    <3>4. id \in RestOfBatch
      BY <2>1, <3>1, <3>3 DEF RestOfBatch
    <3>5. QED BY <1>8, <3>4
  <2>3. CASE id[1] > Received
    <3>1. id[1] - Received \in 1..k
      BY <1>5, <2>1, <2>3
    <3>2. queue[id[1] - Received] = id[1]
      <4>1. id[1] - Received \in 1..Len(queue)
        BY <1>5, <3>1
      <4>2. queue[id[1] - Received] = Received + (id[1] - Received)
        BY <1>5, <4>1
      <4>3. QED BY <1>5, <2>1, <4>2
    <3>3. id \in EventsOf(id[1])
      BY <2>1 DEF EventsOf, IsEvent
    <3>4. id \in UNION {EventsOf(queue[j]) : j \in 1..k}
      BY <3>1, <3>2, <3>3
    <3>5. QED BY <1>8, <3>4
  <2>4. QED BY <1>5, <2>1, <2>2, <2>3
<1>12. QED BY <1>8, <1>9, <1>10, <1>11

-----------------------------------------------------------------------------
(* What the stores hold has the right type.                                *)

\* The event in hand, for the writers.
LEMMA InHand ==
    ASSUME LoopInv, step \notin {"recv", "down"}
    PROVE  /\ at # NoEvent /\ IsEvent(at) /\ at \in EventIds /\ Event \in Events
           /\ Event.order \in Orders /\ Event.book \in Books
           /\ Event.type \in Types /\ Event.qty \in Nat /\ Signed(Event) \in Int
           /\ Event.fill \in BOOLEAN
<1>1. at # NoEvent /\ IsEvent(at)
  BY DEF LoopInv, StepInv
<1>2. at \in EventIds /\ Event \in Events
  BY <1>1, EventType DEF Event
<1>3. /\ Event.order \in Orders /\ Event.book \in Books /\ Event.type \in Types
      /\ Event.qty \in Nat /\ Event.fill \in BOOLEAN
  BY <1>2, IngestionAssumption
<1>4. Signed(Event) \in Int
  BY <1>3 DEF Signed
<1>5. QED BY <1>1, <1>2, <1>3, <1>4

\* The events that a lost process takes along are events.
LEMMA LostEvents ==
    ASSUME LoopInv, NEW k \in 0..Len(queue)
    PROVE  RestOfBatch \cup UNION {EventsOf(queue[j]) : j \in 1..k} \subseteq EventIds
<1>1. RestOfBatch \subseteq EventIds
  <2>1. CASE at = NoEvent
    BY <2>1 DEF RestOfBatch
  <2>2. CASE at # NoEvent
    <3>1. IsEvent(at) /\ at[2] \in Nat /\ at[1] \in 1..MaxSent
      BY <2>2, EventType DEF LoopInv, StepInv, EventIds
    <3>2. Len(sent[at[1]]) \in Nat
      BY <3>1, BatchType DEF IsEvent
    <3>3. \A i \in at[2]..Len(sent[at[1]]) : <<at[1], i>> \in EventIds
      BY <3>1, <3>2 DEF EventIds
    <3>4. QED BY <2>2, <3>3 DEF RestOfBatch
  <2>3. QED BY <2>1, <2>2
<1>2. ASSUME NEW j \in 1..k PROVE EventsOf(queue[j]) \subseteq EventIds
  <2>1. queue[j] \in 1..Len(sent)
    BY Lengths DEF LoopInv
  <2>2. CASE sent[queue[j]] = Garbage
    BY <2>2 DEF EventsOf
  <2>3. CASE sent[queue[j]] # Garbage
    <3>1. queue[j] \in 1..MaxSent /\ \A i \in DOMAIN sent[queue[j]] : i \in Nat
      BY <2>1, <2>3, BatchType
    <3>2. QED BY <2>3, <3>1 DEF EventsOf, EventIds
  <2>4. QED BY <2>2, <2>3
<1>3. QED BY <1>1, <1>2

LEMMA DisturbType ==
    ASSUME disturbed.events \subseteq EventIds, disturbed.faults \in 0..MaxFaults,
           NEW S \in SUBSET EventIds, Disturb(S)
    PROVE  disturbed'.events \subseteq EventIds /\ disturbed'.faults \in 0..MaxFaults
<1>1. /\ disturbed'.events = disturbed.events \cup S
      /\ disturbed'.faults = disturbed.faults + 1 /\ disturbed.faults < MaxFaults
  BY DEF Disturb
<1>2. QED BY <1>1, IngestionAssumption

\* The row an accepted event leaves.
LEMMA UpsertType ==
    ASSUME orders \in [Orders -> OrderRow \cup {NoOrder}],
           NEW e \in Events, e.order \in Orders, e.fill \in BOOLEAN
    PROVE  /\ Upserted(e) \in [Orders -> OrderRow \cup {NoOrder}]
           /\ Upserted(e)[e.order] # NoOrder /\ Upserted(e)[e.order].status = StatusOf(e)
           /\ \A o \in Orders : o # e.order => Upserted(e)[o] = orders[o]
<1> DEFINE first == [status |-> StatusOf(e), fill |-> FALSE]
           next == [status |-> StatusOf(e), fill |-> e.fill]
<1>1. /\ first \in OrderRow /\ next \in OrderRow
      /\ first.status = StatusOf(e) /\ next.status = StatusOf(e)
  BY DEF OrderRow
<1>2. first # NoOrder /\ next # NoOrder
  BY <1>1, IngestionAssumption
<1>3. Upserted(e) = [orders EXCEPT ![e.order] = IF orders[e.order] = NoOrder THEN first ELSE next]
  BY DEF Upserted
<1> HIDE DEF first, next
<1>4. QED BY <1>1, <1>2, <1>3

LEMMA LogType ==
    ASSUME history \in [Tables -> Seq(EventIds)], at \in EventIds,
           NEW t \in Tables, NEW accepted \in BOOLEAN
    PROVE  Logged(t, accepted) \in [Tables -> Seq(EventIds)]
<1>1. Append(history[t], at) \in Seq(EventIds)
  BY AppendProperties
<1>2. QED BY <1>1 DEF Logged

\* What each kind of write leaves of the stores.
LEMMA StoresStep ==
    ASSUME LoopInv, StoresInv, [Next]_vars
    PROVE  StoresInv'
<1>1. CASE (\E m \in Messages : Send(m)) \/ Receive \/ IgnoreEvent \/ Start \/ UNCHANGED vars
  BY <1>1 DEF Send, Receive, ReceiveGarbage, IgnoreEvent, Start, vars, stores, StoresInv
<1>2. CASE UpdateOrder \/ OrderFails
  <2>1. step = "order" /\ UNCHANGED <<positions, history>>
    BY <1>2 DEF UpdateOrder, OrderFails
  <2>2. orders' = orders \/ orders' = Upserted(Event)
    BY <1>2 DEF UpdateOrder, OrderFails
  <2>3. orders' \in [Orders -> OrderRow \cup {NoOrder}]
    BY <2>1, <2>2, InHand, UpsertType DEF StoresInv
  <2>4. UNCHANGED disturbed \/ Disturb({at})
    BY <1>2 DEF UpdateOrder, OrderFails
  <2>5. QED BY <2>1, <2>3, <2>4, InHand, DisturbType DEF StoresInv
<1>3. CASE UpdatePosition \/ PositionFails
  <2>1. step = "position" /\ UNCHANGED <<orders, history>>
    BY <1>3 DEF UpdatePosition, PositionFails
  <2>2. positions' = positions \/ positions' = Moved(Event)
    BY <1>3 DEF UpdatePosition, PositionFails
  <2>3. Moved(Event) \in [Books -> Int]
    <3>1. /\ Event.book \in Books /\ Signed(Event) \in Int /\ positions \in [Books -> Int]
          /\ positions[Event.book] + Signed(Event) \in Int
      BY <2>1, InHand DEF StoresInv
    <3>2. Moved(Event) = [positions EXCEPT ![Event.book] = positions[Event.book] + Signed(Event)]
      BY DEF Moved
    <3>3. QED BY <3>1, <3>2
  <2>4. UNCHANGED disturbed \/ Disturb({at})
    BY <1>3 DEF UpdatePosition, PositionFails
  <2>5. QED BY <2>1, <2>2, <2>3, <2>4, InHand, DisturbType DEF StoresInv
<1>4. CASE InsertExecution \/ InsertLog \/ InsertSignal \/ HistoryFails
  <2>1. step \in {"execution", "log", "signal"} /\ UNCHANGED <<orders, positions>>
    BY <1>4 DEF InsertExecution, InsertLog, InsertSignal, HistoryFails
  <2>2. PICK t \in Tables, accepted \in BOOLEAN :
           history' = history \/ history' = Logged(t, accepted)
    <3>1. /\ ExecutionAccepts(Event) \in BOOLEAN /\ TelemetryAccepts(Event) \in BOOLEAN
          /\ HistoryAccepts(Event) \in BOOLEAN
      BY DEF ExecutionAccepts, TelemetryAccepts, HistoryAccepts
    <3>2. TableOf[step] \in Tables
      BY <2>1 DEF TableOf, Tables
    <3>3. {"executions", "engine_logs", "strategy_signals"} \subseteq Tables
      BY DEF Tables
    <3>4. CASE InsertExecution
      BY <3>1, <3>3, <3>4 DEF InsertExecution
    <3>5. CASE InsertLog
      BY <3>1, <3>3, <3>5 DEF InsertLog
    <3>6. CASE InsertSignal
      BY <3>1, <3>3, <3>6 DEF InsertSignal
    <3>7. CASE HistoryFails
      BY <3>1, <3>2, <3>7 DEF HistoryFails
    <3>8. QED BY <1>4, <3>4, <3>5, <3>6, <3>7
  <2>3. history' \in [Tables -> Seq(EventIds)]
    BY <2>1, <2>2, InHand, LogType DEF StoresInv
  <2>4. UNCHANGED disturbed \/ Disturb({at})
    BY <1>4 DEF InsertExecution, InsertLog, InsertSignal, HistoryFails
  <2>5. QED BY <2>1, <2>3, <2>4, InHand, DisturbType DEF StoresInv
<1>5. CASE Ends
  <2>1. PICK k \in 0..Len(queue), fault \in {0, 1} :
           /\ disturbed' = [events |-> disturbed.events \cup Lost(k),
                            faults |-> disturbed.faults + fault]
           /\ fault = 1 => disturbed.faults < MaxFaults
    BY <1>5, EndStep
  <2>2. UNCHANGED <<orders, positions, history>>
    BY <1>5, EndStep DEF stores
  <2>3. disturbed'.events \subseteq EventIds /\ disturbed'.faults \in 0..MaxFaults
    <3>1. Lost(k) \subseteq EventIds
      BY LostEvents DEF Lost
    <3>2. disturbed.events \subseteq EventIds /\ disturbed.faults \in 0..MaxFaults /\ MaxFaults \in Nat
      BY IngestionAssumption DEF StoresInv
    <3>3. disturbed.faults + fault \in 0..MaxFaults
      BY <2>1, <3>2
    <3>4. QED BY <2>1, <3>1, <3>2, <3>3
  <2>4. QED BY <2>2, <2>3 DEF StoresInv
<1>6. QED BY <1>1, <1>2, <1>3, <1>4, <1>5 DEF Next, Work, Ends

LEMMA TypedInit == Init => LoopInv /\ StoresInv
<1> SUFFICES ASSUME Init PROVE LoopInv /\ StoresInv
  OBVIOUS
<1>1. Len(sent) = 0 /\ Len(queue) = 0 /\ sent = <<>> /\ queue = <<>> /\ at = NoEvent /\ step = "recv"
  BY DEF Init
<1>2. QueueInv /\ StepInv
  BY <1>1 DEF QueueInv, StepInv, Received
<1>3. LoopInv
  BY <1>1, <1>2, IngestionAssumption DEF LoopInv
<1>4. StoresInv
  BY IngestionAssumption DEF Init, StoresInv
<1>5. QED BY <1>3, <1>4

TypedInv == LoopInv /\ StoresInv

LEMMA TypedStep == TypedInv /\ [Next]_vars => TypedInv'
  BY LoopStep, StoresStep DEF TypedInv

\* Type correctness: what waits are numbers of messages that were sent, the
\* event in hand is one of its message, the tables hold rows of their kinds.
THEOREM TypeCorrect == Spec => []TypeOK
<1>1. Init => TypedInv
  BY TypedInit DEF TypedInv
<1>2. TypedInv => TypeOK
  BY DEF TypedInv, LoopInv, StoresInv, TypeOK
<1>3. QED BY <1>1, <1>2, TypedStep, PTL DEF Spec

-----------------------------------------------------------------------------
(* The tables of QuestDB.                                                  *)

\* The writes that a step in the event's name makes end with the next event.
LEMMA StepKinds ==
    ASSUME LoopInv, [Next]_vars
    PROVE  \/ (\E m \in Messages : Send(m)) \/ Receive \/ GoesOn \/ Start \/ UNCHANGED vars
           \/ Advances
           \/ Ends
BY WorkKinds DEF Next, Work, Ends

\* What is past stays past, and what was hit by a fault stays hit.
LEMMA PastGrows ==
    ASSUME LoopInv, [Next]_vars
    PROVE  Past \subseteq Past' /\ disturbed.events \subseteq disturbed'.events
<1>1. Past \subseteq Past'
  BY StepKinds, PastStays, PastAdvances, PastEnds
<1>2. UNCHANGED disturbed \/ (\E S : Disturb(S)) \/ Ends
  BY DEF Next, Work, Send, Receive, IgnoreEvent, UpdateOrder, UpdatePosition, InsertExecution,
         InsertLog, InsertSignal, OrderFails, PositionFails, HistoryFails, Ends, Start, vars
<1>3. QED BY <1>1, <1>2, PastEnds DEF Disturb

\* An event that is past, before and after a step.
LEMMA PastEvents ==
    ASSUME LoopInv, [Next]_vars, NEW id \in Past
    PROVE  IsEvent(id) /\ EventAt(id)' = EventAt(id)
<1>1. IsEvent(id)
  BY PastIs DEF PastChar, IsPast
<1>2. QED BY <1>1, EventsStay

\* Who writes to QuestDB, and what.
LEMMA HistoryWrites ==
    ASSUME LoopInv, [Next]_vars
    PROVE  \/ history' = history
           \/ \E t \in Tables : Advances /\ history' = [history EXCEPT ![t] = Append(@, at)]
<1>1. CASE InsertExecution \/ InsertLog \/ InsertSignal \/ HistoryFails
  <2>1. Advances
    BY <1>1 DEF InsertExecution, InsertLog, InsertSignal, HistoryFails, Advances, LoopInv
  <2>2. {"executions", "engine_logs", "strategy_signals"} \subseteq Tables
    BY DEF Tables
  <2>3. \A t : (\A accepted : Logged(t, accepted) \in {history, [history EXCEPT ![t] = Append(@, at)]})
    BY DEF Logged
  <2>4. CASE InsertExecution
    BY <2>1, <2>2, <2>3, <2>4 DEF InsertExecution
  <2>5. CASE InsertLog
    BY <2>1, <2>2, <2>3, <2>5 DEF InsertLog
  <2>6. CASE InsertSignal
    BY <2>1, <2>2, <2>3, <2>6 DEF InsertSignal
  <2>7. CASE HistoryFails
    <3>1. TableOf[step] \in Tables
      BY <2>7 DEF HistoryFails, TableOf, Tables
    <3>2. QED BY <2>1, <2>3, <2>7, <3>1 DEF HistoryFails
  <2>8. QED BY <1>1, <2>4, <2>5, <2>6, <2>7
<1>2. CASE ~(InsertExecution \/ InsertLog \/ InsertSignal \/ HistoryFails)
  BY <1>2 DEF Next, Work, Send, Receive, ReceiveGarbage, IgnoreEvent, UpdateOrder, UpdatePosition,
         OrderFails, PositionFails, Crash, End, Start, vars, stores
<1>3. QED BY <1>1, <1>2

LEMMA HistoryStep ==
    ASSUME TypedInv, HistoryInv, HistoryInOrder, [Next]_vars
    PROVE  HistoryInv' /\ HistoryInOrder'
<1>1. LoopInv /\ history \in [Tables -> Seq(EventIds)] /\ LoopInv'
  BY TypedStep DEF TypedInv, StoresInv
<1>2. Past \subseteq Past'
  BY <1>1, PastGrows
<1>3. CASE history' = history
  BY <1>2, <1>3 DEF HistoryInv, HistoryInOrder, Recorded, Before
<1>4. ASSUME NEW t \in Tables, Advances, history' = [history EXCEPT ![t] = Append(@, at)]
      PROVE  HistoryInv' /\ HistoryInOrder'
  <2>1. Past' = Past \cup {at} /\ \A id \in Past : Before(id, at)
    BY <1>1, <1>4, PastAdvances
  <2>2. at \in EventIds
    BY <1>1, <1>4 DEF Advances, LoopInv, StepInv, IsEvent
  <2>3. /\ history[t] \in Seq(EventIds) /\ Len(history[t]) \in Nat
        /\ DOMAIN history[t] = 1..Len(history[t])
    BY <1>1
  <2>4. /\ history'[t] = Append(history[t], at)
        /\ \A u \in Tables : u # t => history'[u] = history[u]
    BY <1>1, <1>4
  <2>5. /\ DOMAIN history'[t] = 1..(Len(history[t]) + 1)
        /\ \A i \in 1..Len(history[t]) : history'[t][i] = history[t][i]
        /\ history'[t][Len(history[t]) + 1] = at
    BY <2>2, <2>3, <2>4, AppendProperties
  <2>6. \A i \in 1..Len(history[t]) : history[t][i] \in Past
    BY <2>3 DEF HistoryInv, Recorded
  <2>7. ASSUME NEW u \in Tables, u # t
        PROVE  /\ Recorded(u)' \subseteq Past'
               /\ (\A i, j \in DOMAIN history[u] :
                      i < j => Before(history[u][i], history[u][j]))'
    BY <2>1, <2>4, <2>7 DEF HistoryInv, HistoryInOrder, Recorded, Before
  <2>8. Recorded(t)' \subseteq Past'
    BY <2>1, <2>3, <2>5, <2>6 DEF Recorded
  <2>9. ASSUME NEW i \in DOMAIN history'[t], NEW j \in DOMAIN history'[t], i < j
        PROVE  Before(history'[t][i], history'[t][j])
    <3>1. i \in 1..Len(history[t])
      BY <2>3, <2>5, <2>9
    <3>2. CASE j \in 1..Len(history[t])
      BY <2>3, <2>5, <2>9, <3>1, <3>2 DEF HistoryInOrder
    <3>3. CASE j = Len(history[t]) + 1
      BY <2>1, <2>5, <2>6, <3>1, <3>3
    <3>4. QED BY <2>3, <2>5, <3>2, <3>3
  <2>10. (\A i, j \in DOMAIN history[t] : i < j => Before(history[t][i], history[t][j]))'
    BY <2>9 DEF Before
  <2>11. QED BY <2>7, <2>8, <2>10 DEF HistoryInv, HistoryInOrder
<1>5. QED BY <1>1, <1>3, <1>4, HistoryWrites

StoredInv == TypedInv /\ HistoryInv /\ HistoryInOrder

LEMMA StoredInit == Init => StoredInv
<1> SUFFICES ASSUME Init PROVE StoredInv
  OBVIOUS
<1>1. \A t \in Tables : history[t] = <<>>
  BY DEF Init
<1>2. \A t \in Tables : DOMAIN history[t] = {}
  BY <1>1
<1>3. HistoryInv /\ HistoryInOrder
  BY <1>2 DEF HistoryInv, HistoryInOrder, Recorded
<1>4. QED BY <1>3, TypedInit DEF StoredInv, TypedInv

LEMMA StoredStep == StoredInv /\ [Next]_vars => StoredInv'
  BY TypedStep, HistoryStep DEF StoredInv

\* Every table of QuestDB holds each event at most once and in the order the
\* engine sent them, whatever fails and however often the service restarts.
THEOREM TablesKeepTheOrder == Spec => []HistoryInOrder
<1>1. StoredInv => HistoryInOrder
  BY DEF StoredInv
<1>2. QED BY <1>1, StoredInit, StoredStep, PTL DEF Spec

-----------------------------------------------------------------------------
(* The rows of orders.                                                     *)

IsUpdate(e, o) == e.type \in {"execution", "order_update"} /\ e.order = o

\* The past events of an order change with what is past.
LEMMA UpdatesStay ==
    ASSUME LoopInv, [Next]_vars, Past' = Past, NEW o
    PROVE  UpdatesOf(o)' = UpdatesOf(o)
<1>1. \A id \in Past : EventAt(id)' = EventAt(id)
  BY PastEvents
<1>2. UpdatesOf(o)' = {id \in Past' : /\ EventAt(id)'.type \in {"execution", "order_update"}
                                     /\ EventAt(id)'.order = o}
  BY DEF UpdatesOf
<1>3. QED BY <1>1, <1>2 DEF UpdatesOf

LEMMA UpdatesAdvance ==
    ASSUME LoopInv, [Next]_vars, Advances, NEW o
    PROVE  UpdatesOf(o)' = UpdatesOf(o) \cup {id \in {at} : IsUpdate(Event, o)}
<1>1. Past' = Past \cup {at} /\ UNCHANGED sent
  BY PastAdvances DEF Advances
<1>2. \A id : EventAt(id)' = EventAt(id)
  BY <1>1 DEF EventAt
<1>3. UpdatesOf(o)' = {id \in Past' : /\ EventAt(id)'.type \in {"execution", "order_update"}
                                     /\ EventAt(id)'.order = o}
  BY DEF UpdatesOf
<1>4. QED BY <1>1, <1>2, <1>3 DEF UpdatesOf, IsUpdate, Event

\* Nothing happens to an order.
LEMMA OrderStays ==
    ASSUME LoopInv, [Next]_vars, NEW o \in Orders, ~IsWritten(o), ~IsWritten(o)',
           UpdatesOf(o) # {} /\ CleanOrder(o) => ShowsLast(o),
           UpdatesOf(o)' = UpdatesOf(o), orders'[o] = orders[o],
           UpdatesOf(o)' # {}, CleanOrder(o)'
    PROVE  ShowsLast(o)'
<1>1. \A id \in UpdatesOf(o) : EventAt(id)' = EventAt(id)
  BY PastEvents DEF UpdatesOf
<1>2. disturbed.events \subseteq disturbed'.events
  BY PastGrows
<1>3. \A id \in UpdatesOf(o) : id \notin disturbed'.events /\ OrderAccepts(EventAt(id)')
  BY DEF CleanOrder, OrderAccepts
<1>4. CleanOrder(o)
  BY <1>1, <1>2, <1>3 DEF CleanOrder, OrderAccepts
<1>5. PICK last \in UpdatesOf(o) : /\ \A id \in UpdatesOf(o) : id = last \/ Before(id, last)
                                  /\ Shows(o, last)
  BY <1>4 DEF ShowsLast
<1>6. Shows(o, last)'
  BY <1>1, <1>5 DEF Shows, StatusOf
<1>7. QED BY <1>5, <1>6 DEF ShowsLast, Before

\* The event in hand becomes the last of its order.
LEMMA OrderAdvances ==
    ASSUME LoopInv, [Next]_vars, NEW o \in Orders, Advances, IsUpdate(Event, o),
           at \notin disturbed'.events /\ OrderAccepts(Event) =>
              orders'[o] # NoOrder /\ orders'[o].status = StatusOf(Event),
           CleanOrder(o)'
    PROVE  ShowsLast(o)'
<1>1. UpdatesOf(o)' = UpdatesOf(o) \cup {at}
  BY UpdatesAdvance
<1>2. \A id \in UpdatesOf(o) : Before(id, at)
  BY PastAdvances DEF UpdatesOf
<1>3. UNCHANGED sent
  BY DEF Advances
<1>4. at \in UpdatesOf(o)'
  BY <1>1
<1>5. ASSUME NEW id, id = at
      PROVE  ShowsLast(o)'
  <2>1. id \in UpdatesOf(o)' /\ EventAt(id)' = Event
    BY <1>3, <1>4, <1>5 DEF Event, EventAt
  <2>2. id \notin disturbed'.events /\ OrderAccepts(Event)
    BY <2>1 DEF CleanOrder, OrderAccepts
  <2>3. Shows(o, id)'
    BY <1>5, <2>1, <2>2 DEF Shows, StatusOf
  <2>4. \A i \in UpdatesOf(o)' : i = id \/ Before(i, id)
    BY <1>1, <1>2, <1>5
  <2>5. QED BY <2>1, <2>3, <2>4 DEF ShowsLast, Before
<1>6. QED BY <1>5

LEMMA OrderStep ==
    ASSUME TypedInv, OrderInv, [Next]_vars
    PROVE  OrderInv'
<1>1. LoopInv /\ LoopInv' /\ orders \in [Orders -> OrderRow \cup {NoOrder}]
  BY TypedStep DEF TypedInv, StoresInv
<1> SUFFICES ASSUME NEW o \in Orders
             PROVE  (IF IsWritten(o)
                     THEN at \notin disturbed.events /\ OrderAccepts(Event) => Shows(o, at)
                     ELSE UpdatesOf(o) # {} /\ CleanOrder(o) => ShowsLast(o))'
  BY DEF OrderInv
<1>2. IF IsWritten(o)
      THEN at \notin disturbed.events /\ OrderAccepts(Event) => Shows(o, at)
      ELSE UpdatesOf(o) # {} /\ CleanOrder(o) => ShowsLast(o)
  BY DEF OrderInv
<1>3. CASE (\E m \in Messages : Send(m)) \/ Receive \/ Start \/ UNCHANGED vars
  <2>1. Past' = Past /\ UNCHANGED <<orders, disturbed>>
    BY <1>1, <1>3, PastStays DEF Send, Receive, Start, vars, stores
  <2>2. UpdatesOf(o)' = UpdatesOf(o)
    BY <1>1, <2>1, UpdatesStay
  <2>3. CASE IsWritten(o)
    <3>1. UNCHANGED <<at, step>> /\ IsEvent(at)
      BY <1>1, <1>3, <2>3 DEF IsWritten, Send, Receive, Start, vars, LoopInv, StepInv
    <3>2. EventAt(at)' = EventAt(at)
      <4>1. ASSUME NEW id, id = at PROVE EventAt(id)' = EventAt(id)
        BY <1>1, <3>1, <4>1, EventsStay
      <4>2. QED BY <3>1, <4>1 DEF EventAt
    <3>3. Event' = Event
      BY <3>1, <3>2 DEF Event, EventAt
    <3>4. QED BY <1>2, <2>1, <2>3, <3>1, <3>2, <3>3 DEF IsWritten, Shows, StatusOf, OrderAccepts
  <2>4. CASE ~IsWritten(o)
    <3>1. ~IsWritten(o)'
      <4>1. CASE \E m \in Messages : Send(m)
        <5>1. UNCHANGED <<at, step>>
          BY <4>1 DEF Send
        <5>2. CASE step \in {"position", "execution"}
          <6>1. IsEvent(at)
            BY <1>1, <5>2 DEF LoopInv, StepInv
          <6>2. ASSUME NEW id, id = at PROVE EventAt(id)' = EventAt(id)
            BY <1>1, <6>1, <6>2, EventsStay
          <6>3. Event' = Event
            BY <5>1, <6>2 DEF Event, EventAt
          <6>4. QED BY <2>4, <5>1, <6>3 DEF IsWritten
        <5>3. QED BY <5>1, <5>2 DEF IsWritten
      <4>2. CASE Receive
        BY <1>1, <4>2, ReceiveStep DEF IsWritten
      <4>3. CASE Start
        BY <4>3 DEF Start, IsWritten
      <4>4. CASE UNCHANGED vars
        BY <2>4, <4>4 DEF vars, IsWritten, Event, EventAt
      <4>5. QED BY <1>3, <4>1, <4>2, <4>3, <4>4
    <3>2. QED BY <1>1, <1>2, <2>1, <2>2, <2>4, <3>1, OrderStays
  <2>5. QED BY <2>3, <2>4
<1>4. CASE GoesOn
  <2>1. Past' = Past /\ UNCHANGED <<sent, at>> /\ Event' = Event /\ step' \in {"position", "execution"}
    BY <1>1, <1>4, PastStays DEF GoesOn, Event, EventAt
  <2>2. disturbed.events \subseteq disturbed'.events
    BY <1>1, PastGrows
  <2>3. CASE step = "order"
    <3>1. UpdateOrder \/ OrderFails
      BY <1>4, <2>3 DEF Next, Work, GoesOn, Send, Receive, ReceiveGarbage, IgnoreEvent, UpdatePosition,
         InsertExecution, InsertLog, InsertSignal, PositionFails, HistoryFails, Crash, End, Start, vars
    <3>2. CASE Event.order = o
      <4>1. IsWritten(o)'
        BY <2>1, <3>2 DEF IsWritten
      <4>2. ASSUME at \notin disturbed'.events, OrderAccepts(Event)
            PROVE  orders'[o] # NoOrder /\ orders'[o].status = StatusOf(Event)
        <5>1. orders' = Upserted(Event)
          BY <3>1, <4>2 DEF UpdateOrder, OrderFails, Disturb
        <5>2. QED BY <1>1, <2>3, <3>2, <5>1, InHand, UpsertType
      <4>3. QED BY <2>1, <4>1, <4>2 DEF Shows, Event, EventAt, OrderAccepts, StatusOf
    <3>3. CASE Event.order # o
      <4>1. ~IsWritten(o) /\ ~IsWritten(o)'
        BY <2>1, <3>3 DEF IsWritten
      <4>2. orders'[o] = orders[o]
        <5>1. orders' = orders \/ orders' = Upserted(Event)
          BY <3>1 DEF UpdateOrder, OrderFails
        <5>2. QED BY <1>1, <2>3, <3>3, <5>1, InHand, UpsertType
      <4>3. QED BY <1>1, <1>2, <2>1, <4>1, <4>2, UpdatesStay, OrderStays
    <3>4. QED BY <3>2, <3>3
  <2>4. CASE step # "order"
    <3>1. step = "position" /\ (UpdatePosition \/ PositionFails)
      BY <1>4, <2>4 DEF Next, Work, GoesOn, Send, Receive, ReceiveGarbage, IgnoreEvent, UpdateOrder, OrderFails,
         InsertExecution, InsertLog, InsertSignal, HistoryFails, Crash, End, Start, vars
    <3>2. UNCHANGED orders /\ (IsWritten(o)' <=> IsWritten(o))
      BY <2>1, <3>1 DEF UpdatePosition, PositionFails, IsWritten
    <3>3. CASE IsWritten(o)
      BY <1>2, <2>1, <2>2, <3>2, <3>3 DEF Shows, Event, EventAt, OrderAccepts, StatusOf
    <3>4. CASE ~IsWritten(o)
      BY <1>1, <1>2, <2>1, <3>2, <3>4, UpdatesStay, OrderStays
    <3>5. QED BY <3>3, <3>4
  <2>5. QED BY <2>3, <2>4
<1>5. CASE Advances
  <2>1. step' \in {"recv", "order", "log", "signal", "unknown"} /\ ~IsWritten(o)'
    BY <1>1, <1>5, AdvanceEvent DEF IsWritten
  <2>2. /\ UpdatesOf(o)' = UpdatesOf(o) \cup {id \in {at} : IsUpdate(Event, o)}
        /\ disturbed.events \subseteq disturbed'.events
    BY <1>1, <1>5, UpdatesAdvance, PastGrows
  <2>3. CASE IsUpdate(Event, o)
    <3>1. ASSUME at \notin disturbed'.events, OrderAccepts(Event)
          PROVE  orders'[o] # NoOrder /\ orders'[o].status = StatusOf(Event)
      <4>0. at' # at /\ step' # "down"
        <5>1. IsEvent(at)
          BY <1>1, <1>5 DEF Advances, LoopInv, StepInv
        <5>2. at = <<at[1], at[2]>> /\ at[2] \in Nat /\ at # NoEvent
          BY <1>1, <5>1, EventType
        <5>3. <<at[1], at[2] + 1>> # <<at[1], at[2]>>
          BY <5>2
        <5>4. QED BY <1>1, <1>5, <5>2, <5>3, AdvanceEvent
      <4>1. CASE step = "order"
        <5>1. UpdateOrder \/ OrderFails
          BY <4>0, <4>1 DEF Next, Work, Send, Receive, ReceiveGarbage, IgnoreEvent,
             UpdatePosition, InsertExecution, InsertLog, InsertSignal, PositionFails, HistoryFails,
             Crash, End, Start, vars
        <5>2. orders' = Upserted(Event)
          BY <3>1, <5>1 DEF UpdateOrder, OrderFails, Disturb
        <5>3. QED BY <1>1, <2>3, <4>1, <5>2, InHand, UpsertType DEF IsUpdate
      <4>2. CASE step = "execution"
        <5>1. IsWritten(o) /\ UNCHANGED orders
          BY <2>3, <4>2 DEF IsUpdate, IsWritten, Next, Work, Send, Receive, ReceiveGarbage, IgnoreEvent,
             UpdateOrder, OrderFails, UpdatePosition, InsertExecution, InsertLog, InsertSignal,
             PositionFails, HistoryFails, Crash, End, Start, vars, stores
        <5>2. QED BY <1>2, <2>2, <3>1, <5>1 DEF Shows, Event
      <4>3. step # "position"
        BY <4>0 DEF Next, Work, Send, Receive, ReceiveGarbage, IgnoreEvent, UpdateOrder, OrderFails,
           UpdatePosition, InsertExecution, InsertLog, InsertSignal, PositionFails, HistoryFails,
           Crash, End, Start, vars
      <4>4. QED BY <1>1, <1>5, <2>3, <4>1, <4>2, <4>3 DEF Advances, LoopInv, StepInv, IsUpdate
    <3>2. QED BY <1>1, <1>5, <2>1, <2>3, <3>1, OrderAdvances
  <2>4. CASE ~IsUpdate(Event, o)
    <3>1. UpdatesOf(o)' = UpdatesOf(o)
      BY <2>2, <2>4
    <3>2. ~IsWritten(o)
      BY <1>1, <2>4 DEF IsUpdate, IsWritten, LoopInv, StepInv
    <3>3. orders'[o] = orders[o]
      <4>1. orders' = orders \/ (step = "order" /\ orders' = Upserted(Event))
        BY DEF Next, Work, Send, Receive, ReceiveGarbage, IgnoreEvent,
             UpdateOrder, OrderFails, UpdatePosition, InsertExecution, InsertLog, InsertSignal,
             PositionFails, HistoryFails, Crash, End, Start, vars, stores
      <4>2. step = "order" => Event.order # o
        BY <1>1, <2>4 DEF IsUpdate, LoopInv, StepInv
      <4>3. QED BY <1>1, <4>1, <4>2, InHand, UpsertType
    <3>4. QED BY <1>1, <1>2, <2>1, <3>1, <3>2, <3>3, OrderStays
  <2>5. QED BY <2>3, <2>4
<1>6. CASE Ends
  <2>1. ~IsWritten(o)' /\ UNCHANGED <<sent, orders>>
    BY <1>6 DEF Ends, Crash, ReceiveGarbage, End, stores, IsWritten
  <2>2. SUFFICES ASSUME UpdatesOf(o)' # {}, CleanOrder(o)' PROVE ShowsLast(o)'
    BY <2>1
  <2>3. \A id : EventAt(id)' = EventAt(id)
    BY <2>1 DEF EventAt
  <2>4. UpdatesOf(o)' = {id \in Past' : /\ EventAt(id).type \in {"execution", "order_update"}
                                       /\ EventAt(id).order = o}
    BY <2>3 DEF UpdatesOf
  <2>5. \A id \in UpdatesOf(o)' : id \notin disturbed'.events
    BY <2>2 DEF CleanOrder
  <2>6. /\ Past \subseteq Past' /\ Past' \ Past \subseteq disturbed'.events
        /\ at # NoEvent => at \in Past' /\ at \in disturbed'.events
    BY <1>1, <1>6, PastEnds
  <2>7. UpdatesOf(o)' = UpdatesOf(o)
    BY <2>4, <2>5, <2>6 DEF UpdatesOf
  <2>8. ~IsWritten(o)
    BY <1>1, <2>4, <2>5, <2>6 DEF IsWritten, LoopInv, StepInv, Event
  <2>9. QED BY <1>1, <1>2, <2>1, <2>2, <2>7, <2>8, OrderStays
<1>7. QED BY <1>1, <1>3, <1>4, <1>5, <1>6, StepKinds

LEMMA OrderInit == Init => TypedInv /\ OrderInv
<1> SUFFICES ASSUME Init PROVE TypedInv /\ OrderInv
  OBVIOUS
<1>1. LoopInv /\ StoresInv
  BY TypedInit
<1>2. \A id : id \in Past <=> IsPast(id)
  BY <1>1, PastIs DEF PastChar
<1>3. \A id : ~IsEvent(id)
  BY DEF Init, IsEvent
<1>4. Past = {} /\ step = "recv"
  BY <1>2, <1>3 DEF IsPast, Init
<1>5. QED BY <1>1, <1>4 DEF TypedInv, OrderInv, IsWritten, UpdatesOf

\* The row of an order shows the status its last event reports, as long as it
\* reports one, none of the order's events was hit by a fault and all were
\* accepted: an earlier event never overwrites it, whatever batches they are in.
THEOREM LastEventIsShown == Spec => []OrdersShowLastEvent
<1>1. TypedInv /\ OrderInv /\ [Next]_vars => (TypedInv /\ OrderInv)'
  BY TypedStep, OrderStep
<1>2. TypedInv /\ OrderInv => OrdersShowLastEvent
  BY DEF OrderInv, OrdersShowLastEvent, IsWritten, CleanOrder, ShowsLast, Shows, StatusOf
<1>3. QED BY <1>1, <1>2, OrderInit, PTL DEF Spec

-----------------------------------------------------------------------------
(* Positions and executions.                                               *)

Values(S) == [id \in S |-> Signed(EventAt(id))]

\* Total is a sum of integers over a finite set.
TotalChar ==
    \A b \in Books :
       /\ IsFiniteSet(RowsOf(b)) /\ RowsOf(b) \subseteq Past
       /\ \A id \in RowsOf(b) : Values(RowsOf(b))[id] \in Int
       /\ Total(b) = SumOf(Values(RowsOf(b)), RowsOf(b))
       /\ Total(b) \in Int

LEMMA TotalIs == TypedInv /\ HistoryInv => TotalChar
<1> SUFFICES ASSUME TypedInv, HistoryInv, NEW b \in Books
             PROVE  /\ IsFiniteSet(RowsOf(b)) /\ RowsOf(b) \subseteq Past
                    /\ \A id \in RowsOf(b) : Values(RowsOf(b))[id] \in Int
                    /\ Total(b) = SumOf(Values(RowsOf(b)), RowsOf(b))
                    /\ Total(b) \in Int
  BY DEF TotalChar
<1>1. LoopInv /\ "executions" \in Tables /\ history["executions"] \in Seq(EventIds)
  BY DEF TypedInv, StoresInv, Tables
<1>2. IsFiniteSet(RowsOf(b))
  <2> DEFINE h == history["executions"]
  <2>1. Len(h) \in Nat /\ DOMAIN h = 1..Len(h) /\ h \in [1..Len(h) -> EventIds]
    BY <1>1
  <2>2. IsFiniteSet({h[i] : i \in 1..Len(h)})
    <3> DEFINE T == {h[i] : i \in 1..Len(h)}
    <3>1. IsFiniteSet(1..Len(h))
      BY <2>1, FS_Interval
    <3>2. h \in Surjection(1..Len(h), T)
      BY <2>1 DEF Surjection
    <3> HIDE DEF h, T
    <3>3. IsFiniteSet(T)
      BY <3>1, <3>2, FS_Surjection
    <3>4. QED BY <3>3 DEF T
  <2>3. Recorded("executions") = {h[i] : i \in 1..Len(h)}
    BY <2>1 DEF Recorded
  <2>4. RowsOf(b) \subseteq Recorded("executions")
    BY DEF RowsOf
  <2>5. QED BY <2>2, <2>3, <2>4, FS_Subset
<1>3. RowsOf(b) \subseteq Past
  BY <1>1 DEF RowsOf, HistoryInv
<1>4. \A id \in RowsOf(b) : Values(RowsOf(b))[id] \in Int /\ Values(RowsOf(b))[id] = Signed(EventAt(id))
  <2>1. ASSUME NEW id \in RowsOf(b) PROVE Signed(EventAt(id)) \in Int
    <3>1. EventAt(id) \in Events
      BY <1>1, <1>3, PastIs, EventType DEF PastChar, IsPast
    <3>2. EventAt(id).qty \in Nat
      BY <3>1, IngestionAssumption
    <3>3. QED BY <3>2 DEF Signed
  <2>2. QED BY <2>1 DEF Values
<1> DEFINE S == RowsOf(b)
           v == Values(S)
           it == CHOOSE g : g = [s \in SUBSET S |->
                    IF s = {} THEN 0 ELSE Signed(EventAt(Pick(s))) + g[s \ {Pick(s)}]]
<1>5. \A h : IsSum(h, v, S) <=> h = [s \in SUBSET S |->
                    IF s = {} THEN 0 ELSE Signed(EventAt(Pick(s))) + h[s \ {Pick(s)}]]
  <2>1. ASSUME NEW h, NEW s \in SUBSET S
        PROVE  (IF s = {} THEN 0 ELSE v[Pick(s)] + h[s \ {Pick(s)}])
                 = (IF s = {} THEN 0 ELSE Signed(EventAt(Pick(s))) + h[s \ {Pick(s)}])
    <3>1. CASE s = {}
      BY <3>1
    <3>2. CASE s # {}
      <4>1. Pick(s) \in S
        BY <3>2, PickIsElement
      <4>2. v[Pick(s)] = Signed(EventAt(Pick(s)))
        BY <4>1, <1>4
      <4> HIDE DEF S, v
      <4>3. QED BY <3>2, <4>2
    <3>3. QED BY <3>1, <3>2
  <2> HIDE DEF S, v
  <2>2. ASSUME NEW h
        PROVE  [s \in SUBSET S |-> IF s = {} THEN 0 ELSE v[Pick(s)] + h[s \ {Pick(s)}]]
                 = [s \in SUBSET S |->
                      IF s = {} THEN 0 ELSE Signed(EventAt(Pick(s))) + h[s \ {Pick(s)}]]
    BY <2>1
  <2>3. QED BY <2>2 DEF IsSum
<1>6. IsSum(it, v, S)
  <2>1. PICK h : IsSum(h, v, S)
    BY <1>2, SumsExist
  <2>2. h = [s \in SUBSET S |->
               IF s = {} THEN 0 ELSE Signed(EventAt(Pick(s))) + h[s \ {Pick(s)}]]
    BY <1>5, <2>1
  <2>3. it = [s \in SUBSET S |->
               IF s = {} THEN 0 ELSE Signed(EventAt(Pick(s))) + it[s \ {Pick(s)}]]
    <3> HIDE DEF S
    <3>1. QED BY <2>2
  <2>4. QED BY <1>5, <2>3
<1>7. Total(b) = it[S]
  BY DEF Total, MapThenSumSet, MapThenFoldSet, Pick
<1>8. Total(b) = SumOf(v, S)
  <2> HIDE DEF it, v, S
  <2>1. PICK h : IsSum(h, v, S) /\ SumOf(v, S) = h[S]
    <3>1. IsFiniteSet(S)
      BY <1>2 DEF S
    <3>2. QED BY <3>1, SumOfIsSum
  <2>2. h = it
    <3>1. IsFiniteSet(S)
      BY <1>2 DEF S
    <3>2. QED BY <1>6, <2>1, <3>1, SumsAreUnique
  <2>3. QED BY <1>7, <2>1, <2>2
<1>9. SumOf(v, S) \in Int
  <2>1. \A id \in S : v[id] \in Int
    BY <1>4
  <2>2. 0 \in Int /\ \A a, c \in Int : a + c \in Int
    OBVIOUS
  <2>3. IsFiniteSet(S)
    BY <1>2
  <2> HIDE DEF v, S
  <2>4. QED BY <2>1, <2>2, <2>3, SumOfType
<1>10. QED BY <1>2, <1>3, <1>4, <1>8, <1>9

LEMMA TotalIsNext ==
    ASSUME TypedInv', HistoryInv'
    PROVE  TotalChar'
<1>1. (TypedInv /\ HistoryInv => TotalChar)'
  BY TotalIs, PTL
<1>2. QED BY <1>1

\* The same rows, the same sum.
LEMMA TotalStays ==
    ASSUME StoredInv, [Next]_vars, NEW b \in Books, RowsOf(b)' = RowsOf(b)
    PROVE  Total(b)' = Total(b)
<1>1. TotalChar /\ TotalChar'
  BY StoredStep, TotalIs, TotalIsNext DEF StoredInv
<1>2. /\ Total(b) = SumOf(Values(RowsOf(b)), RowsOf(b)) /\ RowsOf(b) \subseteq Past
      /\ Total(b)' = SumOf(Values(RowsOf(b)), RowsOf(b))'
  BY <1>1 DEF TotalChar
<1>3. \A id \in RowsOf(b) : EventAt(id)' = EventAt(id)
  BY <1>2, PastEvents DEF StoredInv, TypedInv
<1>4. Values(RowsOf(b))' = [id \in RowsOf(b) |-> Signed(EventAt(id)')]
  BY DEF Values, Signed
<1>5. Values(RowsOf(b))' = Values(RowsOf(b))
  BY <1>3, <1>4 DEF Values
<1>6. SumOf(Values(RowsOf(b)), RowsOf(b))' = SumOf(Values(RowsOf(b)), RowsOf(b))
  BY <1>5 DEF SumOf, MapThenSumSet, MapThenFoldSet
<1>7. QED BY <1>2, <1>6

\* One row more, its quantity more.
LEMMA TotalAdds ==
    ASSUME StoredInv, [Next]_vars, UNCHANGED sent, NEW b \in Books, NEW e,
           e \notin RowsOf(b), RowsOf(b)' = RowsOf(b) \cup {e}
    PROVE  Total(b)' = Total(b) + Signed(EventAt(e))
<1>1. TotalChar /\ TotalChar'
  BY StoredStep, TotalIs, TotalIsNext DEF StoredInv
<1> DEFINE S == RowsOf(b)
           T == S \cup {e}
           v == Values(S)
           w == Values(T)
<1>2. \A id : EventAt(id)' = EventAt(id)
  BY DEF EventAt
<1>3. Values(RowsOf(b))' = w
  BY <1>2 DEF Values, Signed
<1>4. Total(b)' = SumOf(w, T)
  <2>1. Total(b)' = SumOf(Values(RowsOf(b)), RowsOf(b))'
    BY <1>1 DEF TotalChar
  <2>2. SumOf(Values(RowsOf(b)), RowsOf(b))' = SumOf(w, T)
    BY <1>3 DEF SumOf, MapThenSumSet, MapThenFoldSet
  <2>3. QED BY <2>1, <2>2
<1>5. IsFiniteSet(S) /\ IsFiniteSet(T) /\ Total(b) = SumOf(v, S) /\ Total(b) \in Int
  BY <1>1 DEF TotalChar
<1>6. \A x \in T : w[x] \in Int
  <2>1. \A x \in RowsOf(b)' : Values(RowsOf(b))'[x] \in Int
    BY <1>1 DEF TotalChar
  <2>2. QED BY <1>3, <2>1
<1>7. w[e] = Signed(EventAt(e)) /\ w[e] \in Int /\ \A x \in S : w[x] = v[x]
  BY <1>6 DEF Values
<1>8. T \ {e} = S
  OBVIOUS
<1>9. SumOf(w, T) = w[e] + SumOf(w, S)
  <2>1. e \in T
    OBVIOUS
  <2> HIDE DEF S, T, w
  <2>2. QED BY <1>5, <1>6, <1>8, <2>1, SumOfAdd
<1>10. SumOf(w, S) = SumOf(v, S)
  <2> HIDE DEF S, T, w, v
  <2>1. QED BY <1>5, <1>7, SumOfEqual
<1>11. \A x, y \in Int : x + y = y + x
  OBVIOUS
<1>12. QED
  <2> HIDE DEF S, T, w, v
  <2>1. QED BY <1>4, <1>5, <1>7, <1>9, <1>10, <1>11

\* Who writes to the executions of QuestDB.
LEMMA ExecutionWrites ==
    ASSUME LoopInv, history \in [Tables -> Seq(EventIds)], [Next]_vars
    PROVE  \/ history'["executions"] = history["executions"]
           \/ /\ step = "execution" /\ Advances
              /\ history' = [history EXCEPT !["executions"] = Append(@, at)]
<1>1. CASE InsertExecution \/ (HistoryFails /\ step = "execution")
  <2>1. Advances /\ step = "execution"
    BY <1>1 DEF InsertExecution, HistoryFails, Advances, LoopInv
  <2>2. \/ history' = history
        \/ history' = [history EXCEPT !["executions"] = Append(@, at)]
    BY <1>1, <2>1 DEF InsertExecution, HistoryFails, Logged, TableOf
  <2>3. QED BY <2>1, <2>2
<1>2. CASE InsertLog \/ (HistoryFails /\ step = "log")
  <2>1. \/ history' = history
        \/ history' = [history EXCEPT !["engine_logs"] = Append(@, at)]
    BY <1>2 DEF InsertLog, HistoryFails, Logged, TableOf
  <2>2. "executions" \in Tables
    BY DEF Tables
  <2>3. QED BY <2>1, <2>2
<1>3. CASE InsertSignal \/ (HistoryFails /\ step = "signal")
  <2>1. \/ history' = history
        \/ history' = [history EXCEPT !["strategy_signals"] = Append(@, at)]
    BY <1>3 DEF InsertSignal, HistoryFails, Logged, TableOf
  <2>2. "executions" \in Tables
    BY DEF Tables
  <2>3. QED BY <2>1, <2>2
<1>4. CASE ~(InsertExecution \/ InsertLog \/ InsertSignal \/ HistoryFails)
  BY <1>4 DEF Next, Work, Send, Receive, ReceiveGarbage, IgnoreEvent, UpdateOrder, UpdatePosition,
         OrderFails, PositionFails, Crash, End, Start, vars, stores
<1>5. QED BY <1>1, <1>2, <1>3, <1>4 DEF HistoryFails

\* The rows of a position change with the executions.
LEMMA RowsStay ==
    ASSUME StoredInv, [Next]_vars, NEW b \in Books,
           history'["executions"] = history["executions"]
    PROVE  RowsOf(b)' = RowsOf(b)
<1>1. Recorded("executions")' = Recorded("executions")
  BY DEF Recorded
<1>2. Recorded("executions") \subseteq Past
  BY DEF StoredInv, HistoryInv, Tables
<1>3. \A id \in Recorded("executions") : EventAt(id)' = EventAt(id)
  BY <1>2, PastEvents DEF StoredInv, TypedInv
<1>4. RowsOf(b)' = {id \in Recorded("executions") : EventAt(id)'.book = b}
  BY <1>1 DEF RowsOf
<1>5. QED BY <1>3, <1>4 DEF RowsOf

LEMMA RowsAdd ==
    ASSUME StoredInv, [Next]_vars, NEW b \in Books, Advances,
           history' = [history EXCEPT !["executions"] = Append(@, at)]
    PROVE  /\ at \notin RowsOf(b) /\ UNCHANGED sent
           /\ RowsOf(b)' = RowsOf(b) \cup {id \in {at} : Event.book = b}
<1>1. /\ LoopInv /\ "executions" \in Tables /\ history["executions"] \in Seq(EventIds)
      /\ history \in [Tables -> Seq(EventIds)] /\ Recorded("executions") \subseteq Past
  BY DEF StoredInv, TypedInv, StoresInv, HistoryInv, Tables
<1>2. at \notin Past /\ UNCHANGED sent /\ at \in EventIds
  BY <1>1, PastAdvances DEF Advances, LoopInv, StepInv, IsEvent
<1> DEFINE h == history["executions"]
<1>3. /\ Len(h) \in Nat /\ DOMAIN h = 1..Len(h)
      /\ history'["executions"] = Append(h, at)
  BY <1>1
<1>4. /\ DOMAIN history'["executions"] = 1..(Len(h) + 1)
      /\ \A i \in 1..Len(h) : history'["executions"][i] = h[i]
      /\ history'["executions"][Len(h) + 1] = at
  BY <1>1, <1>2, <1>3, AppendProperties
<1>5. Recorded("executions")' = Recorded("executions") \cup {at}
  <2>1. Recorded("executions") = {h[i] : i \in 1..Len(h)}
    BY <1>3 DEF Recorded
  <2>2. Recorded("executions")' = {history'["executions"][i] : i \in 1..(Len(h) + 1)}
    BY <1>4 DEF Recorded
  <2>3. 1..(Len(h) + 1) = 1..Len(h) \cup {Len(h) + 1}
    BY <1>3
  <2>4. QED BY <1>4, <2>1, <2>2, <2>3
<1>6. RowsOf(b)' = {id \in Recorded("executions")' : EventAt(id).book = b}
  BY <1>2 DEF RowsOf, EventAt
<1>7. QED BY <1>1, <1>2, <1>5, <1>6 DEF RowsOf, Event

\* The past executions of a position.
LEMMA ExecutionsStay ==
    ASSUME LoopInv, [Next]_vars, Past' = Past, NEW b
    PROVE  ExecutionsOf(b)' = ExecutionsOf(b)
<1>1. \A id \in Past : EventAt(id)' = EventAt(id)
  BY PastEvents
<1>2. ExecutionsOf(b)' = {id \in Past' : EventAt(id)'.type = "execution" /\ EventAt(id)'.book = b}
  BY DEF ExecutionsOf
<1>3. QED BY <1>1, <1>2 DEF ExecutionsOf

LEMMA ExecutionsAdvance ==
    ASSUME LoopInv, Advances, NEW b
    PROVE  ExecutionsOf(b)' = ExecutionsOf(b) \cup
                                 {id \in {at} : Event.type = "execution" /\ Event.book = b}
<1>1. Past' = Past \cup {at} /\ UNCHANGED sent
  BY PastAdvances DEF Advances
<1>2. \A id : EventAt(id)' = EventAt(id)
  BY <1>1 DEF EventAt
<1>3. ExecutionsOf(b)' = {id \in Past' : EventAt(id).type = "execution" /\ EventAt(id).book = b}
  BY <1>2 DEF ExecutionsOf
<1>4. QED BY <1>1, <1>3 DEF ExecutionsOf, Event

\* An execution that is past was clean before.
LEMMA WasClean ==
    ASSUME LoopInv, [Next]_vars, NEW b, ExecutionsOf(b) \subseteq ExecutionsOf(b)', Clean(b)'
    PROVE  Clean(b)
<1>1. \A id \in ExecutionsOf(b) : EventAt(id)' = EventAt(id)
  BY PastEvents DEF ExecutionsOf
<1>2. \A id \in ExecutionsOf(b)' : /\ id \notin disturbed'.events
                                   /\ PositionAccepts(EventAt(id)')
                                   /\ ExecutionAccepts(EventAt(id)')
  BY DEF Clean, PositionAccepts, ExecutionAccepts
<1>3. disturbed.events \subseteq disturbed'.events
  BY PastGrows
<1>4. QED BY <1>1, <1>2, <1>3 DEF Clean

\* Nothing happens to a position.
LEMMA PositionStays ==
    ASSUME StoredInv, PositionInv, [Next]_vars, NEW b \in Books, ~IsAhead(b), ~IsAhead(b)',
           ExecutionsOf(b)' = ExecutionsOf(b), RowsOf(b)' = RowsOf(b),
           positions'[b] = positions[b], Clean(b)'
    PROVE  Agrees(b)'
<1>1. Clean(b)
  BY WasClean DEF StoredInv, TypedInv
<1>2. positions[b] = Total(b)
  BY <1>1 DEF PositionInv, Agrees
<1>3. Total(b)' = Total(b)
  BY TotalStays
<1>4. positions'[b] = Total(b)'
  BY <1>2, <1>3
<1>5. QED BY <1>4 DEF Agrees

LEMMA PositionStep ==
    ASSUME StoredInv, PositionInv, [Next]_vars
    PROVE  PositionInv'
<1>1. LoopInv /\ LoopInv' /\ StoredInv'
  BY StoredStep DEF StoredInv, TypedInv
<1>2. history \in [Tables -> Seq(EventIds)] /\ positions \in [Books -> Int]
  BY DEF StoredInv, TypedInv, StoresInv
<1> SUFFICES ASSUME NEW b \in Books, Clean(b)' PROVE Agrees(b)'
  BY DEF PositionInv
<1>3. Clean(b) => Agrees(b)
  BY DEF PositionInv
<1>4. disturbed.events \subseteq disturbed'.events
  BY <1>1, PastGrows
<1>5. CASE (\E m \in Messages : Send(m)) \/ Receive \/ Start \/ UNCHANGED vars
  <2>1. Past' = Past /\ UNCHANGED <<positions, history, disturbed>>
    BY <1>1, <1>5, PastStays DEF Send, Receive, Start, vars, stores
  <2>2. ExecutionsOf(b)' = ExecutionsOf(b) /\ RowsOf(b)' = RowsOf(b)
    BY <1>1, <2>1, ExecutionsStay, RowsStay
  <2>3. CASE step = "execution"
    <3>1. UNCHANGED <<at, step>> /\ IsEvent(at)
      BY <1>1, <1>5, <2>3 DEF Send, Receive, Start, vars, LoopInv, StepInv
    <3>2. ASSUME NEW id, id = at PROVE EventAt(id)' = EventAt(id)
      BY <1>1, <3>1, <3>2, EventsStay
    <3>3. Event' = Event
      BY <3>1, <3>2 DEF Event, EventAt
    <3>4. Clean(b)
      BY <1>1, <2>2, WasClean
    <3>5. CASE IsAhead(b)
      <4>1. Total(b)' = Total(b) /\ IsAhead(b)'
        BY <2>2, <3>1, <3>3, <3>5, TotalStays DEF IsAhead
      <4>2. at \notin disturbed.events /\ PositionAccepts(Event) =>
               positions[b] = Total(b) + Signed(Event)
        BY <1>3, <3>4, <3>5 DEF Agrees
      <4>3. at' \notin disturbed'.events /\ PositionAccepts(Event)' =>
               positions'[b] = Total(b)' + Signed(Event)'
        BY <2>1, <3>1, <3>3, <4>1, <4>2 DEF PositionAccepts, Signed
      <4>4. QED BY <4>1, <4>3 DEF Agrees
    <3>6. CASE ~IsAhead(b)
      <4>1. ~IsAhead(b)'
        BY <2>3, <3>1, <3>3, <3>6 DEF IsAhead
      <4>2. QED BY <2>1, <2>2, <3>6, <4>1, PositionStays
    <3>7. QED BY <3>5, <3>6
  <2>4. CASE step # "execution"
    <3>1. step' # "execution"
      BY <1>1, <1>5, <2>4, ReceiveStep DEF Send, Start, vars
    <3>2. ~IsAhead(b) /\ ~IsAhead(b)'
      BY <2>4, <3>1 DEF IsAhead
    <3>3. QED BY <2>1, <2>2, <3>2, PositionStays
  <2>5. QED BY <2>3, <2>4
<1>6. CASE GoesOn
  <2>1. /\ Past' = Past /\ UNCHANGED <<sent, at>> /\ Event' = Event
        /\ step \in {"order", "position"} /\ step' \in {"position", "execution"}
    BY <1>1, <1>6, PastStays DEF GoesOn, Event, EventAt
  <2>2. UNCHANGED history
    BY <2>1 DEF Next, Work, Send, Receive, ReceiveGarbage, IgnoreEvent, UpdateOrder, OrderFails, UpdatePosition,
       PositionFails, InsertExecution, InsertLog, InsertSignal, HistoryFails, Crash, End, Start, vars,
       stores
  <2>3. ExecutionsOf(b)' = ExecutionsOf(b) /\ RowsOf(b)' = RowsOf(b) /\ ~IsAhead(b)
    BY <1>1, <2>1, <2>2, ExecutionsStay, RowsStay DEF IsAhead
  <2>4. CASE IsAhead(b)'
    <3>1. step = "position" /\ step' = "execution" /\ Event.book = b
      BY <1>6, <2>1, <2>4 DEF IsAhead, GoesOn
    <3>2. UpdatePosition \/ PositionFails
      BY <2>1, <3>1 DEF Next, Work, Send, Receive, ReceiveGarbage, IgnoreEvent, UpdateOrder, OrderFails,
       InsertExecution, InsertLog, InsertSignal, HistoryFails, Crash, End, Start, vars
    <3>3. positions[b] = Total(b) /\ Total(b)' = Total(b)
      BY <1>1, <1>3, <2>3, WasClean, TotalStays DEF Agrees
    <3>4. ASSUME at \notin disturbed'.events, PositionAccepts(Event)
          PROVE  positions'[b] = Total(b)' + Signed(Event)
      <4>1. positions' = Moved(Event)
        BY <3>2, <3>4 DEF UpdatePosition, PositionFails, Disturb
      <4>2. positions'[b] = positions[b] + Signed(Event)
        BY <1>2, <3>1, <4>1 DEF Moved
      <4>3. QED BY <3>3, <4>2
    <3>5. at' \notin disturbed'.events /\ PositionAccepts(Event)' =>
               positions'[b] = Total(b)' + Signed(Event)'
      BY <2>1, <3>4 DEF PositionAccepts, Signed
    <3>6. QED BY <2>4, <3>5 DEF Agrees
  <2>5. CASE ~IsAhead(b)'
    <3>1. positions'[b] = positions[b]
      <4>1. CASE step = "position"
        <5>1. (UpdatePosition \/ PositionFails) /\ Event.book # b
          BY <1>6, <2>1, <2>5, <4>1 DEF IsAhead, GoesOn, Next, Work, Send, Receive, ReceiveGarbage, IgnoreEvent,
            UpdateOrder, OrderFails, InsertExecution, InsertLog, InsertSignal, HistoryFails, Crash, End,
            Start, vars
        <5>2. positions' = positions \/ positions' = Moved(Event)
          BY <5>1 DEF UpdatePosition, PositionFails
        <5>3. QED BY <1>2, <5>1, <5>2 DEF Moved
      <4>2. CASE step = "order"
        BY <4>2 DEF Next, Work, Send, Receive, ReceiveGarbage, IgnoreEvent, UpdateOrder, OrderFails, UpdatePosition,
         PositionFails, InsertExecution, InsertLog, InsertSignal, HistoryFails, Crash, End, Start, vars,
         stores
      <4>3. QED BY <2>1, <4>1, <4>2
    <3>2. QED BY <2>3, <2>5, <3>1, PositionStays
  <2>6. QED BY <2>4, <2>5
<1>7. CASE Advances
  <2>1. ~IsAhead(b)'
    BY <1>1, <1>7, AdvanceEvent DEF IsAhead
  <2>2. /\ ExecutionsOf(b)' = ExecutionsOf(b) \cup
                                 {id \in {at} : Event.type = "execution" /\ Event.book = b}
        /\ UNCHANGED sent
    BY <1>1, <1>7, ExecutionsAdvance DEF Advances
  <2>3. at' # at /\ step' # "down" /\ step \notin {"recv", "down"}
    <3>1. IsEvent(at)
      BY <1>1, <1>7 DEF Advances, LoopInv, StepInv
    <3>2. at = <<at[1], at[2]>> /\ at[2] \in Nat /\ at # NoEvent
      BY <1>1, <3>1, EventType
    <3>3. <<at[1], at[2] + 1>> # <<at[1], at[2]>>
      BY <3>2
    <3>4. step' # "down"
      BY <1>1, <1>7, AdvanceEvent
    <3>5. QED BY <1>1, <1>7, <3>2, <3>3, <3>4, AdvanceEvent DEF Advances, LoopInv
  <2>4. CASE IsAhead(b)
    <3>1. UNCHANGED positions /\ (InsertExecution \/ HistoryFails)
      BY <2>3, <2>4, <1>7 DEF IsAhead, Next, Work, Send, Receive, ReceiveGarbage, IgnoreEvent, UpdateOrder,
         OrderFails, UpdatePosition, PositionFails, InsertExecution, InsertLog, InsertSignal,
         HistoryFails, Crash, End, Start, vars, Advances
    <3>2. Event.type = "execution" /\ Event.book = b
      BY <1>1, <2>4 DEF IsAhead, LoopInv, StepInv
    <3>3. ExecutionsOf(b)' = ExecutionsOf(b) \cup {at}
      BY <2>2, <3>2
    <3>4. Clean(b)
      BY <1>1, <3>3, WasClean
    <3>5. at \notin disturbed'.events /\ PositionAccepts(Event) /\ ExecutionAccepts(Event)
      <4>1. ASSUME NEW id, id = at
            PROVE  id \notin disturbed'.events /\ PositionAccepts(Event) /\ ExecutionAccepts(Event)
        <5>1. id \in ExecutionsOf(b)' /\ EventAt(id)' = Event
          BY <2>2, <3>3, <4>1 DEF Event, EventAt
        <5>2. PositionAccepts(EventAt(id)') /\ ExecutionAccepts(EventAt(id)') /\ id \notin disturbed'.events
          BY <5>1 DEF Clean, PositionAccepts, ExecutionAccepts
        <5>3. QED BY <5>1, <5>2
      <4>2. QED BY <4>1
    <3>6. positions[b] = Total(b) + Signed(Event)
      BY <1>3, <1>4, <2>4, <3>4, <3>5 DEF Agrees
    <3>7. history' = [history EXCEPT !["executions"] = Append(@, at)]
      BY <3>1, <3>5 DEF InsertExecution, HistoryFails, Disturb, Logged
    <3>8. at \notin RowsOf(b) /\ RowsOf(b)' = RowsOf(b) \cup {at}
      BY <1>7, <3>2, <3>7, RowsAdd
    <3>9. ASSUME NEW e, e = at PROVE Total(b)' = Total(b) + Signed(EventAt(e))
      <4>1. e \notin RowsOf(b) /\ RowsOf(b)' = RowsOf(b) \cup {e}
        BY <3>8, <3>9
      <4>2. QED BY <2>2, <4>1, TotalAdds
    <3>10. Total(b)' = Total(b) + Signed(Event)
      BY <3>9 DEF Event
    <3>11. positions'[b] = Total(b)'
      BY <3>1, <3>6, <3>10
    <3>12. QED BY <2>1, <3>11 DEF Agrees
  <2>5. CASE ~IsAhead(b)
    <3>1. ~(Event.type = "execution" /\ Event.book = b)
      <4>1. SUFFICES ASSUME Event.type = "execution" PROVE step = "execution"
        BY <2>5 DEF IsAhead
      <4>2. step \in {"order", "position", "execution"}
        BY <1>1, <2>3, <4>1 DEF LoopInv, StepInv
      <4>3. step # "position"
        BY <2>3 DEF Next, Work, Send, Receive, ReceiveGarbage, IgnoreEvent, UpdateOrder, OrderFails,
           UpdatePosition, InsertExecution, InsertLog, InsertSignal, PositionFails, HistoryFails,
           Crash, End, Start, vars
      <4>4. step # "order"
        BY <2>3, <4>1 DEF Next, Work, Send, Receive, ReceiveGarbage, IgnoreEvent, UpdateOrder, OrderFails,
           AfterOrder, UpdatePosition, InsertExecution, InsertLog, InsertSignal, PositionFails,
           HistoryFails, Crash, End, Start, vars
      <4>5. QED BY <4>2, <4>3, <4>4
    <3>2. ExecutionsOf(b)' = ExecutionsOf(b)
      BY <2>2, <3>1
    <3>3. RowsOf(b)' = RowsOf(b)
      <4>1. CASE history'["executions"] = history["executions"]
        BY <4>1, RowsStay
      <4>2. CASE /\ step = "execution"
                 /\ history' = [history EXCEPT !["executions"] = Append(@, at)]
        <5>1. Event.book # b
          BY <2>5, <4>2 DEF IsAhead
        <5>2. QED BY <1>7, <4>2, <5>1, RowsAdd
      <4>3. QED BY <1>1, <1>2, <4>1, <4>2, ExecutionWrites
    <3>4. UNCHANGED positions
      BY <1>7, <2>3 DEF Next, Work, Send, Receive, ReceiveGarbage, IgnoreEvent, UpdateOrder,
         OrderFails, UpdatePosition, PositionFails, InsertExecution, InsertLog, InsertSignal,
         HistoryFails, Crash, End, Start, vars, Advances, stores
    <3>5. QED BY <2>1, <2>5, <3>2, <3>3, <3>4, PositionStays
  <2>6. QED BY <2>4, <2>5
<1>8. CASE Ends
  <2>1. ~IsAhead(b)' /\ UNCHANGED <<sent, positions, history>>
    BY <1>8 DEF Ends, Crash, ReceiveGarbage, End, stores, IsAhead
  <2>2. \A id : EventAt(id)' = EventAt(id)
    BY <2>1 DEF EventAt
  <2>3. ExecutionsOf(b)' = {id \in Past' : EventAt(id).type = "execution" /\ EventAt(id).book = b}
    BY <2>2 DEF ExecutionsOf
  <2>4. \A id \in ExecutionsOf(b)' : id \notin disturbed'.events
    BY DEF Clean
  <2>5. /\ Past \subseteq Past' /\ Past' \ Past \subseteq disturbed'.events
        /\ at # NoEvent => at \in Past' /\ at \in disturbed'.events
    BY <1>1, <1>8, PastEnds
  <2>6. ExecutionsOf(b)' = ExecutionsOf(b)
    BY <2>3, <2>4, <2>5 DEF ExecutionsOf
  <2>7. ~IsAhead(b)
    BY <1>1, <2>3, <2>4, <2>5 DEF IsAhead, LoopInv, StepInv, Event
  <2>8. RowsOf(b)' = RowsOf(b)
    BY <2>1, RowsStay
  <2>9. QED BY <2>1, <2>6, <2>7, <2>8, PositionStays
<1>9. QED BY <1>1, <1>5, <1>6, <1>7, <1>8, StepKinds

MatchInv == StoredInv /\ PositionInv

LEMMA MatchInit == Init => MatchInv
<1> SUFFICES ASSUME Init PROVE MatchInv
  OBVIOUS
<1>1. StoredInv /\ "executions" \in Tables
  BY StoredInit DEF Tables
<1>2. ASSUME NEW b \in Books PROVE Agrees(b)
  <2>1. DOMAIN history["executions"] = {}
    BY <1>1 DEF Init
  <2>2. RowsOf(b) = {}
    BY <2>1 DEF RowsOf, Recorded
  <2>3. Total(b) = SumOf(Values({}), {})
    BY <1>1, <2>2, TotalIs DEF StoredInv, TotalChar
  <2>4. Total(b) = 0
    BY <2>3, SumOfEmpty
  <2>5. positions[b] = 0 /\ ~IsAhead(b)
    BY DEF Init, IsAhead
  <2>6. QED BY <2>4, <2>5 DEF Agrees
<1>3. QED BY <1>1, <1>2 DEF MatchInv, PositionInv

\* Two stores that no transaction spans agree between events: the quantity of
\* a position is the sum of the executions QuestDB holds for it, as long as all
\* events of the position were complete and none was hit by a fault.
THEOREM PositionsAreExecutions == Spec => []PositionsMatchExecutions
<1>1. MatchInv /\ [Next]_vars => MatchInv'
  BY StoredStep, PositionStep DEF MatchInv
<1>2. MatchInv => PositionsMatchExecutions
  <2> SUFFICES ASSUME PositionInv, NEW b \in Books,
                      step \in {"recv", "order", "log", "signal", "unknown"},
                      \A id \in ExecutionsOf(b) : /\ id \notin disturbed.events
                                                  /\ PositionAccepts(EventAt(id))
                                                  /\ ExecutionAccepts(EventAt(id))
               PROVE  LET signed(id) == Signed(EventAt(id))
                      IN  positions[b] = MapThenSumSet(signed, {id \in Recorded("executions") :
                                                                  EventAt(id).book = b})
    BY DEF MatchInv, PositionsMatchExecutions
  <2>1. Clean(b) /\ ~IsAhead(b)
    BY DEF Clean, IsAhead
  <2>2. positions[b] = Total(b)
    BY <2>1 DEF PositionInv, Agrees
  <2>3. QED BY <2>2 DEF Total, RowsOf
<1>3. QED BY <1>1, <1>2, MatchInit, PTL DEF Spec
=============================================================================
