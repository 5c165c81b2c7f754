----------------------------- MODULE Ingestion -----------------------------
(***************************************************************************)
(* The ingestion service (ingestion-service/): one process pulls batches   *)
(* of trading events from a ZeroMQ socket and routes each event to two     *)
(* stores, PostgreSQL (orders, positions) and QuestDB (executions,         *)
(* engine_logs, strategy_signals).                                         *)
(*                                                                         *)
(* One action is one write to a store.  A writer that raises logs the      *)
(* error and the event goes on to its next store; nothing is retried and   *)
(* no batch is acknowledged, so that what a process holds dies with it.    *)
(***************************************************************************)
EXTENDS Integers, Sequences, FiniteSets, FiniteSetsExt

CONSTANTS Events,     \* what the trading engine reports, see EventRecord
          Orders,     \* order ids
          Books,      \* (server_env, account_id, symbol), the key of positions
          Messages,   \* batches: sequences of events, or Garbage
          Garbage,    \* bytes that are not a JSON object
          NoOrder,    \* no row
          NoStatus,   \* the event carries no status
          MaxSent,    \* bound: messages of one behaviour
          MaxFaults   \* bound: failing statements, lost processes

Types == {"execution", "order_update", "log", "signal", "other"}
Fields == {"order_id", "symbol", "side", "quantity", "price", "server_env", "timestamp"}

\* has: the fields that are present and not null.
EventRecord == [type : Types, has : SUBSET Fields, order : Orders, book : Books,
                side : {"BUY", "SELL"}, qty : Nat, status : STRING \cup {NoStatus},
                fill : BOOLEAN]

\* A row of orders: a status some event leaves there, and if filled_quantity and
\* avg_fill_price are set; an event without a status leaves UNKNOWN.
StatusOf(e) == IF e.status = NoStatus THEN "UNKNOWN" ELSE e.status
OrderRow == [status : {StatusOf(e) : e \in Events}, fill : BOOLEAN]

ASSUME IngestionAssumption ==
    /\ \A e \in Events :
          /\ e.type \in Types /\ e.has \subseteq Fields /\ e.order \in Orders
          /\ e.book \in Books /\ e.side \in {"BUY", "SELL"} /\ e.qty \in Nat
          /\ e.fill \in BOOLEAN
    /\ NoOrder \notin OrderRow
    /\ Garbage \notin Seq(Events)
    /\ Messages \subseteq Seq(Events) \cup {Garbage}
    /\ MaxSent \in Nat /\ MaxFaults \in Nat

-----------------------------------------------------------------------------
VARIABLES sent,      \* the messages pushed so far, in order
          queue,     \* numbers of those not yet received
          at,        \* <<message, event>> in hand, or NoEvent
          step,      \* what is done next: "recv", a store, or "down"
          orders,    \* table orders
          positions, \* table positions, quantity by key; a missing row is 0
          history,   \* QuestDB: the events of each append-only table
          disturbed  \* events hit by a fault or lost, and how many faults there were

vars == <<sent, queue, at, step, orders, positions, history, disturbed>>
stores == <<orders, positions, history>>

NoEvent == <<0, 0>>
Tables == {"executions", "engine_logs", "strategy_signals"}
EventIds == (1..MaxSent) \X Nat

Init ==
    /\ sent = <<>>
    /\ queue = <<>>
    /\ at = NoEvent
    /\ step = "recv"
    /\ orders = [o \in Orders |-> NoOrder]
    /\ positions = [b \in Books |-> 0]
    /\ history = [t \in Tables |-> <<>>]
    /\ disturbed = [events |-> {}, faults |-> 0]

EventAt(id) == sent[id[1]][id[2]]
Event == EventAt(at)

-----------------------------------------------------------------------------
(* What the writers require of an event.                                   *)

\* order_id is read with [], the others with get(); symbol, side and quantity
\* are NOT NULL columns of the row proposed for insertion, also on conflict.
OrderAccepts(e) == {"order_id", "symbol", "side", "quantity"} \subseteq e.has

PositionAccepts(e) == {"symbol", "side", "quantity", "price", "server_env"} \subseteq e.has

ExecutionAccepts(e) ==
    {"timestamp", "server_env", "order_id", "symbol", "side", "quantity", "price"} \subseteq e.has

\* The payload of logs and signals is taken to be complete.
TelemetryAccepts(e) == {"timestamp", "server_env"} \subseteq e.has

Signed(e) == IF e.side = "SELL" THEN -e.qty ELSE e.qty

-----------------------------------------------------------------------------
(* The main loop and EventRouter.route_event.                              *)

FirstStep(type) ==
    CASE type \in {"execution", "order_update"} -> "order"
      [] type = "log"    -> "log"
      [] type = "signal" -> "signal"
      [] OTHER           -> "unknown"

\* The loop takes the next event of the batch, or the next message.
Take(n, i) ==
    IF i <= Len(sent[n])
    THEN at' = <<n, i>> /\ step' = FirstStep(sent[n][i].type)
    ELSE at' = NoEvent /\ step' = "recv"

NextEvent == Take(at[1], at[2] + 1)

Send(m) ==
    /\ Len(sent) < MaxSent
    /\ sent' = Append(sent, m)
    /\ queue' = Append(queue, Len(sent) + 1)
    /\ UNCHANGED <<at, step, stores, disturbed>>

\* socket.recv() and json.loads.
Receive ==
    /\ step = "recv"
    /\ queue # <<>>
    /\ sent[Head(queue)] # Garbage
    /\ queue' = Tail(queue)
    /\ Take(Head(queue), 1)
    /\ UNCHANGED <<sent, stores, disturbed>>

\* Mutant: the loop does not get past an unknown type.
IgnoreEventForEver == step = "unknown" /\ UNCHANGED vars

\* route_event logs an unknown type and returns.
IgnoreEvent ==
    /\ step = "unknown"
    /\ NextEvent
    /\ UNCHANGED <<sent, queue, stores, disturbed>>

\* Mutant: an order_update ends its batch.
AfterOrderReturns == IF Event.type = "execution"
                     THEN step' = "position" /\ UNCHANGED at
                     ELSE step' = "recv" /\ UNCHANGED at

AfterOrder == IF Event.type = "execution"
              THEN step' = "position" /\ UNCHANGED at
              ELSE NextEvent

-----------------------------------------------------------------------------
(* PostgresWriter and QuestDBWriter.                                       *)

\* Mutant: ON CONFLICT DO NOTHING.
UpsertedOnce(e) ==
    [orders EXCEPT ![e.order] = IF @ = NoOrder
                                THEN [status |-> StatusOf(e), fill |-> FALSE] ELSE @]

\* Insert or update: the columns of a fill are in the UPDATE only.
Upserted(e) ==
    [orders EXCEPT ![e.order] = IF @ = NoOrder
                                THEN [status |-> StatusOf(e), fill |-> FALSE]
                                ELSE [status |-> StatusOf(e), fill |-> e.fill]]

UpdateOrder ==
    /\ step = "order"
    /\ orders' = IF OrderAccepts(Event) THEN Upserted(Event) ELSE orders
    /\ AfterOrder
    /\ UNCHANGED <<sent, queue, positions, history, disturbed>>

\* Mutant: SET quantity = $4.
MovedTo(e) == [positions EXCEPT ![e.book] = Signed(e)]

Moved(e) == [positions EXCEPT ![e.book] = @ + Signed(e)]

UpdatePosition ==
    /\ step = "position"
    /\ positions' = IF PositionAccepts(Event) THEN Moved(Event) ELSE positions
    /\ step' = "execution"
    /\ UNCHANGED <<sent, queue, at, orders, history, disturbed>>

Logged(table, accepted) ==
    IF accepted THEN [history EXCEPT ![table] = Append(@, at)] ELSE history

InsertExecution ==
    /\ step = "execution"
    /\ history' = Logged("executions", ExecutionAccepts(Event))
    /\ NextEvent
    /\ UNCHANGED <<sent, queue, orders, positions, disturbed>>

InsertLog ==
    /\ step = "log"
    /\ history' = Logged("engine_logs", TelemetryAccepts(Event))
    /\ NextEvent
    /\ UNCHANGED <<sent, queue, orders, positions, disturbed>>

InsertSignal ==
    /\ step = "signal"
    /\ history' = Logged("strategy_signals", TelemetryAccepts(Event))
    /\ NextEvent
    /\ UNCHANGED <<sent, queue, orders, positions, disturbed>>

-----------------------------------------------------------------------------
(* What goes wrong.                                                        *)

Disturb(events) ==
    /\ disturbed.faults < MaxFaults
    /\ disturbed' = [events |-> disturbed.events \cup events, faults |-> disturbed.faults + 1]

\* A store answers with an error; the writer logs it and returns False.  The
\* write may have reached the store all the same.
OrderFails ==
    /\ step = "order"
    /\ Disturb({at})
    /\ orders' \in {orders, IF OrderAccepts(Event) THEN Upserted(Event) ELSE orders}
    /\ AfterOrder
    /\ UNCHANGED <<sent, queue, positions, history>>

PositionFails ==
    /\ step = "position"
    /\ Disturb({at})
    /\ positions' \in {positions, IF PositionAccepts(Event) THEN Moved(Event) ELSE positions}
    /\ step' = "execution"
    /\ UNCHANGED <<sent, queue, at, orders, history>>

HistoryAccepts(e) == IF e.type = "execution" THEN ExecutionAccepts(e) ELSE TelemetryAccepts(e)
TableOf == [execution |-> "executions", log |-> "engine_logs", signal |-> "strategy_signals"]

\* Mutant: the write is tried again after an error.
HistoryFailsRetried ==
    /\ step \in {"execution", "log", "signal"}
    /\ Disturb({at})
    /\ history' \in {history, Logged(TableOf[step], HistoryAccepts(Event))}
    /\ UNCHANGED <<sent, queue, at, step, orders, positions>>

HistoryFails ==
    /\ step \in {"execution", "log", "signal"}
    /\ Disturb({at})
    /\ history' \in {history, Logged(TableOf[step], HistoryAccepts(Event))}
    /\ NextEvent
    /\ UNCHANGED <<sent, queue, orders, positions>>

RestOfBatch == IF at = NoEvent THEN {}
               ELSE {<<at[1], i>> : i \in at[2]..Len(sent[at[1]])}
EventsOf(n) == IF sent[n] = Garbage THEN {} ELSE {<<n, i>> : i \in DOMAIN sent[n]}
Lost(k) == RestOfBatch \cup UNION {EventsOf(queue[j]) : j \in 1..k}

\* The process ends, and with it the event in hand, the rest of its batch and
\* the k messages its socket had received already.
End(k, fault) ==
    /\ queue' = SubSeq(queue, k + 1, Len(queue))
    /\ disturbed' = [events |-> disturbed.events \cup Lost(k), faults |-> disturbed.faults + fault]
    /\ at' = NoEvent
    /\ step' = "down"
    /\ UNCHANGED <<sent, stores>>

\* json.loads or message.get raises: the finally clause closes the socket, and
\* what came in behind the garbage is gone with it.
ReceiveGarbage ==
    /\ step = "recv"
    /\ queue # <<>>
    /\ sent[Head(queue)] = Garbage
    /\ \E k \in 1..Len(queue) : End(k, 0)

Crash ==
    /\ step # "down"
    /\ disturbed.faults < MaxFaults
    /\ \E k \in 0..Len(queue) : End(k, 1)

\* Somebody starts the container again: compose has no restart policy for it.
Start ==
    /\ step = "down"
    /\ step' = "recv"
    /\ UNCHANGED <<sent, queue, at, stores, disturbed>>

-----------------------------------------------------------------------------
Work == \/ Receive \/ ReceiveGarbage \/ IgnoreEvent
        \/ UpdateOrder \/ UpdatePosition
        \/ InsertExecution \/ InsertLog \/ InsertSignal

Next == \/ \E m \in Messages : Send(m)
        \/ Work
        \/ OrderFails \/ PositionFails \/ HistoryFails
        \/ Crash \/ Start

Spec == Init /\ [][Next]_vars

\* The loop has nothing else to wait for than the socket and the stores.
FairSpec == Spec /\ WF_vars(Work)

-----------------------------------------------------------------------------
TypeOK ==
    /\ sent \in Seq(Messages) /\ Len(sent) <= MaxSent
    /\ queue \in Seq(1..Len(sent))
    /\ at = NoEvent \/ (at[1] \in 1..Len(sent) /\ at[2] \in DOMAIN sent[at[1]])
    /\ step \in {"recv", "down"} <=> at = NoEvent
    /\ step \in {"recv", "down", "order", "position", "execution", "log", "signal", "unknown"}
    /\ orders \in [Orders -> OrderRow \cup {NoOrder}]
    /\ positions \in [Books -> Int]
    /\ history \in [Tables -> Seq(EventIds)]
    /\ disturbed.events \subseteq EventIds
    /\ disturbed.faults \in 0..MaxFaults

\* Order of the events of all batches.
Before(a, b) == a[1] < b[1] \/ (a[1] = b[1] /\ a[2] < b[2])

\* The events that were handled, or lost: everything sent but what is queued
\* and what is still to come of the batch in hand.
Past == (UNION {EventsOf(n) : n \in {m \in 1..Len(sent) : \A j \in DOMAIN queue : queue[j] # m}})
           \ RestOfBatch

\* Every table of QuestDB is append-only and holds each event at most once, in
\* the order the engine sent them, whatever fails and however often the
\* service restarts.
HistoryInOrder ==
    \A t \in Tables : \A i, j \in DOMAIN history[t] :
        i < j => Before(history[t][i], history[t][j])

ExecutionsOf(b) == {id \in Past : EventAt(id).type = "execution" /\ EventAt(id).book = b}
Recorded(t) == {history[t][i] : i \in DOMAIN history[t]}

\* Two stores that no transaction spans agree between events: the quantity of
\* a position is the sum of the executions QuestDB holds for it, as long as
\* all events of the position were complete and none was hit by a fault.
PositionsMatchExecutions ==
    \A b \in Books :
       /\ step \in {"recv", "order", "log", "signal", "unknown"}
       /\ \A id \in ExecutionsOf(b) : /\ id \notin disturbed.events
                                      /\ PositionAccepts(EventAt(id))
                                      /\ ExecutionAccepts(EventAt(id))
       => LET signed(id) == Signed(EventAt(id))
          IN  positions[b] = MapThenSumSet(signed, {id \in Recorded("executions") :
                                                      EventAt(id).book = b})

UpdatesOf(o) == {id \in Past : /\ EventAt(id).type \in {"execution", "order_update"}
                               /\ EventAt(id).order = o}

\* The row of an order shows the status its last event reports, an earlier one
\* never overwrites it, as long as none of its events was hit by a fault, all
\* were accepted and the last one reports a status.  One that reports none
\* leaves UNKNOWN, and loses what was reported: see FilledOrdersShowTheFill.
OrdersShowLastEvent ==
    \A o \in Orders :
       /\ step \in {"recv", "order", "log", "signal", "unknown"}
       /\ UpdatesOf(o) # {}
       /\ \A id \in UpdatesOf(o) : id \notin disturbed.events /\ OrderAccepts(EventAt(id))
       => /\ orders[o] # NoOrder
          /\ \E last \in UpdatesOf(o) :
                /\ \A id \in UpdatesOf(o) : id = last \/ Before(id, last)
                /\ EventAt(last).status # NoStatus =>
                      orders[o].status = EventAt(last).status

\* A message is received or lost with a process: none waits for ever behind
\* another, unless the service is down.
MessagesAreReceived ==
    \A n \in 1..MaxSent :
       (\E j \in DOMAIN queue : queue[j] = n) ~>
          (step = "down" \/ \A j \in DOMAIN queue : queue[j] # n)

\* README, table of the trading database: orders holds "every order from
\* submission to fill - status, fill price, commission".  An order of which an
\* execution arrived shows a status and a fill.
FilledOrdersShowTheFill ==
    \A o \in Orders :
       /\ \E id \in UpdatesOf(o) \ disturbed.events :
             /\ EventAt(id).type = "execution" /\ OrderAccepts(EventAt(id))
       /\ orders[o] # NoOrder
       => orders[o].fill /\ orders[o].status # "UNKNOWN"
=============================================================================
