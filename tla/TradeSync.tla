----------------------------- MODULE TradeSync -----------------------------
(***************************************************************************)
(* The IBKR trade sync of trade-tracker/api/routers/ibkr.py: any number of *)
(* callers (start-up task, cron, "Update Portfolio" clicks) enter          *)
(* sync_ibkr_trades, an asyncio.Lock lets one of them run, and a result    *)
(* younger than SYNC_MIN_INTERVAL_SECONDS is shared instead of fetching    *)
(* again.  The one that runs fetches two reports from the broker on a      *)
(* worker thread and feeds every row of them to a check-then-insert on     *)
(* trades.ibkr_order_id, a column without a unique index.                  *)
(*                                                                         *)
(* One action is one stretch between two awaits; the database executes one *)
(* statement per action.                                                   *)
(***************************************************************************)
EXTENDS Integers, Sequences, FiniteSets, FiniteSetsExt

CONSTANTS Callers,    \* coroutines that call sync_ibkr_trades
          Fills,      \* what the broker can execute, as its reports show it
          NoCaller,   \* the lock is free
          NoResult,   \* _last_sync_result is None
          MaxFaults   \* bound: failures of the broker, database or process

FillRecord == [conid : Nat, day : Nat, type : {"Buy", "Sell", "Dividend"},
               qty : Nat, price : Nat, exec : Nat]

ASSUME SyncAssumption ==
    /\ Fills \subseteq FillRecord
    /\ IsFiniteSet(Fills)
    /\ NoCaller \notin Callers
    /\ MaxFaults \in Nat

-----------------------------------------------------------------------------
(* The two reports and what the parsers make of their rows.                *)

\* The contracts with an open position: position_symbol_map lists no other.
Signed(f) == CASE f.type = "Buy"      -> f.qty
               [] f.type = "Sell"     -> -f.qty
               [] f.type = "Dividend" -> 0
Held(fills) == {k \in {f.conid : f \in fills} :
                  MapThenSumSet(Signed, {f \in fills : f.conid = k}) # 0}

\* get_all_pa_transactions asks for the held contracts and gets their whole
\* history; iserver/account/trades lists the fills of the last days.
PaRows(fills) == {<<"pa", f>> : f \in {g \in fills : g.conid \in Held(fills)}}
IserverRows(fills) == {<<"iserver", f>> : f \in {g \in fills : g.type # "Dividend"}}
Rows == {"pa", "iserver"} \X Fills

\* The parser returns a dict, not None.  exec = 0 is a row without execution id.
Parses(r) ==
    /\ r[2].qty > 0
    /\ r[2].price > 0
    /\ IF r[1] = "pa" THEN r[2].type \in {"Buy", "Sell"} ELSE r[2].exec # 0

\* order_id: a Portfolio Analyst row has no id of its own, so one is composed
\* from the fields, and two equal fills of one day share it.
OrderId(r) ==
    IF r[1] = "pa"
    THEN <<"pa", r[2].conid, r[2].day, r[2].type, r[2].qty, r[2].price>>
    ELSE <<"exec", r[2].exec>>

OrderIds == {OrderId(r) : r \in Rows}
IdsOf == [f \in Fills |-> {OrderId(r) : r \in {s \in Rows : s[2] = f /\ Parses(s)}}]

Result == [inserted : Nat, skipped : Nat, errors : Nat, total : Nat]
ResultOf(n) == [inserted |-> 0, skipped |-> 0, errors |-> 0, total |-> n]
Inserted(t) == [t EXCEPT !.inserted = @ + 1]
Skipped(t, error) == [inserted |-> t.inserted, skipped |-> t.skipped + 1,
                      errors |-> t.errors + error, total |-> t.total]

-----------------------------------------------------------------------------
VARIABLES executed,    \* fills the broker has executed
          recent,      \* those iserver/account/trades still lists
          trades,      \* [OrderIds -> Nat], rows of table trades by ibkr_order_id
          lock,        \* holder of _sync_lock, or NoCaller
          waiters,     \* coroutines queued on _sync_lock, first come first
          pc,          \* where each caller stands
          todo,        \* rows of the reports a caller has still to handle
          current,     \* the row between SELECT and INSERT, as a set of <= 1
          tally,       \* inserted/skipped/errors of a caller's running sync
          lastResult,  \* _last_sync_result
          fresh,       \* less than SYNC_MIN_INTERVAL_SECONDS since _last_sync_at
          faults       \* failures so far

vars == <<executed, recent, trades, lock, waiters, pc, todo, current, tally,
          lastResult, fresh, faults>>
work == <<todo, current, tally>>
memo == <<lastResult, fresh>>
broker == <<executed, recent>>

Init ==
    /\ executed = {}
    /\ recent = {}
    /\ trades = [i \in OrderIds |-> 0]
    /\ lock = NoCaller
    /\ waiters = <<>>
    /\ pc = [c \in Callers |-> "idle"]
    /\ todo = [c \in Callers |-> {}]
    /\ current = [c \in Callers |-> {}]
    /\ tally = [c \in Callers |-> ResultOf(0)]
    /\ lastResult = NoResult
    /\ fresh = FALSE
    /\ faults = 0

-----------------------------------------------------------------------------
(* The world around the sync.                                              *)

ExecuteFill(f) ==
    /\ f \notin executed
    /\ executed' = executed \cup {f}
    /\ recent' = recent \cup {f}
    /\ UNCHANGED <<trades, lock, waiters, pc, work, memo, faults>>

\* A fill is older than the days iserver/account/trades covers.
FillAges(f) ==
    /\ f \in recent
    /\ recent' = recent \ {f}
    /\ UNCHANGED <<executed, trades, lock, waiters, pc, work, memo, faults>>

\* time.monotonic() passes _last_sync_at + SYNC_MIN_INTERVAL_SECONDS.
WindowEnds ==
    /\ fresh
    /\ fresh' = FALSE
    /\ UNCHANGED <<broker, trades, lock, waiters, pc, work, lastResult, faults>>

\* DELETE FROM trades, the first statement of DELETE /trades/reset.
ResetTrades ==
    /\ trades' = [i \in OrderIds |-> 0]
    /\ UNCHANGED <<broker, lock, waiters, pc, work, memo, faults>>

\* The API process dies and is started again: the table is all that is left.
Restart ==
    /\ faults < MaxFaults
    /\ faults' = faults + 1
    /\ lock' = NoCaller
    /\ waiters' = <<>>
    /\ pc' = [c \in Callers |-> "idle"]
    /\ todo' = [c \in Callers |-> {}]
    /\ current' = [c \in Callers |-> {}]
    /\ tally' = [c \in Callers |-> ResultOf(0)]
    /\ lastResult' = NoResult
    /\ fresh' = FALSE
    /\ UNCHANGED <<broker, trades>>

-----------------------------------------------------------------------------
(* sync_ibkr_trades                                                        *)

\* Mutants of Enter: the fetch runs outside the lock; the age of the last
\* result is not looked at; a result once remembered is returned for ever.
EnterUnlocked(c) ==
    \/ /\ lastResult # NoResult /\ fresh
       /\ pc' = [pc EXCEPT ![c] = "idle"]
       /\ UNCHANGED lock
    \/ /\ lastResult = NoResult \/ ~fresh
       /\ pc' = [pc EXCEPT ![c] = "fetching"]
       /\ UNCHANGED lock
EnterAlways(c) == pc' = [pc EXCEPT ![c] = "fetching"] /\ lock' = c
EnterOnce(c) ==
    IF lastResult # NoResult
    THEN pc' = [pc EXCEPT ![c] = "idle"] /\ UNCHANGED lock
    ELSE pc' = [pc EXCEPT ![c] = "fetching"] /\ lock' = c

\* The lock is acquired; up to the next await the caller looks at the last
\* result and either returns it, leaving the lock, or starts to fetch.
Enter(c) ==
    \/ /\ lastResult # NoResult /\ fresh
       /\ pc' = [pc EXCEPT ![c] = "idle"]
       /\ UNCHANGED lock
    \/ /\ lastResult = NoResult \/ ~fresh
       /\ pc' = [pc EXCEPT ![c] = "fetching"]
       /\ lock' = c

\* asyncio.Lock.acquire: straight in when free and nobody queues.
Call(c) ==
    /\ pc[c] = "idle"
    /\ \/ /\ lock = NoCaller /\ waiters = <<>>
          /\ Enter(c)
          /\ UNCHANGED waiters
       \/ /\ lock # NoCaller \/ waiters # <<>>
          /\ pc' = [pc EXCEPT ![c] = "waiting"]
          /\ waiters' = Append(waiters, c)
          /\ UNCHANGED lock
    /\ UNCHANGED <<broker, trades, work, memo, faults>>

\* release() woke the first of the queue; it runs now.
Wake ==
    /\ lock = NoCaller
    /\ waiters # <<>>
    /\ Enter(Head(waiters))
    /\ waiters' = Tail(waiters)
    /\ UNCHANGED <<broker, trades, work, memo, faults>>

Leave(c) ==
    /\ lock' = NoCaller
    /\ pc' = [pc EXCEPT ![c] = "idle"]

\* Mutant: the flag of a shared result is stored with it.
RememberFlagged(result) ==
    /\ lastResult' = [inserted |-> result.inserted, skipped |-> result.skipped,
                      errors |-> result.errors, total |-> result.total,
                      deduplicated |-> TRUE]
    /\ fresh' = TRUE

Remember(result) ==
    /\ lastResult' = result
    /\ fresh' = TRUE

-----------------------------------------------------------------------------
(* _sync_ibkr_trades_once                                                  *)

\* The worker thread hands over what the two endpoints returned.
Deliver(c, reported) ==
    /\ pc[c] = "fetching"
    /\ \/ /\ reported = {}
          /\ Remember(ResultOf(0))
          /\ Leave(c)
          /\ UNCHANGED work
       \/ /\ reported # {}
          /\ pc' = [pc EXCEPT ![c] = "rows"]
          /\ todo' = [todo EXCEPT ![c] = reported]
          /\ tally' = [tally EXCEPT ![c] = ResultOf(Cardinality(reported))]
          /\ UNCHANGED <<current, lock, memo>>
    /\ UNCHANGED <<broker, trades, waiters>>

Reported == PaRows(executed) \cup IserverRows(recent)

Fetch(c) == /\ Deliver(c, Reported)
            /\ UNCHANGED faults

\* ibkr_client answers a failed request with an empty list, so that a session
\* lost between two requests leaves part of the reports.
FetchPart(c) ==
    /\ faults < MaxFaults
    /\ faults' = faults + 1
    /\ \E reported \in SUBSET Reported : Deliver(c, reported)

\* Mutant: lock.acquire() and release() without try/finally.
FetchRaisesLocked(c) ==
    /\ faults < MaxFaults
    /\ faults' = faults + 1
    /\ pc[c] = "fetching"
    /\ pc' = [pc EXCEPT ![c] = "idle"]
    /\ UNCHANGED <<broker, trades, lock, waiters, work, memo>>

\* An exception leaves the async with block; no result is remembered.
FetchRaises(c) ==
    /\ faults < MaxFaults
    /\ faults' = faults + 1
    /\ pc[c] = "fetching"
    /\ Leave(c)
    /\ UNCHANGED <<broker, trades, waiters, work, memo>>

\* The Portfolio Analyst rows come before the iserver rows.
IsNext(c, r) ==
    /\ pc[c] = "rows"
    /\ r \in todo[c]
    /\ r[1] = "pa" \/ \A s \in todo[c] : s[1] # "pa"

Skip(c, r, error) ==
    /\ todo' = [todo EXCEPT ![c] = @ \ {r}]
    /\ tally' = [tally EXCEPT ![c] = Skipped(@, error)]
    /\ UNCHANGED <<pc, current>>

\* The row does not parse, or the SELECT of _insert_trade finds its id.
SkipRow(c, r) ==
    /\ IsNext(c, r)
    /\ ~Parses(r) \/ trades[OrderId(r)] > 0
    /\ Skip(c, r, 0)
    /\ UNCHANGED <<broker, trades, lock, waiters, memo, faults>>

\* Mutant: no SELECT before the INSERT.
CheckRowBlindly(c, r) ==
    /\ IsNext(c, r)
    /\ Parses(r)
    /\ pc' = [pc EXCEPT ![c] = "insert"]
    /\ current' = [current EXCEPT ![c] = {r}]
    /\ todo' = [todo EXCEPT ![c] = @ \ {r}]
    /\ UNCHANGED <<broker, trades, lock, waiters, tally, memo, faults>>

\* The SELECT finds nothing: the INSERT follows in a statement of its own.
CheckRow(c, r) ==
    /\ IsNext(c, r)
    /\ Parses(r)
    /\ trades[OrderId(r)] = 0
    /\ pc' = [pc EXCEPT ![c] = "insert"]
    /\ current' = [current EXCEPT ![c] = {r}]
    /\ todo' = [todo EXCEPT ![c] = @ \ {r}]
    /\ UNCHANGED <<broker, trades, lock, waiters, tally, memo, faults>>

\* The parser or the SELECT raises.
CheckFails(c, r) ==
    /\ faults < MaxFaults
    /\ faults' = faults + 1
    /\ IsNext(c, r)
    /\ Skip(c, r, 1)
    /\ UNCHANGED <<broker, trades, lock, waiters, memo>>

Insert(c) ==
    /\ pc[c] = "insert"
    /\ \E r \in current[c] : trades' = [trades EXCEPT ![OrderId(r)] = @ + 1]
    /\ current' = [current EXCEPT ![c] = {}]
    /\ tally' = [tally EXCEPT ![c] = Inserted(@)]
    /\ pc' = [pc EXCEPT ![c] = "rows"]
    /\ UNCHANGED <<broker, lock, waiters, todo, memo, faults>>

\* Mutant: a failed INSERT is counted as an error and not as skipped.
InsertFailsUncounted(c) ==
    /\ faults < MaxFaults
    /\ faults' = faults + 1
    /\ pc[c] = "insert"
    /\ current' = [current EXCEPT ![c] = {}]
    /\ tally' = [tally EXCEPT ![c].errors = @ + 1]
    /\ pc' = [pc EXCEPT ![c] = "rows"]
    /\ UNCHANGED <<broker, trades, lock, waiters, todo, memo>>

\* The statement fails; when the connection broke, it may have been executed.
InsertFails(c) ==
    /\ faults < MaxFaults
    /\ faults' = faults + 1
    /\ pc[c] = "insert"
    /\ \/ UNCHANGED trades
       \/ \E r \in current[c] : trades' = [trades EXCEPT ![OrderId(r)] = @ + 1]
    /\ current' = [current EXCEPT ![c] = {}]
    /\ tally' = [tally EXCEPT ![c] = Skipped(@, 1)]
    /\ pc' = [pc EXCEPT ![c] = "rows"]
    /\ UNCHANGED <<broker, lock, waiters, todo, memo>>

Finish(c) ==
    /\ pc[c] = "rows"
    /\ todo[c] = {}
    /\ Remember(tally[c])
    /\ Leave(c)
    /\ tally' = [tally EXCEPT ![c] = ResultOf(0)]
    /\ UNCHANGED <<broker, trades, waiters, todo, current, faults>>

-----------------------------------------------------------------------------
Step(c) ==
    \/ Fetch(c)
    \/ Insert(c)
    \/ Finish(c)
    \/ \E r \in Rows : SkipRow(c, r) \/ CheckRow(c, r)

Fault(c) ==
    \/ FetchPart(c)
    \/ FetchRaises(c)
    \/ InsertFails(c)
    \/ \E r \in Rows : CheckFails(c, r)

Next ==
    \/ \E c \in Callers : Call(c) \/ Step(c) \/ Fault(c)
    \/ Wake
    \/ \E f \in Fills : ExecuteFill(f) \/ FillAges(f)
    \/ WindowEnds
    \/ ResetTrades
    \/ Restart

Spec == Init /\ [][Next]_vars

\* The event loop runs every ready coroutine, the clock advances, and the
\* snapshot-cron container calls the endpoint again and again.
Fairness(cron) ==
    /\ WF_vars(Wake)
    /\ WF_vars(WindowEnds)
    /\ WF_vars(Call(cron))
    /\ \A c \in Callers : WF_vars(Step(c))

-----------------------------------------------------------------------------
TypeOK ==
    /\ executed \subseteq Fills
    /\ recent \subseteq executed
    /\ trades \in [OrderIds -> Nat]
    /\ lock \in Callers \cup {NoCaller}
    /\ waiters \in Seq(Callers)
    /\ pc \in [Callers -> {"idle", "waiting", "fetching", "rows", "insert"}]
    /\ todo \in [Callers -> SUBSET Rows]
    /\ current \in [Callers -> SUBSET Rows]
    /\ tally \in [Callers -> Result]
    /\ lastResult \in Result \cup {NoResult}
    /\ fresh \in BOOLEAN
    /\ faults \in 0..MaxFaults

\* The fetches run one at a time: "a single in-flight sync" (the comment over
\* _sync_lock), since only the holder of the lock is past its acquisition.
Inside(c) == pc[c] \in {"fetching", "rows", "insert"}
SingleFlight == \A c, d \in Callers : Inside(c) /\ Inside(d) => c = d

\* The check-then-insert of _insert_trade is two statements and no index backs
\* it: a broker order id has at most one row, whatever fails and restarts.
UniqueOrderId == \A i \in OrderIds : trades[i] <= 1

\* Whatever fails, every row the broker returned is counted once, as inserted
\* or as skipped, in the result the callers share and in the running sync.
Accounted ==
    /\ lastResult # NoResult =>
          lastResult.inserted + lastResult.skipped = lastResult.total
    /\ \A c \in Callers : pc[c] \in {"rows", "insert"} =>
          tally[c].inserted + tally[c].skipped
             + Cardinality(todo[c]) + Cardinality(current[c]) = tally[c].total

\* A fetch never starts while a finished sync is fresh, nor while another
\* caller is inside: every such caller gets the last result.
FetchesAreSpaced ==
    [][\A c \in Callers :
          pc[c] # "fetching" /\ pc'[c] = "fetching" =>
             /\ lastResult = NoResult \/ ~fresh
             /\ \A d \in Callers : ~Inside(d)]_vars

\* The sync implements the abstract ledger.
Ledger == INSTANCE TradeLedger WITH rows <- trades
ImplementsLedger == Ledger!Spec

\* What the broker reports and the parsers accept reaches the table, unless
\* the broker stops reporting it first: a fill that aged out of the iserver
\* list on a contract no longer held is in no report.
ReportsAreRecorded ==
    \A r \in {s \in Rows : Parses(s)} :
       (r \in Reported) ~> (trades[OrderId(r)] > 0 \/ r \notin Reported)

\* A caller that queues on the lock is answered.
CallersAreAnswered ==
    \A c \in Callers : (pc[c] = "waiting") ~> (pc[c] = "idle")

\* One fill is one trade of the ledger.
OneRowPerFill ==
    \A f \in executed : Cardinality({i \in IdsOf[f] : trades[i] > 0}) <= 1
=============================================================================
