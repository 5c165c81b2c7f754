----------------------------- MODULE Snapshots -----------------------------
(***************************************************************************)
(* Position values and NAV snapshots of the trade tracker: who writes      *)
(* imported_positions.current_value and portfolio_snapshots.               *)
(*                                                                         *)
(*   - the auto-refresh loop of main.py, for ever;                         *)
(*   - POST /portfolio/update-all, which also mirrors the broker's         *)
(*     positions into imported_positions;                                  *)
(*   - backfill_snapshots, after an import, from update-all or on request; *)
(*   - POST /portfolio/snapshots/generate, from the snapshot-cron          *)
(*     container or on request.                                            *)
(*                                                                         *)
(* Each is a job: a sequence of statements, with slow requests between     *)
(* them, that interleaves with the other jobs and with imports.  An action *)
(* is one statement that writes, or the reads before it.                   *)
(***************************************************************************)
EXTENDS Integers, FiniteSets, FiniteSetsExt, Functions

CONSTANTS Accounts,
          Ibkr,        \* IBKR_ACCOUNT_ID, one of them
          All,         \* the combined portfolio, account_id NULL
          Symbols,
          Price,       \* [Symbols -> Nat], the market's prices
          Held,        \* [Symbols -> Nat], the positions at the broker
          Quantities,  \* what an imported file may hold of a symbol
          Loop,        \* the job slot of the auto-refresh loop
          Requests,    \* the job slots of HTTP requests and background tasks
          Null, NoRow, NoSnap,
          MaxEvents    \* bound: imports, resets, failures, session changes and
                       \* midnights of one behaviour, taken together

ASSUME SnapshotAssumption ==
    /\ IsFiniteSet(Accounts) /\ IsFiniteSet(Symbols)
    /\ Ibkr \in Accounts
    /\ All \notin Accounts
    /\ Loop \notin Requests
    /\ Price \in [Symbols -> Nat \ {0}]
    /\ Held \in [Symbols -> Nat]
    /\ Quantities \subseteq Nat \ {0}
    /\ MaxEvents \in Nat
    /\ NoRow \notin [qty : Nat, value : Nat \cup {Null}, source : {"file", "ibkr"}]

Keys == Accounts \X Symbols
Days == 1..(MaxEvents + 1)
Jobs == Requests \cup {Loop}
Kinds == {"refresh", "update", "backfill", "generate"}

-----------------------------------------------------------------------------
VARIABLES positions,  \* imported_positions: quantity, current_value, source
          traded,     \* accounts with a row in table trades
          snaps,      \* portfolio_snapshots by day and account
          today,
          online,     \* ibkr_client.is_connected
          pc,         \* where each job stands
          job,        \* its local variables
          edits,      \* imports, deletions and resets so far
          faults      \* failures so far

vars == <<positions, traded, snaps, today, online, pc, job, edits, faults>>
world == <<traded, today, online, edits>>

MayHappen == edits + faults + today <= MaxEvents

PositionRow == [qty : Nat, value : Nat \cup {Null}, source : {"file", "ibkr"}]
SnapshotRow == [nav : Nat, pnl : Int \cup {Null}]

\* rows: rows still to price, with the quantity they had when they were read;
\* left: symbols to mirror; accounts: accounts still to write; account, nav,
\* prev: what the next snapshot row is made of; done: something was written.
Job == [kind : Kinds, rows : SUBSET (Keys \X Nat), left : SUBSET Symbols, done : BOOLEAN,
        day : Days, accounts : SUBSET Accounts, account : Accounts \cup {All},
        nav : Nat, prev : Nat \cup {Null}, total : Nat]

\* What an import leaves of one symbol: no row, or one that is not priced yet.
FileRow(qty) == IF qty = 0 THEN NoRow ELSE [qty |-> qty, value |-> Null, source |-> "file"]

NoWork == [kind |-> "refresh", rows |-> {}, left |-> {}, done |-> FALSE, day |-> 1,
           accounts |-> {}, account |-> All, nav |-> 0, prev |-> Null, total |-> 0]

\* An earlier run of the process has left imported positions in the database.
Init ==
    /\ \E rows \in [Symbols -> Quantities \cup {0}] :
          positions = [k \in Keys |-> IF k[1] = Ibkr THEN NoRow ELSE FileRow(rows[k[2]])]
    /\ traded = {}
    /\ snaps = [d \in Days |-> [a \in Accounts \cup {All} |-> NoSnap]]
    /\ today = 1
    /\ online \in BOOLEAN
    /\ pc = [j \in Jobs |-> "idle"]
    /\ job = [j \in Jobs |-> NoWork]
    /\ edits = 0
    /\ faults = 0

Set(j, label, record) ==
    /\ pc' = [pc EXCEPT ![j] = label]
    /\ job' = [job EXCEPT ![j] = record]
End(j) == Set(j, "idle", NoWork)

-----------------------------------------------------------------------------
(* What the tables and the broker say of an account.                       *)

RowsOf(a) == {k \in Keys : k[1] = a /\ positions[k] # NoRow}
Owners == {k[1] : k \in {l \in Keys : positions[l] # NoRow}}

\* Mutant: the sum without its "or 0".
StoredValueOrNull(a) ==
    LET priced == {k \in RowsOf(a) : positions[k].value # Null}
    IN  IF priced = {} THEN Null ELSE SumFunction([k \in priced |-> positions[k].value])

\* SELECT SUM(current_value): a NULL value adds nothing.
StoredValue(a) ==
    LET priced == {k \in RowsOf(a) : positions[k].value # Null}
    IN  SumFunction([k \in priced |-> positions[k].value])

\* _compute_positions prices the rows of an account afresh,
QuotedValue(a) == SumFunction([k \in RowsOf(a) |-> positions[k].qty * Price[k[2]]])

\* and asks the broker for the IBKR account while the session is up.
LiveValue == SumFunction([s \in Symbols |-> Held[s] * Price[s]])
IsLive(a) == a = Ibkr /\ online

\* SELECT total_nav ... WHERE snapshot_date < day ORDER BY snapshot_date DESC
PrevNav(a, day) ==
    LET earlier == {d \in Days : d < day /\ snaps[d][a] # NoSnap}
    IN  IF earlier = {} THEN Null ELSE snaps[Max(earlier)][a].nav

-----------------------------------------------------------------------------
(* Starting a job.                                                         *)

StartRequest(j, kind) ==
    /\ pc[j] = "idle"
    /\ Set(j, CASE kind = "update" /\ online  -> "mirror"
                [] kind = "update" /\ ~online -> "rows"
                [] OTHER                      -> "accounts",
           [NoWork EXCEPT !.kind = kind])
    /\ UNCHANGED <<positions, snaps, world, faults>>

-----------------------------------------------------------------------------
(* update_all, step 1: the broker's positions replace the IBKR rows.       *)

Unmirrored ==
    [k \in Keys |-> IF positions[k] # NoRow /\ k[1] = Ibkr /\ positions[k].source = "ibkr"
                    THEN NoRow ELSE positions[k]]

DeleteMirror(j) ==
    /\ pc[j] = "mirror"
    /\ positions' = Unmirrored
    /\ Set(j, "upserts", [job[j] EXCEPT !.left = {s \in Symbols : Held[s] > 0}])
    /\ UNCHANGED <<snaps, world, faults>>

\* get_positions answers a lost session with an empty list.
DeleteMirrorOnly(j) ==
    /\ MayHappen
    /\ faults' = faults + 1
    /\ pc[j] = "mirror"
    /\ positions' = Unmirrored
    /\ Set(j, "upserts", job[j])
    /\ UNCHANGED <<snaps, world>>

\* The INSERT sets no current_value, the ON CONFLICT branch keeps it.
UpsertMirror(j, s) ==
    /\ pc[j] = "upserts"
    /\ s \in job[j].left
    /\ positions' = [positions EXCEPT ![<<Ibkr, s>>] =
                       [qty |-> Held[s], source |-> "ibkr",
                        value |-> IF @ = NoRow THEN Null ELSE @.value]]
    /\ Set(j, "upserts", [job[j] EXCEPT !.left = @ \ {s}, !.done = TRUE])
    /\ UNCHANGED <<snaps, world, faults>>

\* sync_ibkr_trades follows, see TradeSync; it may add the first IBKR trade.
EndMirror(j) ==
    /\ pc[j] = "upserts"
    /\ job[j].left = {}
    /\ traded' \in {traded, traded \cup {Ibkr}}
    /\ Set(j, "rows", job[j])
    /\ UNCHANGED <<positions, snaps, today, online, edits, faults>>

-----------------------------------------------------------------------------
(* Pricing, of the loop and of update_all.                                 *)

\* Mutant: only rows without a value are priced.
ReadRowsUnpriced(j) ==
    /\ pc[j] = IF j = Loop THEN "idle" ELSE "rows"
    /\ LET rows == {<<k, positions[k].qty>> :
                      k \in {l \in Keys : IF positions[l] = NoRow THEN FALSE
                                          ELSE /\ positions[l].source # "ibkr"
                                               /\ positions[l].value = Null}}
       IN  IF rows = {} THEN End(j) ELSE Set(j, "price", [job[j] EXCEPT !.rows = rows])
    /\ UNCHANGED <<positions, snaps, world, faults>>

\* The loop wakes up here.  Without a row both are through; update_all returns
\* before its snapshots.
ReadRows(j) ==
    /\ pc[j] = IF j = Loop THEN "idle" ELSE "rows"
    /\ LET rows == {<<k, positions[k].qty>> :
                      k \in {l \in Keys : positions[l] # NoRow /\ positions[l].source # "ibkr"}}
       IN  IF rows = {} THEN End(j) ELSE Set(j, "price", [job[j] EXCEPT !.rows = rows])
    /\ UNCHANGED <<positions, snaps, world, faults>>

\* Mutant: the row is written back whole, with INSERT ... ON CONFLICT.
PricedUpsert(k, qty) ==
    [positions EXCEPT ![k] = [qty |-> qty, value |-> qty * Price[k[2]], source |-> "file"]]

\* UPDATE ... WHERE account_id AND symbol, with the quantity read before the
\* quotes were fetched, whatever source the row has by now.
Priced(k, qty) ==
    IF positions[k] = NoRow THEN positions
    ELSE [positions EXCEPT ![k].value = qty * Price[k[2]]]

PriceRow(j, k, qty) ==
    /\ pc[j] = "price"
    /\ <<k, qty>> \in job[j].rows
    /\ positions' = Priced(k, qty)
    /\ Set(j, "price", [job[j] EXCEPT !.rows = @ \ {<<k, qty>>}, !.done = TRUE])
    /\ UNCHANGED <<snaps, world, faults>>

\* There is no quote for the symbol.
SkipRow(j, k, qty) ==
    /\ MayHappen
    /\ faults' = faults + 1
    /\ pc[j] = "price"
    /\ <<k, qty>> \in job[j].rows
    /\ Set(j, "price", [job[j] EXCEPT !.rows = @ \ {<<k, qty>>}])
    /\ UNCHANGED <<positions, snaps, world>>

EndPricing(j) ==
    /\ pc[j] = "price"
    /\ job[j].rows = {}
    /\ IF job[j].done THEN Set(j, "accounts", job[j]) ELSE End(j)
    /\ UNCHANGED <<positions, snaps, world, faults>>

-----------------------------------------------------------------------------
(* Snapshots: one row per account, then the combined one.                  *)

AccountsFor(kind) ==
    CASE kind = "refresh"  -> Owners
      [] kind = "generate" -> traded
      [] kind = "backfill" -> Owners \cup traded

\* update_all calls backfill_snapshots; generate refuses to run without a
\* trade (422).
ListAccounts(j) ==
    /\ pc[j] = "accounts"
    /\ LET kind == IF job[j].kind = "update" THEN "backfill" ELSE job[j].kind
       IN  IF kind = "generate" /\ traded = {}
           THEN End(j)
           ELSE Set(j, "next", [NoWork EXCEPT !.kind = kind, !.day = today,
                                              !.accounts = AccountsFor(kind)])
    /\ UNCHANGED <<positions, snaps, world, faults>>

NavFor(kind, a) ==
    CASE kind = "refresh"                  -> StoredValue(a)
      [] kind # "refresh" /\ IsLive(a)     -> LiveValue
      [] kind = "generate" /\ ~IsLive(a)   -> QuotedValue(a)
      [] OTHER                             -> StoredValue(a)

\* Without a row in imported_positions _compute_positions replays the trades,
\* and fails on a column its SELECT lacks.
Raises(kind, a) == kind = "generate" /\ ~IsLive(a) /\ RowsOf(a) = {} /\ a \in traded

ReadAccount(j, a) ==
    /\ pc[j] = "next"
    /\ a \in job[j].accounts
    /\ IF Raises(job[j].kind, a)
       THEN End(j)
       ELSE Set(j, "write", [job[j] EXCEPT !.account = a,
                                           !.nav = NavFor(job[j].kind, a),
                                           !.prev = PrevNav(a, job[j].day)])
    /\ UNCHANGED <<positions, snaps, world, faults>>

\* The session is lost in the middle of a live read: the broker's positions
\* come back empty, which makes a NAV of 0, or the read raises, and the rows
\* are priced, by a backfill also summed as they are stored.
LiveReadFails(j) ==
    /\ MayHappen
    /\ faults' = faults + 1
    /\ pc[j] = "next"
    /\ Ibkr \in job[j].accounts /\ online /\ job[j].kind # "refresh"
    /\ \E nav \in {0, QuotedValue(Ibkr)} \cup
                  (IF job[j].kind = "backfill" THEN {StoredValue(Ibkr)} ELSE {}) :
          Set(j, "write", [job[j] EXCEPT !.account = Ibkr, !.nav = nav,
                                         !.prev = PrevNav(Ibkr, job[j].day)])
    /\ UNCHANGED <<positions, snaps, world>>

ReadAll(j) ==
    /\ pc[j] = "next"
    /\ job[j].accounts = {}
    /\ Set(j, "write", [job[j] EXCEPT !.account = All, !.nav = job[j].total,
                                      !.prev = PrevNav(All, job[j].day)])
    /\ UNCHANGED <<positions, snaps, world, faults>>

\* upsert_snapshot.  Only generate passes the previous NAV by its name; the
\* other callers pass it in the place of equity_value, and daily_pnl is NULL.
\* No deposit or withdrawal is recorded here; the cash,
\* equity and benchmark columns are left out.
NewSnapshot(r) ==
    IF r.kind = "generate"
    THEN [nav |-> r.nav,
          pnl |-> IF r.prev # Null /\ r.prev # 0 THEN r.nav - r.prev ELSE Null]
    ELSE [nav |-> r.nav, pnl |-> Null]

WriteSnapshot(j) ==
    /\ pc[j] = "write"
    /\ snaps' = [snaps EXCEPT ![job[j].day][job[j].account] = NewSnapshot(job[j])]
    /\ IF job[j].account = All
       THEN End(j)
       ELSE Set(j, "next", [NoWork EXCEPT !.kind = job[j].kind, !.day = job[j].day,
                                          !.accounts = job[j].accounts \ {job[j].account},
                                          !.total = job[j].total + job[j].nav])
    /\ UNCHANGED <<positions, world, faults>>

\* Mutant: the try of the refresh loop is around its while.
JobFailsForEver(j) ==
    /\ MayHappen
    /\ faults' = faults + 1
    /\ pc[j] # "idle"
    /\ IF j = Loop THEN Set(j, "rows", NoWork) ELSE End(j)
    /\ UNCHANGED <<positions, snaps, world>>

\* A statement raises.  The loop logs it and sleeps, a request answers 500;
\* update_all goes on with the trade sync when the mirroring failed.
JobFails(j) ==
    /\ MayHappen
    /\ faults' = faults + 1
    /\ pc[j] # "idle"
    /\ IF pc[j] \in {"mirror", "upserts"}
       THEN Set(j, "upserts", [job[j] EXCEPT !.left = {}])
       ELSE End(j)
    /\ UNCHANGED <<positions, snaps, world>>

-----------------------------------------------------------------------------
(* The world around the jobs.  The imports are of other accounts than the  *)
(* one at IBKR.                                                            *)

\* A commit or an upload has replaced the positions of an account (its
\* statements are in ImportWizard), or DELETE /import/positions removed them.
Import(a, rows) ==
    /\ MayHappen
    /\ edits' = edits + 1
    /\ positions' = [k \in Keys |->
          IF k[1] = a THEN FileRow(rows[k[2]]) ELSE positions[k]]
    /\ traded' \in {traded, traded \cup {a}}
    /\ UNCHANGED <<snaps, today, online, pc, job, faults>>

\* DELETE /import/positions of all accounts, or that statement of a reset.
ClearPositions ==
    /\ MayHappen
    /\ edits' = edits + 1
    /\ positions' = [k \in Keys |-> NoRow]
    /\ UNCHANGED <<traded, snaps, today, online, pc, job, faults>>

\* Two more statements of DELETE /trades/reset.
ResetTrades ==
    /\ MayHappen
    /\ edits' = edits + 1
    /\ traded' = {}
    /\ UNCHANGED <<positions, snaps, today, online, pc, job, faults>>

ResetSnapshots ==
    /\ MayHappen
    /\ edits' = edits + 1
    /\ snaps' = [d \in Days |-> [a \in Accounts \cup {All} |-> NoSnap]]
    /\ UNCHANGED <<positions, traded, today, online, pc, job, faults>>

DayPasses ==
    /\ MayHappen
    /\ today' = today + 1
    /\ UNCHANGED <<positions, traded, snaps, online, pc, job, edits, faults>>

SessionChanges ==
    /\ MayHappen
    /\ faults' = faults + 1
    /\ online' = ~online
    /\ UNCHANGED <<positions, traded, snaps, today, pc, job, edits>>

-----------------------------------------------------------------------------
Step(j) ==
    \/ DeleteMirror(j) \/ EndMirror(j) \/ \E s \in Symbols : UpsertMirror(j, s)
    \/ ReadRows(j) \/ EndPricing(j)
    \/ \E r \in job[j].rows : PriceRow(j, r[1], r[2])
    \/ ListAccounts(j) \/ ReadAll(j) \/ WriteSnapshot(j)
    \/ \E a \in Accounts : ReadAccount(j, a)

Fault(j) ==
    \/ DeleteMirrorOnly(j)
    \/ \E r \in job[j].rows : SkipRow(j, r[1], r[2])
    \/ LiveReadFails(j)
    \/ JobFails(j)

Next ==
    \/ \E j \in Requests, kind \in Kinds \ {"refresh"} : StartRequest(j, kind)
    \/ \E j \in Jobs : Step(j) \/ Fault(j)
    \/ \E a \in Accounts \ {Ibkr}, rows \in [Symbols -> Quantities \cup {0}] : Import(a, rows)
    \/ ClearPositions \/ ResetTrades \/ ResetSnapshots
    \/ DayPasses
    \/ SessionChanges

Spec == Init /\ [][Next]_vars

\* The event loop runs every job to its end and the refresh loop for ever.
FairSpec == Spec /\ \A j \in Jobs : WF_vars(Step(j))

-----------------------------------------------------------------------------
TypeOK ==
    /\ positions \in [Keys -> PositionRow \cup {NoRow}]
    /\ traded \subseteq Accounts
    /\ snaps \in [Days -> [Accounts \cup {All} -> SnapshotRow \cup {NoSnap}]]
    /\ today \in Days
    /\ online \in BOOLEAN
    /\ pc \in [Jobs -> {"idle", "mirror", "upserts", "rows", "price", "accounts", "next", "write"}]
    /\ \A j \in Jobs : job[j].rows \subseteq Keys \X Nat /\ job[j] \in Job
    /\ edits \in 0..MaxEvents
    /\ faults \in 0..MaxEvents

IsFile(k) == positions[k] # NoRow /\ positions[k].source = "file"
Holding(row) == IF row = NoRow THEN <<>> ELSE <<row.qty, row.source>>

\* A job that prices rows it read some time ago changes what they are worth,
\* never what is held: it brings no row back that an import has removed and
\* restores no quantity that one has replaced.
PricingKeepsHoldings ==
    [][\A k \in Keys :
          Holding(positions'[k]) # Holding(positions[k]) =>
             \/ edits' # edits
             \/ k[1] = Ibkr /\ \E j \in Jobs : pc[j] \in {"mirror", "upserts"}]_vars

\* A value computed from a quantity that was replaced meanwhile does not last:
\* once the imports end, every imported row is worth its own quantity.
ValuesSettle ==
    <>[]\A k \in Keys : IsFile(k) => positions[k].value = positions[k].qty * Price[k[2]]

\* The loop survives what fails in it: the day that stays gets its combined
\* snapshot, and keeps it, as long as there is a position to price.
TodayIsRecorded ==
    <>[](snaps[today][All] # NoSnap \/ \A k \in Keys : ~IsFile(k))

\* docker-compose.yml of the snapshot-cron: it "keeps NAV history up to date,
\* using live IBKR pricing for the IBKR account".  While the session stays up
\* no later writer puts another value in the place of the live one.
LiveNavIsKept ==
    [][\A d \in Days :
          /\ online /\ online'
          /\ snaps[d][Ibkr] # NoSnap /\ snaps'[d][Ibkr] # NoSnap
          /\ snaps[d][Ibkr].nav = LiveValue
          => snaps'[d][Ibkr].nav = LiveValue]_vars
=============================================================================
