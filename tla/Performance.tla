---------------------------- MODULE Performance ----------------------------
(***************************************************************************)
(* The figures of one account, trade-tracker/api/services/                 *)
(* portfolio_metrics.py and the FIFO matching of routers/portfolio.py:     *)
(* functions of what the tables hold when they are asked for.              *)
(*                                                                         *)
(* The state is what the tables and the market data hold, day by day: the  *)
(* trades, the deposits and withdrawals, the closes.  The loops of the     *)
(* code are folds over it, amounts are whole numbers, a return is a pair   *)
(* of gain and base.  The benchmark, rounding, and the tolerance of 0.0001 *)
(* shares, which whole shares never meet, are left out.                    *)
(***************************************************************************)
EXTENDS Integers, Sequences, FiniteSets, SequencesExt, FiniteSetsExt

CONSTANTS Symbols,
          Orders,     \* what may be traded: symbol, side, qty, price, fee
          Flows,      \* amounts that may be paid in, or, if negative, out
          Quotes,     \* the closes a day may bring, of some symbols or of all
          NoBar,      \* no session that day
          NoReturn,   \* None
          MaxDays, MaxTrades, MaxFlows  \* bounds

ASSUME PerformanceAssumption ==
    /\ IsFiniteSet(Symbols)
    /\ Orders \subseteq [symbol : Symbols, side : {"BUY", "SELL"},
                         qty : Nat \ {0}, price : Nat, fee : Nat]
    /\ \A o \in Orders : o.fee % o.qty = 0
    /\ Flows \subseteq Int \ {0}
    /\ \A q \in Quotes \ {NoBar} : DOMAIN q \subseteq Symbols /\ Range(q) \subseteq Nat \ {0}
    /\ MaxDays \in Nat /\ MaxTrades \in Nat /\ MaxFlows \in Nat

VARIABLES past,    \* the days that are over
          trades,  \* today's rows of the table trades, in the order of their ids
          flow     \* today's sum of the rows of cash_flows

vars == <<past, trades, flow>>

Day == [trades : Seq(Orders), flow : Int, quote : Quotes]

Init == past = <<>> /\ trades = <<>> /\ flow = 0

\* The trades of the first n days.
TradesTo(days, n) == FoldLeft(LAMBDA all, day : all \o day.trades, <<>>, SubSeq(days, 1, n))

AllTrades == TradesTo(past, Len(past)) \o trades

Trade(order) ==
    /\ Len(past) < MaxDays
    /\ Len(AllTrades) < MaxTrades
    /\ trades' = Append(trades, order)
    /\ UNCHANGED <<past, flow>>

Pay(amount) ==
    /\ Len(past) < MaxDays
    /\ flow = 0
    /\ Cardinality({i \in 1..Len(past) : past[i].flow # 0}) < MaxFlows
    /\ flow' = amount
    /\ UNCHANGED <<past, trades>>

EndDay(quote) ==
    /\ Len(past) < MaxDays
    /\ past' = Append(past, [trades |-> trades, flow |-> flow, quote |-> quote])
    /\ trades' = <<>>
    /\ flow' = 0

Next ==
    \/ \E order \in Orders : Trade(order)
    \/ \E amount \in Flows : Pay(amount)
    \/ \E quote \in Quotes : EndDay(quote)

Spec == Init /\ [][Next]_vars

-----------------------------------------------------------------------------
(* _fifo_process_trades, and _calculate_win_rate, which matches the same   *)
(* way and keeps the profit of each sale.                                  *)

\* The cost of a share includes its part of the commission.
Lot(order) == [qty |-> order.qty, cost |-> (order.qty * order.price + order.fee) \div order.qty]

\* Mutant: what is left of a lot is dropped with it.
TakeWhole(sale, match, lot) ==
    LET take == Min({match.left, lot.qty})
    IN  [left |-> match.left - take,
         pnl  |-> match.pnl + take * (sale.price - sale.fee \div sale.qty - lot.cost),
         lots |-> IF take > 0 THEN match.lots ELSE Append(match.lots, lot)]

\* One lot meets what is left of a sale, the oldest lot first.
Take(sale, match, lot) ==
    LET take == Min({match.left, lot.qty})
    IN  [left |-> match.left - take,
         pnl  |-> match.pnl + take * (sale.price - sale.fee \div sale.qty - lot.cost),
         lots |-> IF take = lot.qty THEN match.lots
                  ELSE Append(match.lots, [lot EXCEPT !.qty = @ - take])]

Match(sale, lots) ==
    FoldLeft(LAMBDA match, lot : Take(sale, match, lot),
             [left |-> sale.qty, pnl |-> 0, lots |-> <<>>], lots)

\* The open lots of each symbol and the profits of the sales so far.
Booked(book, row) ==
    LET own   == book.lots[row.symbol]
        match == Match(row, own)
    IN  IF row.side = "BUY" THEN [book EXCEPT !.lots[row.symbol] = Append(own, Lot(row))]
        ELSE [lots  |-> [book.lots EXCEPT ![row.symbol] = match.lots],
              sales |-> Append(book.sales, match.pnl)]

Fifo(rows) == FoldLeft(Booked, [lots |-> [s \in Symbols |-> <<>>], sales |-> <<>>], rows)

-----------------------------------------------------------------------------
(* _trades_performance_series.                                             *)

\* _apply_trade_cash: cash, and the part of a purchase it cannot pay for.
ApplyTradeCash(cash, t) ==
    LET cost == t.qty * t.price + t.fee
    IN  CASE t.side = "SELL"                 -> [cash |-> cash + t.qty * t.price - t.fee, implicit |-> 0]
          [] t.side = "BUY" /\ cash >= cost  -> [cash |-> cash - cost, implicit |-> 0]
          [] t.side = "BUY" /\ cash < cost   -> [cash |-> 0, implicit |-> cost - Max({cash, 0})]

Held(holdings) == {s \in Symbols : holdings[s] # 0}

\* _mark_equity: the last close known while the symbol was held.
Marked(last, quote, holdings) ==
    LET priced == DOMAIN quote \cap Held(holdings)
    IN  [s \in priced \cup DOMAIN last |-> IF s \in priced THEN quote[s] ELSE last[s]]

Equity(holdings, last) ==
    SumFunction([s \in Held(holdings) \cap DOMAIN last |-> holdings[s] * last[s]])

LotOnly(days) == \A i \in 1..Len(days) : \A k \in 1..Len(days[i].trades) :
                    days[i].trades[k].side = "BUY"

\* One row of the table trades: what it makes of the shares and the cash, and
\* what flows in.  With lots only the cash is not followed.
\* debt: history, a purchase wrote off a negative cash balance.
Replayed(lotOnly, account, t) ==
    LET paid == ApplyTradeCash(account.cash, t)
        cost == t.qty * t.price + t.fee
    IN  [account EXCEPT
            !.cash = IF lotOnly THEN @ ELSE paid.cash,
            !.flow = @ + IF lotOnly THEN cost ELSE paid.implicit,
            !.debt = @ \/ (~lotOnly /\ t.side = "BUY" /\ account.cash < 0),
            !.holdings[t.symbol] = IF t.side = "BUY" THEN @ + t.qty ELSE @ - t.qty]

ReplayedRows(lotOnly, account, rows) ==
    FoldLeft(LAMBDA x, t : Replayed(lotOnly, x, t), account, rows)

\* A day's return is kept within plus and minus one half.
Clamped(gain, base) ==
    CASE 2 * gain > base     -> <<1, 2>>
      [] 2 * gain < 0 - base -> <<-1, 2>>
      [] OTHER               -> <<gain, base>>

\* Mutant: recorded deposits are left in the return.
RecordedUnseen(account, lotOnly, amount) ==
    [account EXCEPT !.cash = IF lotOnly THEN @ ELSE @ + amount]

\* What was recorded that day counts as flow, and, but for lots only, as cash.
Recorded(account, lotOnly, amount) ==
    [account EXCEPT !.cash = IF lotOnly THEN @ ELSE @ + amount, !.flow = @ + amount]

Point(r, d, nav, inflow, sound) ==
    [day |-> d, nav |-> nav, base |-> r.prev, sound |-> sound /\ r.sound,
     ret |-> IF r.prev = 0 THEN NoReturn ELSE Clamped(nav - r.prev - inflow, r.prev)]

\* Mutant: the days before the window leave no NAV to start from.
PublishedFromOpen(r, d, start, nav, inflow, sound) ==
    IF d < start THEN r
    ELSE [r EXCEPT !.prev = nav, !.points = Append(@, Point(r, d, nav, inflow, sound))]

\* Before the window only the NAV is kept, for the return of its first day.
Published(r, d, start, nav, inflow, sound) ==
    IF d < start THEN [r EXCEPT !.prev = nav]
    ELSE [r EXCEPT !.prev = nav, !.points = Append(@, Point(r, d, nav, inflow, sound))]

\* The last close of s by day d.
Close(days, s, d) ==
    LET bars == {i \in 1..d : days[i].quote # NoBar /\ s \in DOMAIN days[i].quote}
    IN  IF bars = {} THEN 0 ELSE days[Max(bars)].quote[s]

\* One bar of the calendar, with the rows up to its day that are still to come.
\* sound: history, there was a NAV, all that is held has its last close (which
\* one that came while nothing was held is not), and no debt was written off.
Session(r, days, d, start, lotOnly) ==
    LET all    == TradesTo(days, d)
        traded == ReplayedRows(lotOnly,
                     [holdings |-> r.holdings, cash |-> r.cash, flow |-> 0, debt |-> FALSE],
                     SubSeq(all, r.rows + 1, Len(all)))
        paid   == Recorded(traded, lotOnly, days[d].flow)
        marks  == Marked(r.last, days[d].quote, paid.holdings)
        equity == Equity(paid.holdings, marks)
        nav    == IF lotOnly THEN equity ELSE paid.cash + equity
        priced == \A s \in Held(paid.holdings) :
                     s \in DOMAIN marks /\ marks[s] = Close(days, s, d)
        now    == [r EXCEPT !.holdings = paid.holdings, !.cash = paid.cash,
                            !.last = marks, !.rows = Len(all)]
    IN  IF nav <= 0 THEN [now EXCEPT !.sound = FALSE]
        ELSE [Published(now, d, start, nav, paid.flow, priced /\ ~paid.debt)
                 EXCEPT !.sound = priced]

FirstTrade(days) == Min({i \in 1..Len(days) : days[i].trades # <<>>})

\* The replay begins with nothing in hand; days without a bar are no sessions.
NewRun == [holdings |-> [s \in Symbols |-> 0], cash |-> 0, last |-> <<>>, rows |-> 0,
           prev |-> 0, sound |-> TRUE, points |-> <<>>]

Sessions(days, start, lotOnly, calendar) ==
    FoldLeft(LAMBDA r, d : IF days[d].quote = NoBar THEN r ELSE Session(r, days, d, start, lotOnly),
             NewRun, calendar)

\* It begins with the window or with the first trade; recorded flows of the
\* days before are not read.
Replay(days, start) ==
    LET first == Min({start, FirstTrade(days)})
    IN  IF TradesTo(days, Len(days)) = <<>> THEN <<>>
        ELSE Sessions(days, start, LotOnly(days),
                      [k \in 1..(Len(days) - first + 1) |-> first + k - 1]).points

-----------------------------------------------------------------------------
(* _max_drawdown.                                                          *)

Navs(points) == [i \in DOMAIN points |-> points[i].nav]

Below(a, b) == a[1] * b[2] < b[1] * a[2]

\* Mutant: the peak is never raised after the first day.
PeakAfterFirst(peak, nav) == peak

PeakAfter(peak, nav) == Max({peak, nav})

\* One more day: a new peak, or a deeper fall from the last one.  That a peak of
\* 0 is passed over is left out: the NAVs of a chart are positive.
Deeper(m, nav) ==
    LET peak == PeakAfter(m.peak, nav)
        fall == <<nav - peak, peak>>
    IN  [peak |-> peak, worst |-> IF Below(fall, m.worst) THEN fall ELSE m.worst]

\* The deepest fall from a peak, as a fraction of it.
MaxDrawdown(navs) ==
    IF Len(navs) < 2 THEN <<0, 1>>
    ELSE FoldLeft(Deeper, [peak |-> navs[1], worst |-> <<0, 1>>], navs).worst

-----------------------------------------------------------------------------
(* What the figures mean.                                                  *)

\* One by one the shares of a lot, each with its cost.
Shares(qty, cost) == [u \in 1..qty |-> cost]

\* The shares of s in the order they were bought, after each number of rows.
Bought(rows, s) ==
    LET bought[n \in 0..Len(rows)] ==
           IF n = 0 THEN <<>>
           ELSE IF rows[n].symbol = s /\ rows[n].side = "BUY"
                THEN bought[n - 1] \o Shares(rows[n].qty, rows[n].price + rows[n].fee \div rows[n].qty)
                ELSE bought[n - 1]
    IN  bought

\* How many of them are held then; a sale of more ends at none.
Position(rows, s) ==
    LET held[n \in 0..Len(rows)] ==
           IF n = 0 THEN 0
           ELSE IF rows[n].symbol # s THEN held[n - 1]
           ELSE IF rows[n].side = "BUY" THEN held[n - 1] + rows[n].qty
           ELSE Max({held[n - 1] - rows[n].qty, 0})
    IN  held

Sold(rows, s, n) == Len(Bought(rows, s)[n]) - Position(rows, s)[n]

Open(lots) ==
    LET open[n \in 0..Len(lots)] ==
           IF n = 0 THEN <<>> ELSE open[n - 1] \o Shares(lots[n].qty, lots[n].cost)
    IN  open[Len(lots)]

\* What the sale in row k earned on the shares it found: the oldest ones.
Profit(rows, k) ==
    LET sale  == rows[k]
        found == SubSeq(Bought(rows, sale.symbol)[k],
                        Sold(rows, sale.symbol, k - 1) + 1, Sold(rows, sale.symbol, k))
    IN  SumFunction([u \in DOMAIN found |-> sale.price - sale.fee \div sale.qty - found[u]])

SalesTo(rows, n) == Cardinality({k \in 1..n : rows[k].side = "SELL"})

\* Realized P&L and win rate match a sale with the shares bought first, each
\* with its part of the commissions, and what is not sold stays in the lots,
\* also when a sale asks for more than there is.
FirstInFirstOut ==
    LET rows == AllTrades
        book == Fifo(rows)
    IN  /\ Len(book.sales) = SalesTo(rows, Len(rows))
        /\ \A k \in DOMAIN rows :
              rows[k].side = "SELL" => book.sales[SalesTo(rows, k)] = Profit(rows, k)
        /\ \A s \in Symbols :
              LET shares == Bought(rows, s)[Len(rows)]
              IN  Open(book.lots[s]) = SubSeq(shares, Sold(rows, s, Len(rows)) + 1, Len(shares))

Signed(t) == IF t.side = "BUY" THEN t.qty ELSE -t.qty

Net(rows, s) ==
    SumFunction([k \in DOMAIN rows |-> IF rows[k].symbol = s THEN Signed(rows[k]) ELSE 0])

\* What prices alone earned between two closes: on what was held, and on what
\* was traded since, which includes the commissions.
Gain(days, p, d) ==
    LET old == TradesTo(days, p)
        new == SubSeq(TradesTo(days, d), Len(old) + 1, Len(TradesTo(days, d)))
    IN  SumFunction([s \in Symbols |-> Net(old, s) * (Close(days, s, d) - Close(days, s, p))])
        + SumFunction([k \in DOMAIN new |->
             Signed(new[k]) * (Close(days, new[k].symbol, d) - new[k].price) - new[k].fee])

\* With all sessions closed, none in progress.
AtNight == trades = <<>> /\ flow = 0

HasFlows(days) == \E i \in 1..Len(days) : days[i].flow # 0

\* A day's return in the chart is what prices earned, whatever was paid in or
\* out, recorded or not: while all that is held has a price, no debt is written
\* off, and the account is no list of lots with recorded payments.
ReturnsAreGains ==
    AtNight /\ ~(LotOnly(past) /\ HasFlows(past)) =>
       LET points == Replay(past, 1)
       IN  \A i \in DOMAIN points :
              points[i].ret # NoReturn /\ points[i].sound =>
                 points[i].ret = Clamped(Gain(past, points[i - 1].day, points[i].day), points[i].base)

Shown(points) == [i \in DOMAIN points |-> <<points[i].day, points[i].nav, points[i].ret>>]

\* A shorter period shows the same days with the same NAV and return as the
\* longest one, from its start on: it starts from the close before.  Unless
\* something was paid in or out before the first trade, which a shorter period
\* does not read.
WindowsAgree ==
    AtNight /\ AllTrades # <<>> /\ (\A i \in 1..FirstTrade(past) - 1 : past[i].flow = 0) =>
       LET longest == Replay(past, 1)
       IN  \A start \in 2..Len(past) :
              \E cut \in 0..Len(longest) :
                 /\ \A i \in DOMAIN longest : longest[i].day < start <=> i <= cut
                 /\ Shown(Replay(past, start)) = Shown(SubSeq(longest, cut + 1, Len(longest)))

Fall(navs, i, j) == <<navs[j] - navs[i], navs[i]>>

IsDeepest(fall, navs) ==
    /\ \A i, j \in DOMAIN navs : i <= j => ~Below(Fall(navs, i, j), fall)
    /\ fall = <<0, 1>> \/ \E i, j \in DOMAIN navs : i <= j /\ fall = Fall(navs, i, j)

\* The drawdown of a period is the deepest fall from any of its days to a later
\* one.
DrawdownIsDeepest ==
    AtNight =>
       \A start \in 1..Len(past) :
          LET navs == Navs(Replay(past, start)) IN IsDeepest(MaxDrawdown(navs), navs)
=============================================================================
