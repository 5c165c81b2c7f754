---------------------------- MODULE MCTradeSync ----------------------------
(***************************************************************************)
(* Instances of TradeSync for TLC.                                         *)
(***************************************************************************)
EXTENDS TradeSync

Buy1  == [conid |-> 1, day |-> 1, type |-> "Buy",  qty |-> 1, price |-> 5, exec |-> 11]
Buy2  == [conid |-> 1, day |-> 1, type |-> "Buy",  qty |-> 1, price |-> 5, exec |-> 12]
\* An option that expires worthless: a closing row at price 0.
Expiry == [conid |-> 1, day |-> 1, type |-> "Sell", qty |-> 1, price |-> 0, exec |-> 13]

\* Two fills equal in all but the execution id: one order filled in two parts.
EqualFills == {Buy1, Buy2}

\* A purchase and its expiry, a row the parsers refuse and after which
\* Portfolio Analyst is no longer asked for the contract.
ClosedFills == {Buy1, Expiry}

\* The snapshot-cron container is the caller that comes back for ever.
CONSTANT Cron
FairSpec == Spec /\ Fairness(Cron)

=============================================================================
