--------------------------- MODULE MCPerformance ---------------------------
(***************************************************************************)
(* An instance of Performance for TLC.                                     *)
(***************************************************************************)
EXTENDS Performance

Order(symbol, side, qty, price, fee) ==
    [symbol |-> symbol, side |-> side, qty |-> qty, price |-> price, fee |-> fee]

\* Purchases of two sizes, and a sale of a lot and part of the next, or of more
\* than is held.
MCOrders == {Order("x", "BUY", 1, 4, 0), Order("x", "BUY", 2, 6, 2),
             Order("x", "SELL", 2, 5, 2), Order("y", "BUY", 2, 2, 0)}

MCFlows == {8, -6}

\* A day without bars, one with a bar of x alone, one with bars of both.
MCQuotes == {NoBar, "x" :> 4, ("x" :> 6) @@ ("y" :> 4)}
=============================================================================
