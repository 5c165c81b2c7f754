---------------------------- MODULE MCMarketData ----------------------------
(***************************************************************************)
(* An instance of MarketData for TLC.                                      *)
(***************************************************************************)
EXTENDS MarketData

\* A stock both services know, and a contract only IBKR knows.
MCLists == [p \in {"yahoo", "ibkr"} |-> IF p = "yahoo" THEN {"a"} ELSE {"a", "b"}]
MCBundles == {{}, {"a"}}
MCRequests ==
    [topic \in {"quotes", "bars"} |-> [t \in {"t", "u"} |->
        IF t = "t" THEN {{"a"}, {"a", "b"}} ELSE IF topic = "bars" THEN {{"a"}} ELSE {}]]
=============================================================================
