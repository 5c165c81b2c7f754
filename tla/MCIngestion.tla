---------------------------- MODULE MCIngestion ----------------------------
(***************************************************************************)
(* Instances of Ingestion for TLC.                                         *)
(***************************************************************************)
EXTENDS Ingestion

E(type, has, side, status) ==
    [type |-> type, has |-> has, order |-> "o1", book |-> "b1", side |-> side,
     qty |-> 2, status |-> status, fill |-> FALSE]

\* The events of tests/comprehensive_test.py, a sale, and one without timestamp.
Submitted == E("order_update", Fields \ {"price"}, "BUY", "SUBMITTED")
Executed  == E("execution", Fields, "BUY", NoStatus)
Sold      == [E("execution", Fields, "SELL", NoStatus) EXCEPT !.qty = 1]
Undated   == E("execution", Fields \ {"timestamp"}, "BUY", NoStatus)
\* What an engine reports that fills in all update_order reads.
Filled    == [E("execution", Fields, "BUY", "FILLED") EXCEPT !.fill = TRUE]
\* The order_update of tests/fake_zmq_sender.py, which has no side.
Sideless  == E("order_update", Fields \ {"price", "side"}, "BUY", "SUBMITTED")
Log       == E("log", {"timestamp", "server_env"}, "BUY", NoStatus)
Signal    == E("signal", {"timestamp", "server_env"}, "BUY", NoStatus)
Other     == E("other", {}, "BUY", NoStatus)

MCEvents == {Submitted, Executed, Sold, Filled, Undated, Sideless, Log, Signal, Other}
MCMessages == {<<Submitted, Executed, Log>>, <<Sold>>, <<Filled>>, <<Signal, Sideless>>,
               <<Other, Undated>>, <<>>, Garbage}
TestMessages == {<<Submitted, Executed, Log>>}
=============================================================================
