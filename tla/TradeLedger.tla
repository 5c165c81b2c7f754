---------------------------- MODULE TradeLedger ----------------------------
(***************************************************************************)
(* What the IBKR part of the trades table promises, without saying how it  *)
(* is filled: an order id gets a row only once a fill that maps to it was  *)
(* executed at the broker, and it gets one row however many times the fill *)
(* is reported.  Rows leave the table all together or not at all.          *)
(***************************************************************************)
EXTENDS Naturals

CONSTANTS Fills,     \* what the broker can execute
          OrderIds,  \* the values ibkr_order_id takes
          IdsOf      \* [Fills -> SUBSET OrderIds], the ids a fill is stored under

VARIABLES executed,  \* the fills the broker has executed
          rows       \* [OrderIds -> Nat], rows of the table per order id

ledgerVars == <<executed, rows>>

EmptyLedger == [i \in OrderIds |-> 0]

Init == /\ executed = {}
        /\ rows = EmptyLedger

ExecuteFill(f) == /\ f \notin executed
                  /\ executed' = executed \cup {f}
                  /\ UNCHANGED rows

Record(i) == /\ \E f \in executed : i \in IdsOf[f]
             /\ rows[i] = 0
             /\ rows' = [rows EXCEPT ![i] = 1]
             /\ UNCHANGED executed

Wipe == /\ rows' = EmptyLedger
        /\ UNCHANGED executed

Next == \/ \E f \in Fills : ExecuteFill(f)
        \/ \E i \in OrderIds : Record(i)
        \/ Wipe

Spec == Init /\ [][Next]_ledgerVars
=============================================================================
