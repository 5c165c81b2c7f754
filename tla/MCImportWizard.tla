-------------------------- MODULE MCImportWizard --------------------------
(***************************************************************************)
(* Instances of ImportWizard for TLC.                                      *)
(***************************************************************************)
EXTENDS ImportWizard

L(acct, sym, side) == [acct |-> acct, sym |-> sym, qty |-> 1, price |-> 1,
                       day |-> 1, side |-> side]

File(lots, bad, raises, accounts) ==
    [lots |-> lots, bad |-> bad, raises |-> raises, accounts |-> accounts]

\* A workbook of one account and an export of two that share a trade; the
\* export also has the sale of the same day, which the duplicate check cannot
\* tell apart from the purchase.
Book   == File(<<L("P", "a", "BUY"), L("P", "b", "BUY")>>, 0, FALSE, {"P"})
Export == File(<<L("P", "b", "BUY"), L("P", "b", "SELL"), L("X", "b", "BUY")>>,
               0, FALSE, {"P", "X"})

\* A file without a readable row, and one the parser raises on.
Unreadable == File(<<>>, 1, FALSE, {"P"})
Raising    == File(<<>>, 0, TRUE, {"P"})

Shelf  == {Book, Export, Raising, Unreadable}
Single == {Book}
=============================================================================
