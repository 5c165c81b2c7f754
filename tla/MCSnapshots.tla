---------------------------- MODULE MCSnapshots ----------------------------
(***************************************************************************)
(* Instances of Snapshots for TLC: a Fidelity and the IBKR account, one    *)
(* symbol of price 1.                                                      *)
(***************************************************************************)
EXTENDS Snapshots

MCPrice == [s \in Symbols |-> 1]
MCHeld  == [s \in Symbols |-> 1]
=============================================================================
