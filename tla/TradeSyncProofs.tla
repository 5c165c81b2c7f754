-------------------------- MODULE TradeSyncProofs --------------------------
(***************************************************************************)
(* Proofs about TradeSync, for every set of callers and every finite set   *)
(* of fills: type correctness, mutual exclusion, one row per broker order  *)
(* id, and that the sync implements TradeLedger.                           *)
(***************************************************************************)
EXTENDS TradeSync, FiniteSetTheorems, TLAPS

(***************************************************************************)
(* The inductive invariant.  Only the holder of the lock is inside, so the *)
(* answer of a caller's SELECT is still true when its INSERT runs: nobody  *)
(* else inserts in between, and a reset can only empty the table.          *)
(***************************************************************************)
LockInv == \A c \in Callers : Inside(c) => lock = c

PendingInv ==
    \A c \in Callers : pc[c] = "insert" =>
       \E r \in Rows : /\ current[c] = {r}
                       /\ Parses(r)
                       /\ r[2] \in executed
                       /\ trades[OrderId(r)] = 0

TodoInv == \A c \in Callers : \A r \in todo[c] : r[2] \in executed

SyncInv == TypeOK /\ LockInv /\ PendingInv /\ TodoInv /\ UniqueOrderId

-----------------------------------------------------------------------------
LEMMA RowsFinite == IsFiniteSet(Rows)
<1>1. IsFiniteSet({"pa", "iserver"})
  <2>1. {"pa", "iserver"} = {"pa"} \cup {"iserver"}
    OBVIOUS
  <2>2. IsFiniteSet({"pa"}) /\ IsFiniteSet({"iserver"})
    BY FS_Singleton
  <2>3. QED BY <2>1, <2>2, FS_Union
<1>2. QED BY <1>1, FS_Product, SyncAssumption DEF Rows

LEMMA OrderIdType == \A r \in Rows : OrderId(r) \in OrderIds
  BY DEF OrderIds

LEMMA ResultType ==
    /\ \A n \in Nat : ResultOf(n) \in Result
    /\ \A t \in Result : Inserted(t) \in Result
    /\ \A t \in Result : Skipped(t, 0) \in Result /\ Skipped(t, 1) \in Result
<1>1. \A n \in Nat : ResultOf(n) \in Result
  BY DEF ResultOf, Result
<1>2. \A t \in Result : Inserted(t) \in Result
  BY DEF Inserted, Result
<1>3. \A t \in Result : Skipped(t, 0) \in Result /\ Skipped(t, 1) \in Result
  BY DEF Skipped, Result
<1>4. QED BY <1>1, <1>2, <1>3

\* What the broker can report is a finite set of rows of executed fills.
LEMMA ReportedRows ==
    ASSUME TypeOK, NEW S \in SUBSET Reported
    PROVE  /\ S \in SUBSET Rows
           /\ \A r \in S : r[2] \in executed
           /\ Cardinality(S) \in Nat
<1>1. Reported \subseteq Rows /\ \A r \in Reported : r[2] \in executed
  BY DEF TypeOK, Reported, PaRows, IserverRows, Rows
<1>2. IsFiniteSet(S)
  BY <1>1, RowsFinite, FS_Subset
<1>3. QED BY <1>1, <1>2, FS_CardinalityType

-----------------------------------------------------------------------------
(* Each action of a caller preserves the invariant.                        *)

LEMMA EnterPreserves ==
    ASSUME SyncInv, NEW c \in Callers, Enter(c), lock = NoCaller,
           waiters' \in Seq(Callers),
           UNCHANGED <<executed, recent, trades, work, memo, faults>>
    PROVE  SyncInv'
<1> USE DEF SyncInv
<1>1. TypeOK'
  BY DEF TypeOK, Enter, work, memo
<1>2. \A d \in Callers : ~Inside(d)
  BY SyncAssumption DEF LockInv
<1>3. \A d \in Callers : d # c => ~Inside(d)'
  BY <1>2 DEF Inside, Enter, TypeOK
<1>4. LockInv'
  BY <1>3 DEF LockInv, Inside, Enter, TypeOK
<1>5. PendingInv'
  BY <1>3 DEF PendingInv, Inside, Enter, TypeOK
<1>6. TodoInv' /\ UniqueOrderId'
  BY DEF TodoInv, UniqueOrderId, work
<1>7. QED BY <1>1, <1>4, <1>5, <1>6

LEMMA CallPreserves ==
    ASSUME SyncInv, NEW c \in Callers, Call(c)
    PROVE  SyncInv'
<1> USE DEF SyncInv
<1>1. CASE lock = NoCaller /\ waiters = <<>> /\ Enter(c) /\ UNCHANGED waiters
  <2>1. waiters' \in Seq(Callers)
    BY <1>1 DEF TypeOK
  <2>2. QED BY <1>1, <2>1, EnterPreserves DEF Call, broker
<1>2. CASE /\ pc' = [pc EXCEPT ![c] = "waiting"]
           /\ waiters' = Append(waiters, c)
           /\ UNCHANGED lock
  <2>1. TypeOK'
    BY <1>2 DEF TypeOK, Call, broker, work, memo
  <2>2. LockInv' /\ PendingInv'
    BY <1>2 DEF TypeOK, Call, LockInv, PendingInv, Inside, broker, work
  <2>3. TodoInv' /\ UniqueOrderId'
    BY DEF Call, TodoInv, UniqueOrderId, broker, work
  <2>4. QED BY <2>1, <2>2, <2>3
<1>3. QED BY <1>1, <1>2 DEF Call

LEMMA WakePreserves ==
    ASSUME SyncInv, Wake
    PROVE  SyncInv'
<1>1. Head(waiters) \in Callers /\ Tail(waiters) \in Seq(Callers)
  BY DEF SyncInv, TypeOK, Wake
<1>2. QED BY <1>1, EnterPreserves DEF Wake, broker

LEMMA DeliverPreserves ==
    ASSUME SyncInv, NEW c \in Callers, NEW S \in SUBSET Reported, Deliver(c, S),
           faults' \in 0..MaxFaults
    PROVE  SyncInv'
<1> USE DEF SyncInv
<1>1. lock = c /\ \A d \in Callers : d # c => ~Inside(d)
  BY DEF LockInv, Inside, Deliver
<1>2. /\ S \in SUBSET Rows
      /\ \A r \in S : r[2] \in executed
      /\ ResultOf(Cardinality(S)) \in Result
      /\ ResultOf(0) \in Result
  BY ReportedRows, ResultType
<1>3. TypeOK'
  BY <1>2 DEF TypeOK, Deliver, Remember, Leave, work, memo, broker
<1>4. LockInv' /\ PendingInv'
  BY <1>1 DEF TypeOK, Deliver, Leave, LockInv, PendingInv, Inside, work, broker
<1>5. TodoInv' /\ UniqueOrderId'
  BY <1>2 DEF TypeOK, Deliver, TodoInv, UniqueOrderId, work, broker
<1>6. QED BY <1>3, <1>4, <1>5

LEMMA FetchPreserves ==
    ASSUME SyncInv, NEW c \in Callers, Fetch(c) \/ FetchPart(c) \/ FetchRaises(c)
    PROVE  SyncInv'
<1> USE DEF SyncInv
<1>1. CASE Fetch(c)
  BY <1>1, DeliverPreserves DEF Fetch, TypeOK
<1>2. CASE FetchPart(c)
  <2>1. faults' \in 0..MaxFaults
    BY <1>2, SyncAssumption DEF FetchPart, TypeOK
  <2>2. QED BY <1>2, <2>1, DeliverPreserves DEF FetchPart
<1>3. CASE FetchRaises(c)
  <2>1. lock = c /\ \A d \in Callers : d # c => ~Inside(d)
    BY <1>3 DEF LockInv, Inside, FetchRaises
  <2>2. TypeOK'
    BY <1>3, SyncAssumption DEF TypeOK, FetchRaises, Leave, work, memo, broker
  <2>3. LockInv' /\ PendingInv'
    BY <1>3, <2>1 DEF TypeOK, FetchRaises, Leave, LockInv, PendingInv, Inside, work, broker
  <2>4. TodoInv' /\ UniqueOrderId'
    BY <1>3 DEF FetchRaises, TodoInv, UniqueOrderId, work, broker
  <2>5. QED BY <2>2, <2>3, <2>4
<1>4. QED BY <1>1, <1>2, <1>3

LEMMA RowPreserves ==
    ASSUME SyncInv, NEW c \in Callers, NEW r \in Rows,
           SkipRow(c, r) \/ CheckRow(c, r) \/ CheckFails(c, r)
    PROVE  SyncInv'
<1> USE DEF SyncInv
<1>1. lock = c /\ \A d \in Callers : d # c => ~Inside(d)
  BY DEF LockInv, Inside, SkipRow, CheckRow, CheckFails, IsNext
<1>2. r \in todo[c] /\ r[2] \in executed
  BY DEF TodoInv, SkipRow, CheckRow, CheckFails, IsNext
<1>3. CASE SkipRow(c, r) \/ CheckFails(c, r)
  <2>1. tally' \in [Callers -> Result]
    BY <1>3, ResultType DEF TypeOK, SkipRow, CheckFails, Skip
  <2>2. TypeOK'
    BY <1>3, <2>1, SyncAssumption DEF TypeOK, SkipRow, CheckFails, Skip, memo, broker
  <2>3. LockInv' /\ PendingInv'
    BY <1>3 DEF SkipRow, CheckFails, Skip, LockInv, PendingInv, Inside, broker
  <2>4. TodoInv' /\ UniqueOrderId'
    BY <1>3 DEF TypeOK, SkipRow, CheckFails, Skip, TodoInv, UniqueOrderId, broker
  <2>5. QED BY <2>2, <2>3, <2>4
<1>4. CASE CheckRow(c, r)
  <2>1. TypeOK'
    BY <1>4 DEF TypeOK, CheckRow, memo, broker
  <2>2. LockInv'
    BY <1>1, <1>4 DEF TypeOK, CheckRow, LockInv, Inside, IsNext
  <2>3. PendingInv'
    BY <1>2, <1>4 DEF TypeOK, CheckRow, PendingInv, broker
  <2>4. TodoInv' /\ UniqueOrderId'
    BY <1>4 DEF TypeOK, CheckRow, TodoInv, UniqueOrderId, broker
  <2>5. QED BY <2>1, <2>2, <2>3, <2>4
<1>5. QED BY <1>3, <1>4

(***************************************************************************)
(* The INSERT: the row in hand has an id without a row, so that there is   *)
(* one afterwards; nobody else is between SELECT and INSERT.               *)
(***************************************************************************)
LEMMA InsertPreserves ==
    ASSUME SyncInv, NEW c \in Callers, Insert(c) \/ InsertFails(c)
    PROVE  SyncInv'
<1> USE DEF SyncInv
<1>1. pc[c] = "insert" /\ lock = c /\ \A d \in Callers : d # c => ~Inside(d)
  BY DEF LockInv, Inside, Insert, InsertFails
<1>2. PICK r \in Rows : current[c] = {r} /\ trades[OrderId(r)] = 0
  BY <1>1 DEF PendingInv
<1>3. UNCHANGED trades \/ trades' = [trades EXCEPT ![OrderId(r)] = 1]
  BY <1>2, OrderIdType DEF TypeOK, Insert, InsertFails
<1>4. trades' \in [OrderIds -> Nat] /\ UniqueOrderId'
  <2>1. CASE UNCHANGED trades
    BY <2>1 DEF TypeOK, UniqueOrderId
  <2>2. CASE trades' = [trades EXCEPT ![OrderId(r)] = 1]
    BY <2>2, OrderIdType DEF TypeOK, UniqueOrderId
  <2>3. QED BY <1>3, <2>1, <2>2
<1>5. tally' \in [Callers -> Result]
  BY ResultType DEF TypeOK, Insert, InsertFails
<1>6. TypeOK'
  <2>1. faults' \in 0..MaxFaults
    BY SyncAssumption DEF TypeOK, Insert, InsertFails
  <2>2. QED BY <1>4, <1>5, <2>1 DEF TypeOK, Insert, InsertFails, memo, broker
<1>7. LockInv' /\ PendingInv' /\ TodoInv'
  BY <1>1 DEF TypeOK, LockInv, PendingInv, TodoInv, Inside, Insert, InsertFails, broker
<1>8. QED BY <1>4, <1>6, <1>7

LEMMA FinishPreserves ==
    ASSUME SyncInv, NEW c \in Callers, Finish(c)
    PROVE  SyncInv'
<1> USE DEF SyncInv
<1>1. lock = c /\ \A d \in Callers : d # c => ~Inside(d)
  BY DEF LockInv, Inside, Finish
<1>2. TypeOK'
  BY ResultType DEF TypeOK, Finish, Remember, Leave, broker
<1>3. LockInv' /\ PendingInv'
  BY <1>1 DEF TypeOK, Finish, Leave, LockInv, PendingInv, Inside
<1>4. TodoInv' /\ UniqueOrderId'
  BY DEF Finish, TodoInv, UniqueOrderId, broker
<1>5. QED BY <1>2, <1>3, <1>4

LEMMA WorldPreserves ==
    ASSUME SyncInv,
           \/ \E f \in Fills : ExecuteFill(f) \/ FillAges(f)
           \/ WindowEnds
           \/ ResetTrades
           \/ Restart
    PROVE  SyncInv'
<1> USE DEF SyncInv
<1>1. CASE \E f \in Fills : ExecuteFill(f) \/ FillAges(f)
  BY <1>1 DEF TypeOK, LockInv, PendingInv, TodoInv, UniqueOrderId, Inside,
              ExecuteFill, FillAges, work, memo
<1>2. CASE WindowEnds
  BY <1>2 DEF TypeOK, LockInv, PendingInv, TodoInv, UniqueOrderId, Inside,
              WindowEnds, work, broker
<1>3. CASE ResetTrades
  <2>1. TypeOK' /\ UniqueOrderId'
    BY <1>3 DEF TypeOK, UniqueOrderId, ResetTrades, work, memo, broker
  <2>2. \A r \in Rows : trades[OrderId(r)]' = 0
    BY <1>3, OrderIdType DEF ResetTrades
  <2>3. LockInv' /\ PendingInv' /\ TodoInv'
    BY <1>3, <2>2 DEF LockInv, PendingInv, TodoInv, Inside, ResetTrades, work, broker
  <2>4. QED BY <2>1, <2>3
<1>4. CASE Restart
  <2>1. faults' \in 0..MaxFaults /\ ResultOf(0) \in Result /\ <<>> \in Seq(Callers)
    BY <1>4, SyncAssumption, ResultType DEF TypeOK, Restart
  <2> TypeOK'
    BY <1>4, <2>1 DEF TypeOK, Restart, broker
  <2>2. LockInv' /\ PendingInv' /\ TodoInv' /\ UniqueOrderId'
    BY <1>4 DEF LockInv, PendingInv, TodoInv, UniqueOrderId, Inside, Restart, broker
  <2>3. QED BY <2>1, <2>2
<1>5. QED BY <1>1, <1>2, <1>3, <1>4

-----------------------------------------------------------------------------
LEMMA InitEstablishes == Init => SyncInv
<1> SUFFICES ASSUME Init PROVE SyncInv
  OBVIOUS
<1>1. ResultOf(0) \in Result /\ 0 \in 0..MaxFaults /\ <<>> \in Seq(Callers)
  BY SyncAssumption, ResultType
<1> TypeOK
  BY <1>1 DEF Init, TypeOK
<1>2. LockInv /\ PendingInv /\ TodoInv /\ UniqueOrderId
  BY DEF Init, LockInv, PendingInv, TodoInv, UniqueOrderId, Inside
<1>3. QED BY <1>1, <1>2 DEF SyncInv

LEMMA StutterPreserves == SyncInv /\ UNCHANGED vars => SyncInv'
  BY DEF SyncInv, TypeOK, LockInv, PendingInv, TodoInv, UniqueOrderId, Inside,
         vars, work, memo

LEMMA NextPreserves == SyncInv /\ [Next]_vars => SyncInv'
<1> SUFFICES ASSUME SyncInv, [Next]_vars PROVE SyncInv'
  OBVIOUS
<1>1. CASE \E c \in Callers : Call(c)
  BY <1>1, CallPreserves
<1>2. CASE \E c \in Callers : Fetch(c) \/ FetchPart(c) \/ FetchRaises(c)
  BY <1>2, FetchPreserves
<1>3. CASE \E c \in Callers : \E r \in Rows :
              SkipRow(c, r) \/ CheckRow(c, r) \/ CheckFails(c, r)
  BY <1>3, RowPreserves
<1>4. CASE \E c \in Callers : Insert(c) \/ InsertFails(c)
  BY <1>4, InsertPreserves
<1>5. CASE \E c \in Callers : Finish(c)
  BY <1>5, FinishPreserves
<1>6. CASE Wake
  BY <1>6, WakePreserves
<1>7. CASE \/ \E f \in Fills : ExecuteFill(f) \/ FillAges(f)
           \/ WindowEnds \/ ResetTrades \/ Restart
  BY <1>7, WorldPreserves
<1>8. CASE UNCHANGED vars
  BY <1>8, StutterPreserves
<1>9. QED BY <1>1, <1>2, <1>3, <1>4, <1>5, <1>6, <1>7, <1>8 DEF Next, Step, Fault

\* The inductive invariant holds in every state of the sync.
THEOREM Invariance == Spec => []SyncInv
<1>1. QED BY InitEstablishes, NextPreserves, PTL DEF Spec

\* Every variable keeps its type, whatever fails or restarts.
THEOREM TypeCorrect == Spec => []TypeOK
<1>1. SyncInv => TypeOK
  BY DEF SyncInv
<1>2. QED BY <1>1, Invariance, PTL

\* Of any number of callers at most one fetches from the broker or writes:
\* _sync_lock is held over the whole of _sync_ibkr_trades_once.
THEOREM MutualExclusion == Spec => []SingleFlight
<1>1. SyncInv => SingleFlight
  BY DEF SyncInv, LockInv, SingleFlight
<1>2. QED BY <1>1, Invariance, PTL

\* No broker order id ever has two rows, although no index forbids it.
THEOREM NoDuplicateOrder == Spec => []UniqueOrderId
<1>1. SyncInv => UniqueOrderId
  BY DEF SyncInv
<1>2. QED BY <1>1, Invariance, PTL

-----------------------------------------------------------------------------
(***************************************************************************)
(* The sync implements the ledger: an INSERT is a Record of an id without  *)
(* a row, a reset is a Wipe, everything else leaves the ledger alone.      *)
(***************************************************************************)
LEMMA InsertIsRecord ==
    ASSUME SyncInv, NEW c \in Callers, Insert(c) \/ InsertFails(c)
    PROVE  [Ledger!Next]_Ledger!ledgerVars
<1>1. pc[c] = "insert" /\ UNCHANGED executed
  BY DEF Insert, InsertFails, broker
<1>2. PICK r \in Rows : /\ current[c] = {r}
                        /\ Parses(r)
                        /\ r[2] \in executed
                        /\ trades[OrderId(r)] = 0
  BY <1>1 DEF SyncInv, PendingInv
<1>3. OrderId(r) \in OrderIds /\ r[2] \in Fills /\ OrderId(r) \in IdsOf[r[2]]
  BY <1>2, OrderIdType DEF Rows, IdsOf
<1>4. UNCHANGED trades \/ trades' = [trades EXCEPT ![OrderId(r)] = 1]
  BY <1>2, <1>3 DEF SyncInv, TypeOK, Insert, InsertFails
<1>5. CASE UNCHANGED trades
  BY <1>1, <1>5 DEF Ledger!ledgerVars
<1>6. CASE trades' = [trades EXCEPT ![OrderId(r)] = 1]
  <2>1. Ledger!Record(OrderId(r))
    BY <1>1, <1>2, <1>3, <1>6 DEF Ledger!Record
  <2>2. QED BY <2>1, <1>3 DEF Ledger!Next
<1>7. QED BY <1>4, <1>5, <1>6

LEMMA StepIsLedgerStep == SyncInv /\ [Next]_vars => [Ledger!Next]_Ledger!ledgerVars
<1> SUFFICES ASSUME SyncInv, [Next]_vars PROVE [Ledger!Next]_Ledger!ledgerVars
  OBVIOUS
<1>1. CASE \E c \in Callers : Insert(c) \/ InsertFails(c)
  BY <1>1, InsertIsRecord
<1>2. CASE \E f \in Fills : ExecuteFill(f)
  BY <1>2 DEF ExecuteFill, Ledger!Next, Ledger!ExecuteFill
<1>3. CASE ResetTrades
  BY <1>3 DEF ResetTrades, broker, Ledger!Next, Ledger!Wipe, Ledger!EmptyLedger
<1>4. CASE UNCHANGED <<executed, trades>>
  BY <1>4 DEF Ledger!ledgerVars
<1>5. CASE \E c \in Callers : \/ Call(c) \/ Fetch(c) \/ FetchPart(c)
                              \/ FetchRaises(c) \/ Finish(c)
  BY <1>4, <1>5 DEF Call, Fetch, FetchPart, FetchRaises, Finish, Deliver, broker
<1>6. CASE \E c \in Callers : \E r \in Rows :
              SkipRow(c, r) \/ CheckRow(c, r) \/ CheckFails(c, r)
  BY <1>4, <1>6 DEF SkipRow, CheckRow, CheckFails, broker
<1>7. CASE \/ Wake \/ WindowEnds \/ Restart
           \/ \E f \in Fills : FillAges(f)
           \/ UNCHANGED vars
  BY <1>4, <1>7 DEF Wake, WindowEnds, Restart, FillAges, vars, broker
<1>8. QED BY <1>1, <1>2, <1>3, <1>5, <1>6, <1>7 DEF Next, Step, Fault

\* The detailed sync implements the abstract ledger.
THEOREM Refinement == Spec => ImplementsLedger
<1>1. Init => Ledger!Init
  BY DEF Init, Ledger!Init, Ledger!EmptyLedger
<1>2. SyncInv /\ [Next]_vars => [Ledger!Next]_Ledger!ledgerVars
  BY StepIsLedgerStep
<1>3. QED BY <1>1, <1>2, Invariance, PTL DEF Spec, ImplementsLedger, Ledger!Spec

-----------------------------------------------------------------------------
(***************************************************************************)
(* The counts.  A row in hand is counted with the row between SELECT and   *)
(* INSERT, of which there is none anywhere else.                           *)
(***************************************************************************)
NoneInHand == \A c \in Callers : pc[c] # "insert" => current[c] = {}

CountInv == Accounted /\ NoneInHand

LEMMA TodoFinite == ASSUME TypeOK, NEW c \in Callers PROVE IsFiniteSet(todo[c])
  BY RowsFinite, FS_Subset DEF TypeOK

\* What the counters say of a caller that handles rows.
Balance(t, n, k) == t.inserted + t.skipped + n + k = t.total

LEMMA EnterCounts ==
    ASSUME SyncInv, CountInv, NEW c \in Callers, Enter(c), lock = NoCaller,
           UNCHANGED <<work, memo>>
    PROVE  CountInv'
<1>1. \A d \in Callers : ~Inside(d)
  BY SyncAssumption DEF SyncInv, LockInv
<1>2. \A d \in Callers : pc'[d] \notin {"rows", "insert"}
  BY <1>1 DEF Enter, Inside, SyncInv, TypeOK
<1>3. \A d \in Callers : current'[d] = {}
  BY <1>1 DEF CountInv, NoneInHand, Inside, work
<1>4. QED BY <1>2, <1>3 DEF CountInv, Accounted, NoneInHand, memo

LEMMA DeliverCounts ==
    ASSUME SyncInv, CountInv, NEW c \in Callers, NEW S \in SUBSET Reported, Deliver(c, S)
    PROVE  CountInv'
<1>1. Cardinality(S) \in Nat /\ current[c] = {} /\ Cardinality({}) = 0
  BY ReportedRows, FS_EmptySet DEF SyncInv, CountInv, NoneInHand, Deliver
<1>2. CASE S = {}
  BY <1>2 DEF Deliver, Remember, Leave, ResultOf, SyncInv, TypeOK, CountInv, Accounted,
              NoneInHand, work
<1>3. CASE S # {}
  <2>1. ResultOf(Cardinality(S)).inserted + ResultOf(Cardinality(S)).skipped
           + Cardinality(S) + Cardinality({}) = ResultOf(Cardinality(S)).total
    BY <1>1 DEF ResultOf
  <2>2. Accounted'
    BY <1>1, <1>3, <2>1 DEF Deliver, SyncInv, TypeOK, CountInv, Accounted, memo
  <2>3. NoneInHand'
    BY <1>1, <1>3 DEF Deliver, SyncInv, TypeOK, CountInv, NoneInHand
  <2>4. QED BY <2>2, <2>3 DEF CountInv
<1>4. QED BY <1>2, <1>3

LEMMA RowCounts ==
    ASSUME SyncInv, CountInv, NEW c \in Callers, NEW r \in Rows,
           SkipRow(c, r) \/ CheckRow(c, r) \/ CheckFails(c, r)
    PROVE  CountInv'
<1>1. pc[c] = "rows" /\ r \in todo[c] /\ current[c] = {}
  BY DEF SkipRow, CheckRow, CheckFails, IsNext, CountInv, NoneInHand
<1>2. /\ Cardinality(todo[c]) \in Nat
      /\ Cardinality(todo[c] \ {r}) = Cardinality(todo[c]) - 1
  BY <1>1, TodoFinite, FS_CardinalityType, FS_RemoveElement DEF SyncInv
<1>3. Cardinality({}) = 0 /\ Cardinality({r}) = 1
  BY FS_EmptySet, FS_Singleton
<1>4. tally[c] \in Result /\ Balance(tally[c], Cardinality(todo[c]), 0)
  BY <1>1, <1>3 DEF SyncInv, TypeOK, CountInv, Accounted, Balance, Result
<1>5. CASE SkipRow(c, r) \/ CheckFails(c, r)
  <2>1. PICK error \in {0, 1} : Skip(c, r, error)
    BY <1>5 DEF SkipRow, CheckFails
  <2>2. Balance(Skipped(tally[c], error), Cardinality(todo[c] \ {r}), 0)
    BY <1>2, <1>4 DEF Balance, Skipped, Result
  <2>3. UNCHANGED memo
    BY <1>5 DEF SkipRow, CheckFails
  <2>4. Accounted'
    BY <1>1, <1>3, <2>1, <2>2, <2>3
       DEF Skip, Balance, SyncInv, TypeOK, CountInv, Accounted, memo, Skipped
  <2>5. QED BY <2>1, <2>4 DEF Skip, CountInv, NoneInHand
<1>6. CASE CheckRow(c, r)
  <2>1. Balance(tally[c], Cardinality(todo[c] \ {r}), Cardinality({r}))
    BY <1>2, <1>3, <1>4 DEF Balance, Result
  <2>2. Accounted'
    BY <1>6, <2>1 DEF CheckRow, Balance, SyncInv, TypeOK, CountInv, Accounted, memo
  <2>3. QED BY <1>6, <2>2 DEF CheckRow, SyncInv, TypeOK, CountInv, NoneInHand
<1>7. QED BY <1>5, <1>6

LEMMA InsertCounts ==
    ASSUME SyncInv, CountInv, NEW c \in Callers, Insert(c) \/ InsertFails(c)
    PROVE  CountInv'
<1>1. pc[c] = "insert" /\ Cardinality(current[c]) = 1
  <2>1. pc[c] = "insert"
    BY DEF Insert, InsertFails
  <2>2. PICK r \in Rows : current[c] = {r}
    BY <2>1 DEF SyncInv, PendingInv
  <2>3. QED BY <2>1, <2>2, FS_Singleton
<1>2. Cardinality(todo[c]) \in Nat /\ Cardinality({}) = 0
  BY TodoFinite, FS_CardinalityType, FS_EmptySet DEF SyncInv
<1>3. tally[c] \in Result /\ Balance(tally[c], Cardinality(todo[c]), 1)
  BY <1>1 DEF SyncInv, TypeOK, CountInv, Accounted, Balance
<1>4. /\ Balance(Inserted(tally[c]), Cardinality(todo[c]), 0)
      /\ Balance(Skipped(tally[c], 1), Cardinality(todo[c]), 0)
  BY <1>2, <1>3 DEF Balance, Inserted, Skipped, Result
<1>5. /\ tally' = [tally EXCEPT ![c] = Inserted(tally[c])]
         \/ tally' = [tally EXCEPT ![c] = Skipped(tally[c], 1)]
      /\ pc' = [pc EXCEPT ![c] = "rows"] /\ current' = [current EXCEPT ![c] = {}]
      /\ UNCHANGED <<todo, memo>>
  BY DEF Insert, InsertFails
<1>6. Accounted'
  BY <1>2, <1>4, <1>5 DEF Balance, SyncInv, TypeOK, CountInv, Accounted, memo
<1>7. NoneInHand'
  BY <1>5 DEF SyncInv, TypeOK, CountInv, NoneInHand
<1>8. QED BY <1>6, <1>7 DEF CountInv

LEMMA FinishCounts ==
    ASSUME SyncInv, CountInv, NEW c \in Callers, Finish(c)
    PROVE  CountInv'
<1>1. todo[c] = {} /\ current[c] = {} /\ Cardinality({}) = 0
  BY FS_EmptySet DEF Finish, CountInv, NoneInHand
<1>2. tally[c] \in Result /\ tally[c].inserted + tally[c].skipped = tally[c].total
  <2>1. tally[c] \in Result
    BY DEF SyncInv, TypeOK
  <2>2. Balance(tally[c], Cardinality(todo[c]), Cardinality(current[c]))
    BY DEF Finish, CountInv, Accounted, Balance
  <2>3. Balance(tally[c], 0, 0)
    BY <1>1, <2>2
  <2>4. QED BY <2>1, <2>3 DEF Balance, Result
<1>3. Accounted'
  BY <1>2 DEF Finish, Remember, Leave, SyncInv, TypeOK, CountInv, Accounted
<1>4. NoneInHand'
  BY <1>1 DEF Finish, Leave, SyncInv, TypeOK, CountInv, NoneInHand
<1>5. QED BY <1>3, <1>4 DEF CountInv

LEMMA NextCounts == SyncInv /\ CountInv /\ [Next]_vars => CountInv'
<1> SUFFICES ASSUME SyncInv, CountInv, [Next]_vars PROVE CountInv'
  OBVIOUS
<1>1. ASSUME NEW c \in Callers, Call(c) PROVE CountInv'
  <2>1. CASE lock = NoCaller /\ Enter(c)
    BY <1>1, <2>1, EnterCounts DEF Call
  <2>2. CASE pc' = [pc EXCEPT ![c] = "waiting"]
    BY <1>1, <2>2 DEF Call, SyncInv, TypeOK, CountInv, Accounted, NoneInHand, work, memo
  <2>3. QED BY <1>1, <2>1, <2>2 DEF Call
<1>2. ASSUME NEW c \in Callers, Fetch(c) \/ FetchPart(c) PROVE CountInv'
  BY <1>2, DeliverCounts DEF Fetch, FetchPart
<1>3. ASSUME NEW c \in Callers, FetchRaises(c) PROVE CountInv'
  BY <1>3 DEF FetchRaises, Leave, SyncInv, TypeOK, CountInv, Accounted, NoneInHand, work, memo
<1>4. ASSUME NEW c \in Callers, NEW r \in Rows,
             SkipRow(c, r) \/ CheckRow(c, r) \/ CheckFails(c, r)
      PROVE CountInv'
  BY <1>4, RowCounts
<1>5. ASSUME NEW c \in Callers, Insert(c) \/ InsertFails(c) \/ Finish(c) PROVE CountInv'
  BY <1>5, InsertCounts, FinishCounts
<1>6. CASE Wake
  <2>1. Head(waiters) \in Callers
    BY <1>6 DEF Wake, SyncInv, TypeOK
  <2>2. QED BY <1>6, <2>1, EnterCounts DEF Wake
<1>7. CASE \/ \E f \in Fills : ExecuteFill(f) \/ FillAges(f)
           \/ WindowEnds \/ ResetTrades \/ UNCHANGED vars
  BY <1>7 DEF ExecuteFill, FillAges, WindowEnds, ResetTrades, vars, CountInv, Accounted,
              NoneInHand, work, memo
<1>8. CASE Restart
  BY <1>8 DEF Restart, CountInv, Accounted, NoneInHand
<1>9. QED BY <1>1, <1>2, <1>3, <1>4, <1>5, <1>6, <1>7, <1>8 DEF Next, Step, Fault

\* Every reported row is counted once in the result the callers share,
\* whichever statements fail and whether they were executed or not.
THEOREM EveryRowIsCounted == Spec => []Accounted
<1>1. Init => CountInv
  BY DEF Init, CountInv, Accounted, NoneInHand
<1>2. CountInv => Accounted
  BY DEF CountInv
<1>3. QED BY <1>1, <1>2, NextCounts, Invariance, PTL DEF Spec

-----------------------------------------------------------------------------
\* A caller begins to fetch only when it gets the lock, which nobody has then,
\* and finds no result that is fresh.
THEOREM BurstsShareAFetch == Spec => FetchesAreSpaced
<1> DEFINE Spaced == \A c \in Callers :
              pc[c] # "fetching" /\ pc'[c] = "fetching" =>
                 /\ lastResult = NoResult \/ ~fresh
                 /\ \A d \in Callers : ~Inside(d)
<1>1. SyncInv /\ [Next]_vars => Spaced
  <2> SUFFICES ASSUME SyncInv, [Next]_vars, NEW c \in Callers,
                      pc[c] # "fetching", pc'[c] = "fetching"
               PROVE  /\ lastResult = NoResult \/ ~fresh
                      /\ \A d \in Callers : ~Inside(d)
    OBVIOUS
  <2> USE DEF SyncInv, TypeOK
  <2>1. CASE \E d \in Callers : Enter(d) /\ lock = NoCaller
    BY <2>1, SyncAssumption DEF Enter, LockInv
  <2>2. CASE Wake
    BY <2>1, <2>2 DEF Wake
  <2>3. ASSUME NEW d \in Callers, Call(d)
        PROVE  \E e \in Callers : Enter(e) /\ lock = NoCaller
    BY <2>3 DEF Call
  <2>4. ASSUME NEW d \in Callers, Step(d) \/ Fault(d) PROVE FALSE
    BY <2>4 DEF Step, Fault, Fetch, FetchPart, FetchRaises, Deliver, Leave, Insert,
                InsertFails, Finish, SkipRow, CheckRow, CheckFails, Skip
  <2>5. CASE \/ \E f \in Fills : ExecuteFill(f) \/ FillAges(f)
             \/ WindowEnds \/ ResetTrades \/ Restart \/ UNCHANGED vars
    BY <2>5 DEF ExecuteFill, FillAges, WindowEnds, ResetTrades, Restart, vars
  <2>6. QED BY <2>1, <2>2, <2>3, <2>4, <2>5 DEF Next
<1>2. QED BY <1>1, Invariance, PTL DEF Spec, FetchesAreSpaced
=============================================================================
