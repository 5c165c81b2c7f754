-------------------------- MODULE SnapshotsProofs --------------------------
(***************************************************************************)
(* Proofs about Snapshots, for every set of accounts, symbols and jobs:    *)
(* type correctness, and that pricing never changes what is held.          *)
(***************************************************************************)
EXTENDS Snapshots, FoldTheorems

Labels == {"idle", "mirror", "upserts", "rows", "price", "accounts", "next", "write"}

\* The types, with the one the values of a step need besides: job is a function.
TypedInv == TypeOK /\ job \in [Jobs -> Job]

-----------------------------------------------------------------------------
(* What the tables and the broker say of an account.                       *)

LEMMA KeysAreFinite == IsFiniteSet(Keys) /\ \A S \in SUBSET Keys : IsFiniteSet(S)
<1>1. IsFiniteSet(Keys)
  BY SnapshotAssumption, FS_Product DEF Keys
<1>2. QED BY <1>1, FS_Subset

LEMMA KeyParts == ASSUME NEW k \in Keys PROVE k[1] \in Accounts /\ k[2] \in Symbols
  BY DEF Keys

LEMMA ProductsAreNumbers == \A x, y \in Nat : x * y \in Nat
  OBVIOUS

\* A row is there or it is not.
LEMMA RowType ==
    ASSUME TypedInv, NEW k \in Keys, positions[k] # NoRow
    PROVE  /\ positions[k] \in PositionRow /\ positions[k].qty \in Nat
           /\ positions[k].value \in Nat \cup {Null} /\ positions[k].source \in {"file", "ibkr"}
BY DEF TypedInv, TypeOK, PositionRow

\* Every value of an account is a sum of numbers.
LEMMA ValuesType ==
    ASSUME TypedInv, NEW a
    PROVE  StoredValue(a) \in Nat /\ QuotedValue(a) \in Nat /\ LiveValue \in Nat
<1>1. RowsOf(a) \subseteq Keys /\ \A k \in RowsOf(a) : positions[k] # NoRow
  BY DEF RowsOf
<1>2. StoredValue(a) \in Nat
  <2> DEFINE S == {k \in RowsOf(a) : positions[k].value # Null}
             v == [k \in S |-> positions[k].value]
  <2>1. IsFiniteSet(S) /\ DOMAIN v = S
    BY <1>1, KeysAreFinite
  <2>2. \A k \in S : v[k] \in Nat
    BY <1>1, RowType
  <2>3. StoredValue(a) = SumFunction(v)
    BY DEF StoredValue
  <2> HIDE DEF S, v
  <2>4. QED BY <2>1, <2>2, <2>3, SumFunctionType
<1>3. QuotedValue(a) \in Nat
  <2> DEFINE S == RowsOf(a)
             v == [k \in S |-> positions[k].qty * Price[k[2]]]
  <2>1. IsFiniteSet(S) /\ DOMAIN v = S
    BY <1>1, KeysAreFinite
  <2>2. ASSUME NEW k \in S PROVE v[k] \in Nat
    <3>1. positions[k].qty \in Nat /\ Price[k[2]] \in Nat
      BY <1>1, RowType, KeyParts, SnapshotAssumption
    <3>2. QED BY <3>1, ProductsAreNumbers
  <2>3. QuotedValue(a) = SumFunction(v)
    BY DEF QuotedValue
  <2> HIDE DEF S, v
  <2>4. QED BY <2>1, <2>2, <2>3, SumFunctionType
<1>4. LiveValue \in Nat
  <2> DEFINE v == [s \in Symbols |-> Held[s] * Price[s]]
  <2>1. IsFiniteSet(DOMAIN v)
    BY SnapshotAssumption
  <2>2. ASSUME NEW s \in DOMAIN v PROVE v[s] \in Nat
    <3>1. Held[s] \in Nat /\ Price[s] \in Nat
      BY SnapshotAssumption
    <3>2. QED BY <3>1, ProductsAreNumbers
  <2>3. LiveValue = SumFunction(v)
    BY DEF LiveValue
  <2> HIDE DEF v
  <2>4. QED BY <2>1, <2>2, <2>3, SumFunctionType
<1>5. QED BY <1>2, <1>3, <1>4

\* The NAV of an earlier day, if there is one.
LEMMA PrevNavType ==
    ASSUME TypedInv, NEW a \in Accounts \cup {All}, NEW day
    PROVE  PrevNav(a, day) \in Nat \cup {Null}
<1> DEFINE earlier == {d \in Days : d < day /\ snaps[d][a] # NoSnap}
<1>1. CASE earlier = {}
  BY <1>1 DEF PrevNav
<1>2. CASE earlier # {}
  <2>1. IsFiniteSet(Days) /\ Days \subseteq Int
    <3>1. MaxEvents + 1 \in Int
      BY SnapshotAssumption
    <3>2. QED BY <3>1, FS_Interval DEF Days
  <2>2. IsFiniteSet(earlier) /\ earlier \subseteq Int
    BY <2>1, FS_Subset
  <2>3. Max(earlier) \in earlier
    <3> HIDE DEF earlier
    <3>1. QED BY <1>2, <2>2, MaxIsElement
  <2>4. snaps[Max(earlier)][a] \in SnapshotRow
    BY <2>3 DEF TypedInv, TypeOK
  <2>5. snaps[Max(earlier)][a].nav \in Nat
    BY <2>4 DEF SnapshotRow
  <2>6. PrevNav(a, day) = snaps[Max(earlier)][a].nav
    BY <1>2 DEF PrevNav
  <2>7. QED BY <2>5, <2>6
<1>3. QED BY <1>1, <1>2

-----------------------------------------------------------------------------
(* The jobs.                                                               *)

LEMMA DaysType == 1 \in Days /\ \A d \in Days : d \in Nat /\ d >= 1 /\ d <= MaxEvents + 1
  BY SnapshotAssumption DEF Days

LEMMA NoWorkType == NoWork \in Job
  BY DaysType DEF NoWork, Job, Kinds

\* What every step of a job leaves of its variables.
LEMMA SetType ==
    ASSUME TypedInv, NEW j \in Jobs, NEW label \in Labels, NEW record \in Job, Set(j, label, record)
    PROVE  /\ pc' \in [Jobs -> Labels] /\ job' \in [Jobs -> Job]
           /\ \A i \in Jobs : job'[i].rows \subseteq Keys \X Nat /\ job'[i] \in Job
<1>1. pc' \in [Jobs -> Labels] /\ job' \in [Jobs -> Job]
  BY DEF TypedInv, TypeOK, Set, Labels
<1>2. \A r \in Job : r.rows \subseteq Keys \X Nat
  BY DEF Job
<1>3. QED BY <1>1, <1>2

\* The variables a step leaves alone keep their types.
JobsTyped ==
    /\ pc \in [Jobs -> Labels] /\ job \in [Jobs -> Job]
    /\ \A i \in Jobs : job[i].rows \subseteq Keys \X Nat /\ job[i] \in Job

LEMMA TypedParts ==
    TypedInv <=> /\ positions \in [Keys -> PositionRow \cup {NoRow}]
                 /\ traded \subseteq Accounts
                 /\ snaps \in [Days -> [Accounts \cup {All} -> SnapshotRow \cup {NoSnap}]]
                 /\ today \in Days /\ online \in BOOLEAN
                 /\ JobsTyped
                 /\ edits \in 0..MaxEvents /\ faults \in 0..MaxEvents
BY DEF TypedInv, TypeOK, JobsTyped, Labels

\* The bound on what happens to a behaviour.
LEMMA MayHappenBound ==
    ASSUME TypedInv, MayHappen
    PROVE  edits + 1 \in 0..MaxEvents /\ faults + 1 \in 0..MaxEvents /\ today + 1 \in Days
<1>1. edits \in Nat /\ faults \in Nat /\ today \in Nat /\ today >= 1 /\ MaxEvents \in Nat
  BY DaysType, SnapshotAssumption DEF TypedInv, TypeOK
<1>2. QED BY <1>1 DEF MayHappen, Days

\* The rest stays as it is: only the jobs, or only one of the tables, change.
LEMMA JobStep ==
    ASSUME TypedInv, NEW j \in Jobs, NEW label \in Labels, NEW record \in Job, Set(j, label, record),
           UNCHANGED world,
           positions' \in [Keys -> PositionRow \cup {NoRow}],
           snaps' \in [Days -> [Accounts \cup {All} -> SnapshotRow \cup {NoSnap}]],
           faults' \in 0..MaxEvents
    PROVE  TypedInv'
<1>1. JobsTyped'
  BY SetType DEF JobsTyped
<1>2. UNCHANGED <<traded, today, online, edits>>
  BY DEF world
<1>3. /\ traded' \subseteq Accounts /\ today' \in Days /\ online' \in BOOLEAN
      /\ edits' \in 0..MaxEvents
  BY <1>2, TypedParts
<1>4. QED BY <1>1, <1>3 DEF TypedInv, TypeOK, JobsTyped, Labels

LEMMA JobParts ==
    ASSUME NEW r \in Job
    PROVE  /\ r.kind \in Kinds /\ r.rows \subseteq Keys \X Nat /\ r.left \subseteq Symbols
           /\ r.done \in BOOLEAN /\ r.day \in Days /\ r.accounts \subseteq Accounts
           /\ r.account \in Accounts \cup {All} /\ r.nav \in Nat
           /\ r.prev \in Nat \cup {Null} /\ r.total \in Nat
           /\ \A x \in SUBSET Symbols : [r EXCEPT !.left = x] \in Job
           /\ \A x \in SUBSET Symbols : [r EXCEPT !.left = x, !.done = TRUE] \in Job
           /\ \A x \in SUBSET (Keys \X Nat) : [r EXCEPT !.rows = x] \in Job
           /\ \A x \in SUBSET (Keys \X Nat) : [r EXCEPT !.rows = x, !.done = TRUE] \in Job
           /\ \A a \in Accounts \cup {All}, n \in Nat, q \in Nat \cup {Null} :
                 [r EXCEPT !.account = a, !.nav = n, !.prev = q] \in Job
BY DEF Job

LEMMA NewJobs ==
    ASSUME NEW kind \in Kinds, NEW day \in Days, NEW accounts \in SUBSET Accounts, NEW total \in Nat
    PROVE  /\ [NoWork EXCEPT !.kind = kind] \in Job
           /\ [NoWork EXCEPT !.kind = kind, !.day = day, !.accounts = accounts] \in Job
           /\ [NoWork EXCEPT !.kind = kind, !.day = day, !.accounts = accounts,
                             !.total = total] \in Job
BY NoWorkType DEF Job

LEMMA MirrorStep ==
    ASSUME TypedInv, NEW j \in Jobs,
           \/ DeleteMirror(j) \/ DeleteMirrorOnly(j) \/ EndMirror(j)
           \/ \E s \in Symbols : UpsertMirror(j, s)
    PROVE  TypedInv'
<1>1. /\ job[j] \in Job /\ positions \in [Keys -> PositionRow \cup {NoRow}]
      /\ snaps \in [Days -> [Accounts \cup {All} -> SnapshotRow \cup {NoSnap}]]
      /\ faults \in 0..MaxEvents /\ {"upserts", "rows"} \subseteq Labels
  BY TypedParts DEF JobsTyped, Labels
<1>2. Unmirrored \in [Keys -> PositionRow \cup {NoRow}]
  BY <1>1 DEF Unmirrored
<1>3. CASE DeleteMirror(j)
  <2>1. [job[j] EXCEPT !.left = {s \in Symbols : Held[s] > 0}] \in Job
    BY <1>1, JobParts
  <2>2. QED BY <1>1, <1>2, <1>3, <2>1, JobStep DEF DeleteMirror
<1>4. CASE DeleteMirrorOnly(j)
  BY <1>1, <1>2, <1>4, JobStep, MayHappenBound DEF DeleteMirrorOnly
<1>5. ASSUME NEW s \in Symbols, UpsertMirror(j, s)
      PROVE  TypedInv'
  <2>1. [job[j] EXCEPT !.left = @ \ {s}, !.done = TRUE] \in Job
    <3>1. job[j].left \ {s} \in SUBSET Symbols
      BY <1>1, JobParts
    <3>2. QED BY <1>1, <3>1, JobParts
  <2>2. <<Ibkr, s>> \in Keys /\ Held[s] \in Nat
    BY SnapshotAssumption DEF Keys
  <2> DEFINE old == positions[<<Ibkr, s>>]
             new == [qty |-> Held[s], source |-> "ibkr",
                     value |-> IF old = NoRow THEN Null ELSE old.value]
  <2>3. (IF old = NoRow THEN Null ELSE old.value) \in Nat \cup {Null}
    BY <2>2, RowType
  <2>4. new \in PositionRow
    BY <2>2, <2>3 DEF PositionRow
  <2>5. positions' = [positions EXCEPT ![<<Ibkr, s>>] = new]
    BY <1>5 DEF UpsertMirror
  <2>6. positions' \in [Keys -> PositionRow \cup {NoRow}]
    <3> HIDE DEF new
    <3>1. QED BY <1>1, <2>2, <2>4, <2>5
  <2>7. UNCHANGED <<snaps, world, faults>> /\
        Set(j, "upserts", [job[j] EXCEPT !.left = @ \ {s}, !.done = TRUE])
    BY <1>5 DEF UpsertMirror
  <2>8. QED BY <1>1, <2>1, <2>6, <2>7, JobStep
<1>6. CASE EndMirror(j)
  <2>1. JobsTyped'
    BY <1>1, <1>6, SetType DEF EndMirror, JobsTyped
  <2>2. traded' \subseteq Accounts
    BY <1>6, SnapshotAssumption, TypedParts DEF EndMirror
  <2>3. UNCHANGED <<positions, snaps, today, online, edits, faults>>
    BY <1>6 DEF EndMirror
  <2>4. QED BY <2>1, <2>2, <2>3 DEF TypedInv, TypeOK, JobsTyped, Labels
<1>7. QED BY <1>3, <1>4, <1>5, <1>6

LEMMA PricingStep ==
    ASSUME TypedInv, NEW j \in Jobs,
           \/ ReadRows(j) \/ EndPricing(j)
           \/ \E r \in job[j].rows : PriceRow(j, r[1], r[2]) \/ SkipRow(j, r[1], r[2])
    PROVE  TypedInv'
<1>1. /\ job[j] \in Job /\ positions \in [Keys -> PositionRow \cup {NoRow}]
      /\ snaps \in [Days -> [Accounts \cup {All} -> SnapshotRow \cup {NoSnap}]]
      /\ faults \in 0..MaxEvents /\ {"idle", "price", "accounts"} \subseteq Labels
  BY TypedParts DEF JobsTyped, Labels
<1>2. CASE ReadRows(j)
  <2> DEFINE rows == {<<k, positions[k].qty>> :
                      k \in {l \in Keys : positions[l] # NoRow /\ positions[l].source # "ibkr"}}
  <2>1. rows \in SUBSET (Keys \X Nat)
    BY RowType
  <2>2. [job[j] EXCEPT !.rows = rows] \in Job
    <3> HIDE DEF rows
    <3>1. QED BY <1>1, <2>1, JobParts
  <2>3. \/ Set(j, "idle", NoWork)
        \/ Set(j, "price", [job[j] EXCEPT !.rows = rows])
    BY <1>2 DEF ReadRows, End
  <2>4. UNCHANGED <<positions, snaps, world, faults>>
    BY <1>2 DEF ReadRows
  <2> HIDE DEF rows
  <2>5. QED BY <1>1, <2>2, <2>3, <2>4, NoWorkType, JobStep
<1>3. CASE EndPricing(j)
  BY <1>1, <1>3, NoWorkType, JobStep DEF EndPricing, End
<1>4. ASSUME NEW r \in job[j].rows, PriceRow(j, r[1], r[2]) \/ SkipRow(j, r[1], r[2])
      PROVE  TypedInv'
  <2>1. r[1] \in Keys /\ r[2] \in Nat /\ Price[r[1][2]] \in Nat
    BY <1>1, JobParts, KeyParts, SnapshotAssumption
  <2>2. job[j].rows \ {<<r[1], r[2]>>} \in SUBSET (Keys \X Nat)
    BY <1>1, JobParts
  <2>3. /\ [job[j] EXCEPT !.rows = @ \ {<<r[1], r[2]>>}] \in Job
        /\ [job[j] EXCEPT !.rows = @ \ {<<r[1], r[2]>>}, !.done = TRUE] \in Job
    BY <1>1, <2>2, JobParts
  <2>4. CASE SkipRow(j, r[1], r[2])
    BY <1>1, <2>3, <2>4, JobStep, MayHappenBound DEF SkipRow
  <2>5. CASE PriceRow(j, r[1], r[2])
    <3>1. Priced(r[1], r[2]) \in [Keys -> PositionRow \cup {NoRow}]
      <4>1. CASE positions[r[1]] = NoRow
        BY <1>1, <4>1 DEF Priced
      <4>2. CASE positions[r[1]] # NoRow
        <5> DEFINE value == r[2] * Price[r[1][2]]
        <5>1. value \in Nat
          BY <2>1, ProductsAreNumbers
        <5>2. positions[r[1]] \in PositionRow
          BY <2>1, <4>2, RowType
        <5>3. [positions[r[1]] EXCEPT !.value = value] \in PositionRow
          <6> HIDE DEF value
          <6>1. QED BY <5>1, <5>2 DEF PositionRow
        <5>4. Priced(r[1], r[2]) =
                [positions EXCEPT ![r[1]] = [positions[r[1]] EXCEPT !.value = value]]
          BY <4>2 DEF Priced
        <5> HIDE DEF value
        <5>5. QED BY <1>1, <2>1, <5>3, <5>4
      <4>3. QED BY <4>1, <4>2
    <3>2. QED BY <1>1, <2>3, <2>5, <3>1, JobStep DEF PriceRow
  <2>6. QED BY <1>4, <2>4, <2>5
<1>5. QED BY <1>2, <1>3, <1>4

LEMMA SnapshotStep ==
    ASSUME TypedInv, NEW j \in Jobs,
           \/ ListAccounts(j) \/ ReadAll(j) \/ WriteSnapshot(j)
           \/ \E a \in Accounts : ReadAccount(j, a)
    PROVE  TypedInv'
<1>1. /\ job[j] \in Job /\ positions \in [Keys -> PositionRow \cup {NoRow}]
      /\ snaps \in [Days -> [Accounts \cup {All} -> SnapshotRow \cup {NoSnap}]]
      /\ faults \in 0..MaxEvents /\ {"idle", "next", "write"} \subseteq Labels
      /\ today \in Days /\ traded \subseteq Accounts
  BY TypedParts DEF JobsTyped, Labels
<1>2. CASE ListAccounts(j)
  <2> DEFINE kind == IF job[j].kind = "update" THEN "backfill" ELSE job[j].kind
             accounts == AccountsFor(kind)
             new == [NoWork EXCEPT !.kind = kind, !.day = today, !.accounts = accounts]
  <2>1. kind \in Kinds /\ kind # "update"
    BY <1>1, JobParts DEF Kinds
  <2>2. Owners \subseteq Accounts
    BY KeyParts DEF Owners
  <2>3. accounts \in SUBSET Accounts
    <3> HIDE DEF kind
    <3>1. QED BY <1>1, <2>1, <2>2 DEF AccountsFor, Kinds
  <2>4. new \in Job
    <3> HIDE DEF kind, accounts
    <3>1. QED BY <1>1, <2>1, <2>3, NewJobs
  <2>5. /\ Set(j, "idle", NoWork) \/ Set(j, "next", new)
        /\ UNCHANGED <<positions, snaps, world, faults>>
    BY <1>2 DEF ListAccounts, End
  <2> HIDE DEF new
  <2>6. QED BY <1>1, <2>4, <2>5, NoWorkType, JobStep
<1>3. ASSUME NEW a \in Accounts, ReadAccount(j, a) PROVE TypedInv'
  <2> DEFINE nav == NavFor(job[j].kind, a)
             prev == PrevNav(a, job[j].day)
             new == [job[j] EXCEPT !.account = a, !.nav = nav, !.prev = prev]
  <2>1. nav \in Nat
    <3>1. NavFor(job[j].kind, a) \in {StoredValue(a), LiveValue, QuotedValue(a)}
      BY <1>1, JobParts DEF NavFor, Kinds
    <3>2. QED BY <3>1, ValuesType
  <2>2. prev \in Nat \cup {Null}
    BY PrevNavType
  <2>3. new \in Job
    <3> HIDE DEF nav, prev
    <3>1. QED BY <1>1, <2>1, <2>2, JobParts
  <2>4. /\ Set(j, "idle", NoWork) \/ Set(j, "write", new)
        /\ UNCHANGED <<positions, snaps, world, faults>>
    BY <1>3 DEF ReadAccount, End
  <2> HIDE DEF new
  <2>5. QED BY <1>1, <2>3, <2>4, NoWorkType, JobStep
<1>4. CASE ReadAll(j)
  <2> DEFINE prev == PrevNav(All, job[j].day)
             new == [job[j] EXCEPT !.account = All, !.nav = job[j].total, !.prev = prev]
  <2>1. prev \in Nat \cup {Null}
    BY PrevNavType
  <2>2. new \in Job
    <3> HIDE DEF prev
    <3>1. QED BY <1>1, <2>1, JobParts
  <2>3. Set(j, "write", new) /\ UNCHANGED <<positions, snaps, world, faults>>
    BY <1>4 DEF ReadAll
  <2> HIDE DEF new
  <2>4. QED BY <1>1, <2>2, <2>3, JobStep
<1>5. CASE WriteSnapshot(j)
  <2>1. /\ job[j].day \in Days /\ job[j].account \in Accounts \cup {All} /\ job[j].nav \in Nat
        /\ job[j].prev \in Nat \cup {Null} /\ job[j].total \in Nat /\ job[j].kind \in Kinds
        /\ job[j].accounts \subseteq Accounts
    BY <1>1, JobParts
  <2>2. NewSnapshot(job[j]) \in SnapshotRow
    <3>1. ASSUME job[j].prev # Null PROVE job[j].nav - job[j].prev \in Int
      BY <2>1, <3>1
    <3>2. QED BY <2>1, <3>1 DEF NewSnapshot, SnapshotRow
  <2>3. snaps' \in [Days -> [Accounts \cup {All} -> SnapshotRow \cup {NoSnap}]]
    <3>1. snaps' = [snaps EXCEPT ![job[j].day] =
                      [snaps[job[j].day] EXCEPT ![job[j].account] = NewSnapshot(job[j])]]
      BY <1>5 DEF WriteSnapshot
    <3>2. [snaps[job[j].day] EXCEPT ![job[j].account] = NewSnapshot(job[j])]
             \in [Accounts \cup {All} -> SnapshotRow \cup {NoSnap}]
      BY <1>1, <2>1, <2>2
    <3>3. QED BY <1>1, <2>1, <3>1, <3>2
  <2> DEFINE left == job[j].accounts \ {job[j].account}
             total == job[j].total + job[j].nav
             new == [NoWork EXCEPT !.kind = job[j].kind, !.day = job[j].day,
                                   !.accounts = left, !.total = total]
  <2>4. left \in SUBSET Accounts /\ total \in Nat
    BY <2>1
  <2>5. new \in Job
    <3> HIDE DEF left, total
    <3>1. QED BY <2>1, <2>4, NewJobs
  <2>6. /\ Set(j, "idle", NoWork) \/ Set(j, "next", new)
        /\ UNCHANGED <<positions, world, faults>>
    BY <1>5 DEF WriteSnapshot, End
  <2> HIDE DEF new
  <2>7. QED BY <1>1, <2>3, <2>5, <2>6, NoWorkType, JobStep
<1>6. QED BY <1>2, <1>3, <1>4, <1>5

LEMMA StartStep ==
    ASSUME TypedInv, NEW j \in Requests, NEW kind \in Kinds \ {"refresh"}, StartRequest(j, kind)
    PROVE  TypedInv'
<1>1. /\ positions \in [Keys -> PositionRow \cup {NoRow}]
      /\ snaps \in [Days -> [Accounts \cup {All} -> SnapshotRow \cup {NoSnap}]]
      /\ faults \in 0..MaxEvents /\ j \in Jobs
  BY TypedParts DEF Jobs
<1> DEFINE label == CASE kind = "update" /\ online  -> "mirror"
                      [] kind = "update" /\ ~online -> "rows"
                      [] OTHER                      -> "accounts"
<1>2. label \in Labels
  BY DEF Labels
<1>3. [NoWork EXCEPT !.kind = kind] \in Job
  BY NoWorkType DEF Job
<1>4. Set(j, label, [NoWork EXCEPT !.kind = kind]) /\ UNCHANGED <<positions, snaps, world, faults>>
  BY DEF StartRequest
<1> HIDE DEF label
<1>5. QED BY <1>1, <1>2, <1>3, <1>4, JobStep

LEMMA FailStep ==
    ASSUME TypedInv, NEW j \in Jobs, JobFails(j)
    PROVE  TypedInv'
<1>1. /\ positions \in [Keys -> PositionRow \cup {NoRow}] /\ job[j] \in Job
      /\ snaps \in [Days -> [Accounts \cup {All} -> SnapshotRow \cup {NoSnap}]]
      /\ {"idle", "upserts"} \subseteq Labels
  BY TypedParts DEF JobsTyped, Labels
<1>2. [job[j] EXCEPT !.left = {}] \in Job
  BY <1>1, JobParts
<1>3. \/ Set(j, "idle", NoWork)
      \/ Set(j, "upserts", [job[j] EXCEPT !.left = {}])
  BY DEF JobFails, End
<1>4. UNCHANGED <<positions, snaps, world>> /\ faults' \in 0..MaxEvents
  BY MayHappenBound DEF JobFails
<1>5. QED BY <1>1, <1>2, <1>3, <1>4, NoWorkType, JobStep

\* Whatever a live read that fails falls back to is a number.
LEMMA LiveReadStep ==
    ASSUME TypedInv, NEW j \in Jobs, LiveReadFails(j)
    PROVE  TypedInv'
<1>1. /\ positions \in [Keys -> PositionRow \cup {NoRow}] /\ job[j] \in Job
      /\ snaps \in [Days -> [Accounts \cup {All} -> SnapshotRow \cup {NoSnap}]]
      /\ "write" \in Labels
  BY TypedParts DEF JobsTyped, Labels
<1>2. Ibkr \in Accounts
  BY SnapshotAssumption
<1>3. {0, QuotedValue(Ibkr), StoredValue(Ibkr)} \subseteq Nat
  BY <1>2, ValuesType
<1> DEFINE prev == PrevNav(Ibkr, job[j].day)
<1>4. prev \in Nat \cup {Null}
  BY <1>2, PrevNavType
<1>5. PICK nav \in {0, QuotedValue(Ibkr), StoredValue(Ibkr)} :
         Set(j, "write", [job[j] EXCEPT !.account = Ibkr, !.nav = nav, !.prev = prev])
  BY DEF LiveReadFails
<1> HIDE DEF prev
<1>6. [job[j] EXCEPT !.account = Ibkr, !.nav = nav, !.prev = prev] \in Job
  BY <1>1, <1>2, <1>3, <1>4, JobParts
<1>7. UNCHANGED <<positions, snaps, world>> /\ faults' \in 0..MaxEvents
  BY MayHappenBound DEF LiveReadFails
<1>8. QED BY <1>1, <1>5, <1>6, <1>7, JobStep

\* Imports, resets, the session and midnight leave the jobs alone.
LEMMA WorldStep ==
    ASSUME TypedInv,
           \/ \E a \in Accounts \ {Ibkr}, rows \in [Symbols -> Quantities \cup {0}] : Import(a, rows)
           \/ ClearPositions \/ ResetTrades \/ ResetSnapshots \/ DayPasses \/ SessionChanges
    PROVE  TypedInv'
<1>1. UNCHANGED <<pc, job>> /\ MayHappen
  BY DEF Import, ClearPositions, ResetTrades, ResetSnapshots, DayPasses, SessionChanges
<1>2. JobsTyped'
  BY <1>1, TypedParts DEF JobsTyped
<1>3. edits + 1 \in 0..MaxEvents /\ faults + 1 \in 0..MaxEvents /\ today + 1 \in Days
  BY <1>1, MayHappenBound
<1>4. ASSUME NEW a \in Accounts \ {Ibkr}, NEW rows \in [Symbols -> Quantities \cup {0}],
             Import(a, rows)
      PROVE  TypedInv'
  <2>1. \A s \in Symbols : FileRow(rows[s]) \in PositionRow \cup {NoRow}
    BY SnapshotAssumption DEF FileRow, PositionRow
  <2>2. positions' \in [Keys -> PositionRow \cup {NoRow}]
    BY <1>4, <2>1, KeyParts, TypedParts DEF Import
  <2>3. QED BY <1>2, <1>3, <1>4, <2>2, TypedParts DEF Import, TypedInv, TypeOK, JobsTyped, Labels
<1>5. CASE ClearPositions
  BY <1>2, <1>3, <1>5, TypedParts DEF ClearPositions, TypedInv, TypeOK, JobsTyped, Labels
<1>6. CASE ResetTrades
  BY <1>2, <1>3, <1>6, TypedParts DEF ResetTrades, TypedInv, TypeOK, JobsTyped, Labels
<1>7. CASE ResetSnapshots
  BY <1>2, <1>3, <1>7, TypedParts DEF ResetSnapshots, TypedInv, TypeOK, JobsTyped, Labels
<1>8. CASE DayPasses
  BY <1>2, <1>3, <1>8, TypedParts DEF DayPasses, TypedInv, TypeOK, JobsTyped, Labels
<1>9. CASE SessionChanges
  BY <1>2, <1>3, <1>9, TypedParts DEF SessionChanges, TypedInv, TypeOK, JobsTyped, Labels
<1>10. QED BY <1>4, <1>5, <1>6, <1>7, <1>8, <1>9

LEMMA TypedStep == TypedInv /\ [Next]_vars => TypedInv'
<1> SUFFICES ASSUME TypedInv, [Next]_vars PROVE TypedInv'
  OBVIOUS
<1>1. CASE UNCHANGED vars
  BY <1>1 DEF vars, TypedInv, TypeOK
<1>2. ASSUME NEW j \in Jobs, Step(j) \/ Fault(j) PROVE TypedInv'
  BY <1>2, MirrorStep, PricingStep, SnapshotStep, LiveReadStep, FailStep DEF Step, Fault
<1>3. QED BY <1>1, <1>2, StartStep, WorldStep DEF Next

LEMMA TypedInit == Init => TypedInv
<1> SUFFICES ASSUME Init PROVE TypedInv
  OBVIOUS
<1>1. positions \in [Keys -> PositionRow \cup {NoRow}]
  <2>1. PICK rows \in [Symbols -> Quantities \cup {0}] :
          positions = [k \in Keys |-> IF k[1] = Ibkr THEN NoRow ELSE FileRow(rows[k[2]])]
    BY DEF Init
  <2>2. \A s \in Symbols : FileRow(rows[s]) \in PositionRow \cup {NoRow}
    BY SnapshotAssumption DEF FileRow, PositionRow
  <2>3. QED BY <2>1, <2>2, KeyParts
<1>2. JobsTyped
  <2>1. \A r \in Job : r.rows \subseteq Keys \X Nat
    BY DEF Job
  <2>2. QED BY <2>1, NoWorkType DEF Init, JobsTyped, Labels
<1>3. 0 \in 0..MaxEvents
  BY SnapshotAssumption
<1>4. QED BY <1>1, <1>2, <1>3, DaysType DEF Init, TypedInv, TypeOK, JobsTyped, Labels

\* Type correctness: every NAV a snapshot, or a job on its way to one, holds is
\* a number, the sum of the values of some rows; a daily P&L is a number or
\* NULL; a job has rows and accounts that exist in hand.
THEOREM TypeCorrect == Spec => []TypeOK
<1>1. TypedInv => TypeOK
  BY DEF TypedInv
<1>2. QED BY <1>1, TypedInit, TypedStep, PTL DEF Spec

-----------------------------------------------------------------------------
(* What is held.                                                           *)

\* An edit of somebody, or the mirroring of the broker's positions.
MayChange(k) ==
    \/ edits' # edits
    \/ k[1] = Ibkr /\ \E j \in Jobs : pc[j] \in {"mirror", "upserts"}
KeepsHoldings ==
    \A k \in Keys : Holding(positions'[k]) # Holding(positions[k]) => MayChange(k)

\* The value of a row is not part of what is held.
LEMMA PricedHolds ==
    ASSUME TypedInv, NEW k \in Keys, NEW qty \in Nat, NEW l \in Keys
    PROVE  Holding(Priced(k, qty)[l]) = Holding(positions[l])
<1>1. CASE positions[k] = NoRow
  BY <1>1 DEF Priced
<1>2. CASE positions[k] # NoRow
  <2> DEFINE value == qty * Price[k[2]]
             new == [positions[k] EXCEPT !.value = value]
  <2>1. value \in Nat
    BY KeyParts, ProductsAreNumbers, SnapshotAssumption
  <2>2. positions[k] \in PositionRow
    BY <1>2, RowType
  <2>3. new \in PositionRow /\ new.qty = positions[k].qty /\ new.source = positions[k].source
    <3> HIDE DEF value
    <3>1. QED BY <2>1, <2>2 DEF PositionRow
  <2>4. new # NoRow
    BY <2>3, SnapshotAssumption DEF PositionRow
  <2>5. Priced(k, qty) = [positions EXCEPT ![k] = new]
    BY <1>2 DEF Priced
  <2>6. positions \in [Keys -> PositionRow \cup {NoRow}]
    BY TypedParts
  <2> HIDE DEF new
  <2>7. QED BY <1>2, <2>3, <2>4, <2>5, <2>6 DEF Holding
<1>3. QED BY <1>1, <1>2

LEMMA HoldingStep == TypedInv /\ [Next]_vars => [KeepsHoldings]_vars
<1> SUFFICES ASSUME TypedInv, Next, NEW k \in Keys,
                    Holding(positions'[k]) # Holding(positions[k])
             PROVE  MayChange(k)
  BY DEF KeepsHoldings
<1>1. positions \in [Keys -> PositionRow \cup {NoRow}] /\ edits \in Nat
  BY TypedParts, SnapshotAssumption
<1>2. positions' # positions
  OBVIOUS
<1>3. CASE (\E a \in Accounts \ {Ibkr}, rows \in [Symbols -> Quantities \cup {0}] : Import(a, rows))
           \/ ClearPositions
  <2>1. edits' = edits + 1
    BY <1>3 DEF Import, ClearPositions
  <2>2. QED BY <1>1, <2>1 DEF MayChange
<1>4. CASE ResetTrades \/ ResetSnapshots \/ DayPasses \/ SessionChanges
  BY <1>2, <1>4 DEF ResetTrades, ResetSnapshots, DayPasses, SessionChanges
<1>5. ASSUME NEW j \in Requests, NEW kind \in Kinds \ {"refresh"}, StartRequest(j, kind)
      PROVE  MayChange(k)
  BY <1>2, <1>5 DEF StartRequest
<1>6. ASSUME NEW j \in Jobs, DeleteMirror(j) \/ DeleteMirrorOnly(j)
      PROVE  MayChange(k)
  <2>1. pc[j] = "mirror" /\ positions' = Unmirrored
    BY <1>6 DEF DeleteMirror, DeleteMirrorOnly
  <2>2. k[1] = Ibkr
    BY <2>1 DEF Unmirrored
  <2>3. QED BY <2>1, <2>2 DEF MayChange
<1>7. ASSUME NEW j \in Jobs, NEW s \in Symbols, UpsertMirror(j, s)
      PROVE  MayChange(k)
  <2>1. pc[j] = "upserts"
    BY <1>7 DEF UpsertMirror
  <2>2. k = <<Ibkr, s>>
    BY <1>1, <1>7 DEF UpsertMirror
  <2>3. k[1] = Ibkr
    BY <2>2
  <2>4. QED BY <2>1, <2>3 DEF MayChange
<1>8. ASSUME NEW j \in Jobs, NEW r \in job[j].rows, PriceRow(j, r[1], r[2])
      PROVE  FALSE
  <2>1. r[1] \in Keys /\ r[2] \in Nat
    BY TypedParts, JobParts DEF JobsTyped
  <2>2. positions' = Priced(r[1], r[2])
    BY <1>8 DEF PriceRow
  <2>3. QED BY <2>1, <2>2, PricedHolds
<1>9. ASSUME NEW j \in Jobs, NEW r \in job[j].rows, SkipRow(j, r[1], r[2])
      PROVE  FALSE
  BY <1>2, <1>9 DEF SkipRow
<1>10. ASSUME NEW j \in Jobs,
              \/ EndMirror(j) \/ ReadRows(j) \/ EndPricing(j) \/ ListAccounts(j) \/ ReadAll(j)
              \/ WriteSnapshot(j) \/ JobFails(j) \/ LiveReadFails(j)
              \/ \E a \in Accounts : ReadAccount(j, a)
       PROVE  FALSE
  BY <1>2, <1>10 DEF EndMirror, ReadRows, EndPricing, ListAccounts, ReadAll, WriteSnapshot,
     JobFails, LiveReadFails, ReadAccount
<1>11. QED BY <1>3, <1>4, <1>5, <1>6, <1>7, <1>8, <1>9, <1>10 DEF Next, Step, Fault

\* A job that prices rows it read some time ago changes what they are worth,
\* never what is held: it brings no row back that an import has removed and
\* restores no quantity that one has replaced.
THEOREM HoldingsAreKept == Spec => PricingKeepsHoldings
<1>1. PricingKeepsHoldings <=> [][KeepsHoldings]_vars
  BY DEF PricingKeepsHoldings, KeepsHoldings, MayChange
<1>2. Spec => [][KeepsHoldings]_vars
  BY TypedInit, TypedStep, HoldingStep, PTL DEF Spec
<1>3. QED BY <1>1, <1>2
=============================================================================
