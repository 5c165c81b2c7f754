------------------------- MODULE ImportWizardProofs -------------------------
(***************************************************************************)
(* Proofs about ImportWizard, for every set of files with finitely many    *)
(* lines and any number of operations, previews and faults: type           *)
(* correctness and the seven invariants.                                   *)
(***************************************************************************)
EXTENDS ImportWizard, FoldTheorems

ImportLabels == {"refuse", "clear", "lines", "insert", "positions"}
ResetLabels == {"reset positions", "reset imports"}

Imports(o) == pc[o] # "new" /\ IsImportJob(job[o])

(***************************************************************************)
(* The inductive invariant, one part per question.                         *)
(***************************************************************************)
\* Where an operation stands, and what its local variables are there.
JobFits(o) ==
    /\ pc[o] \in ResetLabels => IsReset(o)
    /\ pc[o] \in ImportLabels => IsImportJob(job[o])
    /\ pc[o] \in {"refuse", "clear"} => job[o].kind = "upload"
    /\ pc[o] \in {"clear", "lines", "insert"} => job[o].left = DOMAIN job[o].body
    /\ pc[o] = "insert" => job[o].line < Len(job[o].file.lots)
    /\ pc[o] = "positions" => job[o].line = Len(job[o].file.lots)

JobInv == \A o \in Ops : JobFits(o)

\* A body lists positions of its file's accounts only, and an upload has no preview.
BodyInv ==
    \A o \in Ops : Imports(o) =>
       /\ \A k \in DOMAIN job[o].body : k[1] \in job[o].file.accounts
       /\ job[o].kind = "upload" => job[o].preview = NoPreview

\* Operations start in the order of their numbers; overlap is symmetric, and an
\* operation that did not overlap a later one ended before that one started.
OverlapInv ==
    \A n, o \in Ops :
       /\ n < o /\ pc[o] # "new" => pc[n] # "new"
       /\ <<n, o>> \in overlap => <<o, n>> \in overlap /\ pc[o] # "new"
       /\ n < o /\ pc[o] # "new" /\ <<n, o>> \notin overlap => ~Running(n)

\* The rows of trades are of operations that started.  What the SELECT of a
\* commit did not find, only operations that run next to it have added since.
SelectInv ==
    /\ \A t \in trades : pc[t.import] # "new"
    /\ \A o \in Ops : pc[o] = "insert" /\ job[o].kind = "commit" =>
          \A t \in trades : DedupKey(t.lot) = DedupKey(LotAt(o)) =>
             <<t.import, o>> \in overlap

\* Once an import has cleared its accounts, the other rows in them are of
\* operations that run next to it.
PastClear(o) == \/ pc[o] = "positions"
                \/ pc[o] \in {"lines", "insert"} /\ job[o].kind = "upload"
ClearInv ==
    \A o \in Ops : PastClear(o) =>
       \A k \in PosKeys :
          k[1] \in job[o].file.accounts /\ positions[k] # NoPosition =>
             positions[k].import = o \/ <<positions[k].import, o>> \in overlap

\* What success stands for.
SuccessInv ==
    \A o \in Ops : imports[o] = "success" =>
       /\ pc[o] = "done"
       /\ Imports(o)
       /\ job[o].left = {}
       /\ job[o].errors = 0
       /\ job[o].line = Len(job[o].file.lots)

\* An import that runs last and by itself has its own rows and no others.
Alone(o) == \A n \in Ops : <<n, o>> \notin overlap /\ (n > o => pc[n] = "new")
SnapshotInv ==
    \A o \in Ops :
       (PastClear(o) \/ imports[o] = "success") /\ Alone(o) =>
          \A k \in PosKeys : k[1] \in job[o].file.accounts =>
             positions[k] = IF k \in DOMAIN job[o].body \ job[o].left
                            THEN [qty |-> job[o].body[k], import |-> o]
                            ELSE NoPosition

\* A row comes from a line its import has handled.
RowsInv == \A t \in trades : Imports(t.import) /\ t.line < job[t.import].line

\* The lines an import has handled without an error are in the table, or lost to
\* an opposite trade.
IsHandled(o, i) == \E t \in trades : t.lot = job[o].file.lots[i] \/ IsLostTo(t, o, i)
Undisturbed(o) == \A n \in Ops : pc[n] # "new" /\ IsReset(n) => n < o /\ <<n, o>> \notin overlap
LinesInv ==
    \A o \in Ops :
       Imports(o) /\ job[o].errors = 0 /\ Undisturbed(o) =>
          \A i \in 1..job[o].line : IsHandled(o, i)

\* While a reset runs, all trades are of operations that run next to it; an
\* import that runs on without its record has been overtaken by a reset.
ResetInv ==
    /\ \A n \in Ops : pc[n] \in ResetLabels => \A t \in trades : <<n, t.import>> \in overlap
    /\ \A o \in Ops : Running(o) /\ Imports(o) /\ imports[o] = "deleted" =>
          \E n \in Ops : IsReset(n) /\ <<n, o>> \in overlap

\* The preview of a finished commit is gone for good; the commits before it
\* that did not overlap it did not finish.
PreviewInv ==
    /\ \A o \in Ops : pc[o] = "done" /\ Imports(o) /\ job[o].preview # NoPreview =>
          previews[job[o].preview] = Gone
    /\ \A n, o \in Ops :
          /\ n < o /\ pc[o] # "new" /\ <<n, o>> \notin overlap
          /\ Imports(n) /\ Imports(o)
          /\ job[n].preview = job[o].preview /\ job[o].preview # NoPreview
          => pc[n] # "done"

-----------------------------------------------------------------------------
(* What a file says.                                                       *)

LinesOf(f, k) == {i \in DOMAIN f.lots : PosKey(f.lots[i]) = k}

\* The quantity of a position is a sum over the lines of the file, a number.
LEMMA NewQuantityType ==
    ASSUME NEW f \in Files, NEW k
    PROVE  NewQuantity(f, k) \in Nat
<1> DEFINE v == [i \in DOMAIN f.lots |-> f.lots[i].qty]
           S == LinesOf(f, k)
<1>1. f.lots \in Seq(Lot)
  BY WizardAssumption
<1>2. \A i \in DOMAIN f.lots : f.lots[i].qty \in Nat
  <2>1. \A i \in DOMAIN f.lots : f.lots[i] \in Lot
    BY <1>1
  <2>2. \A l \in Lot : l.qty \in Nat
    BY DEF Lot
  <2>3. QED BY <2>1, <2>2
<1>3. IsFiniteSet(S)
  <2>1. Len(f.lots) \in Nat /\ DOMAIN f.lots = 1..Len(f.lots)
    BY <1>1
  <2>2. IsFiniteSet(1..Len(f.lots))
    BY <2>1, FS_Interval
  <2>3. S \subseteq 1..Len(f.lots)
    BY <2>1 DEF LinesOf
  <2>4. QED BY <2>2, <2>3, FS_Subset
<1>4. PICK g : IsSum(g, v, S)
  BY <1>3, SumsExist
<1>5. \A s \in SUBSET S : s # {} => v[Pick(s)] = f.lots[Pick(s)].qty
  BY PickIsElement DEF LinesOf
<1> DEFINE IsIt(h) == h = [s \in SUBSET S |-> IF s = {} THEN 0
                            ELSE f.lots[Pick(s)].qty + h[s \ {Pick(s)}]]
           it == CHOOSE h : IsIt(h)
<1>6. \A h : IsIt(h) <=> IsSum(h, v, S)
  <2> SUFFICES ASSUME NEW h
               PROVE  [s \in SUBSET S |-> IF s = {} THEN 0
                            ELSE f.lots[Pick(s)].qty + h[s \ {Pick(s)}]]
                      = [s \in SUBSET S |-> IF s = {} THEN 0
                            ELSE v[Pick(s)] + h[s \ {Pick(s)}]]
    BY DEF IsSum
  <2> HIDE DEF v, S
  <2>1. QED BY <1>5
<1>7. IsSum(it, v, S)
  <2>1. IsIt(g)
    BY <1>4, <1>6
  <2>2. IsIt(it)
    BY <2>1
  <2>3. QED BY <2>2, <1>6
<1>8. NewQuantity(f, k) = it[S]
  BY DEF NewQuantity, MapThenSumSet, MapThenFoldSet, LinesOf, Pick
<1>9. it[S] = SumOf(v, S)
  <2> HIDE DEF it, v, S
  <2>1. PICK h : IsSum(h, v, S) /\ SumOf(v, S) = h[S]
    BY <1>3, SumOfIsSum
  <2>2. h = it
    BY <1>3, <1>7, <2>1, SumsAreUnique
  <2>3. QED BY <2>1, <2>2
<1>10. SumOf(v, S) \in Nat
  <2>1. \A i \in S : v[i] \in Nat
    BY <1>2 DEF LinesOf
  <2>2. 0 \in Nat /\ \A a, b \in Nat : a + b \in Nat
    OBVIOUS
  <2> HIDE DEF v, S
  <2>3. QED BY <1>3, <2>1, <2>2, SumOfType
<1>11. QED BY <1>8, <1>9, <1>10

LEMMA KeysOfLots ==
    ASSUME NEW f \in Files, NEW l \in LotsOf(f)
    PROVE  PosKey(l) \in PosKeys /\ PosKey(l)[1] \in f.accounts
<1>1. l.acct \in f.accounts
  BY WizardAssumption DEF LotsOf
<1>2. QED BY <1>1 DEF PosKeys, PosKey

LEMMA SuggestedType ==
    ASSUME NEW f \in Files
    PROVE  IsBody(Suggested(f)) /\ \A k \in DOMAIN Suggested(f) : k[1] \in f.accounts
BY KeysOfLots, NewQuantityType DEF Suggested, IsBody

LEMMA BodiesType ==
    ASSUME NEW f \in Files, NEW body \in Bodies(f)
    PROVE  IsBody(body) /\ \A k \in DOMAIN body : k[1] \in f.accounts
<1>1. CASE body = Suggested(f)
  BY <1>1, SuggestedType
<1>2. ASSUME NEW k \in PosKeys, k[1] \in f.accounts, NEW q \in Quantities,
             body = Edited(f, k, q)
      PROVE  IsBody(body) /\ \A j \in DOMAIN body : j[1] \in f.accounts
  <2>1. q \in Nat
    BY WizardAssumption
  <2>2. DOMAIN body \subseteq DOMAIN Suggested(f) \cup {k}
    BY <1>2 DEF Edited
  <2>3. \A j \in DOMAIN body : body[j] = IF j = k THEN q ELSE Suggested(f)[j]
    BY <1>2 DEF Edited
  <2>4. QED BY <1>2, <2>1, <2>2, <2>3, SuggestedType DEF IsBody
<1>3. QED BY <1>1, <1>2 DEF Bodies

-----------------------------------------------------------------------------
(* Type correctness.                                                       *)

TypedInv == TypeOK /\ JobInv /\ BodyInv

\* The conjuncts about the database, and those about the operations.
TablesOK ==
    /\ trades \subseteq TradeRow
    /\ positions \in [PosKeys -> PositionRow \cup {NoPosition}]
    /\ imports \in [Ops -> Status]
    /\ previews \in [Previews -> PreviewEntry \cup {NoPreview, Gone}]
    /\ faults \in 0..MaxFaults
OperationsOK ==
    /\ pc \in [Ops -> Labels]
    /\ DOMAIN job = Ops
    /\ \A o \in Ops : job[o] \in {ResetJob, DeleteJob, NoJob} \/ IsImportJob(job[o])
    /\ overlap \subseteq Ops \X Ops
    /\ JobInv
    /\ BodyInv

LEMMA TypedParts == TypedInv <=> TablesOK /\ OperationsOK
  BY DEF TypedInv, TypeOK, TablesOK, OperationsOK

LEMMA JobMoves ==
    ASSUME NEW j, IsImportJob(j)
    PROVE  /\ j.kind \in {"commit", "upload"} /\ j.file \in Files
           /\ Len(j.file.lots) \in Nat /\ j.line \in Nat
           /\ \A k : IsImportJob([j EXCEPT !.left = @ \ {k}])
           /\ j.line < Len(j.file.lots) =>
                 /\ IsImportJob([j EXCEPT !.line = @ + 1])
                 /\ IsImportJob([[j EXCEPT !.line = @ + 1] EXCEPT !.success = @ + 1])
                 /\ IsImportJob([[j EXCEPT !.line = @ + 1] EXCEPT !.errors = @ + 1])
<1>1. j.file \in Files /\ j.kind \in {"commit", "upload"}
  BY DEF IsImportJob
<1>2. Len(j.file.lots) \in Nat
  <2>1. j.file.lots \in Seq(Lot)
    BY <1>1, WizardAssumption
  <2>2. QED BY <2>1
<1>3. j.line \in 0..Len(j.file.lots)
  BY DEF IsImportJob
<1>4. \A k : IsImportJob([j EXCEPT !.left = @ \ {k}])
  BY DEF IsImportJob
<1>5. ASSUME j.line < Len(j.file.lots)
      PROVE  /\ IsImportJob([j EXCEPT !.line = @ + 1])
             /\ IsImportJob([[j EXCEPT !.line = @ + 1] EXCEPT !.success = @ + 1])
             /\ IsImportJob([[j EXCEPT !.line = @ + 1] EXCEPT !.errors = @ + 1])
  <2> DEFINE n == [j EXCEPT !.line = @ + 1]
  <2>1. j.line + 1 \in 0..Len(j.file.lots)
    BY <1>2, <1>3, <1>5
  <2>2. IsImportJob(n)
    BY <2>1 DEF IsImportJob
  <2>3. \A m : IsImportJob(m) => /\ IsImportJob([m EXCEPT !.success = @ + 1])
                               /\ IsImportJob([m EXCEPT !.errors = @ + 1])
    BY DEF IsImportJob
  <2> HIDE DEF n
  <2>4. QED BY <2>2, <2>3 DEF n
<1>6. j.line \in Nat
  BY <1>2, <1>3
<1>7. QED BY <1>1, <1>2, <1>4, <1>5, <1>6

LEMMA NoImport == ~IsImportJob(ResetJob) /\ ~IsImportJob(DeleteJob)
  BY DEF IsImportJob, ResetJob, DeleteJob

LEMMA LineInFile ==
    ASSUME NEW j, IsImportJob(j), j.line < Len(j.file.lots)
    PROVE  j.line + 1 \in DOMAIN j.file.lots /\ j.file \in Files /\ j.line \in Nat
<1>1. j.file \in Files /\ j.line \in Nat /\ Len(j.file.lots) \in Nat
  BY JobMoves
<1>2. DOMAIN j.file.lots = 1..Len(j.file.lots)
  <2>1. j.file.lots \in Seq(Lot)
    BY <1>1, WizardAssumption
  <2>2. QED BY <2>1
<1>3. QED BY <1>1, <1>2

\* What an operation may start with.
IsStart(j, label) ==
    \/ /\ IsImportJob(j)
       /\ \A k \in DOMAIN j.body : k[1] \in j.file.accounts
       /\ j.kind = "upload" => j.preview = NoPreview
       /\ j.left = DOMAIN j.body /\ j.line = 0
       /\ label \in {"lines", "refuse", "clear"}
       /\ label \in {"refuse", "clear"} => j.kind = "upload"
    \/ j = ResetJob /\ label = "reset positions"
    \/ j = DeleteJob /\ label = "done"

LEMMA BeginPreserves ==
    ASSUME OperationsOK, NEW o \in Ops, NEW j, NEW label, IsStart(j, label), Begin(o, j, label)
    PROVE  OperationsOK'
<1>1. /\ pc' = [pc EXCEPT ![o] = label] /\ label \in Labels
      /\ job' = [job EXCEPT ![o] = j]
  BY DEF Begin, IsStart, Labels
<1>2. j \in {ResetJob, DeleteJob, NoJob} \/ IsImportJob(j)
  BY DEF IsStart
<1>3. ~IsImportJob(ResetJob) /\ ~IsImportJob(DeleteJob)
  BY NoImport
<1>4. pc' \in [Ops -> Labels] /\ DOMAIN job' = Ops
  BY <1>1 DEF OperationsOK
<1>5. \A n \in Ops : job'[n] \in {ResetJob, DeleteJob, NoJob} \/ IsImportJob(job'[n])
  BY <1>1, <1>2 DEF OperationsOK
<1>6. overlap' \subseteq Ops \X Ops
  BY DEF OperationsOK, Begin
<1>7. \A n \in Ops : n # o => pc'[n] = pc[n] /\ job'[n] = job[n]
  BY <1>1 DEF OperationsOK
<1>8. pc'[o] = label /\ job'[o] = j
  BY <1>1 DEF OperationsOK
<1>9. JobInv'
  <2>1. ASSUME NEW n \in Ops, n # o PROVE JobFits(n)'
    BY <1>7, <2>1 DEF OperationsOK, JobInv, JobFits, IsReset
  <2>2. JobFits(o)'
    BY <1>3, <1>8 DEF JobFits, IsStart, IsReset, ImportLabels, ResetLabels
  <2>3. QED BY <2>1, <2>2 DEF JobInv
<1>10. BodyInv'
  BY <1>3, <1>7, <1>8 DEF OperationsOK, BodyInv, IsStart, Imports
<1>11. QED BY <1>4, <1>5, <1>6, <1>9, <1>10 DEF OperationsOK

\* Where an operation may go on, with what local variables.
IsMove(k, j, label) ==
    /\ \/ j = k
       \/ /\ IsImportJob(k) /\ IsImportJob(j)
          /\ j.file = k.file /\ j.body = k.body
          /\ j.kind = k.kind /\ j.preview = k.preview
    /\ label \in Labels \ {"new", "refuse", "clear"}
    /\ label \in ResetLabels => j = ResetJob
    /\ label \in ImportLabels => IsImportJob(j)
    /\ label \in {"lines", "insert"} => j.left = DOMAIN j.body
    /\ label = "insert" => j.line < Len(j.file.lots)
    /\ label = "positions" => j.line = Len(j.file.lots)

LEMMA MovePreserves ==
    ASSUME OperationsOK, NEW o \in Ops, NEW label, pc[o] # "new",
           IsMove(job[o], job'[o], label), Goto(o, label), UNCHANGED overlap,
           DOMAIN job' = Ops, \A n \in Ops : n # o => job'[n] = job[n]
    PROVE  OperationsOK'
<1>1. pc' \in [Ops -> Labels] /\ pc'[o] = label /\ \A n \in Ops : n # o => pc'[n] = pc[n]
  BY DEF OperationsOK, Goto, IsMove
<1>2. \A n \in Ops : job'[n] \in {ResetJob, DeleteJob, NoJob} \/ IsImportJob(job'[n])
  BY DEF OperationsOK, IsMove
<1>3. JobInv'
  <2>1. ASSUME NEW n \in Ops, n # o PROVE JobFits(n)'
    BY <1>1, <2>1 DEF OperationsOK, JobInv, JobFits, IsReset
  <2>2. JobFits(o)'
    BY <1>1 DEF OperationsOK, JobInv, JobFits, IsMove, IsReset, ImportLabels, ResetLabels
  <2>3. QED BY <2>1, <2>2 DEF JobInv
<1>4. BodyInv'
  BY <1>1 DEF OperationsOK, BodyInv, IsMove, Imports
<1>5. QED BY <1>1, <1>2, <1>3, <1>4 DEF OperationsOK

\* The operations that go on, one action each.
LEMMA ImportMoves ==
    ASSUME TypedInv, NEW o \in Ops,
           \/ RefuseUpload(o) \/ SkipLine(o) \/ CheckLine(o) \/ InsertLine(o)
           \/ InsertLineFails(o) \/ ClearPositions(o)
           \/ (\E k \in PosKeys : UpsertPosition(o, k))
           \/ FinishImport(o) \/ StatementFails(o)
    PROVE  OperationsOK'
<1> USE DEF Labels, ImportLabels, ResetLabels
<1>1. OperationsOK /\ JobInv /\ DOMAIN job = Ops
  BY TypedParts DEF OperationsOK
<1>2. IsMove(job[o], job[o], "done") /\ IsMove(job[o], job[o], "dead")
  BY DEF IsMove
<1>3. ASSUME NEW label \in {"done", "dead"}, Goto(o, label), UNCHANGED <<job, overlap>>,
             pc[o] # "new"
      PROVE  OperationsOK'
  BY <1>1, <1>2, <1>3, MovePreserves
<1>4. CASE RefuseUpload(o) \/ FinishImport(o) \/ StatementFails(o)
  BY <1>3, <1>4 DEF RefuseUpload, FinishImport, StatementFails, LinesDone, Running
<1>5. ASSUME HasLine(o)
      PROVE  /\ IsImportJob(job[o]) /\ job[o].left = DOMAIN job[o].body
             /\ job[o].line < Len(job[o].file.lots) /\ pc[o] # "new"
  BY <1>1, <1>5 DEF HasLine, JobInv, JobFits
<1>6. CASE SkipLine(o)
  <2>1. job'[o] = NextLine(o) /\ DOMAIN job' = Ops /\ \A n \in Ops : n # o => job'[n] = job[n]
    BY <1>1, <1>6 DEF SkipLine
  <2>2. IsImportJob(NextLine(o))
    BY <1>5, <1>6, JobMoves DEF SkipLine, NextLine
  <2>3. /\ NextLine(o).file = job[o].file /\ NextLine(o).body = job[o].body
        /\ NextLine(o).kind = job[o].kind /\ NextLine(o).preview = job[o].preview
        /\ NextLine(o).left = job[o].left
    BY <1>5, <1>6 DEF SkipLine, NextLine, IsImportJob
  <2>4. IsMove(job[o], job'[o], "lines")
    BY <1>5, <1>6, <2>1, <2>2, <2>3 DEF SkipLine, IsMove
  <2>5. Goto(o, "lines")
    BY <1>1, <1>6 DEF SkipLine, HasLine, Goto, OperationsOK
  <2>6. QED BY <1>1, <1>5, <1>6, <2>1, <2>4, <2>5, MovePreserves DEF SkipLine
<1>7. CASE CheckLine(o)
  <2>1. IsMove(job[o], job[o], "insert")
    BY <1>5, <1>7 DEF CheckLine, IsMove
  <2>2. QED BY <1>1, <1>5, <1>7, <2>1, MovePreserves DEF CheckLine
<1>8. CASE InsertLine(o) \/ InsertLineFails(o)
  <2>1. /\ IsImportJob(job[o]) /\ job[o].left = DOMAIN job[o].body
        /\ job[o].line < Len(job[o].file.lots) /\ pc[o] # "new"
    BY <1>1, <1>8 DEF JobInv, JobFits, InsertLine, InsertLineFails
  <2>2. PICK j : /\ job' = [job EXCEPT ![o] = j]
                 /\ \/ j = [NextLine(o) EXCEPT !.success = @ + 1]
                    \/ j = [NextLine(o) EXCEPT !.errors = @ + 1]
    BY <1>8 DEF InsertLine, InsertLineFails
  <2>3. IsImportJob(j)
    BY <2>1, <2>2, JobMoves DEF NextLine
  <2>4. /\ j.file = job[o].file /\ j.body = job[o].body
        /\ j.kind = job[o].kind /\ j.preview = job[o].preview /\ j.left = job[o].left
    BY <2>1, <2>2 DEF NextLine, IsImportJob
  <2>5. IsMove(job[o], j, "lines")
    BY <2>1, <2>3, <2>4 DEF IsMove
  <2>6. job'[o] = j /\ DOMAIN job' = Ops /\ \A n \in Ops : n # o => job'[n] = job[n]
    BY <1>1, <2>2
  <2>7. Goto(o, "lines") /\ UNCHANGED overlap
    BY <1>8 DEF InsertLine, InsertLineFails
  <2>8. QED BY <1>1, <2>1, <2>5, <2>6, <2>7, MovePreserves
<1>9. CASE ClearPositions(o)
  <2>1. /\ IsImportJob(job[o]) /\ job[o].left = DOMAIN job[o].body /\ pc[o] # "new"
    BY <1>1, <1>9 DEF JobInv, JobFits, ClearPositions, LinesDone
  <2>2. \/ Goto(o, "lines")
        \/ Goto(o, "positions") /\ job[o].line = Len(job[o].file.lots)
    BY <1>9 DEF ClearPositions, LinesDone
  <2>3. PICK label \in {"lines", "positions"} :
           Goto(o, label) /\ (label = "positions" => job[o].line = Len(job[o].file.lots))
    BY <2>2
  <2>4. IsMove(job[o], job[o], label)
    BY <2>1, <2>3 DEF IsMove
  <2>5. QED BY <1>1, <1>9, <2>1, <2>3, <2>4, MovePreserves DEF ClearPositions
<1>10. CASE \E k \in PosKeys : UpsertPosition(o, k)
  <2>1. PICK k \in PosKeys : UpsertPosition(o, k)
    BY <1>10
  <2> DEFINE j == [job[o] EXCEPT !.left = @ \ {k}]
  <2>2. /\ IsImportJob(job[o]) /\ job[o].line = Len(job[o].file.lots) /\ pc[o] # "new"
    BY <1>1, <2>1 DEF JobInv, JobFits, UpsertPosition, LinesDone
  <2>3. IsImportJob(j)
    BY <2>2, JobMoves
  <2>4. /\ j.file = job[o].file /\ j.body = job[o].body /\ j.line = job[o].line
        /\ j.kind = job[o].kind /\ j.preview = job[o].preview
    BY <2>2 DEF IsImportJob
  <2>5. job'[o] = j /\ DOMAIN job' = Ops /\ \A n \in Ops : n # o => job'[n] = job[n]
    BY <1>1, <2>1 DEF UpsertPosition
  <2> HIDE DEF j
  <2>6. IsMove(job[o], j, "positions")
    BY <2>2, <2>3, <2>4 DEF IsMove
  <2>7. QED BY <1>1, <2>1, <2>2, <2>5, <2>6, MovePreserves DEF UpsertPosition
<1>11. QED BY <1>4, <1>6, <1>7, <1>8, <1>9, <1>10

\* The operations that start.
LEMMA NewImportStarts ==
    ASSUME NEW kind \in {"commit", "upload"}, NEW f \in Files,
           NEW p \in Previews \cup {NoPreview}, kind = "upload" => p = NoPreview,
           NEW body, IsBody(body), \A k \in DOMAIN body : k[1] \in f.accounts,
           NEW errors \in Nat, NEW label \in {"lines", "refuse", "clear"},
           label \in {"refuse", "clear"} => kind = "upload"
    PROVE  IsStart(NewImport(kind, f, p, body, errors), label)
<1>1. 0 \in 0..Len(f.lots)
  <2>1. f.lots \in Seq(Lot)
    BY WizardAssumption
  <2>2. QED BY <2>1
<1> DEFINE j == NewImport(kind, f, p, body, errors)
<1>2. IsImportJob(j)
  BY <1>1 DEF IsImportJob, NewImport
<1>3. /\ j.kind = kind /\ j.file = f /\ j.preview = p /\ j.body = body
      /\ j.left = DOMAIN body /\ j.line = 0
  BY DEF NewImport
<1> HIDE DEF j
<1>4. QED BY <1>2, <1>3 DEF IsStart, j

LEMMA OthersBegin ==
    ASSUME TypedInv, NEW o \in Ops,
           \/ \E p \in Previews : BeginCommit(o, p)
           \/ \E f \in Files : BeginUpload(o, f)
           \/ Delete(o)
           \/ BeginReset(o)
    PROVE  /\ OperationsOK'
           /\ \E j, label : IsStart(j, label) /\ Begin(o, j, label)
<1> SUFFICES \E j, label : IsStart(j, label) /\ Begin(o, j, label)
  BY TypedParts, BeginPreserves
<1>1. CASE \E p \in Previews : BeginCommit(o, p)
  <2>1. PICK p \in Previews : BeginCommit(o, p)
    BY <1>1
  <2>2. previews[p].file \in Files
    BY <2>1 DEF BeginCommit, IsStaged, TypedInv, TypeOK, PreviewEntry
  <2>3. PICK body \in Bodies(previews[p].file) :
           Begin(o, NewImport("commit", previews[p].file, p, body, 0), "lines")
    BY <2>1 DEF BeginCommit
  <2>4. IsStart(NewImport("commit", previews[p].file, p, body, 0), "lines")
    BY <2>2, BodiesType, NewImportStarts
  <2>5. QED BY <2>3, <2>4
<1>2. CASE \E f \in Files : BeginUpload(o, f)
  <2>1. PICK f \in Files : BeginUpload(o, f)
    BY <1>2
  <2>2. f.bad \in Nat
    BY WizardAssumption
  <2>3. \A label \in {"refuse", "clear"} :
           IsStart(NewImport("upload", f, NoPreview, Suggested(f), f.bad), label)
    BY <2>2, SuggestedType, NewImportStarts
  <2>4. QED BY <2>1, <2>3 DEF BeginUpload
<1>3. CASE Delete(o)
  BY <1>3 DEF Delete, DeletePositions, IsStart
<1>4. CASE BeginReset(o)
  BY <1>4 DEF BeginReset, IsStart
<1>5. QED BY <1>1, <1>2, <1>3, <1>4

LEMMA TablesPreserved ==
    ASSUME TypedInv, [Next]_vars
    PROVE  TablesOK'
<1> USE DEF TablesOK
<1>1. TablesOK /\ OperationsOK /\ MaxFaults \in Nat
  BY TypedParts, WizardAssumption
<1>2. \A accounts : Cleared(accounts) \in [PosKeys -> PositionRow \cup {NoPosition}]
  BY <1>1 DEF Cleared
<1>3. ASSUME NEW o \in Ops, NEW status \in Status, SetStatus(o, status)
      PROVE  imports' \in [Ops -> Status]
  BY <1>1, <1>3 DEF SetStatus, Status
<1>4. ASSUME NEW p, Pop(p)
      PROVE  previews' \in [Previews -> PreviewEntry \cup {NoPreview, Gone}]
  BY <1>1, <1>4 DEF Pop
<1>5. ASSUME faults < MaxFaults, faults' = faults + 1
      PROVE  faults' \in 0..MaxFaults
  BY <1>1, <1>5
<1>6. ASSUME NEW o \in Ops, Import(o)
      PROVE  TablesOK'
  <2>1. CASE \E p \in Previews : BeginCommit(o, p)
    BY <1>1, <2>1 DEF BeginCommit, Status
  <2>2. CASE \E f \in Files : BeginUpload(o, f)
    BY <1>1, <2>2 DEF BeginUpload, Status
  <2>3. CASE RefuseUpload(o)
    <3>1. "error" \in Status
      BY DEF Status
    <3>2. QED BY <1>1, <1>3, <2>3, <3>1 DEF RefuseUpload
  <2>4. CASE SkipLine(o) \/ CheckLine(o)
    BY <1>1, <2>4 DEF SkipLine, CheckLine
  <2>5. CASE InsertLine(o) \/ InsertLineFails(o)
    <3>1. IsImportJob(job[o]) /\ job[o].line < Len(job[o].file.lots)
      BY <1>1, <2>5 DEF OperationsOK, JobInv, JobFits, ImportLabels, InsertLine, InsertLineFails
    <3>2. LotAt(o) \in LotsOf(job[o].file) /\ job[o].file \in Files /\ job[o].line \in Nat
      BY <3>1, LineInFile DEF LotAt, LotsOf
    <3>3. LotAt(o) \in UNION {LotsOf(f) : f \in Files}
      BY <3>2
    <3>4. NewRow(o) \in TradeRow
      BY <3>2, <3>3 DEF NewRow, TradeRow
    <3>5. trades' \subseteq TradeRow
      BY <1>1, <2>5, <3>4 DEF InsertLine, InsertLineFails
    <3>6. faults' \in 0..MaxFaults
      BY <1>1, <1>5, <2>5 DEF InsertLine, InsertLineFails
    <3>7. QED BY <1>1, <2>5, <3>5, <3>6 DEF InsertLine, InsertLineFails
  <2>6. CASE ClearPositions(o)
    BY <1>1, <1>2, <2>6 DEF ClearPositions
  <2>7. CASE \E k \in PosKeys : UpsertPosition(o, k)
    <3>1. PICK k \in PosKeys : UpsertPosition(o, k)
      BY <2>7
    <3>2. IsImportJob(job[o]) /\ k \in DOMAIN job[o].body
      BY <1>1, <3>1 DEF OperationsOK, JobInv, JobFits, ImportLabels, UpsertPosition, LinesDone, IsImportJob
    <3>3. [qty |-> job[o].body[k], import |-> o] \in PositionRow
      BY <3>2 DEF IsImportJob, IsBody, PositionRow
    <3>4. QED BY <1>1, <3>1, <3>3 DEF UpsertPosition
  <2>8. CASE FinishImport(o)
    <3>1. FinalStatus(o) \in Status
      BY DEF FinalStatus, Status
    <3>2. previews' \in [Previews -> PreviewEntry \cup {NoPreview, Gone}]
      BY <1>1, <1>4, <2>8 DEF FinishImport
    <3>3. QED BY <1>1, <1>3, <2>8, <3>1, <3>2 DEF FinishImport
  <2>9. CASE StatementFails(o)
    BY <1>1, <1>5, <2>9 DEF StatementFails
  <2>10. QED BY <1>6, <2>1, <2>2, <2>3, <2>4, <2>5, <2>6, <2>7, <2>8, <2>9 DEF Import
<1>7. ASSUME NEW o \in Ops, Delete(o) \/ Reset(o)
      PROVE  TablesOK'
  <2>1. CASE Delete(o)
    BY <1>1, <1>2, <2>1 DEF Delete, DeletePositions
  <2>2. CASE BeginReset(o)
    BY <1>1, <2>2 DEF BeginReset
  <2>3. CASE ResetPositions(o)
    BY <1>1, <2>3 DEF ResetPositions
  <2>4. CASE ResetImports(o)
    BY <1>1, <2>4 DEF ResetImports, Status
  <2>5. QED BY <1>7, <2>1, <2>2, <2>3, <2>4 DEF Reset
<1>8. ASSUME NEW p \in Previews, NEW f \in Files, PreviewImport(p, f)
      PROVE  TablesOK'
  <2>1. [file |-> f, live |-> TRUE] \in PreviewEntry
    BY DEF PreviewEntry
  <2>2. previews' \in [Previews -> PreviewEntry \cup {NoPreview, Gone}]
    BY <1>1, <1>8, <2>1 DEF PreviewImport, Stage
  <2>3. QED BY <1>1, <1>8, <2>2 DEF PreviewImport
<1>9. ASSUME NEW p \in Previews, PreviewExpires(p)
      PROVE  TablesOK'
  <2>1. previews[p] \in PreviewEntry
    BY <1>1, <1>9 DEF PreviewExpires, IsStaged
  <2>2. [previews[p] EXCEPT !.live = FALSE] \in PreviewEntry
    BY <2>1 DEF PreviewEntry
  <2>3. QED BY <1>1, <1>9, <2>2 DEF PreviewExpires
<1>10. ASSUME NEW p \in Previews, RejectCommit(p)
       PROVE  TablesOK'
  BY <1>1, <1>4, <1>10 DEF RejectCommit
<1>11. CASE Restart
  BY <1>1, <1>5, <1>11 DEF Restart
<1>12. CASE UNCHANGED vars
  BY <1>1, <1>12 DEF vars
<1>13. QED BY <1>6, <1>7, <1>8, <1>9, <1>10, <1>11, <1>12 DEF Next

LEMMA TypedInit == Init => TypedInv
<1> SUFFICES ASSUME Init PROVE TypedInv
  OBVIOUS
<1> USE DEF Init
<1>1. TablesOK
  BY WizardAssumption DEF TablesOK, Status
<1>2. OperationsOK
  BY DEF OperationsOK, Labels, JobInv, JobFits, BodyInv, Imports, ImportLabels, ResetLabels
<1>3. QED BY <1>1, <1>2, TypedParts

LEMMA TypedStep ==
    ASSUME TypedInv, [Next]_vars
    PROVE  TypedInv'
<1> SUFFICES OperationsOK'
  BY TablesPreserved DEF TypedInv, TypeOK, TablesOK, OperationsOK
<1>1. OperationsOK /\ JobInv /\ DOMAIN job = Ops
  BY TypedParts DEF OperationsOK
<1>2. ASSUME UNCHANGED <<pc, job, overlap>>
      PROVE  OperationsOK'
  BY <1>1, <1>2 DEF OperationsOK, JobInv, JobFits, BodyInv, Imports, IsReset
<1>3. ASSUME NEW o \in Ops, Import(o) \/ Delete(o) \/ Reset(o)
      PROVE  OperationsOK'
  <2>1. CASE Import(o)
    BY <2>1, ImportMoves, OthersBegin DEF Import
  <2>2. CASE Delete(o)
    BY <2>2, OthersBegin
  <2>3. CASE BeginReset(o)
    BY <2>3, OthersBegin
  <2>4. CASE ResetPositions(o)
    <3>1. IsMove(job[o], job[o], "reset imports")
      BY <1>1, <2>4 DEF ResetPositions, JobInv, JobFits, IsMove, IsReset, Labels, ImportLabels, ResetLabels
    <3>2. QED BY <1>1, <2>4, <3>1, MovePreserves DEF ResetPositions
  <2>5. CASE ResetImports(o)
    <3>1. IsMove(job[o], job[o], "done")
      BY DEF IsMove, Labels, ImportLabels, ResetLabels
    <3>2. QED BY <1>1, <2>5, <3>1, MovePreserves DEF ResetImports
  <2>6. QED BY <1>3, <2>1, <2>2, <2>3, <2>4, <2>5 DEF Reset
<1>4. CASE Restart
  <2>1. pc' \in [Ops -> Labels] /\ \A o \in Ops : pc'[o] = pc[o] \/ (pc'[o] = "dead" /\ pc[o] # "new")
    BY <1>1, <1>4 DEF Restart, OperationsOK, Labels, Running
  <2>2. JobInv' /\ BodyInv'
    BY <1>1, <1>4, <2>1 DEF Restart, OperationsOK, JobInv, JobFits, BodyInv, Imports, IsReset,
                            ImportLabels, ResetLabels
  <2>3. QED BY <1>1, <1>4, <2>1, <2>2 DEF Restart, OperationsOK
<1>5. CASE \E p \in Previews : \/ \E f \in Files : PreviewImport(p, f)
                               \/ PreviewExpires(p) \/ RejectCommit(p)
  BY <1>2, <1>5 DEF PreviewImport, PreviewExpires, RejectCommit
<1>6. CASE UNCHANGED vars
  BY <1>2, <1>6 DEF vars
<1>7. QED BY <1>3, <1>4, <1>5, <1>6 DEF Next

-----------------------------------------------------------------------------
(* What a step does to the operations, and which of them overlap.          *)

Acts(o) == Import(o) \/ Delete(o) \/ Reset(o)

Starts(o) == \E j, label : IsStart(j, label) /\ Begin(o, j, label)

Continues(o) ==
    /\ Running(o) /\ pc'[o] # "new" /\ UNCHANGED overlap
    /\ \/ job'[o] = job[o]
       \/ /\ IsImportJob(job[o]) /\ IsImportJob(job'[o])
          /\ job'[o].file = job[o].file /\ job'[o].body = job[o].body
          /\ job'[o].kind = job[o].kind /\ job'[o].preview = job[o].preview

\* No operation acts: a preview comes or goes, or the process restarts.
Idles ==
    /\ UNCHANGED <<trades, positions, imports, job, overlap>>
    /\ \A o \in Ops : pc'[o] = pc[o] \/ (Running(o) /\ pc'[o] = "dead")
    /\ \A p \in Previews : previews[p] = Gone => previews'[p] = Gone

LEMMA StepKinds ==
    ASSUME TypedInv, [Next]_vars
    PROVE  (\E o \in Ops : Acts(o)) \/ Idles
<1>1. /\ previews \in [Previews -> PreviewEntry \cup {NoPreview, Gone}]
      /\ pc \in [Ops -> Labels]
      /\ NoPreview # Gone
  BY WizardAssumption DEF TypedInv, TypeOK
<1>2. ASSUME NEW p \in Previews, NEW f \in Files, PreviewImport(p, f)
      PROVE  Idles
  BY <1>1, <1>2 DEF PreviewImport, Stage, IsStaged, Idles
<1>3. ASSUME NEW p \in Previews, PreviewExpires(p)
      PROVE  Idles
  BY <1>1, <1>3 DEF PreviewExpires, IsStaged, Idles
<1>4. ASSUME NEW p \in Previews, RejectCommit(p)
      PROVE  Idles
  BY <1>1, <1>4 DEF RejectCommit, Pop, Idles
<1>5. ASSUME Restart
      PROVE  Idles
  BY <1>1, <1>5 DEF Restart, Idles
<1>6. ASSUME UNCHANGED vars
      PROVE  Idles
  BY <1>6 DEF vars, Idles
<1>7. QED BY <1>2, <1>3, <1>4, <1>5, <1>6 DEF Next, Acts

LEMMA ActorMoves ==
    ASSUME TypedInv, NEW o \in Ops, Acts(o)
    PROVE  /\ Starts(o) \/ Continues(o)
           /\ \A n \in Ops : n # o => pc'[n] = pc[n] /\ job'[n] = job[n]
<1>1. OperationsOK /\ JobInv /\ DOMAIN job = Ops /\ pc \in [Ops -> Labels]
  BY TypedParts DEF OperationsOK
<1>2. CASE \/ \E p \in Previews : BeginCommit(o, p)
           \/ \E f \in Files : BeginUpload(o, f)
           \/ Delete(o)
           \/ BeginReset(o)
  <2>1. Starts(o)
    BY <1>2, OthersBegin DEF Starts
  <2>2. QED BY <1>1, <2>1 DEF Starts, Begin
<1>3. ASSUME UNCHANGED <<job, overlap>>, Running(o),
             \E label \in Labels \ {"new"} : Goto(o, label)
      PROVE  /\ Starts(o) \/ Continues(o)
             /\ \A n \in Ops : n # o => pc'[n] = pc[n] /\ job'[n] = job[n]
  BY <1>1, <1>3 DEF Goto, Continues
<1>4. CASE \/ RefuseUpload(o) \/ CheckLine(o) \/ FinishImport(o) \/ StatementFails(o)
           \/ ResetPositions(o) \/ ResetImports(o) \/ ClearPositions(o)
  BY <1>3, <1>4 DEF RefuseUpload, CheckLine, HasLine, FinishImport, LinesDone, StatementFails,
                    ResetPositions, ResetImports, ClearPositions, Running, Labels
<1>5. ASSUME NEW j, job' = [job EXCEPT ![o] = j], UNCHANGED overlap, Running(o),
             IsImportJob(job[o]), IsImportJob(j),
             j.file = job[o].file, j.body = job[o].body,
             j.kind = job[o].kind, j.preview = job[o].preview,
             UNCHANGED pc \/ (\E label \in Labels \ {"new"} : Goto(o, label))
      PROVE  /\ Starts(o) \/ Continues(o)
             /\ \A n \in Ops : n # o => pc'[n] = pc[n] /\ job'[n] = job[n]
  BY <1>1, <1>5 DEF Goto, Continues, Running
<1>6. CASE SkipLine(o) \/ InsertLine(o) \/ InsertLineFails(o)
  <2>1. IsImportJob(job[o]) /\ job[o].line < Len(job[o].file.lots) /\ Running(o)
    BY <1>1, <1>6 DEF JobInv, JobFits, ImportLabels, SkipLine, HasLine, InsertLine, InsertLineFails, Running
  <2>2. PICK j : /\ job' = [job EXCEPT ![o] = j]
                 /\ \/ j = NextLine(o)
                    \/ j = [NextLine(o) EXCEPT !.success = @ + 1]
                    \/ j = [NextLine(o) EXCEPT !.errors = @ + 1]
    BY <1>6 DEF SkipLine, InsertLine, InsertLineFails
  <2>3. IsImportJob(j)
    BY <2>1, <2>2, JobMoves DEF NextLine
  <2>4. /\ j.file = job[o].file /\ j.body = job[o].body
        /\ j.kind = job[o].kind /\ j.preview = job[o].preview
    BY <2>1, <2>2 DEF NextLine, IsImportJob
  <2>5. UNCHANGED overlap /\ (UNCHANGED pc \/ Goto(o, "lines"))
    BY <1>6 DEF SkipLine, InsertLine, InsertLineFails
  <2>6. QED BY <1>5, <2>1, <2>2, <2>3, <2>4, <2>5 DEF Labels
<1>7. CASE \E k \in PosKeys : UpsertPosition(o, k)
  <2>1. PICK k \in PosKeys : UpsertPosition(o, k)
    BY <1>7
  <2> DEFINE j == [job[o] EXCEPT !.left = @ \ {k}]
  <2>2. IsImportJob(job[o]) /\ Running(o)
    BY <1>1, <2>1 DEF JobInv, JobFits, ImportLabels, UpsertPosition, LinesDone, Running
  <2>3. IsImportJob(j)
    BY <2>2, JobMoves
  <2>4. /\ j.file = job[o].file /\ j.body = job[o].body
        /\ j.kind = job[o].kind /\ j.preview = job[o].preview
    BY <2>2 DEF IsImportJob
  <2>5. job' = [job EXCEPT ![o] = j] /\ UNCHANGED overlap /\ Goto(o, "positions")
    BY <2>1 DEF UpsertPosition
  <2> HIDE DEF j
  <2>6. QED BY <1>5, <2>2, <2>3, <2>4, <2>5 DEF Labels
<1>8. QED BY <1>2, <1>4, <1>6, <1>7 DEF Acts, Import, Reset

\* What a new operation finds.
LEMMA StartFacts ==
    ASSUME TypedInv, OverlapInv, NEW o \in Ops, Starts(o)
    PROVE  /\ pc[o] = "new" /\ pc'[o] # "new"
           /\ \A n \in Ops : n > o => pc[n] = "new"
           /\ \A n \in Ops : n < o => pc[n] # "new"
           /\ \A n \in Ops : <<n, o>> \notin overlap /\ <<o, n>> \notin overlap
           /\ \A a, b \in Ops : <<a, b>> \in overlap' <=>
                 \/ <<a, b>> \in overlap
                 \/ b = o /\ Running(a)
                 \/ a = o /\ Running(b)
<1>1. PICK j, label : IsStart(j, label) /\ Begin(o, j, label)
  BY DEF Starts
<1>2. pc[o] = "new" /\ pc'[o] # "new"
  BY <1>1 DEF TypedInv, TypeOK, IsStart, Begin, IsNextOp
<1>3. \A n \in Ops : n < o => pc[n] # "new"
  <2>1. \A n \in Ops : n < o => n \in 1..(o - 1)
    BY WizardAssumption DEF Ops
  <2>2. QED BY <1>1, <2>1 DEF Begin, IsNextOp
<1>4. \A n \in Ops : n > o => pc[n] = "new"
  BY <1>2 DEF OverlapInv
<1>5. \A n \in Ops : <<n, o>> \notin overlap /\ <<o, n>> \notin overlap
  BY <1>2 DEF OverlapInv
<1>6. overlap' = overlap \cup UNION {{<<n, o>>, <<o, n>>} : n \in {m \in Ops : Running(m)}}
  BY <1>1 DEF Begin
<1>7. \A a, b \in Ops : <<a, b>> \in overlap' <=>
         \/ <<a, b>> \in overlap
         \/ b = o /\ Running(a)
         \/ a = o /\ Running(b)
  BY <1>6
<1>8. QED BY <1>2, <1>3, <1>4, <1>5, <1>7

LEMMA OverlapStep ==
    ASSUME TypedInv, OverlapInv, [Next]_vars
    PROVE  OverlapInv' /\ overlap \subseteq overlap'
<1>1. CASE Idles
  BY <1>1 DEF Idles, OverlapInv, Running
<1>2. ASSUME NEW o \in Ops, Acts(o)
      PROVE  OverlapInv' /\ overlap \subseteq overlap'
  <2>1. \A n \in Ops : n # o => pc'[n] = pc[n]
    BY <1>2, ActorMoves
  <2>2. CASE Continues(o)
    BY <2>1, <2>2 DEF Continues, OverlapInv, Running
  <2>3. CASE Starts(o)
    <3>1. overlap \subseteq overlap'
      BY <2>3 DEF Starts, Begin
    <3> SUFFICES ASSUME NEW n \in Ops, NEW m \in Ops
                 PROVE  /\ n < m /\ pc'[m] # "new" => pc'[n] # "new"
                        /\ <<n, m>> \in overlap' => <<m, n>> \in overlap' /\ pc'[m] # "new"
                        /\ n < m /\ pc'[m] # "new" /\ <<n, m>> \notin overlap'
                              => pc'[n] \in {"new", "done", "dead"}
      BY <3>1 DEF OverlapInv, Running
    <3>2. n \in Int /\ m \in Int /\ o \in Int
      BY DEF Ops
    <3>3. n < m /\ pc'[m] # "new" => pc'[n] # "new"
      BY <2>1, <2>3, <3>2, StartFacts DEF OverlapInv
    <3>4. <<n, m>> \in overlap' => <<m, n>> \in overlap' /\ pc'[m] # "new"
      BY <2>1, <2>3, <3>2, StartFacts DEF OverlapInv, Running
    <3>5. n < m /\ pc'[m] # "new" /\ <<n, m>> \notin overlap' => pc'[n] \in {"new", "done", "dead"}
      <4>1. CASE n = o
        BY <2>1, <2>3, <3>2, <4>1, StartFacts
      <4>2. CASE n # o /\ m = o
        BY <2>1, <2>3, <4>2, StartFacts DEF Running
      <4>3. CASE n # o /\ m # o
        BY <2>1, <3>1, <4>3 DEF OverlapInv, Running
      <4>4. QED BY <4>1, <4>2, <4>3
    <3>6. QED BY <3>3, <3>4, <3>5
  <2>4. QED BY <1>2, <2>2, <2>3, ActorMoves
<1>3. QED BY <1>1, <1>2, StepKinds

\* Of two operations the later is started while the earlier runs: they overlap.
LEMMA RunTogether ==
    ASSUME OverlapInv, NEW n \in Ops, NEW o \in Ops, n # o,
           Running(n), Running(o) \/ (n < o /\ pc[o] # "new")
    PROVE  <<n, o>> \in overlap /\ <<o, n>> \in overlap
<1>1. n \in Int /\ o \in Int
  BY DEF Ops
<1>2. n < o \/ o < n
  BY <1>1
<1>3. QED BY <1>2 DEF OverlapInv, Running

LEMMA WhoStarts ==
    ASSUME NEW o \in Ops, Acts(o), Starts(o)
    PROVE  \/ \E p \in Previews : BeginCommit(o, p)
           \/ \E f \in Files : BeginUpload(o, f)
           \/ Delete(o)
           \/ BeginReset(o)
<1>1. pc[o] = "new"
  BY DEF Starts, Begin, IsNextOp
<1>2. ~RefuseUpload(o) /\ ~SkipLine(o) /\ ~CheckLine(o) /\ ~InsertLine(o) /\ ~InsertLineFails(o)
  BY <1>1 DEF RefuseUpload, SkipLine, CheckLine, HasLine, InsertLine, InsertLineFails
<1>3. /\ ~ClearPositions(o) /\ ~FinishImport(o) /\ ~StatementFails(o)
      /\ \A k \in PosKeys : ~UpsertPosition(o, k)
  BY <1>1 DEF ClearPositions, FinishImport, LinesDone, StatementFails, Running, UpsertPosition
<1>4. ~ResetPositions(o) /\ ~ResetImports(o)
  BY <1>1 DEF ResetPositions, ResetImports
<1>5. QED BY <1>2, <1>3, <1>4 DEF Acts, Import, Reset

LEMMA WhoContinues ==
    ASSUME NEW o \in Ops, Acts(o), Continues(o)
    PROVE  \/ RefuseUpload(o) \/ SkipLine(o) \/ CheckLine(o) \/ InsertLine(o)
           \/ InsertLineFails(o) \/ ClearPositions(o)
           \/ (\E k \in PosKeys : UpsertPosition(o, k))
           \/ FinishImport(o) \/ StatementFails(o)
           \/ ResetPositions(o) \/ ResetImports(o)
<1>1. pc[o] # "new"
  BY DEF Continues, Running
<1>2. /\ \A p \in Previews : ~BeginCommit(o, p)
      /\ \A f \in Files : ~BeginUpload(o, f)
      /\ ~Delete(o) /\ ~BeginReset(o)
  BY <1>1 DEF BeginCommit, BeginUpload, Delete, DeletePositions, BeginReset, Begin, IsNextOp
<1>3. QED BY <1>2 DEF Acts, Import, Reset

-----------------------------------------------------------------------------
(* A preview is used up once.                                              *)

LEMMA PreviewStep ==
    ASSUME TypedInv, OverlapInv, PreviewInv, [Next]_vars
    PROVE  PreviewInv'
<1>1. OverlapInv' /\ overlap \subseteq overlap'
  BY OverlapStep
<1>2. CASE Idles
  <2>1. /\ \A o \in Ops : pc'[o] = "done" <=> pc[o] = "done"
        /\ \A o \in Ops : pc'[o] = "new" <=> pc[o] = "new"
    BY <1>2 DEF Idles, Running
  <2>2. job' = job /\ overlap' = overlap /\ \A o \in Ops : Imports(o)' => Imports(o)
    BY <1>2, <2>1 DEF Idles, Imports
  <2>3. \A o \in Ops : Imports(o) /\ job[o].preview # NoPreview => job[o].preview \in Previews
    BY DEF Imports, IsImportJob
  <2>4. \A o \in Ops : pc'[o] = "done" /\ Imports(o)' /\ job'[o].preview # NoPreview =>
           previews'[job'[o].preview] = Gone
    BY <1>2, <2>1, <2>2, <2>3 DEF Idles, PreviewInv
  <2>5. ASSUME NEW n \in Ops, NEW m \in Ops,
               n < m, pc'[m] # "new", <<n, m>> \notin overlap', Imports(n)', Imports(m)',
               job'[n].preview = job'[m].preview, job'[m].preview # NoPreview
        PROVE  pc'[n] # "done"
    <3>1. pc[m] # "new" /\ <<n, m>> \notin overlap /\ Imports(n) /\ Imports(m)
      BY <2>1, <2>2, <2>5
    <3>2. job[n].preview = job[m].preview /\ job[m].preview # NoPreview
      BY <2>2, <2>5
    <3>3. pc[n] # "done"
      BY <2>5, <3>1, <3>2 DEF PreviewInv
    <3>4. QED BY <2>1, <3>3
  <2>6. QED BY <2>4, <2>5 DEF PreviewInv
<1>3. ASSUME NEW o \in Ops, Acts(o), Continues(o)
      PROVE  PreviewInv'
  <2>1. \A n \in Ops : n # o => pc'[n] = pc[n] /\ job'[n] = job[n]
    BY <1>3, ActorMoves
  <2>2. /\ \A n \in Ops : Imports(n)' => Imports(n) /\ job'[n].preview = job[n].preview
        /\ \A n \in Ops : pc'[n] = "new" <=> pc[n] = "new"
    BY <1>3, <2>1 DEF Continues, Imports, Running
  <2>3. /\ \A p \in Previews : previews[p] = Gone => previews'[p] = Gone
        /\ pc'[o] = "done" /\ Imports(o)' /\ job'[o].preview # NoPreview =>
              previews'[job'[o].preview] = Gone
    <3>1. OperationsOK /\ previews \in [Previews -> PreviewEntry \cup {NoPreview, Gone}]
      BY TypedParts DEF TablesOK
    <3>2. CASE FinishImport(o)
      <4>1. IsImportJob(job[o]) /\ Imports(o)
        BY <3>1, <3>2 DEF OperationsOK, JobInv, JobFits, ImportLabels, FinishImport, LinesDone, Imports
      <4>2. job[o].preview \in Previews \cup {NoPreview} /\ job[o].kind \in {"commit", "upload"}
        BY <4>1 DEF IsImportJob
      <4>3. job[o].kind = "upload" => job[o].preview = NoPreview
        BY <3>1, <4>1 DEF OperationsOK, BodyInv
      <4>4. job' = job
        BY <3>2 DEF FinishImport
      <4>5. QED BY <3>1, <3>2, <4>2, <4>3, <4>4 DEF FinishImport, Pop
    <3>3. CASE RefuseUpload(o)
      <4>1. IsImportJob(job[o]) /\ Imports(o) /\ job[o].kind = "upload"
        BY <3>1, <3>3 DEF OperationsOK, JobInv, JobFits, ImportLabels, RefuseUpload, Imports
      <4>2. job[o].preview = NoPreview
        BY <3>1, <4>1 DEF OperationsOK, BodyInv
      <4>3. QED BY <3>3, <4>2 DEF RefuseUpload
    <3>4. CASE ResetPositions(o) \/ ResetImports(o)
      <4>1. job[o] = ResetJob /\ job' = job /\ previews' = previews
        BY <3>1, <3>4 DEF OperationsOK, JobInv, JobFits, IsReset, ResetLabels, ResetPositions, ResetImports
      <4>2. ~IsImportJob(job'[o])
        BY <4>1, NoImport
      <4>3. ~Imports(o)'
        BY <4>2 DEF Imports
      <4>4. QED BY <4>1, <4>3
    <3>5. CASE \/ SkipLine(o) \/ CheckLine(o) \/ InsertLine(o) \/ InsertLineFails(o)
               \/ ClearPositions(o)
               \/ (\E k \in PosKeys : UpsertPosition(o, k)) \/ StatementFails(o)
      <4>1. previews' = previews
        BY <3>5 DEF SkipLine, CheckLine, InsertLine, InsertLineFails, ClearPositions,
                    UpsertPosition, StatementFails
      <4>2. pc'[o] # "done"
        BY <3>1, <3>5 DEF SkipLine, HasLine, CheckLine, InsertLine, InsertLineFails, ClearPositions,
                          UpsertPosition, StatementFails, Goto, OperationsOK
      <4>3. QED BY <4>1, <4>2
    <3>6. QED BY <1>3, <3>2, <3>3, <3>4, <3>5, WhoContinues
  <2>4. \A n \in Ops : pc'[n] = "done" /\ Imports(n)' /\ job'[n].preview # NoPreview =>
           previews'[job'[n].preview] = Gone
    <3>1. \A n \in Ops : Imports(n) /\ job[n].preview # NoPreview => job[n].preview \in Previews
      BY DEF Imports, IsImportJob
    <3>2. QED BY <2>1, <2>2, <2>3, <3>1 DEF PreviewInv
  <2>5. ASSUME NEW n \in Ops, NEW m \in Ops,
               n < m, pc'[m] # "new", <<n, m>> \notin overlap', Imports(n)', Imports(m)',
               job'[n].preview = job'[m].preview, job'[m].preview # NoPreview
        PROVE  pc'[n] # "done"
    <3>1. pc[m] # "new" /\ <<n, m>> \notin overlap
      <4>1. pc[m] # "new"
        BY <2>2, <2>5
      <4>2. <<n, m>> \notin overlap
        BY <1>1, <2>5
      <4>3. QED BY <4>1, <4>2
    <3>2. ~Running(n)
      BY <2>5, <3>1 DEF OverlapInv
    <3>3. n # o
      BY <1>3, <3>2 DEF Continues
    <3>4. QED BY <2>1, <2>2, <2>5, <3>1, <3>3 DEF PreviewInv
  <2>6. QED BY <2>4, <2>5 DEF PreviewInv
<1>4. ASSUME NEW o \in Ops, Acts(o), Starts(o)
      PROVE  PreviewInv'
  <2>1. \A n \in Ops : n # o => pc'[n] = pc[n] /\ job'[n] = job[n] /\ (Imports(n)' => Imports(n))
    BY <1>4, ActorMoves DEF Imports
  <2>2. previews' = previews
    BY <1>4, WhoStarts DEF BeginCommit, BeginUpload, Delete, DeletePositions, BeginReset
  <2>3. Imports(o)' => pc'[o] # "done"
    <3>1. PICK j, label : IsStart(j, label) /\ Begin(o, j, label)
      BY <1>4 DEF Starts
    <3>2. pc'[o] = label /\ job'[o] = j
      BY <3>1 DEF Begin, TypedInv, TypeOK
    <3>3. Imports(o)' => IsImportJob(j)
      BY <3>2 DEF Imports
    <3>4. QED BY <3>1, <3>2, <3>3, NoImport DEF IsStart
  <2>4. ASSUME Imports(o)', job'[o].preview # NoPreview
        PROVE  previews[job'[o].preview] # Gone
    <3>1. CASE \E p \in Previews : BeginCommit(o, p)
      BY <3>1 DEF BeginCommit, Begin, NewImport, IsStaged, TypedInv, TypeOK
    <3>2. CASE \E f \in Files : BeginUpload(o, f)
      BY <2>4, <3>2 DEF BeginUpload, Begin, NewImport, TypedInv, TypeOK
    <3>3. CASE Delete(o) \/ BeginReset(o)
      <4>1. job'[o] \in {DeleteJob, ResetJob}
        BY <3>3 DEF Delete, DeletePositions, BeginReset, Begin, TypedInv, TypeOK
      <4>2. QED BY <2>4, <4>1, NoImport DEF Imports
    <3>4. QED BY <1>4, <3>1, <3>2, <3>3, WhoStarts
  <2>5. \A n \in Ops : pc'[n] = "done" /\ Imports(n)' /\ job'[n].preview # NoPreview =>
           previews'[job'[n].preview] = Gone
    BY <2>1, <2>2, <2>3 DEF PreviewInv
  <2>6. ASSUME NEW n \in Ops, NEW m \in Ops,
               n < m, pc'[m] # "new", <<n, m>> \notin overlap', Imports(n)', Imports(m)',
               job'[n].preview = job'[m].preview, job'[m].preview # NoPreview
        PROVE  pc'[n] # "done"
    <3>1. n # m /\ m # n /\ n \in Int /\ m \in Int
      BY <2>6 DEF Ops
    <3>2. CASE m = o
      <4>1. n # o /\ Imports(n) /\ job'[n] = job[n] /\ pc'[n] = pc[n]
        BY <2>1, <2>6, <3>1, <3>2
      <4>2. previews[job[n].preview] # Gone
        BY <2>4, <2>6, <3>2, <4>1
      <4>3. QED BY <2>6, <4>1, <4>2 DEF PreviewInv
    <3>3. CASE n = o
      BY <2>3, <2>6, <3>3
    <3>4. CASE n # o /\ m # o
      <4>1. Imports(n) /\ job'[n] = job[n] /\ pc'[n] = pc[n]
        BY <2>1, <2>6, <3>4
      <4>2. Imports(m) /\ job'[m] = job[m] /\ pc'[m] = pc[m]
        BY <2>1, <2>6, <3>4
      <4>3. <<n, m>> \notin overlap
        BY <1>1, <2>6
      <4>4. QED BY <2>6, <4>1, <4>2, <4>3 DEF PreviewInv
    <3>5. QED BY <3>2, <3>3, <3>4
  <2>7. QED BY <2>5, <2>6 DEF PreviewInv
<1>5. QED BY <1>2, <1>3, <1>4, StepKinds, ActorMoves

-----------------------------------------------------------------------------
(* Commits skip duplicates.                                                *)

\* What an operation may do to the trades.
LEMMA TradesMove ==
    ASSUME TypedInv, NEW o \in Ops, Acts(o)
    PROVE  \/ UNCHANGED trades
           \/ BeginReset(o) /\ trades' = {}
           \/ /\ InsertLine(o) \/ InsertLineFails(o)
              /\ trades' \subseteq trades \cup {NewRow(o)} /\ trades \subseteq trades'
              /\ NewRow(o).import = o /\ Running(o) /\ Running(o)'
<1>1. pc \in [Ops -> Labels]
  BY DEF TypedInv, TypeOK
<1>2. CASE InsertLine(o) \/ InsertLineFails(o)
  BY <1>1, <1>2 DEF InsertLine, InsertLineFails, NewRow, Running, Goto
<1>3. CASE BeginReset(o)
  BY <1>3 DEF BeginReset
<1>4. CASE Delete(o) \/ ResetPositions(o) \/ ResetImports(o)
  BY <1>4 DEF Delete, DeletePositions, ResetPositions, ResetImports
<1>5. CASE (\E p \in Previews : BeginCommit(o, p)) \/ (\E f \in Files : BeginUpload(o, f))
  BY <1>5 DEF BeginCommit, BeginUpload
<1>6. CASE \/ RefuseUpload(o) \/ SkipLine(o) \/ CheckLine(o) \/ ClearPositions(o)
           \/ (\E k \in PosKeys : UpsertPosition(o, k))
           \/ FinishImport(o) \/ StatementFails(o)
  BY <1>6 DEF RefuseUpload, SkipLine, CheckLine, ClearPositions, UpsertPosition, FinishImport,
              StatementFails
<1>7. QED BY <1>2, <1>3, <1>4, <1>5, <1>6 DEF Acts, Import, Reset

LEMMA EnterInsert ==
    ASSUME TypedInv, NEW o \in Ops, Acts(o), pc'[o] = "insert"
    PROVE  CheckLine(o)
<1>1. pc \in [Ops -> Labels]
  BY DEF TypedInv, TypeOK
<1>2. CASE Starts(o)
  BY <1>1, <1>2 DEF Starts, IsStart, Begin
<1>3. CASE Continues(o)
  <2>1. ~RefuseUpload(o) /\ ~SkipLine(o) /\ ~InsertLine(o) /\ ~InsertLineFails(o)
    BY <1>1 DEF RefuseUpload, SkipLine, HasLine, InsertLine, InsertLineFails, Goto
  <2>2. /\ ~ClearPositions(o) /\ ~FinishImport(o) /\ ~StatementFails(o)
        /\ \A k \in PosKeys : ~UpsertPosition(o, k)
    BY <1>1 DEF ClearPositions, FinishImport, StatementFails, UpsertPosition, Goto
  <2>3. ~ResetPositions(o) /\ ~ResetImports(o)
    BY <1>1 DEF ResetPositions, ResetImports, Goto
  <2>4. QED BY <1>3, <2>1, <2>2, <2>3, WhoContinues
<1>4. QED BY <1>2, <1>3, ActorMoves

LEMMA SelectStep ==
    ASSUME TypedInv, OverlapInv, SelectInv, [Next]_vars
    PROVE  SelectInv'
<1>1. OverlapInv' /\ overlap \subseteq overlap' /\ trades \subseteq TradeRow
  BY OverlapStep DEF TypedInv, TypeOK
<1>2. CASE Idles
  <2>1. /\ \A n \in Ops : pc[n] # "new" => pc'[n] # "new"
        /\ \A n \in Ops : pc'[n] = "insert" => pc[n] = "insert"
        /\ job' = job /\ trades' = trades /\ overlap' = overlap
    BY <1>2 DEF Idles, Running
  <2>2. \A t \in trades : t.import \in Ops
    BY <1>1 DEF TradeRow
  <2>3. QED BY <2>1, <2>2 DEF SelectInv, LotAt
<1>3. ASSUME NEW o \in Ops, Acts(o)
      PROVE  SelectInv'
  <2>1. \A n \in Ops : n # o => pc'[n] = pc[n] /\ job'[n] = job[n]
    BY <1>3, ActorMoves
  <2>2. pc'[o] # "new"
    BY <1>3, ActorMoves, StartFacts DEF Continues
  <2>3. \A t \in trades' : pc'[t.import] # "new"
    <3>1. \A t \in trades : t.import \in Ops /\ pc[t.import] # "new"
      BY <1>1 DEF TradeRow, SelectInv
    <3>2. \A t \in trades : pc'[t.import] # "new"
      BY <2>1, <2>2, <3>1
    <3>3. QED BY <1>3, <2>2, <3>2, TradesMove
  <2>4. ASSUME NEW n \in Ops, pc'[n] = "insert", job'[n].kind = "commit", NEW t \in trades',
               DedupKey(t.lot) = DedupKey(job'[n].file.lots[job'[n].line + 1])
        PROVE  <<t.import, n>> \in overlap'
    <3>1. CASE n = o
      <4>1. CheckLine(o)
        BY <1>3, <2>4, <3>1, EnterInsert
      <4>2. Existing(o) = {} /\ job' = job /\ trades' = trades
        BY <4>1 DEF CheckLine
      <4>3. t \in Existing(o)
        BY <2>4, <3>1, <4>2 DEF Existing, SourceSought, LotAt
      <4>4. QED BY <4>2, <4>3
    <3>2. CASE n # o
      <4>1. pc[n] = "insert" /\ job[n] = job'[n]
        BY <2>1, <2>4, <3>2
      <4>2. CASE t \in trades
        <5>1. <<t.import, n>> \in overlap
          BY <2>4, <4>1, <4>2 DEF SelectInv, LotAt
        <5>2. QED BY <1>1, <5>1
      <4>3. CASE t \notin trades
        <5>1. t = NewRow(o) /\ t.import = o /\ Running(o)
          BY <1>3, <2>4, <4>3, TradesMove
        <5>2. Running(n)
          BY <4>1 DEF Running
        <5>3. <<o, n>> \in overlap
          BY <3>2, <5>1, <5>2, RunTogether
        <5>4. QED BY <1>1, <5>1, <5>3
      <4>4. QED BY <4>2, <4>3
    <3>3. QED BY <3>1, <3>2
  <2>5. QED BY <2>3, <2>4 DEF SelectInv, LotAt
<1>4. QED BY <1>2, <1>3, StepKinds

LEMMA SkipDuplicatesStep ==
    ASSUME TypedInv, OverlapInv, SelectInv, CommitsSkipDuplicates, [Next]_vars
    PROVE  CommitsSkipDuplicates'
<1>1. OverlapInv' /\ overlap \subseteq overlap' /\ trades \subseteq TradeRow
  BY OverlapStep DEF TypedInv, TypeOK
<1>2. \A t \in trades : t.import \in Ops /\ pc[t.import] # "new"
  BY <1>1 DEF TradeRow, SelectInv
<1>3. CASE Idles
  BY <1>3 DEF Idles, CommitsSkipDuplicates, SameTrade
<1>4. ASSUME NEW o \in Ops, Acts(o)
      PROVE  CommitsSkipDuplicates'
  <2>1. \A n \in Ops : n # o => pc'[n] = pc[n] /\ job'[n] = job[n]
    BY <1>4, ActorMoves
  <2>2. \A n \in Ops : pc[n] # "new" /\ job'[n].kind = "commit" => job[n].kind = "commit"
    <3>1. CASE Starts(o)
      BY <1>4, <2>1, <3>1, StartFacts
    <3>2. CASE Continues(o)
      BY <2>1, <3>2 DEF Continues
    <3>3. QED BY <1>4, <3>1, <3>2, ActorMoves
  <2>3. ASSUME NEW t \in trades', NEW u \in trades', t # u, DedupKey(t.lot) = DedupKey(u.lot),
               t.import <= u.import, job'[u.import].kind = "commit"
        PROVE  <<t.import, u.import>> \in overlap'
    <3>1. CASE t \in trades /\ u \in trades
      <4>1. job[u.import].kind = "commit"
        BY <1>2, <2>2, <2>3, <3>1
      <4>2. <<t.import, u.import>> \in overlap
        BY <2>3, <3>1, <4>1 DEF CommitsSkipDuplicates, SameTrade
      <4>3. QED BY <1>1, <4>2
    <3>2. CASE t \notin trades \/ u \notin trades
      <4> DEFINE r == NewRow(o)
      <4>1. /\ pc[o] = "insert" /\ r.import = o /\ r.lot = LotAt(o)
            /\ Running(o) /\ trades' \subseteq trades \cup {r}
        BY <1>4, <2>3, <3>2, TradesMove DEF InsertLine, InsertLineFails, NewRow
      <4>2. CASE u \notin trades
        <5>1. u = r /\ t \in trades
          BY <2>3, <4>1, <4>2
        <5>2. job[o].kind = "commit"
          BY <2>2, <2>3, <4>1, <5>1
        <5>3. <<t.import, o>> \in overlap
          BY <2>3, <4>1, <5>1, <5>2 DEF SelectInv
        <5>4. QED BY <1>1, <4>1, <5>1, <5>3
      <4>3. CASE t \notin trades /\ u \in trades
        <5>1. t = r /\ u.import \in Ops /\ pc[u.import] # "new"
          BY <1>2, <2>3, <4>1, <4>3
        <5>2. CASE u.import = o
          <6>1. job[o].kind = "commit"
            BY <2>2, <2>3, <4>1, <5>1, <5>2
          <6>2. <<u.import, o>> \in overlap
            BY <2>3, <4>1, <4>3, <5>1, <6>1 DEF SelectInv
          <6>3. QED BY <1>1, <4>1, <5>1, <5>2, <6>2
        <5>3. CASE u.import # o
          <6>1. o < u.import
            <7>1. o \in Int /\ u.import \in Int /\ o <= u.import
              BY <2>3, <4>1, <5>1 DEF Ops
            <7>2. QED BY <5>3, <7>1
          <6>2. <<o, u.import>> \in overlap
            BY <4>1, <5>1, <6>1 DEF OverlapInv
          <6>3. QED BY <1>1, <4>1, <5>1, <6>2
        <5>4. QED BY <5>2, <5>3
      <4>4. QED BY <3>2, <4>2, <4>3
    <3>3. QED BY <3>1, <3>2
  <2>4. QED BY <2>3 DEF CommitsSkipDuplicates, SameTrade
<1>5. QED BY <1>3, <1>4, StepKinds

-----------------------------------------------------------------------------
(* The positions of an account are of one import.                          *)

\* What an operation may do to a row of imported_positions.
LEMMA PositionsMove ==
    ASSUME TypedInv, NEW o \in Ops, Acts(o), NEW k \in PosKeys
    PROVE  \/ positions'[k] \in {positions[k], NoPosition}
           \/ /\ UpsertPosition(o, k)
              /\ positions'[k] = [qty |-> job[o].body[k], import |-> o]
              /\ positions'[k].import = o
<1>1. positions \in [PosKeys -> PositionRow \cup {NoPosition}]
  BY DEF TypedInv, TypeOK
<1>2. CASE Delete(o) \/ ClearPositions(o) \/ ResetPositions(o)
  BY <1>2 DEF Delete, DeletePositions, ClearPositions, Cleared, ResetPositions
<1>3. CASE \E l \in PosKeys : UpsertPosition(o, l)
  <2>1. PICK l \in PosKeys : UpsertPosition(o, l)
    BY <1>3
  <2>2. positions' = [positions EXCEPT ![l] = [qty |-> job[o].body[l], import |-> o]]
    BY <2>1 DEF UpsertPosition
  <2>3. CASE k = l
    <3>1. positions'[k] = [qty |-> job[o].body[k], import |-> o]
      BY <1>1, <2>2, <2>3
    <3>2. QED BY <2>1, <2>3, <3>1
  <2>4. CASE k # l
    BY <1>1, <2>2, <2>4
  <2>5. QED BY <2>3, <2>4
<1>4. CASE BeginReset(o) \/ ResetImports(o)
  BY <1>4 DEF BeginReset, ResetImports
<1>5. CASE (\E p \in Previews : BeginCommit(o, p)) \/ (\E f \in Files : BeginUpload(o, f))
  BY <1>5 DEF BeginCommit, BeginUpload
<1>6. CASE \/ RefuseUpload(o) \/ SkipLine(o) \/ CheckLine(o) \/ InsertLine(o)
           \/ InsertLineFails(o) \/ FinishImport(o) \/ StatementFails(o)
  BY <1>6 DEF RefuseUpload, SkipLine, CheckLine, InsertLine, InsertLineFails, FinishImport,
              StatementFails
<1>7. QED BY <1>2, <1>3, <1>4, <1>5, <1>6 DEF Acts, Import, Reset

\* An import is past its DELETE only by way of it.
LEMMA EnterClear ==
    ASSUME TypedInv, NEW o \in Ops, Acts(o), PastClear(o)'
    PROVE  \/ ClearPositions(o)
           \/ /\ PastClear(o)
              /\ \/ SkipLine(o) \/ CheckLine(o) \/ InsertLine(o) \/ InsertLineFails(o)
                 \/ (\E k \in PosKeys : UpsertPosition(o, k))
<1>1. pc \in [Ops -> Labels] /\ DOMAIN job = Ops
  BY DEF TypedInv, TypeOK
<1>2. CASE Starts(o)
  <2>1. PICK j, label : IsStart(j, label) /\ Begin(o, j, label)
    BY <1>2 DEF Starts
  <2>2. pc'[o] = label /\ job'[o] = j
    BY <1>1, <2>1 DEF Begin
  <2>3. label = "lines" /\ j.kind = "upload"
    BY <2>1, <2>2 DEF IsStart, PastClear
  <2>4. \E p \in Previews : BeginCommit(o, p)
    <3>1. ~Delete(o) /\ ~BeginReset(o) /\ \A f \in Files : ~BeginUpload(o, f)
      BY <1>1, <2>2, <2>3 DEF Delete, DeletePositions, BeginReset, BeginUpload, Begin
    <3>2. QED BY <1>2, <3>1, WhoStarts
  <2>5. job'[o].kind = "commit"
    BY <1>1, <2>4 DEF BeginCommit, Begin, NewImport
  <2>6. QED BY <2>2, <2>3, <2>5
<1>3. CASE Continues(o)
  <2>1. ~RefuseUpload(o) /\ ~FinishImport(o) /\ ~StatementFails(o)
    BY <1>1 DEF RefuseUpload, FinishImport, StatementFails, Goto, PastClear
  <2>2. ~ResetPositions(o) /\ ~ResetImports(o)
    BY <1>1 DEF ResetPositions, ResetImports, Goto, PastClear
  <2>3. job'[o].kind = job[o].kind
    BY <1>3 DEF Continues
  <2>4. CASE SkipLine(o) \/ CheckLine(o) \/ InsertLine(o) \/ InsertLineFails(o)
    <3>1. pc[o] \in {"lines", "insert"} /\ pc'[o] \in {"lines", "insert"}
      BY <1>1, <2>4 DEF SkipLine, CheckLine, HasLine, InsertLine, InsertLineFails, Goto
    <3>2. PastClear(o)
      BY <2>3, <3>1 DEF PastClear
    <3>3. QED BY <2>4, <3>2
  <2>5. CASE \E k \in PosKeys : UpsertPosition(o, k)
    BY <2>5 DEF UpsertPosition, LinesDone, PastClear
  <2>6. QED BY <1>3, <2>1, <2>2, <2>4, <2>5, WhoContinues
<1>4. QED BY <1>2, <1>3, ActorMoves

LEMMA ClearStep ==
    ASSUME TypedInv, OverlapInv, ClearInv, [Next]_vars
    PROVE  ClearInv'
<1>1. OverlapInv' /\ overlap \subseteq overlap'
  BY OverlapStep
<1>2. CASE Idles
  <2>1. /\ \A n \in Ops : pc'[n] = pc[n] \/ pc'[n] = "dead"
        /\ job' = job /\ positions' = positions /\ overlap' = overlap
    BY <1>2 DEF Idles
  <2>2. QED BY <2>1 DEF ClearInv, PastClear
<1>3. ASSUME NEW o \in Ops, Acts(o)
      PROVE  ClearInv'
  <2>1. \A n \in Ops : n # o => pc'[n] = pc[n] /\ job'[n] = job[n]
    BY <1>3, ActorMoves
  <2>2. ASSUME NEW n \in Ops, PastClear(n)', NEW k \in PosKeys,
               k[1] \in job'[n].file.accounts, positions'[k] # NoPosition
        PROVE  positions'[k].import = n \/ <<positions'[k].import, n>> \in overlap'
    <3>1. CASE n # o
      <4>1. PastClear(n) /\ job'[n] = job[n] /\ Running(n)
        BY <2>1, <2>2, <3>1 DEF PastClear, Running
      <4>2. CASE positions'[k] = positions[k]
        BY <1>1, <2>2, <4>1, <4>2 DEF ClearInv
      <4>3. CASE UpsertPosition(o, k) /\ positions'[k].import = o
        <5>1. Running(o)
          BY <4>3 DEF UpsertPosition, LinesDone, Running
        <5>2. <<o, n>> \in overlap
          BY <3>1, <4>1, <5>1, RunTogether
        <5>3. QED BY <1>1, <4>3, <5>2
      <4>4. QED BY <1>3, <2>2, <4>2, <4>3, PositionsMove
    <3>2. CASE n = o
      <4>1. CASE ClearPositions(o)
        BY <2>2, <3>2, <4>1 DEF ClearPositions, Cleared
      <4>2. CASE PastClear(o) /\ Continues(o)
        <5>1. job'[o].file = job[o].file
          BY <4>2 DEF Continues
        <5>2. CASE positions'[k] = positions[k]
          <6>1. positions[k].import = o \/ <<positions[k].import, o>> \in overlap
            BY <2>2, <3>2, <4>2, <5>1, <5>2 DEF ClearInv
          <6>2. QED BY <1>1, <3>2, <5>2, <6>1
        <5>3. CASE positions'[k].import = o
          BY <3>2, <5>3
        <5>4. QED BY <1>3, <2>2, <5>2, <5>3, PositionsMove
      <4>3. CASE Starts(o)
        BY <1>3, <2>2, <3>2, <4>3, EnterClear, StartFacts DEF PastClear, ClearPositions, LinesDone
      <4>4. QED BY <1>3, <2>2, <3>2, <4>1, <4>2, <4>3, EnterClear, ActorMoves
    <3>3. QED BY <3>1, <3>2
  <2>3. QED BY <2>2 DEF ClearInv
<1>4. QED BY <1>2, <1>3, StepKinds

LEMMA OneImportStep ==
    ASSUME TypedInv, OverlapInv, ClearInv, OneImportPerAccount, [Next]_vars
    PROVE  OneImportPerAccount'
<1>1. OverlapInv' /\ overlap \subseteq overlap'
  BY OverlapStep
<1>2. CASE Idles
  BY <1>2 DEF Idles, OneImportPerAccount
<1>3. ASSUME NEW o \in Ops, Acts(o)
      PROVE  OneImportPerAccount'
  <2>1. ASSUME NEW j \in PosKeys, NEW k \in PosKeys, j[1] = k[1],
               positions'[j] # NoPosition, positions'[k] # NoPosition,
               UpsertPosition(o, k), positions'[k].import = o, positions'[j].import # o
        PROVE  <<positions'[j].import, o>> \in overlap /\ <<o, positions'[j].import>> \in overlap
    <3>1. positions'[j] = positions[j]
      BY <2>1 DEF UpsertPosition, TypedInv, TypeOK
    <3>2. PastClear(o)
      BY <2>1 DEF UpsertPosition, LinesDone, PastClear
    <3>3. k[1] \in job[o].file.accounts
      <4>1. Imports(o)
        BY <2>1 DEF TypedInv, JobInv, JobFits, ImportLabels, UpsertPosition, LinesDone, Imports
      <4>2. k \in DOMAIN job[o].body
        BY <2>1, <4>1 DEF UpsertPosition, Imports, IsImportJob
      <4>3. QED BY <4>1, <4>2 DEF TypedInv, BodyInv
    <3>4. <<positions[j].import, o>> \in overlap
      BY <2>1, <3>1, <3>2, <3>3 DEF ClearInv
    <3>5. positions[j].import \in Ops
      BY <2>1, <3>1 DEF TypedInv, TypeOK, PositionRow
    <3>6. QED BY <3>1, <3>4, <3>5 DEF OverlapInv
  <2>2. ASSUME NEW j \in PosKeys, NEW k \in PosKeys, j[1] = k[1],
               positions'[j] # NoPosition, positions'[k] # NoPosition,
               positions'[j].import # positions'[k].import
        PROVE  <<positions'[j].import, positions'[k].import>> \in overlap'
    <3>1. CASE positions'[j] = positions[j] /\ positions'[k] = positions[k]
      <4>1. <<positions[j].import, positions[k].import>> \in overlap
        BY <2>2, <3>1 DEF OneImportPerAccount
      <4>2. QED BY <1>1, <3>1, <4>1
    <3>2. CASE UpsertPosition(o, k) /\ positions'[k].import = o
      BY <1>1, <2>1, <2>2, <3>2
    <3>3. CASE UpsertPosition(o, j) /\ positions'[j].import = o
      BY <1>1, <2>1, <2>2, <3>3
    <3>4. QED BY <1>3, <2>2, <3>1, <3>2, <3>3, PositionsMove
  <2>3. QED BY <2>2 DEF OneImportPerAccount
<1>4. QED BY <1>2, <1>3, StepKinds

-----------------------------------------------------------------------------
(* What an import that reports success has left behind.                    *)

\* The status of a record changes to success only when its import finishes
\* without an error, and to deleted only when a reset deletes it.
LEMMA ImportsMove ==
    ASSUME TypedInv, NEW o \in Ops, Acts(o), NEW n \in Ops
    PROVE  /\ imports'[n] = "success" =>
                 \/ imports[n] = "success"
                 \/ n = o /\ FinishImport(o) /\ FinalStatus(o) = "success"
           /\ imports'[n] = "deleted" => imports[n] = "deleted" \/ ResetImports(o)
           /\ Starts(o) /\ IsImportJob(job'[o]) => imports'[o] = "pending"
<1>1. imports \in [Ops -> Status]
  BY DEF TypedInv, TypeOK
<1>2. ASSUME NEW status, SetStatus(o, status), status # "deleted", ~Starts(o),
             status = "success" => FinishImport(o) /\ FinalStatus(o) = "success"
      PROVE  /\ imports'[n] = "success" =>
                   \/ imports[n] = "success"
                   \/ n = o /\ FinishImport(o) /\ FinalStatus(o) = "success"
             /\ imports'[n] = "deleted" => imports[n] = "deleted" \/ ResetImports(o)
             /\ Starts(o) /\ IsImportJob(job'[o]) => imports'[o] = "pending"
  BY <1>1, <1>2 DEF SetStatus
<1>3. CASE FinishImport(o)
  <2>1. FinalStatus(o) # "deleted" /\ SetStatus(o, FinalStatus(o))
    BY <1>3 DEF FinalStatus, FinishImport
  <2>2. ~Starts(o)
    BY <1>3 DEF FinishImport, LinesDone, Starts, Begin, IsNextOp
  <2>3. QED BY <1>2, <1>3, <2>1, <2>2
<1>4. CASE RefuseUpload(o)
  <2>1. ~Starts(o)
    BY <1>4 DEF RefuseUpload, Starts, Begin, IsNextOp
  <2>2. QED BY <1>2, <1>4, <2>1 DEF RefuseUpload
<1>5. CASE (\E p \in Previews : BeginCommit(o, p)) \/ (\E f \in Files : BeginUpload(o, f))
  <2>1. imports' = [imports EXCEPT ![o] = "pending"]
    BY <1>5 DEF BeginCommit, BeginUpload
  <2>2. QED BY <1>1, <2>1
<1>6. CASE Delete(o) \/ BeginReset(o)
  <2>1. imports' = imports /\ job'[o] \in {DeleteJob, ResetJob}
    BY <1>6 DEF Delete, DeletePositions, BeginReset, Begin, TypedInv, TypeOK
  <2>2. QED BY <2>1, NoImport
<1>7. CASE ResetImports(o)
  <2>1. ~Starts(o)
    BY <1>7 DEF ResetImports, Starts, Begin, IsNextOp
  <2>2. imports'[n] # "success"
    BY <1>7 DEF ResetImports
  <2>3. QED BY <1>7, <2>1, <2>2
<1>8. CASE \/ SkipLine(o) \/ CheckLine(o) \/ InsertLine(o) \/ InsertLineFails(o)
           \/ ClearPositions(o) \/ (\E k \in PosKeys : UpsertPosition(o, k))
           \/ StatementFails(o) \/ ResetPositions(o)
  <2>1. imports' = imports
    BY <1>8 DEF SkipLine, CheckLine, InsertLine, InsertLineFails, ClearPositions,
                UpsertPosition, StatementFails, ResetPositions
  <2>2. pc[o] # "new"
    BY <1>8 DEF SkipLine, CheckLine, HasLine, InsertLine, InsertLineFails, ClearPositions,
                LinesDone, UpsertPosition, StatementFails, ResetPositions, Running
  <2>3. ~Starts(o)
    BY <2>2 DEF Starts, Begin, IsNextOp
  <2>4. QED BY <2>1, <2>3
<1>9. QED BY <1>3, <1>4, <1>5, <1>6, <1>7, <1>8 DEF Acts, Import, Reset

\* What holds when an import finishes.
LEMMA FinishFacts ==
    ASSUME TypedInv, NEW o \in Ops, FinishImport(o)
    PROVE  /\ pc'[o] = "done" /\ PastClear(o) /\ job' = job /\ UNCHANGED positions
           /\ IsImportJob(job[o]) /\ job[o].left = {}
           /\ job[o].line = Len(job[o].file.lots)
           /\ FinalStatus(o) = "success" => job[o].errors = 0
<1>1. pc'[o] = "done" /\ job' = job /\ UNCHANGED positions /\ job[o].left = {}
  BY DEF FinishImport, Goto, TypedInv, TypeOK
<1>2. PastClear(o) /\ job[o].line = Len(job[o].file.lots) /\ IsImportJob(job[o])
  BY DEF FinishImport, LinesDone, PastClear, TypedInv, JobInv, JobFits, ImportLabels
<1>3. job[o].errors \in Nat
  BY <1>2 DEF IsImportJob
<1>4. FinalStatus(o) = "success" => job[o].errors = 0
  BY <1>3 DEF FinalStatus
<1>5. QED BY <1>1, <1>2, <1>4

LEMMA SuccessStep ==
    ASSUME TypedInv, OverlapInv, SuccessInv, [Next]_vars
    PROVE  SuccessInv'
<1>1. CASE Idles
  <2>1. /\ \A n \in Ops : pc[n] = "done" => pc'[n] = "done"
        /\ job' = job /\ imports' = imports
    BY <1>1 DEF Idles, Running
  <2>2. QED BY <2>1 DEF SuccessInv, Imports
<1>2. ASSUME NEW o \in Ops, Acts(o)
      PROVE  SuccessInv'
  <2>1. \A n \in Ops : n # o => pc'[n] = pc[n] /\ job'[n] = job[n]
    BY <1>2, ActorMoves
  <2>2. pc[o] # "done"
    BY <1>2, ActorMoves, StartFacts DEF Continues, Running
  <2>3. ASSUME NEW n \in Ops, imports'[n] = "success"
        PROVE  /\ pc'[n] = "done" /\ Imports(n)' /\ job'[n].left = {} /\ job'[n].errors = 0
               /\ job'[n].line = Len(job'[n].file.lots)
    <3>1. CASE imports[n] = "success"
      BY <2>1, <2>2, <3>1 DEF SuccessInv, Imports
    <3>2. CASE n = o /\ FinishImport(o) /\ FinalStatus(o) = "success"
      BY <3>2, FinishFacts DEF Imports
    <3>3. QED BY <1>2, <2>3, <3>1, <3>2, ImportsMove
  <2>4. QED BY <2>3 DEF SuccessInv
<1>3. QED BY <1>1, <1>2, StepKinds

LEMMA SnapshotStep ==
    ASSUME TypedInv, OverlapInv, SuccessInv, SnapshotInv, [Next]_vars
    PROVE  SnapshotInv'
<1> DEFINE Whole(n) == \A k \in PosKeys : k[1] \in job[n].file.accounts =>
                          positions[k] = IF k \in DOMAIN job[n].body \ job[n].left
                                         THEN [qty |-> job[n].body[k], import |-> n]
                                         ELSE NoPosition
<1>1. OverlapInv' /\ overlap \subseteq overlap'
  BY OverlapStep
<1>2. CASE Idles
  <2>1. /\ \A n \in Ops : pc'[n] = pc[n] \/ pc'[n] = "dead"
        /\ \A n \in Ops : pc'[n] = "new" => pc[n] = "new"
        /\ job' = job /\ positions' = positions /\ overlap' = overlap /\ imports' = imports
    BY <1>2 DEF Idles
  <2>2. \A n \in Ops : (PastClear(n)' => PastClear(n)) /\ (Alone(n)' => Alone(n))
    BY <2>1 DEF PastClear, Alone
  <2>3. QED BY <2>1, <2>2 DEF SnapshotInv
<1>3. ASSUME NEW o \in Ops, Acts(o)
      PROVE  SnapshotInv'
  <2>1. \A n \in Ops : n # o => pc'[n] = pc[n] /\ job'[n] = job[n]
    BY <1>3, ActorMoves
  <2>2. ASSUME NEW n \in Ops, n # o, Alone(n)', PastClear(n)' \/ imports'[n] = "success"
        PROVE  FALSE
    <3>1. n \in Int /\ o \in Int
      BY DEF Ops
    <3>2. <<o, n>> \notin overlap' /\ (o > n => pc'[o] = "new")
      BY <2>2 DEF Alone
    <3>3. pc'[o] # "new"
      BY <1>3, ActorMoves, StartFacts DEF Continues
    <3>4. o < n
      BY <2>2, <3>1, <3>2, <3>3
    <3>5. pc[n] # "new"
      <4>1. CASE PastClear(n)'
        BY <2>1, <2>2, <4>1 DEF PastClear
      <4>2. CASE imports'[n] = "success"
        <5>1. imports[n] = "success"
          BY <1>3, <2>2, <4>2, ImportsMove
        <5>2. QED BY <5>1 DEF SuccessInv
      <4>3. QED BY <2>2, <4>1, <4>2
    <3>6. CASE Starts(o)
      BY <1>3, <3>4, <3>5, <3>6, StartFacts, <3>1
    <3>7. CASE Continues(o)
      <4>1. <<o, n>> \notin overlap /\ Running(o)
        BY <1>1, <3>2, <3>7 DEF Continues
      <4>2. QED BY <3>4, <3>5, <4>1 DEF OverlapInv
    <3>8. QED BY <1>3, <3>6, <3>7, ActorMoves
  <2>3. Alone(o)' => Alone(o)
    <3>1. \A n \in Ops : pc'[n] = "new" => pc[n] = "new"
      BY <1>3, <2>1, ActorMoves, StartFacts DEF Continues
    <3>2. QED BY <1>1, <3>1 DEF Alone
  <2>4. ASSUME PastClear(o)', Alone(o)'
        PROVE  Whole(o)'
    <3>1. CASE ClearPositions(o)
      <4>1. job' = job /\ positions' = Cleared(job[o].file.accounts)
        BY <3>1 DEF ClearPositions
      <4>2. job[o].left = DOMAIN job[o].body
        BY <3>1 DEF ClearPositions, LinesDone, TypedInv, JobInv, JobFits
      <4>3. QED BY <4>1, <4>2 DEF Cleared
    <3>2. CASE PastClear(o)
      <4>1. Whole(o)
        BY <2>3, <2>4, <3>2 DEF SnapshotInv
      <4>2. IsImportJob(job[o])
        BY <3>2 DEF TypedInv, JobInv, JobFits, ImportLabels, PastClear
      <4>3. CASE \E k \in PosKeys : UpsertPosition(o, k)
        <5>1. PICK k \in PosKeys : UpsertPosition(o, k)
          BY <4>3
        <5>2. /\ job'[o] = [job[o] EXCEPT !.left = @ \ {k}]
              /\ positions' = [positions EXCEPT ![k] = [qty |-> job[o].body[k], import |-> o]]
              /\ k \in job[o].left
          BY <5>1 DEF UpsertPosition, TypedInv, TypeOK
        <5>3. /\ job'[o].file = job[o].file /\ job'[o].body = job[o].body
              /\ job'[o].left = job[o].left \ {k} /\ k \in DOMAIN job[o].body
          BY <4>2, <5>2 DEF IsImportJob
        <5>4. positions'[k] = [qty |-> job[o].body[k], import |-> o]
          BY <5>2 DEF TypedInv, TypeOK
        <5>5. \A l \in PosKeys : l # k => positions'[l] = positions[l]
          BY <5>2 DEF TypedInv, TypeOK
        <5>6. ASSUME NEW l \in PosKeys, l[1] \in job[o].file.accounts
              PROVE  positions'[l] = IF l \in DOMAIN job'[o].body \ job'[o].left
                                     THEN [qty |-> job'[o].body[l], import |-> o]
                                     ELSE NoPosition
          <6>1. CASE l = k
            BY <5>3, <5>4, <6>1
          <6>2. CASE l # k
            BY <4>1, <5>3, <5>5, <5>6, <6>2
          <6>3. QED BY <6>1, <6>2
        <5>7. QED BY <5>3, <5>6
      <4>4. CASE SkipLine(o) \/ CheckLine(o) \/ InsertLine(o) \/ InsertLineFails(o)
        <5>1. UNCHANGED positions
          BY <4>4 DEF SkipLine, CheckLine, InsertLine, InsertLineFails
        <5>2. /\ job'[o].file = job[o].file /\ job'[o].body = job[o].body
              /\ job'[o].left = job[o].left
          <6>1. CASE CheckLine(o)
            BY <6>1 DEF CheckLine
          <6>2. CASE SkipLine(o) \/ InsertLine(o) \/ InsertLineFails(o)
            <7>1. PICK j : /\ job' = [job EXCEPT ![o] = j]
                           /\ \/ j = NextLine(o)
                              \/ j = [NextLine(o) EXCEPT !.success = @ + 1]
                              \/ j = [NextLine(o) EXCEPT !.errors = @ + 1]
              BY <6>2 DEF SkipLine, InsertLine, InsertLineFails
            <7>2. j.file = job[o].file /\ j.body = job[o].body /\ j.left = job[o].left
              BY <4>2, <7>1 DEF NextLine, IsImportJob
            <7>3. job'[o] = j
              BY <7>1 DEF TypedInv, TypeOK
            <7>4. QED BY <7>2, <7>3
          <6>3. QED BY <4>4, <6>1, <6>2
        <5>3. QED BY <4>1, <5>1, <5>2
      <4>5. CASE ClearPositions(o)
        BY <3>1, <4>5
      <4>6. QED BY <1>3, <2>4, <4>3, <4>4, <4>5, EnterClear
    <3>3. QED BY <1>3, <2>4, <3>1, <3>2, EnterClear
  <2>5. ASSUME imports'[o] = "success", Alone(o)'
        PROVE  Whole(o)'
    <3>1. imports[o] # "success"
      <4>1. pc[o] # "done"
        BY <1>3, ActorMoves, StartFacts DEF Continues, Running
      <4>2. QED BY <4>1 DEF SuccessInv
    <3>2. FinishImport(o)
      BY <1>3, <2>5, <3>1, ImportsMove
    <3>3. PastClear(o) /\ job' = job /\ positions' = positions
      BY <3>2, FinishFacts
    <3>4. Whole(o)
      BY <2>3, <2>5, <3>3 DEF SnapshotInv
    <3>5. QED BY <3>3, <3>4
  <2>6. ASSUME NEW n \in Ops, PastClear(n)' \/ imports'[n] = "success", Alone(n)'
        PROVE  Whole(n)'
    BY <2>2, <2>4, <2>5, <2>6
  <2>7. QED BY <2>6 DEF SnapshotInv
<1>4. QED BY <1>2, <1>3, StepKinds

\* How far a step takes an import that goes on.
LEMMA LineMoves ==
    ASSUME TypedInv, NEW o \in Ops, Acts(o), Continues(o), IsImportJob(job[o])
    PROVE  /\ SkipLine(o) \/ InsertLine(o) =>
                 job'[o].line = job[o].line + 1 /\ job'[o].errors = job[o].errors
           /\ InsertLineFails(o) =>
                 job'[o].line = job[o].line + 1 /\ job'[o].errors = job[o].errors + 1
           /\ \/ SkipLine(o) \/ InsertLine(o) \/ InsertLineFails(o)
              \/ job'[o].line = job[o].line /\ job'[o].errors = job[o].errors
<1>1. ASSUME SkipLine(o) \/ InsertLine(o)
      PROVE  job'[o].line = job[o].line + 1 /\ job'[o].errors = job[o].errors
  <2>1. PICK j : /\ job' = [job EXCEPT ![o] = j]
                 /\ \/ j = NextLine(o)
                    \/ j = [NextLine(o) EXCEPT !.success = @ + 1]
    BY <1>1 DEF SkipLine, InsertLine
  <2>2. j.line = job[o].line + 1 /\ j.errors = job[o].errors
    BY <2>1 DEF NextLine, IsImportJob
  <2>3. job'[o] = j
    BY <2>1 DEF TypedInv, TypeOK
  <2>4. QED BY <2>2, <2>3
<1>2. ASSUME InsertLineFails(o)
      PROVE  job'[o].line = job[o].line + 1 /\ job'[o].errors = job[o].errors + 1
  <2>1. job' = [job EXCEPT ![o] = [NextLine(o) EXCEPT !.errors = @ + 1]]
    BY <1>2 DEF InsertLineFails
  <2>2. job'[o] = [NextLine(o) EXCEPT !.errors = @ + 1]
    BY <2>1 DEF TypedInv, TypeOK
  <2>3. QED BY <2>2 DEF NextLine, IsImportJob
<1>3. ASSUME NEW k \in PosKeys, UpsertPosition(o, k)
      PROVE  job'[o].line = job[o].line /\ job'[o].errors = job[o].errors
  <2>1. job' = [job EXCEPT ![o].left = @ \ {k}]
    BY <1>3 DEF UpsertPosition
  <2>2. job'[o] = [job[o] EXCEPT !.left = @ \ {k}]
    BY <2>1 DEF TypedInv, TypeOK
  <2>3. QED BY <2>2 DEF IsImportJob
<1>4. CASE \/ RefuseUpload(o) \/ CheckLine(o) \/ ClearPositions(o) \/ FinishImport(o)
           \/ StatementFails(o) \/ ResetPositions(o) \/ ResetImports(o)
  <2>1. job' = job
    BY <1>4 DEF RefuseUpload, CheckLine, ClearPositions, FinishImport, StatementFails,
                ResetPositions, ResetImports
  <2>2. job'[o].line = job[o].line /\ job'[o].errors = job[o].errors
    BY <2>1
  <2>3. QED BY <1>1, <1>2, <2>2
<1>5. CASE \/ SkipLine(o) \/ InsertLine(o) \/ InsertLineFails(o)
           \/ (\E k \in PosKeys : UpsertPosition(o, k))
  BY <1>1, <1>2, <1>3, <1>5
<1>6. QED BY <1>4, <1>5, WhoContinues

LEMMA RowsStep ==
    ASSUME TypedInv, OverlapInv, RowsInv, [Next]_vars
    PROVE  RowsInv'
<1>1. \A t \in trades : t.import \in Ops
  BY DEF TypedInv, TypeOK, TradeRow
<1>2. CASE Idles
  BY <1>1, <1>2 DEF Idles, RowsInv, Imports, Running
<1>3. ASSUME NEW o \in Ops, Acts(o), NEW t \in trades'
      PROVE  Imports(t.import)' /\ t.line < job'[t.import].line
  <2>1. \A n \in Ops : n # o => pc'[n] = pc[n] /\ job'[n] = job[n]
    BY <1>3, ActorMoves
  <2>2. CASE t \in trades /\ t.import # o
    BY <1>1, <2>1, <2>2 DEF RowsInv, Imports
  <2>3. CASE t \in trades /\ t.import = o
    <3>1. Imports(o) /\ t.line < job[o].line
      BY <2>3 DEF RowsInv
    <3>2. Continues(o)
      BY <1>3, <3>1, ActorMoves, StartFacts DEF Imports
    <3>3. Imports(o)'
      BY <3>1, <3>2 DEF Continues, Imports
    <3>4. t.line \in Nat /\ job[o].line \in Nat
      BY <2>3, <3>1, JobMoves DEF TypedInv, TypeOK, TradeRow, Imports
    <3>5. job'[o].line = job[o].line \/ job'[o].line = job[o].line + 1
      BY <1>3, <3>1, <3>2, LineMoves DEF Imports
    <3>6. t.line < job'[o].line
      BY <3>1, <3>4, <3>5
    <3>7. QED BY <2>3, <3>3, <3>6
  <2>4. CASE t \notin trades
    <3>1. (InsertLine(o) \/ InsertLineFails(o)) /\ t = NewRow(o)
      BY <1>3, <2>4, TradesMove
    <3>2. IsImportJob(job[o]) /\ job[o].line \in Nat
      BY <3>1, JobMoves DEF InsertLine, InsertLineFails, TypedInv, JobInv, JobFits, ImportLabels
    <3>3. t.import = o /\ t.line = job[o].line
      BY <3>1 DEF NewRow
    <3>4. Continues(o)
      BY <1>3, <3>1, ActorMoves, StartFacts DEF InsertLine, InsertLineFails
    <3>5. job'[o].line = job[o].line + 1
      BY <1>3, <3>1, <3>2, <3>4, LineMoves
    <3>6. Imports(o)'
      BY <3>2, <3>4 DEF Continues, Imports
    <3>7. QED BY <3>2, <3>3, <3>5, <3>6
  <2>5. QED BY <2>2, <2>3, <2>4
<1>4. QED BY <1>2, <1>3, StepKinds DEF RowsInv

\* Lots that the duplicate check takes for the same differ in the side only.
LEMMA SameKey ==
    ASSUME NEW k \in Lot, NEW l \in Lot, DedupKey(k) = DedupKey(l)
    PROVE  k = l \/ k = Opposite(l)
<1>1. /\ k.acct = l.acct /\ k.sym = l.sym /\ k.qty = l.qty
      /\ k.price = l.price /\ k.day = l.day
  BY DEF DedupKey
<1>2. k.side \in {"BUY", "SELL"} /\ l.side \in {"BUY", "SELL"}
  BY DEF Lot
<1>3. QED BY <1>1, <1>2 DEF Lot, Opposite

\* A commit skips a line whose trade, or whose opposite, is in the table already.
LEMMA SkippedIsHandled ==
    ASSUME TypedInv, OverlapInv, SelectInv, RowsInv, NEW o \in Ops, SkipLine(o),
           IsImportJob(job[o])
    PROVE  IsHandled(o, job[o].line + 1)
<1>1. PICK t \in trades : /\ SourceSought(job[o].kind) = "fidelity"
                          /\ DedupKey(t.lot) = DedupKey(LotAt(o))
  BY DEF SkipLine, Existing
<1>2. job[o].kind = "commit"
  BY <1>1 DEF SourceSought
<1>3. job[o].line + 1 \in DOMAIN job[o].file.lots /\ job[o].file \in Files /\ job[o].line \in Nat
  BY LineInFile DEF SkipLine, HasLine
<1>4. LotAt(o) \in Lot
  <2>1. job[o].file.lots \in Seq(Lot)
    BY <1>3, WizardAssumption
  <2>2. QED BY <1>3, <2>1 DEF LotAt
<1>5. t.lot \in Lot
  <2>1. \A f \in Files : LotsOf(f) \subseteq Lot
    <3> SUFFICES ASSUME NEW f \in Files, NEW i \in DOMAIN f.lots PROVE f.lots[i] \in Lot
      BY DEF LotsOf
    <3>1. f.lots \in Seq(Lot)
      BY WizardAssumption
    <3>2. QED BY <3>1
  <2>2. t.lot \in UNION {LotsOf(f) : f \in Files}
    BY DEF TypedInv, TypeOK, TradeRow
  <2>3. QED BY <2>1, <2>2
<1>6. t.lot = LotAt(o) \/ t.lot = Opposite(LotAt(o))
  BY <1>1, <1>4, <1>5, SameKey
<1>7. CASE t.lot = LotAt(o)
  BY <1>7 DEF IsHandled, LotAt
<1>8. CASE t.lot = Opposite(LotAt(o))
  <2>1. t.import \in Ops /\ t.line \in Nat
    BY DEF TypedInv, TypeOK, TradeRow
  <2>2. t.import \in Int /\ o \in Int
    BY <2>1 DEF Ops
  <2>3. Running(o) /\ pc[t.import] # "new"
    BY DEF SkipLine, HasLine, Running, SelectInv
  <2>4. \/ t.import = o /\ t.line < (job[o].line + 1) - 1
        \/ t.import < o
        \/ <<t.import, o>> \in overlap
    <3>1. CASE t.import = o
      <4>1. t.line < job[o].line
        BY <3>1 DEF RowsInv
      <4>2. QED BY <1>3, <2>1, <3>1, <4>1
    <3>2. CASE t.import > o
      BY <2>1, <2>3, <3>2 DEF OverlapInv
    <3>3. QED BY <2>2, <3>1, <3>2
  <2>5. IsLostTo(t, o, job[o].line + 1)
    BY <1>2, <1>8, <2>4 DEF IsLostTo, LotAt
  <2>6. QED BY <2>5 DEF IsHandled
<1>9. QED BY <1>6, <1>7, <1>8

LEMMA LinesStep ==
    ASSUME TypedInv, OverlapInv, SelectInv, RowsInv, LinesInv, [Next]_vars
    PROVE  LinesInv'
<1>1. OverlapInv' /\ overlap \subseteq overlap'
  BY OverlapStep
<1>2. CASE Idles
  <2>1. /\ \A n \in Ops : pc'[n] = "new" <=> pc[n] = "new"
        /\ job' = job /\ trades' = trades /\ overlap' = overlap
    BY <1>2 DEF Idles, Running
  <2>2. \A n \in Ops : (Imports(n)' => Imports(n)) /\ (Undisturbed(n)' => Undisturbed(n))
    BY <2>1 DEF Imports, Undisturbed, IsReset
  <2>3. \A n \in Ops : \A i : IsHandled(n, i) => IsHandled(n, i)'
    BY <2>1 DEF IsHandled, IsLostTo, Opposite
  <2>4. QED BY <2>1, <2>2, <2>3 DEF LinesInv
<1>3. ASSUME NEW o \in Ops, Acts(o)
      PROVE  LinesInv'
  <2>1. \A n \in Ops : n # o => pc'[n] = pc[n] /\ job'[n] = job[n]
    BY <1>3, ActorMoves
  <2>2. pc'[o] # "new"
    BY <1>3, ActorMoves, StartFacts DEF Continues
  <2>3. ASSUME NEW n \in Ops, pc[n] # "new", Undisturbed(n)'
        PROVE  Undisturbed(n)
    <3> SUFFICES ASSUME NEW m \in Ops, pc[m] # "new", IsReset(m)
                 PROVE  m < n /\ <<m, n>> \notin overlap
      BY DEF Undisturbed
    <3>1. job'[m] = ResetJob
      <4>1. CASE m # o
        BY <2>1, <4>1 DEF IsReset
      <4>2. CASE m = o
        <5>1. Continues(o)
          BY <1>3, <4>2, ActorMoves, StartFacts
        <5>2. QED BY <4>2, <5>1, NoImport DEF Continues, IsReset
      <4>3. QED BY <4>1, <4>2
    <3>2. pc'[m] # "new"
      BY <2>1, <2>2
    <3>3. m < n /\ <<m, n>> \notin overlap'
      BY <2>3, <3>1, <3>2 DEF Undisturbed, IsReset
    <3>4. QED BY <1>1, <3>3
  <2>4. ASSUME NEW n \in Ops, pc[n] # "new", Undisturbed(n)'
        PROVE  trades \subseteq trades'
    <3>1. ~BeginReset(o)
      <4>1. SUFFICES ASSUME BeginReset(o) PROVE FALSE
        OBVIOUS
      <4>2. pc[o] = "new" /\ IsReset(o)' /\ n # o
        BY <2>4, <4>1 DEF BeginReset, Begin, IsNextOp, IsReset, TypedInv, TypeOK
      <4>3. o < n
        BY <2>2, <2>4, <4>2 DEF Undisturbed
      <4>4. QED BY <2>4, <4>2, <4>3 DEF OverlapInv
    <3>2. QED BY <1>3, <3>1, TradesMove
  <2>5. ASSUME NEW n \in Ops, NEW i, IsHandled(n, i), trades \subseteq trades',
               job'[n].file = job[n].file, job'[n].kind = job[n].kind
        PROVE  IsHandled(n, i)'
    <3>1. PICK t \in trades : t.lot = job[n].file.lots[i] \/ IsLostTo(t, n, i)
      BY <2>5 DEF IsHandled
    <3>2. IsLostTo(t, n, i) => IsLostTo(t, n, i)'
      BY <1>1, <2>5 DEF IsLostTo, Opposite
    <3>3. QED BY <2>5, <3>1, <3>2 DEF IsHandled
  <2>6. ASSUME NEW n \in Ops, n # o, Imports(n)', job'[n].errors = 0, Undisturbed(n)',
               NEW i \in 1..job'[n].line
        PROVE  IsHandled(n, i)'
    <3>1. Imports(n) /\ job'[n] = job[n]
      BY <2>1, <2>6 DEF Imports
    <3>2. Undisturbed(n) /\ trades \subseteq trades'
      BY <2>3, <2>4, <2>6, <3>1 DEF Imports
    <3>3. IsHandled(n, i)
      BY <2>6, <3>1, <3>2 DEF LinesInv
    <3>4. QED BY <2>5, <3>1, <3>2, <3>3
  <2>7. ASSUME Imports(o)', job'[o].errors = 0, Undisturbed(o)', NEW i \in 1..job'[o].line
        PROVE  IsHandled(o, i)'
    <3>1. CASE Starts(o)
      <4>1. PICK j, label : IsStart(j, label) /\ Begin(o, j, label)
        BY <3>1 DEF Starts
      <4>2. job'[o] = j
        BY <4>1 DEF Begin, TypedInv, TypeOK
      <4>3. j.line = 0
        BY <2>7, <4>1, <4>2, NoImport DEF IsStart, Imports
      <4>4. QED BY <2>7, <4>2, <4>3
    <3>2. CASE Continues(o)
      <4>1. /\ pc[o] # "new" /\ IsImportJob(job[o])
            /\ job'[o].file = job[o].file /\ job'[o].kind = job[o].kind
        BY <2>7, <3>2 DEF Continues, Running, Imports
      <4>2. Undisturbed(o) /\ trades \subseteq trades' /\ Imports(o)
        BY <2>3, <2>4, <2>7, <4>1 DEF Imports
      <4>3. job[o].line \in Nat /\ job[o].errors \in Nat
        BY <4>1, JobMoves DEF IsImportJob
      <4>4. ASSUME NEW k \in 1..job[o].line, job[o].errors = 0
            PROVE  IsHandled(o, k)'
        <5>1. IsHandled(o, k)
          BY <4>2, <4>4 DEF LinesInv
        <5>2. QED BY <2>5, <4>1, <4>2, <5>1
      <4>5. CASE SkipLine(o) \/ InsertLine(o)
        <5>1. job'[o].line = job[o].line + 1 /\ job'[o].errors = job[o].errors
          BY <1>3, <3>2, <4>1, <4>5, LineMoves
        <5>2. PICK k : k = job[o].line + 1
          OBVIOUS
        <5>3. IsHandled(o, k)'
          <6>1. CASE SkipLine(o)
            <7>1. IsHandled(o, k)
              BY <4>1, <5>2, <6>1, SkippedIsHandled
            <7>2. QED BY <2>5, <4>1, <4>2, <7>1
          <6>2. CASE InsertLine(o)
            <7>1. NewRow(o) \in trades'
              BY <6>2 DEF InsertLine
            <7>2. NewRow(o).lot = job'[o].file.lots[k]
              BY <4>1, <5>2 DEF NewRow, LotAt
            <7>3. QED BY <7>1, <7>2 DEF IsHandled
          <6>3. QED BY <4>5, <6>1, <6>2
        <5>4. i \in 1..job[o].line \/ i = k
          BY <2>7, <4>3, <5>1, <5>2
        <5>5. QED BY <2>7, <4>4, <5>1, <5>3, <5>4
      <4>6. CASE InsertLineFails(o)
        <5>1. job'[o].errors = job[o].errors + 1
          BY <1>3, <3>2, <4>1, <4>6, LineMoves
        <5>2. QED BY <2>7, <4>3, <5>1
      <4>7. CASE job'[o].line = job[o].line /\ job'[o].errors = job[o].errors
        BY <2>7, <4>4, <4>7
      <4>8. QED BY <1>3, <3>2, <4>1, <4>5, <4>6, <4>7, LineMoves
    <3>3. QED BY <1>3, <3>1, <3>2, ActorMoves
  <2>8. QED BY <2>6, <2>7 DEF LinesInv
<1>4. QED BY <1>2, <1>3, StepKinds

-----------------------------------------------------------------------------
(* Trades without an import record.                                        *)

LEMMA ResetStep ==
    ASSUME TypedInv, OverlapInv, ResetInv, [Next]_vars
    PROVE  ResetInv'
<1>1. OverlapInv' /\ overlap \subseteq overlap'
  BY OverlapStep
<1>2. CASE Idles
  <2>1. /\ \A n \in Ops : pc'[n] = pc[n] \/ pc'[n] = "dead"
        /\ \A n \in Ops : pc'[n] = "new" <=> pc[n] = "new"
        /\ job' = job /\ trades' = trades /\ overlap' = overlap /\ imports' = imports
    BY <1>2 DEF Idles, Running
  <2>2. /\ \A n \in Ops : Running(n)' => Running(n)
        /\ \A n \in Ops : Imports(n)' => Imports(n)
        /\ \A n \in Ops : pc'[n] \in ResetLabels => pc[n] \in ResetLabels
    BY <2>1 DEF Running, Imports, ResetLabels
  <2>3. \A n \in Ops : pc'[n] \in ResetLabels => \A t \in trades' : <<n, t.import>> \in overlap'
    BY <2>1, <2>2 DEF ResetInv
  <2>4. \A m \in Ops : Running(m)' /\ Imports(m)' /\ imports'[m] = "deleted" =>
           \E n \in Ops : IsReset(n)' /\ <<n, m>> \in overlap'
    BY <2>1, <2>2 DEF ResetInv, IsReset
  <2>5. QED BY <2>3, <2>4 DEF ResetInv
<1>3. ASSUME NEW o \in Ops, Acts(o)
      PROVE  ResetInv'
  <2>1. \A n \in Ops : n # o => pc'[n] = pc[n] /\ job'[n] = job[n]
    BY <1>3, ActorMoves
  <2>2. ASSUME NEW n \in Ops, pc'[n] \in ResetLabels, NEW t \in trades'
        PROVE  <<n, t.import>> \in overlap'
    <3>1. CASE n # o
      <4>1. pc[n] \in ResetLabels /\ Running(n)
        BY <2>1, <2>2, <3>1 DEF ResetLabels, Running
      <4>2. CASE t \in trades
        <5>1. <<n, t.import>> \in overlap
          BY <4>1, <4>2 DEF ResetInv
        <5>2. QED BY <1>1, <5>1
      <4>3. CASE t \notin trades
        <5>1. t.import = o /\ Running(o)
          BY <1>3, <2>2, <4>3, TradesMove
        <5>2. <<n, o>> \in overlap
          BY <3>1, <4>1, <5>1, RunTogether
        <5>3. QED BY <1>1, <5>1, <5>2
      <4>4. QED BY <4>2, <4>3
    <3>2. CASE n = o
      <4>1. BeginReset(o) \/ ResetPositions(o)
        <5>1. CASE Starts(o)
          <6>1. PICK j, label : IsStart(j, label) /\ Begin(o, j, label)
            BY <5>1 DEF Starts
          <6>2. label \in ResetLabels /\ job'[o] = j
            BY <2>2, <3>2, <6>1 DEF Begin, TypedInv, TypeOK
          <6>3. job'[o] = ResetJob
            BY <6>1, <6>2 DEF IsStart, ResetLabels
          <6>4. job'[o].kind = "reset"
            BY <6>3 DEF ResetJob
          <6>5. ~Delete(o)
            BY <6>4 DEF Delete, DeletePositions, Begin, DeleteJob, TypedInv, TypeOK
          <6>6. /\ \A p \in Previews : ~BeginCommit(o, p)
                /\ \A f \in Files : ~BeginUpload(o, f)
            <7>1. pc'[o] \in ResetLabels /\ pc \in [Ops -> Labels]
              BY <2>2, <3>2 DEF TypedInv, TypeOK
            <7>2. \A p \in Previews : ~BeginCommit(o, p)
              BY <7>1 DEF BeginCommit, Begin, ResetLabels
            <7>3. \A f \in Files : ~BeginUpload(o, f)
              BY <7>1 DEF BeginUpload, Begin, ResetLabels
            <7>4. QED BY <7>2, <7>3
          <6>7. QED BY <1>3, <5>1, <6>5, <6>6, WhoStarts
        <5>2. CASE Continues(o)
          <6>1. pc \in [Ops -> Labels] /\ pc'[o] \in ResetLabels
            BY <2>2, <3>2 DEF TypedInv, TypeOK
          <6>2. ~RefuseUpload(o) /\ ~FinishImport(o) /\ ~StatementFails(o) /\ ~ResetImports(o)
            BY <6>1 DEF RefuseUpload, FinishImport, StatementFails, ResetImports, Goto, ResetLabels
          <6>3. ~SkipLine(o) /\ ~CheckLine(o) /\ ~InsertLine(o) /\ ~InsertLineFails(o)
            BY <6>1 DEF SkipLine, CheckLine, HasLine, InsertLine, InsertLineFails, Goto, ResetLabels
          <6>4. ~ClearPositions(o) /\ \A k \in PosKeys : ~UpsertPosition(o, k)
            BY <6>1 DEF ClearPositions, UpsertPosition, Goto, ResetLabels
          <6>5. QED BY <1>3, <5>2, <6>2, <6>3, <6>4, WhoContinues
        <5>3. QED BY <1>3, <5>1, <5>2, ActorMoves
      <4>2. CASE BeginReset(o)
        BY <2>2, <4>2 DEF BeginReset
      <4>3. CASE ResetPositions(o)
        BY <2>2, <3>2, <4>3 DEF ResetPositions, ResetInv, ResetLabels
      <4>4. QED BY <4>1, <4>2, <4>3
    <3>3. QED BY <3>1, <3>2
  <2>3. ASSUME NEW n \in Ops, pc[n] # "new", IsReset(n)
        PROVE  IsReset(n)'
    <3>1. CASE n # o
      BY <2>1, <2>3, <3>1 DEF IsReset
    <3>2. CASE n = o
      <4>1. Continues(o)
        BY <1>3, <2>3, <3>2, ActorMoves, StartFacts
      <4>2. QED BY <2>3, <3>2, <4>1, NoImport DEF Continues, IsReset
    <3>3. QED BY <3>1, <3>2
  <2>4. ASSUME NEW m \in Ops, Running(m)', Imports(m)', imports'[m] = "deleted"
        PROVE  \E n \in Ops : IsReset(n)' /\ <<n, m>> \in overlap'
    <3>1. Running(m) /\ Imports(m)
      <4>1. CASE m # o
        BY <2>1, <2>4, <4>1 DEF Running, Imports
      <4>2. CASE m = o /\ Starts(o)
        BY <1>3, <2>4, <4>2, ImportsMove DEF Imports
      <4>3. CASE m = o /\ Continues(o)
        BY <2>4, <4>3 DEF Continues, Imports, Running
      <4>4. QED BY <1>3, <4>1, <4>2, <4>3, ActorMoves
    <3>2. CASE imports[m] = "deleted"
      <4>1. PICK n \in Ops : IsReset(n) /\ <<n, m>> \in overlap
        BY <3>1, <3>2 DEF ResetInv
      <4>2. pc[n] # "new"
        BY <4>1 DEF OverlapInv
      <4>3. QED BY <1>1, <2>3, <4>1, <4>2
    <3>3. CASE ResetImports(o)
      <4>1. pc[o] = "reset imports" /\ IsReset(o) /\ Running(o)
        BY <3>3 DEF ResetImports, TypedInv, JobInv, JobFits, ResetLabels, Running
      <4>2. m # o
        BY <3>1, <4>1, NoImport DEF Imports, IsReset
      <4>3. <<o, m>> \in overlap
        BY <3>1, <4>1, <4>2, RunTogether
      <4>4. IsReset(o)'
        BY <2>3, <4>1
      <4>5. QED BY <1>1, <4>3, <4>4
    <3>4. QED BY <1>3, <2>4, <3>2, <3>3, ImportsMove
  <2>5. QED BY <2>2, <2>4 DEF ResetInv
<1>4. QED BY <1>2, <1>3, StepKinds

LEMMA OrphansStep ==
    ASSUME TypedInv, OverlapInv, ResetInv, SelectInv, OrphansNeedOverlap, [Next]_vars
    PROVE  OrphansNeedOverlap'
<1>1. OverlapInv' /\ overlap \subseteq overlap'
  BY OverlapStep
<1>2. CASE Idles
  BY <1>2 DEF Idles, OrphansNeedOverlap, IsReset
<1>3. ASSUME NEW o \in Ops, Acts(o)
      PROVE  OrphansNeedOverlap'
  <2>1. \A n \in Ops : n # o => pc'[n] = pc[n] /\ job'[n] = job[n]
    BY <1>3, ActorMoves
  <2>2. ASSUME NEW n \in Ops, pc[n] # "new", IsReset(n)
        PROVE  IsReset(n)'
    <3>1. CASE n # o
      BY <2>1, <2>2, <3>1 DEF IsReset
    <3>2. CASE n = o
      <4>1. Continues(o)
        BY <1>3, <2>2, <3>2, ActorMoves, StartFacts
      <4>2. QED BY <2>2, <3>2, <4>1, NoImport DEF Continues, IsReset
    <3>3. QED BY <3>1, <3>2
  <2>3. ASSUME NEW t \in trades', imports'[t.import] = "deleted"
        PROVE  \E n \in Ops : IsReset(n) /\ pc[n] # "new" /\ <<n, t.import>> \in overlap
    <3>1. CASE t \in trades
      <4>1. t.import \in Ops
        BY <3>1 DEF TypedInv, TypeOK, TradeRow
      <4>2. CASE imports[t.import] = "deleted"
        <5>1. PICK n \in Ops : IsReset(n) /\ <<n, t.import>> \in overlap
          BY <3>1, <4>2 DEF OrphansNeedOverlap
        <5>2. QED BY <4>1, <5>1 DEF OverlapInv
      <4>3. CASE ResetImports(o)
        <5>1. pc[o] = "reset imports" /\ IsReset(o)
          BY <4>3 DEF ResetImports, TypedInv, JobInv, JobFits, ResetLabels
        <5>2. <<o, t.import>> \in overlap
          BY <3>1, <5>1 DEF ResetInv, ResetLabels
        <5>3. QED BY <5>1, <5>2
      <4>4. QED BY <1>3, <2>3, <4>1, <4>2, <4>3, ImportsMove
    <3>2. CASE t \notin trades
      <4>1. t.import = o /\ Running(o) /\ (InsertLine(o) \/ InsertLineFails(o))
        BY <1>3, <2>3, <3>2, TradesMove
      <4>2. imports[o] = "deleted" /\ Imports(o)
        BY <2>3, <4>1 DEF InsertLine, InsertLineFails, Imports, TypedInv, JobInv, JobFits, ImportLabels
      <4>3. PICK n \in Ops : IsReset(n) /\ <<n, o>> \in overlap
        BY <4>1, <4>2 DEF ResetInv
      <4>4. QED BY <4>1, <4>3 DEF OverlapInv
    <3>3. QED BY <3>1, <3>2
  <2>4. QED BY <1>1, <2>2, <2>3 DEF OrphansNeedOverlap
<1>4. QED BY <1>2, <1>3, StepKinds

-----------------------------------------------------------------------------
(***************************************************************************)
(* The theorems.                                                           *)
(***************************************************************************)
ImportInv ==
    /\ TypedInv /\ OverlapInv
    /\ SelectInv /\ CommitsSkipDuplicates
    /\ ClearInv /\ OneImportPerAccount
    /\ SuccessInv /\ SnapshotInv /\ RowsInv /\ LinesInv
    /\ ResetInv /\ OrphansNeedOverlap
    /\ PreviewInv

LEMMA ImportInit == Init => ImportInv
<1> SUFFICES ASSUME Init PROVE ImportInv
  OBVIOUS
<1>1. TypedInv
  BY TypedInit
<1>2. \A o \in Ops : pc[o] = "new" /\ imports[o] = "none"
  BY DEF Init
<1>3. OverlapInv /\ SelectInv /\ ClearInv /\ SuccessInv
  BY <1>2 DEF Init, OverlapInv, SelectInv, ClearInv, PastClear, SuccessInv
<1>4. SnapshotInv /\ RowsInv /\ LinesInv /\ ResetInv /\ PreviewInv
  BY <1>2 DEF Init, SnapshotInv, PastClear, RowsInv, LinesInv, Imports, ResetInv, ResetLabels, Running,
              PreviewInv
<1>5. CommitsSkipDuplicates /\ OneImportPerAccount /\ OrphansNeedOverlap
  BY DEF Init, CommitsSkipDuplicates, OneImportPerAccount, OrphansNeedOverlap
<1>6. QED BY <1>1, <1>3, <1>4, <1>5 DEF ImportInv

LEMMA ImportStep == ImportInv /\ [Next]_vars => ImportInv'
<1> SUFFICES ASSUME ImportInv, [Next]_vars PROVE ImportInv'
  OBVIOUS
<1>1. TypedInv' /\ OverlapInv'
  BY TypedStep, OverlapStep DEF ImportInv
<1>2. SelectInv' /\ CommitsSkipDuplicates'
  BY SelectStep, SkipDuplicatesStep DEF ImportInv
<1>3. ClearInv' /\ OneImportPerAccount'
  BY ClearStep, OneImportStep DEF ImportInv
<1>4. SuccessInv' /\ SnapshotInv' /\ RowsInv' /\ LinesInv'
  BY SuccessStep, SnapshotStep, RowsStep, LinesStep DEF ImportInv
<1>5. ResetInv' /\ OrphansNeedOverlap' /\ PreviewInv'
  BY ResetStep, OrphansStep, PreviewStep DEF ImportInv
<1>6. QED BY <1>1, <1>2, <1>3, <1>4, <1>5 DEF ImportInv

LEMMA ImportInvariant == Spec => []ImportInv
  BY ImportInit, ImportStep, PTL DEF Spec

\* Type correctness: whatever the wizard sends back and wherever a handler
\* stops, tables, records and local variables hold what their columns may.
THEOREM TypeCorrect == Spec => []TypeOK
<1>1. ImportInv => TypeOK
  BY DEF ImportInv, TypedInv
<1>2. QED BY <1>1, ImportInvariant, PTL

\* A commit never adds a trade that is in the table already, except next to
\* another operation that is running (import_commit, the SELECT before INSERT).
THEOREM CommitsNeverDuplicate == Spec => []CommitsSkipDuplicates
<1>1. ImportInv => CommitsSkipDuplicates
  BY DEF ImportInv
<1>2. QED BY <1>1, ImportInvariant, PTL

\* The DELETE before the upserts leaves the positions of an account to one
\* import, except to two that run at the same time.
THEOREM AccountsAreOfOneImport == Spec => []OneImportPerAccount
<1>1. ImportInv => OneImportPerAccount
  BY DEF ImportInv
<1>2. QED BY <1>1, ImportInvariant, PTL

\* A staged preview is committed at most once by commits that do not overlap
\* (_preview_cache.pop at the end of import_commit).
THEOREM PreviewsAreUsedOnce == Spec => []PreviewUsedOnce
<1>1. ImportInv => PreviewUsedOnce
  <2> SUFFICES ASSUME ImportInv, NEW o \in Ops, NEW n \in Ops,
                      o # n, pc[o] = "done", pc[n] = "done", IsImport(o), IsImport(n),
                      job[o].preview = job[n].preview, job[o].preview # NoPreview
               PROVE  <<o, n>> \in overlap
    BY DEF PreviewUsedOnce
  <2>1. Imports(o) /\ Imports(n)
    BY DEF ImportInv, TypedInv, TypeOK, Imports, IsImport
  <2>2. o < n \/ n < o
    <3>1. o \in Int /\ n \in Int
      BY DEF Ops
    <3>2. QED BY <3>1
  <2>3. QED BY <2>1, <2>2 DEF ImportInv, PreviewInv, OverlapInv
<1>2. QED BY <1>1, ImportInvariant, PTL

\* An import that reports success has each trade of its file in the table, the
\* side included, unless a reset came after it or ran next to it; a trade that
\* a commit left out was lost to an opposite one that was there before.
THEOREM SuccessIsComplete == Spec => []SuccessMeansRecorded
<1>1. ImportInv => SuccessMeansRecorded
  <2> SUFFICES ASSUME ImportInv, NEW o \in Ops, imports[o] = "success",
                      \A n \in Ops : IsReset(n) => n < o /\ <<n, o>> \notin overlap,
                      NEW i \in DOMAIN job[o].file.lots
               PROVE  IsHandled(o, i)
    BY DEF SuccessMeansRecorded, IsHandled
  <2>1. Imports(o) /\ job[o].errors = 0 /\ job[o].line = Len(job[o].file.lots)
    BY DEF ImportInv, SuccessInv
  <2>2. Undisturbed(o)
    BY DEF Undisturbed
  <2>3. i \in 1..job[o].line
    <3>1. job[o].file.lots \in Seq(Lot)
      BY <2>1, WizardAssumption DEF Imports, IsImportJob
    <3>2. QED BY <2>1, <3>1
  <2>4. QED BY <2>1, <2>2, <2>3 DEF ImportInv, LinesInv
<1>2. QED BY <1>1, ImportInvariant, PTL

\* The import that ran last, by itself and with success has left exactly its
\* own positions: the rows before it are gone and none of its own is missing.
THEOREM SnapshotsAreWhole == Spec => []LastSnapshotIsWhole
<1>1. ImportInv => LastSnapshotIsWhole
  <2> SUFFICES ASSUME ImportInv, NEW o \in Ops, imports[o] = "success", Alone(o)
               PROVE  \A k \in PosKeys : k[1] \in job[o].file.accounts =>
                         positions[k] = IF k \in DOMAIN job[o].body
                                        THEN [qty |-> job[o].body[k], import |-> o]
                                        ELSE NoPosition
    BY DEF LastSnapshotIsWhole, Alone
  <2>1. job[o].left = {}
    BY DEF ImportInv, SuccessInv
  <2>2. QED BY <2>1 DEF ImportInv, SnapshotInv
<1>2. QED BY <1>1, ImportInvariant, PTL

\* A trade without its import record was written next to a reset
\* (DELETE /trades/reset clears trades first and import records last).
THEOREM OrphansNeedReset == Spec => []OrphansNeedOverlap
<1>1. ImportInv => OrphansNeedOverlap
  BY DEF ImportInv
<1>2. QED BY <1>1, ImportInvariant, PTL
=============================================================================
