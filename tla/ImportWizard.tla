---------------------------- MODULE ImportWizard ----------------------------
(***************************************************************************)
(* The Fidelity imports of trade-tracker/api/routers/imports.py: a file is *)
(* previewed (parsed and staged in _preview_cache), and the staged preview *)
(* is committed; the older POST /import/trades does both at once.  Next to *)
(* them run DELETE /import/positions and DELETE /trades/reset.             *)
(*                                                                         *)
(* Every handler is a coroutine that issues one autocommitted statement    *)
(* after the other; one action is one statement with the code up to the    *)
(* next await, and any two handlers interleave between statements.         *)
(*                                                                         *)
(* An operation is named by a number, in the order the operations start;   *)
(* for an import this is the id fidelity_imports hands out.                *)
(***************************************************************************)
EXTENDS Integers, Sequences, FiniteSets, FiniteSetsExt

CONSTANTS Files,      \* what can be uploaded, see FileRecord
          Portfolio,  \* the account id 'PORTFOLIO' of the older upload
          Quantities, \* quantities a user may type into the diff
          NoJob, NoPosition, NoPreview,
          Gone,       \* a preview no longer in the cache
          MaxOps,     \* bound: operations of one behaviour
          MaxPreviews,\* bound: previews of one behaviour
          MaxFaults   \* bound: failing statements, lost processes

Lot == [acct : STRING, sym : STRING, qty : Nat, price : Nat, day : Nat,
        side : {"BUY", "SELL"}]

\* lots: the trades the parser returns, in the order of the file; bad: rows
\* it reports as errors; accounts: account_ids, all accounts of the file;
\* raises: the parser raises.
FileRecord == [lots : Seq(Lot), bad : Nat, accounts : SUBSET STRING, raises : BOOLEAN]

ASSUME WizardAssumption ==
    /\ \A f \in Files :
          /\ f.lots \in Seq(Lot) /\ f.bad \in Nat /\ f.raises \in BOOLEAN
          /\ \A i \in DOMAIN f.lots : f.lots[i].acct \in f.accounts
    /\ Quantities \subseteq Nat
    /\ NoPreview # Gone
    /\ MaxOps \in Nat /\ MaxPreviews \in Nat /\ MaxFaults \in Nat

Ops == 1..MaxOps
Previews == 1..MaxPreviews

-----------------------------------------------------------------------------
(* What a file says.                                                       *)

LotsOf(f) == {f.lots[i] : i \in DOMAIN f.lots}

\* Mutant: the duplicate check forgets the account.
DedupKeyOfSymbol(l) == <<l.sym, l.qty, l.price, l.day>>

\* The columns the duplicate check compares; the side is not among them.
DedupKey(l) == <<l.acct, l.sym, l.qty, l.price, l.day>>

PosKey(l) == <<l.acct, l.sym>>
PosKeys == UNION {{<<a, l.sym>> : a \in f.accounts, l \in LotsOf(f)} : f \in Files}

\* Quantities are added up per account and symbol, purchases and sales alike.
NewQuantity(f, k) ==
    LET lines == {i \in DOMAIN f.lots : PosKey(f.lots[i]) = k}
        qty(i) == f.lots[i].qty
    IN  MapThenSumSet(qty, lines)

\* The new snapshot the preview suggests, a function from position keys.
Suggested(f) ==
    LET held == {k \in {PosKey(l) : l \in LotsOf(f)} : NewQuantity(f, k) > 0}
    IN  [k \in held |-> NewQuantity(f, k)]

\* What the wizard sends back: one quantity of the diff may have been edited,
\* also of a symbol the file no longer lists; quantity 0 removes it.
Edited(f, k, q) ==
    [j \in (DOMAIN Suggested(f) \cup {k}) \ (IF q = 0 THEN {k} ELSE {}) |->
        IF j = k THEN q ELSE Suggested(f)[j]]
Bodies(f) == {Suggested(f)} \cup
             {Edited(f, k, q) : k \in {j \in PosKeys : j[1] \in f.accounts},
                                q \in Quantities}

-----------------------------------------------------------------------------
VARIABLES trades,     \* rows of table trades: the lot, the import, its line
          positions,  \* imported_positions by account and symbol
          imports,    \* status column of fidelity_imports
          previews,   \* _preview_cache
          pc,         \* where each operation stands
          job,        \* the local variables of an operation
          overlap,    \* pairs of operations that ran at the same time
          faults      \* failures so far

vars == <<trades, positions, imports, previews, pc, job, overlap, faults>>

\* The body of a commit, and what an import keeps in its local variables:
\* body is body.positions or an upload's aggregate, line the number of trades
\* handled, left the positions still to insert.
IsBody(body) == DOMAIN body \subseteq PosKeys /\ \A k \in DOMAIN body : body[k] \in Nat
IsImportJob(j) ==
    /\ DOMAIN j = {"kind", "file", "preview", "body", "line", "left", "success", "errors"}
    /\ j.kind \in {"commit", "upload"}
    /\ j.file \in Files
    /\ j.preview \in Previews \cup {NoPreview}
    /\ IsBody(j.body)
    /\ j.left \subseteq DOMAIN j.body
    /\ j.line \in 0..Len(j.file.lots)
    /\ j.success \in Nat /\ j.errors \in Nat
ResetJob == [kind |-> "reset"]
DeleteJob == [kind |-> "delete"]

TradeRow == [import : Ops, line : Nat, lot : UNION {LotsOf(f) : f \in Files}]
PreviewEntry == [file : Files, live : BOOLEAN]
PositionRow == [qty : Nat, import : Ops]
Status == {"none", "pending", "success", "partial", "error", "deleted"}

Init ==
    /\ trades = {}
    /\ positions = [k \in PosKeys |-> NoPosition]
    /\ imports = [o \in Ops |-> "none"]
    /\ previews = [p \in Previews |-> NoPreview]
    /\ pc = [o \in Ops |-> "new"]
    /\ job = [o \in Ops |-> NoJob]
    /\ overlap = {}
    /\ faults = 0

Running(o) == pc[o] \notin {"new", "done", "dead"}

\* Operations get their numbers in the order they start.
IsNextOp(o) == pc[o] = "new" /\ \A n \in 1..(o - 1) : pc[n] # "new"

Begin(o, j, label) ==
    /\ IsNextOp(o)
    /\ job' = [job EXCEPT ![o] = j]
    /\ pc' = [pc EXCEPT ![o] = label]
    /\ overlap' = overlap \cup UNION {{<<n, o>>, <<o, n>>} : n \in {m \in Ops : Running(m)}}

\* Mutant: the import goes through every row of the diff.
NewImportOfDiff(kind, f, p, body, errors) ==
    [kind |-> kind, file |-> f, preview |-> p, body |-> body, line |-> 0,
     left |-> PosKeys, success |-> 0, errors |-> errors]

NewImport(kind, f, p, body, errors) ==
    [kind |-> kind, file |-> f, preview |-> p, body |-> body, line |-> 0,
     left |-> DOMAIN body, success |-> 0, errors |-> errors]

Goto(o, label) == pc' = [pc EXCEPT ![o] = label]

\* Bound: a behaviour with a fault has one preview less.
HasRoom == Cardinality({p \in Previews : previews[p] # NoPreview}) + faults < MaxPreviews

-----------------------------------------------------------------------------
(* POST /import/preview                                                    *)

IsStaged(p, live) == previews[p] \notin {NoPreview, Gone} /\ previews[p].live = live

\* _stage_preview: expired entries are purged, then the new one is added.
Stage(p, f) ==
    previews' = [q \in Previews |-> IF q = p THEN [file |-> f, live |-> TRUE]
                                   ELSE IF IsStaged(q, FALSE) THEN Gone ELSE previews[q]]

PreviewImport(p, f) ==
    /\ HasRoom
    /\ previews[p] = NoPreview
    /\ \A q \in 1..(p - 1) : previews[q] # NoPreview
    /\ ~f.raises
    /\ Stage(p, f)
    /\ UNCHANGED <<trades, positions, imports, pc, job, overlap, faults>>

\* _PREVIEW_TTL_SECONDS have passed.
PreviewExpires(p) ==
    /\ IsStaged(p, TRUE)
    /\ previews' = [previews EXCEPT ![p].live = FALSE]
    /\ UNCHANGED <<trades, positions, imports, pc, job, overlap, faults>>

\* Mutant: a preview stays until it expires.
KeepPreview(p) == UNCHANGED previews

Pop(p) == previews' = [previews EXCEPT ![p] = Gone]

-----------------------------------------------------------------------------
(* POST /import/commit and POST /import/trades, statement by statement.    *)

\* _preview_cache.get, then INSERT INTO fidelity_imports.
BeginCommit(o, p) ==
    /\ IsStaged(p, TRUE)
    /\ \E body \in Bodies(previews[p].file) :
          Begin(o, NewImport("commit", previews[p].file, p, body, 0), "lines")
    /\ imports' = [imports EXCEPT ![o] = "pending"]
    /\ UNCHANGED <<trades, positions, previews, faults>>

\* 404: the preview is expired or unknown, and is dropped.
RejectCommit(p) ==
    /\ IsStaged(p, FALSE)
    /\ Pop(p)
    /\ UNCHANGED <<trades, positions, imports, pc, job, overlap, faults>>

\* The upload parses right after its INSERT, the next statement depends on it.
BeginUpload(o, f) ==
    /\ f.accounts = {Portfolio}
    /\ Begin(o, NewImport("upload", f, NoPreview, Suggested(f), f.bad),
             IF f.raises THEN "refuse" ELSE "clear")
    /\ imports' = [imports EXCEPT ![o] = "pending"]
    /\ UNCHANGED <<trades, positions, previews, faults>>

\* An UPDATE of an import that a reset deleted changes no row.
SetStatus(o, status) ==
    imports' = [imports EXCEPT ![o] = IF @ = "deleted" THEN @ ELSE status]

RefuseUpload(o) ==
    /\ pc[o] = "refuse"
    /\ SetStatus(o, "error")
    /\ Goto(o, "done")
    /\ UNCHANGED <<trades, positions, previews, job, overlap, faults>>

LotAt(o) == job[o].file.lots[job[o].line + 1]
HasLine(o) == pc[o] = "lines" /\ job[o].line < Len(job[o].file.lots)

\* Mutant: the commit makes the upload's mistake.
SourceSoughtPortfolio(kind) == "portfolio"

\* The commit looks for the source the parsers set, 'fidelity'; the upload for
\* 'portfolio', which no parser sets.
SourceSought(kind) == IF kind = "commit" THEN "fidelity" ELSE "portfolio"
\* Mutant: only rows of the same import are duplicates.
ExistingOfImport(o) == {t \in trades : /\ t.import = o
                                       /\ DedupKey(t.lot) = DedupKey(LotAt(o))}
Existing(o) == {t \in trades : /\ SourceSought(job[o].kind) = "fidelity"
                               /\ DedupKey(t.lot) = DedupKey(LotAt(o))}

NextLine(o) == [job[o] EXCEPT !.line = @ + 1]

\* SELECT id FROM trades ...: there is such a row, the trade is skipped.
SkipLine(o) ==
    /\ HasLine(o)
    /\ Existing(o) # {}
    /\ job' = [job EXCEPT ![o] = NextLine(o)]
    /\ UNCHANGED <<trades, positions, imports, previews, pc, overlap, faults>>

CheckLine(o) ==
    /\ HasLine(o)
    /\ Existing(o) = {}
    /\ Goto(o, "insert")
    /\ UNCHANGED <<trades, positions, imports, previews, job, overlap, faults>>

NewRow(o) == [import |-> o, line |-> job[o].line, lot |-> LotAt(o)]

InsertLine(o) ==
    /\ pc[o] = "insert"
    /\ trades' = trades \cup {NewRow(o)}
    /\ job' = [job EXCEPT ![o] = [NextLine(o) EXCEPT !.success = @ + 1]]
    /\ Goto(o, "lines")
    /\ UNCHANGED <<positions, imports, previews, overlap, faults>>

\* The INSERT raises and the loop goes on; a lost connection may hide that
\* the row was written.
InsertLineFails(o) ==
    /\ faults < MaxFaults /\ HasRoom
    /\ faults' = faults + 1
    /\ pc[o] = "insert"
    /\ trades' \in {trades, trades \cup {NewRow(o)}}
    /\ job' = [job EXCEPT ![o] = [NextLine(o) EXCEPT !.errors = @ + 1]]
    /\ Goto(o, "lines")
    /\ UNCHANGED <<positions, imports, previews, overlap>>

\* After the trades a commit clears the positions of its accounts, when it has
\* any; an upload, which cleared first, goes on to the new positions.
LinesDone(o) == pc[o] = "lines" /\ job[o].line = Len(job[o].file.lots)

\* Mutant: the upserts alone replace what is there.
ClearedNone(accounts) == positions

Cleared(accounts) ==
    [k \in PosKeys |-> IF k[1] \in accounts THEN NoPosition ELSE positions[k]]

\* DELETE FROM imported_positions WHERE account_id ...
ClearPositions(o) ==
    /\ \/ pc[o] = "clear" /\ Goto(o, "lines")
       \/ LinesDone(o) /\ job[o].kind = "commit" /\ Goto(o, "positions")
    /\ positions' = Cleared(job[o].file.accounts)
    /\ UNCHANGED <<trades, imports, previews, job, overlap, faults>>

\* INSERT ... ON CONFLICT (account_id, symbol) DO UPDATE, one per position.
\* The order, that of the sorted keys, is left open.
UpsertPosition(o, k) ==
    /\ pc[o] = "positions" \/ (LinesDone(o) /\ job[o].kind = "upload")
    /\ k \in job[o].left
    /\ positions' = [positions EXCEPT ![k] = [qty |-> job[o].body[k], import |-> o]]
    /\ job' = [job EXCEPT ![o].left = @ \ {k}]
    /\ Goto(o, "positions")
    /\ UNCHANGED <<trades, imports, previews, overlap, faults>>

FinalStatus(o) ==
    IF job[o].success = 0 /\ job[o].errors > 0 THEN "error"
    ELSE IF job[o].errors > 0 THEN "partial" ELSE "success"

\* UPDATE fidelity_imports; the commit then drops its preview.
FinishImport(o) ==
    /\ pc[o] = "positions" \/ (LinesDone(o) /\ job[o].kind = "upload")
    /\ job[o].left = {}
    /\ SetStatus(o, FinalStatus(o))
    /\ Goto(o, "done")
    /\ IF job[o].kind = "commit" THEN Pop(job[o].preview) ELSE UNCHANGED previews
    /\ UNCHANGED <<trades, positions, job, overlap, faults>>

-----------------------------------------------------------------------------
(* DELETE /import/positions and DELETE /trades/reset.                      *)

\* One account, or all of them.
DeletePositions(o, accounts) ==
    /\ Begin(o, DeleteJob, "done")
    /\ positions' = Cleared(accounts)
    /\ UNCHANGED <<trades, imports, previews, faults>>

\* Mutant: the trades stay.
BeginResetKeepsTrades(o) ==
    /\ Begin(o, ResetJob, "reset positions")
    /\ UNCHANGED <<trades, positions, imports, previews, faults>>

\* Four statements; portfolio_snapshots, the second, belongs to Snapshots.
BeginReset(o) ==
    /\ Begin(o, ResetJob, "reset positions")
    /\ trades' = {}
    /\ UNCHANGED <<positions, imports, previews, faults>>

ResetPositions(o) ==
    /\ pc[o] = "reset positions"
    /\ positions' = [k \in PosKeys |-> NoPosition]
    /\ Goto(o, "reset imports")
    /\ UNCHANGED <<trades, imports, previews, job, overlap, faults>>

ResetImports(o) ==
    /\ pc[o] = "reset imports"
    /\ imports' = [n \in Ops |-> IF imports[n] = "none" THEN "none" ELSE "deleted"]
    /\ Goto(o, "done")
    /\ UNCHANGED <<trades, positions, previews, job, overlap, faults>>

-----------------------------------------------------------------------------
(* What goes wrong.                                                        *)

\* Any statement but the INSERT of a trade raises out of its handler, which
\* answers 500 and undoes nothing.
StatementFails(o) ==
    /\ faults < MaxFaults /\ HasRoom
    /\ faults' = faults + 1
    /\ Running(o) /\ pc[o] # "insert"
    /\ Goto(o, "dead")
    /\ UNCHANGED <<trades, positions, imports, previews, job, overlap>>

\* The process ends and is started again: the handlers and the previews are gone.
Restart ==
    /\ faults < MaxFaults /\ HasRoom
    /\ faults' = faults + 1
    /\ pc' = [o \in Ops |-> IF Running(o) THEN "dead" ELSE pc[o]]
    /\ previews' = [p \in Previews |-> IF previews[p] = NoPreview THEN NoPreview ELSE Gone]
    /\ UNCHANGED <<trades, positions, imports, job, overlap>>

-----------------------------------------------------------------------------
Import(o) ==
    \/ \E p \in Previews : BeginCommit(o, p)
    \/ \E f \in Files : BeginUpload(o, f)
    \/ RefuseUpload(o)
    \/ SkipLine(o) \/ CheckLine(o) \/ InsertLine(o) \/ InsertLineFails(o)
    \/ ClearPositions(o)
    \/ \E k \in PosKeys : UpsertPosition(o, k)
    \/ FinishImport(o)
    \/ StatementFails(o)

Accounts == {k[1] : k \in PosKeys}
Delete(o) == \E accounts \in {{a} : a \in Accounts} \cup {Accounts} : DeletePositions(o, accounts)
Reset(o) == BeginReset(o) \/ ResetPositions(o) \/ ResetImports(o)

Next ==
    \/ \E o \in Ops : Import(o) \/ Delete(o) \/ Reset(o)
    \/ \E p \in Previews : \/ \E f \in Files : PreviewImport(p, f)
                           \/ PreviewExpires(p) \/ RejectCommit(p)
    \/ Restart

Spec == Init /\ [][Next]_vars

-----------------------------------------------------------------------------
Labels == {"new", "lines", "refuse", "clear", "insert", "positions",
           "reset positions", "reset imports", "done", "dead"}

TypeOK ==
    /\ trades \subseteq TradeRow
    /\ positions \in [PosKeys -> PositionRow \cup {NoPosition}]
    /\ imports \in [Ops -> Status]
    /\ previews \in [Previews -> PreviewEntry \cup {NoPreview, Gone}]
    /\ pc \in [Ops -> Labels]
    /\ DOMAIN job = Ops
    /\ \A o \in Ops : job[o] \in {ResetJob, DeleteJob, NoJob} \/ IsImportJob(job[o])
    /\ overlap \subseteq Ops \X Ops
    /\ faults \in 0..MaxFaults

SameTrade(t, u) == t # u /\ DedupKey(t.lot) = DedupKey(u.lot)
IsReset(o) == job[o] = ResetJob
IsImport(o) == job[o] \notin {ResetJob, DeleteJob, NoJob}

\* A commit never adds a trade that is there already, neither on a second
\* import of the file nor on the retry after a commit that failed half way:
\* of two equal rows of which the later is a commit's, the two operations ran
\* at the same time.
CommitsSkipDuplicates ==
    \A t, u \in trades :
       /\ SameTrade(t, u)
       /\ t.import <= u.import
       /\ job[u.import].kind = "commit"
       => <<t.import, u.import>> \in overlap

\* The positions of an account come from one file: rows of two imports are
\* side by side only when the two ran at the same time.
OneImportPerAccount ==
    \A j, k \in PosKeys :
       /\ j[1] = k[1]
       /\ positions[j] # NoPosition /\ positions[k] # NoPosition
       /\ positions[j].import # positions[k].import
       => <<positions[j].import, positions[k].import>> \in overlap

\* The import that ran last and by itself, and reports success, left exactly
\* its positions: nothing of the snapshot before it, and none of its own lost.
LastSnapshotIsWhole ==
    \A o \in Ops :
       /\ imports[o] = "success"
       /\ \A n \in Ops : <<n, o>> \notin overlap /\ (n > o => pc[n] = "new")
       => \A k \in PosKeys : k[1] \in job[o].file.accounts =>
             positions[k] = IF k \in DOMAIN job[o].body
                            THEN [qty |-> job[o].body[k], import |-> o]
                            ELSE NoPosition

\* The loss the duplicate check brings, as it does not compare the side: a
\* commit leaves out trade i of its file for a trade of the other side, one of
\* a line before, of an earlier import or of one that ran at the same time.
Opposite(l) == [l EXCEPT !.side = IF @ = "BUY" THEN "SELL" ELSE "BUY"]
IsLostTo(t, o, i) ==
    /\ job[o].kind = "commit"
    /\ t.lot = Opposite(job[o].file.lots[i])
    /\ \/ t.import = o /\ t.line < i - 1
       \/ t.import < o
       \/ <<t.import, o>> \in overlap

\* An import that reports success left each trade of its file in the table, the
\* side included, as long as no reset ran next to it or after it; what it left
\* out it lost to an opposite trade that was there before.
SuccessMeansRecorded ==
    \A o \in Ops :
       /\ imports[o] = "success"
       /\ \A n \in Ops : IsReset(n) => n < o /\ <<n, o>> \notin overlap
       => \A i \in DOMAIN job[o].file.lots :
             \E t \in trades : t.lot = job[o].file.lots[i] \/ IsLostTo(t, o, i)

\* A preview is used up by the commit that finishes: two finished commits of
\* one preview ran at the same time.
PreviewUsedOnce ==
    \A o, n \in Ops :
       /\ o # n /\ pc[o] = "done" /\ pc[n] = "done"
       /\ IsImport(o) /\ IsImport(n)
       /\ job[o].preview = job[n].preview /\ job[o].preview # NoPreview
       => <<o, n>> \in overlap

\* A trade whose import record is gone was written while a reset ran: the
\* reset deletes the trades first and the import records last.
OrphansNeedOverlap ==
    \A t \in trades : imports[t.import] = "deleted" =>
       \E n \in Ops : IsReset(n) /\ <<n, t.import>> \in overlap

\* POST /import/trades: "Duplicate rows are skipped" (its docstring).
UploadsSkipDuplicates ==
    \A t, u \in trades : t # u /\ t.lot = u.lot => <<t.import, u.import>> \in overlap
=============================================================================
