----------------------------- MODULE MarketData -----------------------------
(***************************************************************************)
(* Quotes and daily bars, trade-tracker/api/services/market_data.py with   *)
(* first_rate_data.py: two caches with expiry, shared by all the threads,  *)
(* in front of three providers that are asked one after the other.         *)
(*                                                                         *)
(* A call looks into the cache, asks its providers (each request may take  *)
(* seconds, and other calls run meanwhile) and stores what it got; of bars *)
(* it also stores that there are none.  The history of one period stands   *)
(* for all: the cache keys of different periods have nothing in common.    *)
(* Nor have quotes and bars, so that a behaviour has calls of one sort.     *)
(***************************************************************************)
EXTENDS Integers, Sequences, FiniteSets, Functions

CONSTANTS Threads,    \* threads that run calls
          Symbols,
          Lists,      \* the symbols each provider knows, by provider
          Bundles,    \* what the files of FirstRateData may hold
          Requests,   \* what a thread may ask for together, by the calls' sort
          NoQuote, NoBars,
          MaxEvents   \* bound: outages and bad downloads of a behaviour

Providers == {"firstrate", "yahoo", "ibkr"}

ASSUME MarketAssumption ==
    /\ Lists \in [Providers \ {"firstrate"} -> SUBSET Symbols]
    /\ Bundles \subseteq SUBSET Symbols
    /\ Symbols # {}
    /\ Requests \in [{"quotes", "bars"} -> [Threads -> SUBSET ((SUBSET Symbols) \ {{}})]]
    /\ MaxEvents \in Nat

\* get_quote, get_yfinance_quote, get_latest_prices; the portfolio's warming of
\* the cache with quotes of Yahoo and getting each of them; get_historical_bars
\* and get_historical_bars_batch.
YahooKinds == {"yahoo quote", "yahoo prices"}
QuoteKinds == {"quote", "prices"} \cup YahooKinds
BarKinds == {"bars", "batch"}

\* The order in which the providers are asked for one symbol.
Route(kind) ==
    CASE kind \in YahooKinds              -> <<"yahoo">>
      [] kind \in QuoteKinds \ YahooKinds -> <<"firstrate", "ibkr", "yahoo">>
      [] kind \in BarKinds                -> <<"firstrate", "yahoo", "ibkr">>

-----------------------------------------------------------------------------
VARIABLES about,   \* the cache the calls of this behaviour are about
          bundle,  \* the symbols in the files of FirstRateData, if any
          quotes,  \* _price_cache: the source of each quote
          bars,    \* _hist_cache: whether there are any
          up,      \* which providers answer
          pc,      \* where each thread stands
          call,    \* its local variables
          trouble, \* history: providers that failed at some time in the call
          moved,   \* history: bars stored since the call looked for them
          events

vars == <<about, bundle, quotes, bars, up, pc, call, trouble, moved, events>>

\* syms: what was asked for; missing: what the cache did not have; left: what
\* is still to do; sym, at: the symbol in hand and its place in the route; got:
\* symbols with an answer; old: symbols the cache answered with no bars;
\* attempts: downloads of a batch left; warm: prices fill the cache first.
Call == [kind : QuoteKinds \cup BarKinds, syms : SUBSET Symbols,
         missing : SUBSET Symbols, left : SUBSET Symbols, sym : Symbols,
         at : 1..3, got : SUBSET Symbols, old : SUBSET Symbols, attempts : 0..2,
         warm : BOOLEAN]

\* by: history, the thread whose call found no bars; excused: history, that
\* call had met trouble at every provider that knows the symbol.
Full == [any |-> TRUE]
BarsEntry == {Full} \cup [any : {FALSE}, by : Threads, excused : BOOLEAN]

NoCall == [kind |-> "quote", syms |-> {}, missing |-> {}, left |-> {},
           sym |-> CHOOSE s \in Symbols : TRUE, at |-> 1, got |-> {}, old |-> {},
           attempts |-> 0, warm |-> FALSE]

Init ==
    /\ about \in {"quotes", "bars"}
    /\ bundle \in Bundles
    /\ quotes = [s \in Symbols |-> NoQuote]
    /\ bars = [s \in Symbols |-> NoBars]
    /\ up \in [Providers -> BOOLEAN]
    /\ up["firstrate"]
    /\ pc = [t \in Threads |-> "idle"]
    /\ call = [t \in Threads |-> NoCall]
    /\ trouble = [t \in Threads |-> {}]
    /\ moved = [t \in Threads |-> {}]
    /\ events = 0

Goto(t, label, record) ==
    /\ pc' = [pc EXCEPT ![t] = label]
    /\ call' = [call EXCEPT ![t] = record]

Knows(p, s) == s \in IF p = "firstrate" THEN bundle ELSE Lists[p]
Serves(p, s) == up[p] /\ Knows(p, s)

\* The providers that could have answered.
Sources(kind, s) == {p \in Range(Route(kind)) : Knows(p, s)}

HasBars(s) == bars[s] # NoBars /\ bars[s].any
IsEmpty(s) == bars[s] # NoBars /\ ~bars[s].any

\* Mutant: the entries that have not expired count as misses.
IsCachedInverted(s) == FALSE

\* _cached_bars: None is a miss, an empty list is not.
IsCached(s) == bars[s] # NoBars

IsExcused(t, s) == Sources("bars", s) \subseteq trouble'[t]

\* _store_bars for some symbols.
Store(t, full, empty) ==
    /\ bars' = [s \in Symbols |->
          IF s \in full THEN Full
          ELSE IF s \in empty THEN [any |-> FALSE, by |-> t, excused |-> IsExcused(t, s)]
          ELSE bars[s]]
    /\ moved' = [u \in Threads |-> moved[u] \cup ((full \cup empty) \cap call[u].syms)]

-----------------------------------------------------------------------------
(* The calls for one symbol, and the loops over them.                      *)

\* A cached quote serves every caller, but those that want Yahoo's.
IsQuoted(kind, s) ==
    /\ quotes[s] # NoQuote
    /\ kind \in YahooKinds => quotes[s] = "yahoo"

\* The loops go through the symbols in a fixed order, sorted.
IsNextOf(t, s) == call[t].left # {} /\ s = CHOOSE n \in call[t].left : TRUE

\* The symbol in hand has its answer, the loop goes on.
Settled(t, s, found, cached) ==
    [call[t] EXCEPT !.left = @ \ {s}, !.at = 1, !.sym = NoCall.sym,
                    !.got = IF found THEN @ \cup {s} ELSE @ \ {s},
                    !.old = IF cached /\ ~found THEN @ \cup {s} ELSE @]

\* A batch goes on to IBKR, for the symbols without bars.
AskTheRest(t, batch) ==
    LET left == batch.missing \ batch.got
    IN  Goto(t, IF left = {} THEN "done" ELSE "last", [batch EXCEPT !.left = left])

\* Through with the symbols, a call that has warmed the cache gets the quotes,
\* and a batch asks IBKR for what it lacks.
Advance(t, record) ==
    IF record.left # {} THEN Goto(t, "next", record)
    ELSE IF record.warm
    THEN Goto(t, "next", [record EXCEPT !.warm = FALSE, !.left = record.syms])
    ELSE IF record.kind = "batch" THEN AskTheRest(t, record)
    ELSE Goto(t, "done", record)

Start(t, kind, syms) ==
    /\ pc[t] = "idle"
    /\ syms \in Requests[about][t]
    /\ kind \in IF about = "quotes" THEN QuoteKinds ELSE BarKinds
    /\ kind \in {"prices", "yahoo prices", "batch"} \/ Cardinality(syms) = 1
    /\ trouble' = [trouble EXCEPT ![t] = {p \in Providers : ~up[p]}]
    /\ LET record == [NoCall EXCEPT !.kind = kind, !.syms = syms, !.left = syms]
       IN  CASE kind = "batch" -> Goto(t, "begin", [record EXCEPT !.attempts = 2])
             [] kind \in {"prices", "yahoo prices"} ->
                   Advance(t, [record EXCEPT !.warm = TRUE,
                                             !.left = {s \in syms : quotes[s] = NoQuote}])
             [] OTHER          -> Goto(t, "next", record)
    /\ UNCHANGED <<about, bundle, quotes, bars, up, moved, events>>

\* The cache first; also for each symbol a failed batch falls back to.
Look(t, s) ==
    /\ pc[t] = "next"
    /\ IsNextOf(t, s)
    /\ IF call[t].kind \in QuoteKinds /\ IsQuoted(call[t].kind, s)
       THEN Advance(t, Settled(t, s, TRUE, TRUE)) /\ UNCHANGED moved
       ELSE IF call[t].kind \in BarKinds /\ IsCached(s)
       THEN Advance(t, Settled(t, s, HasBars(s), TRUE)) /\ UNCHANGED moved
       ELSE /\ Goto(t, "ask", [call[t] EXCEPT !.sym = s, !.at = 1])
            /\ moved' = [moved EXCEPT ![t] = @ \ {s}]
    /\ UNCHANGED <<about, bundle, quotes, bars, up, trouble, events>>

Asked(t) == Route(call[t].kind)[call[t].at]

Found(t) ==
    /\ pc[t] = "ask"
    /\ UNCHANGED <<about, bundle, up, trouble, events>>
    /\ LET s == call[t].sym
       IN  /\ Serves(Asked(t), s)
           /\ Advance(t, Settled(t, s, TRUE, FALSE))
           /\ IF call[t].kind \in QuoteKinds
              THEN quotes' = [quotes EXCEPT ![s] = Asked(t)] /\ UNCHANGED <<bars, moved>>
              ELSE Store(t, {s}, {}) /\ UNCHANGED quotes

\* An empty answer, no session, or an error that the provider's function catches:
\* the next provider.  The exceptions that leave a call without an answer, of a
\* file that cannot be read and of a quote from IBKR, are left out.
AskNext(t) ==
    /\ pc[t] = "ask"
    /\ ~Serves(Asked(t), call[t].sym)
    /\ call[t].at < Len(Route(call[t].kind))
    /\ Goto(t, "ask", [call[t] EXCEPT !.at = @ + 1])
    /\ UNCHANGED <<about, bundle, quotes, bars, up, trouble, moved, events>>

\* Nobody has it.  Of bars that is remembered, for as long as bars are.
NotFound(t) ==
    /\ pc[t] = "ask"
    /\ ~Serves(Asked(t), call[t].sym)
    /\ call[t].at = Len(Route(call[t].kind))
    /\ UNCHANGED <<about, bundle, quotes, up, trouble, events>>
    /\ Advance(t, Settled(t, call[t].sym, FALSE, FALSE))
    /\ IF call[t].kind \in BarKinds THEN Store(t, {}, {call[t].sym})
       ELSE UNCHANGED <<bars, moved>>

-----------------------------------------------------------------------------
(* get_historical_bars_batch.                                              *)

\* The cache and the files of FirstRateData, then Yahoo for the rest.
BeginBatch(t) ==
    /\ pc[t] = "begin"
    /\ LET cached  == {s \in call[t].syms : IsCached(s)}
           bundled == (call[t].syms \ cached) \cap bundle
           missing == call[t].syms \ (cached \cup bundled)
           batch   == [call[t] EXCEPT !.missing = missing, !.left = missing,
                                      !.got = bundled \cup {s \in cached : HasBars(s)},
                                      !.old = {s \in cached : IsEmpty(s)}]
       IN  /\ Goto(t, IF missing = {} THEN "done" ELSE "download", batch)
           /\ bars' = [s \in Symbols |-> IF s \in bundled THEN Full ELSE bars[s]]
           /\ moved' = [u \in Threads |-> (IF u = t THEN moved[u] \ missing ELSE moved[u])
                                           \cup (bundled \cap call[u].syms)]
    /\ UNCHANGED <<about, bundle, quotes, up, trouble, events>>

MayHappen == events < MaxEvents

\* What one download brings: the bars of some symbols; and of some that Yahoo
\* does not know, or has nothing of, columns without values.
WithDownload(t, full, empty) ==
    [call[t] EXCEPT !.got = (@ \ empty) \cup full, !.left = @ \ (full \cup empty)]

\* yf.download answers with every symbol it knows.  With nothing at all the
\* data frame is empty, and that is an error.
Download(t) ==
    /\ pc[t] = "download"
    /\ up["yahoo"]
    /\ UNCHANGED <<about, bundle, quotes, up, trouble, events>>
    /\ LET full == call[t].missing \cap Lists["yahoo"]
       IN  \E empty \in SUBSET (call[t].missing \ full) :
              /\ full # {}
              /\ Store(t, full, empty)
              /\ AskTheRest(t, WithDownload(t, full, empty))

\* It leaves symbols out, or has no values of them, although Yahoo knows them.
DownloadLacks(t) ==
    /\ MayHappen /\ events' = events + 1
    /\ pc[t] = "download"
    /\ up["yahoo"]
    /\ trouble' = [trouble EXCEPT ![t] = @ \cup {"yahoo"}]
    /\ \E full \in SUBSET (call[t].missing \cap Lists["yahoo"]) :
       \E empty \in SUBSET (call[t].missing \ full) :
          /\ full \cup empty # {}
          /\ Store(t, full, empty)
          /\ AskTheRest(t, WithDownload(t, full, empty))
    /\ UNCHANGED <<about, bundle, quotes, up>>

\* Mutant: a download that fails is repeated as long as it fails.
AgainForEver(t, batch) == Goto(t, "download", [batch EXCEPT !.attempts = @ - 1])

Again(t, batch) ==
    IF batch.attempts > 1 THEN Goto(t, "download", [batch EXCEPT !.attempts = @ - 1])
    ELSE Advance(t, [batch EXCEPT !.attempts = 0])

\* Nothing came: once more, then every symbol without an entry by itself.
DownloadFails(t) ==
    /\ pc[t] = "download"
    /\ ~up["yahoo"] \/ call[t].missing \cap Lists["yahoo"] = {}
    /\ Again(t, call[t])
    /\ UNCHANGED <<about, bundle, quotes, bars, up, trouble, moved, events>>

\* A row of one symbol raises after the symbols before it were stored.
DownloadBreaks(t) ==
    /\ MayHappen /\ events' = events + 1
    /\ pc[t] = "download"
    /\ up["yahoo"]
    /\ trouble' = [trouble EXCEPT ![t] = @ \cup {"yahoo"}]
    /\ \E full \in SUBSET (call[t].missing \cap Lists["yahoo"]) :
       \E empty \in SUBSET (call[t].missing \ full) :
          /\ full \cup empty # call[t].missing
          /\ Store(t, full, empty)
          /\ Again(t, WithDownload(t, full, empty))
    /\ UNCHANGED <<about, bundle, quotes, up>>

AskOn(t, batch) == Goto(t, IF batch.left = {} THEN "done" ELSE "last", batch)

\* Mutant: the last resort is forgotten.
AskIbkrNever(t, s) ==
    /\ pc[t] = "last"
    /\ IsNextOf(t, s)
    /\ AskOn(t, Settled(t, s, FALSE, FALSE))
    /\ UNCHANGED <<about, bundle, quotes, bars, up, trouble, moved, events>>

\* IBKR for each symbol still without bars; an empty answer is not stored.
AskIbkr(t, s) ==
    /\ pc[t] = "last"
    /\ IsNextOf(t, s)
    /\ UNCHANGED <<about, bundle, quotes, up, trouble, events>>
    /\ AskOn(t, Settled(t, s, Serves("ibkr", s), FALSE))
    /\ IF Serves("ibkr", s) THEN Store(t, {s}, {})
       ELSE /\ bars' = IF IsEmpty(s) /\ bars[s].by = t
                       THEN [bars EXCEPT ![s].excused = IsExcused(t, s)] ELSE bars
            /\ UNCHANGED moved

Return(t) ==
    /\ pc[t] = "done"
    /\ Goto(t, "idle", NoCall)
    /\ trouble' = [trouble EXCEPT ![t] = {}]
    /\ moved' = [moved EXCEPT ![t] = {}]
    /\ UNCHANGED <<about, bundle, quotes, bars, up, events>>

-----------------------------------------------------------------------------
(* Time and the providers.                                                 *)

\* PRICE_CACHE_TTL_SECONDS or HISTORICAL_CACHE_TTL_SECONDS have passed.
QuoteExpires(s) ==
    /\ quotes[s] # NoQuote
    /\ quotes' = [quotes EXCEPT ![s] = NoQuote]
    /\ UNCHANGED <<about, bundle, bars, up, pc, call, trouble, moved, events>>

\* Mutant: only bars expire, that there are none is kept.
BarsExpireFull(s) ==
    /\ HasBars(s)
    /\ bars' = [bars EXCEPT ![s] = NoBars]
    /\ UNCHANGED <<about, bundle, quotes, up, pc, call, trouble, moved, events>>

BarsExpire(s) ==
    /\ bars[s] # NoBars
    /\ bars' = [bars EXCEPT ![s] = NoBars]
    /\ UNCHANGED <<about, bundle, quotes, up, pc, call, trouble, moved, events>>

\* Yahoo limits the rate or fails; the IBKR session is lost.
GoesDown(p) ==
    /\ MayHappen /\ events' = events + 1
    /\ p # "firstrate" /\ up[p]
    /\ up' = [up EXCEPT ![p] = FALSE]
    /\ trouble' = [t \in Threads |-> IF pc[t] = "idle" THEN {} ELSE trouble[t] \cup {p}]
    /\ UNCHANGED <<about, bundle, quotes, bars, pc, call, moved>>

ComesBack(p) ==
    /\ ~up[p]
    /\ up' = [up EXCEPT ![p] = TRUE]
    /\ UNCHANGED <<about, bundle, quotes, bars, pc, call, trouble, moved, events>>

-----------------------------------------------------------------------------
Step(t) ==
    \/ \E s \in Symbols : Look(t, s) \/ AskIbkr(t, s)
    \/ Found(t) \/ AskNext(t) \/ NotFound(t)
    \/ BeginBatch(t) \/ Download(t) \/ DownloadFails(t) \/ Return(t)

Next ==
    \/ \E t \in Threads :
          \/ \E kind \in QuoteKinds \cup BarKinds, syms \in SUBSET Symbols : Start(t, kind, syms)
          \/ Step(t)
          \/ DownloadLacks(t) \/ DownloadBreaks(t)
    \/ \E s \in Symbols : QuoteExpires(s) \/ BarsExpire(s)
    \/ \E p \in Providers : GoesDown(p) \/ ComesBack(p)

\* Requests end, by their timeouts if not otherwise, and entries expire.
Fairness ==
    /\ \A t \in Threads : WF_vars(Step(t))
    /\ \A s \in Symbols : WF_vars(BarsExpire(s))

Spec == Init /\ [][Next]_vars
FairSpec == Spec /\ Fairness

-----------------------------------------------------------------------------
TypeOK ==
    /\ about \in {"quotes", "bars"}
    /\ bundle \in Bundles
    /\ quotes \in [Symbols -> Providers \cup {NoQuote}]
    /\ bars \in [Symbols -> BarsEntry \cup {NoBars}]
    /\ up \in [Providers -> BOOLEAN]
    /\ pc \in [Threads -> {"idle", "next", "ask", "begin", "download", "last", "done"}]
    /\ call \in [Threads -> Call]
    /\ trouble \in [Threads -> SUBSET Providers]
    /\ moved \in [Threads -> SUBSET Symbols]
    /\ events \in 0..MaxEvents

\* One provider suffices: a call that answers without a symbol met trouble at
\* every provider of its route that knows the symbol, unless the cache told it
\* that there are no bars.
MissingForCause ==
    \A t \in Threads : pc[t] = "done" =>
       \A s \in call[t].syms \ (call[t].got \cup call[t].old) :
          Sources(call[t].kind, s) \subseteq trouble[t]

\* A batch has stored that there are no bars, and IBKR is still to be asked.
IsProvisional(s) ==
    LET t == bars[s].by
    IN  call[t].kind = "batch" /\ pc[t] \in {"download", "next", "ask", "last"}
        /\ s \in call[t].missing

\* The cache says that a symbol has no bars only when the call that stored it
\* met trouble at every provider that knows the symbol, or while a batch is
\* under way.
EmptyForCause ==
    \A s \in Symbols : IsEmpty(s) =>
       bars[s].excused \/ IsProvisional(s)

\* An empty answer replaces bars in the cache only when these were stored
\* after the call with the empty answer had looked for them.
EmptyReplacesOnlyNewer ==
    [][\A s \in Symbols :
          HasBars(s) /\ IsEmpty(s)' => s \in moved[bars'[s].by]]_vars

\* After an outage: once the providers serve for good, the cache stops saying
\* of a symbol that Yahoo knows that it has no bars.
HistoryRecovers ==
    \A s \in Lists["yahoo"] :
       <>[](\A p \in Providers : up[p]) => <>[]~IsEmpty(s)
=============================================================================
