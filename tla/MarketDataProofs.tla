-------------------------- MODULE MarketDataProofs --------------------------
(***************************************************************************)
(* What MarketData keeps, for every number of threads, every set of        *)
(* symbols, whatever each provider knows and however often one fails.      *)
(*                                                                         *)
(* A call goes through its symbols provider by provider while others run.  *)
(* MissingForCause looks at it when it answers and EmptyForCause at what   *)
(* it has left in the cache; both follow from what a call knows at each    *)
(* line of the code about the symbols it has dealt with: that is Fine, of  *)
(* a line, a call's variables and the providers that failed meanwhile.     *)
(* Other threads change neither, but the cache, and EmptyInv and MovedInv  *)
(* say what a call that is under way may rely on there.                    *)
(***************************************************************************)
EXTENDS MarketData, TLAPS

Labels == {"idle", "next", "ask", "begin", "download", "last", "done"}
Kinds == QuoteKinds \cup BarKinds

-----------------------------------------------------------------------------
(* What a call knows.                                                      *)

\* The providers asked so far about the symbol in hand do not know it or failed.
AskFine(l, r, tr) ==
    l = "ask" =>
       /\ r.sym \in r.left
       /\ r.at <= Len(Route(r.kind))
       /\ \A i \in 1..(r.at - 1) :
             Knows(Route(r.kind)[i], r.sym) => Route(r.kind)[i] \in tr

\* A call other than a batch has an answer for every symbol it is through
\* with, unless its providers failed.
LoopFine(l, r, tr) ==
    r.kind # "batch" =>
       /\ l \in {"next", "ask", "done"}
       /\ r.left \subseteq r.syms
       /\ l = "done" => r.left = {} /\ ~r.warm
       /\ ~r.warm => \A s \in r.syms \ r.left :
             s \in r.got \cup r.old \/ Sources(r.kind, s) \subseteq tr

\* A batch misses only what the files lack; after the download only what Yahoo
\* lacks, and in the end what IBKR lacks, unless they failed.
BatchFine(l, r, tr) ==
    r.kind = "batch" =>
       /\ ~r.warm
       /\ l \in {"begin", "download", "next", "ask", "last", "done"}
       /\ l # "begin" =>
             /\ r.missing \subseteq r.syms \ bundle
             /\ r.syms \ r.missing \subseteq r.got \cup r.old
             /\ r.left \subseteq r.missing \ r.got
       /\ l \in {"next", "ask", "last", "done"} =>
             \A s \in r.missing \ r.got : Knows("yahoo", s) => "yahoo" \in tr
       /\ l \in {"last", "done"} =>
             \A s \in r.missing \ (r.left \cup r.got) :
                Knows("ibkr", s) => "ibkr" \in tr
       /\ l = "done" => r.left = {}

Fine(l, r, tr) ==
    l # "idle" => AskFine(l, r, tr) /\ LoopFine(l, r, tr) /\ BatchFine(l, r, tr)

\* While a call is under way its trouble holds whoever is down.
ThreadInv ==
    \A t \in Threads :
       /\ Fine(pc[t], call[t], trouble[t])
       /\ pc[t] # "idle" => \A p \in Providers : ~up[p] => p \in trouble[t]

-----------------------------------------------------------------------------
(* What a call may rely on in the cache.                                   *)

\* A batch is going to ask IBKR for a symbol.
Awaits(t, s) ==
    /\ call[t].kind = "batch"
    /\ pc[t] \in {"download", "next", "ask", "last"}
    /\ s \in call[t].missing \ call[t].got
    /\ pc[t] = "last" => s \in call[t].left

EmptyInv ==
    \A s \in Symbols : IsEmpty(s) => bars[s].excused \/ Awaits(bars[s].by, s)

\* The call's next step may store that a symbol has no bars.
MayStore(t, s) ==
    \/ pc[t] = "ask" /\ call[t].kind \in BarKinds /\ s = call[t].sym
    \/ pc[t] = "download" /\ s \in call[t].missing

\* It looked and found none: bars that are there now came later.
MovedInv ==
    \A t \in Threads, s \in Symbols : MayStore(t, s) /\ HasBars(s) => s \in moved[t]

IInv == TypeOK /\ ThreadInv /\ EmptyInv /\ MovedInv

-----------------------------------------------------------------------------
(* Routes.                                                                 *)

\* Route: the order for each kind of call.
LEMMA RouteIs ==
    /\ \A kind \in YahooKinds : Route(kind) = <<"yahoo">>
    /\ \A kind \in QuoteKinds \ YahooKinds :
          Route(kind) = <<"firstrate", "ibkr", "yahoo">>
    /\ \A kind \in BarKinds : Route(kind) = <<"firstrate", "yahoo", "ibkr">>
  BY DEF Route, YahooKinds, QuoteKinds, BarKinds

\* A route is a short sequence of providers.
LEMMA RouteType ==
    ASSUME NEW kind \in Kinds
    PROVE  /\ Len(Route(kind)) \in 1..3
           /\ \A i \in 1..Len(Route(kind)) : Route(kind)[i] \in Providers
           /\ Range(Route(kind)) = {Route(kind)[i] : i \in 1..Len(Route(kind))}
<1>1. CASE kind \in YahooKinds
  BY <1>1, RouteIs DEF Range, Providers
<1>2. CASE kind \in QuoteKinds \ YahooKinds
  BY <1>2, RouteIs DEF Range, Providers
<1>3. CASE kind \in BarKinds
  BY <1>3, RouteIs DEF Range, Providers
<1> QED
  BY <1>1, <1>2, <1>3 DEF Kinds

\* Sources: a provider of the route that knows the symbol has a place in it.
LEMMA SourceOnRoute ==
    ASSUME NEW kind \in Kinds, NEW s, NEW p \in Sources(kind, s)
    PROVE  \E i \in 1..Len(Route(kind)) : p = Route(kind)[i] /\ Knows(p, s)
  BY RouteType DEF Sources

\* For bars every provider is asked.
LEMMA BarSources ==
    ASSUME NEW kind \in BarKinds, NEW s
    PROVE  Sources(kind, s) = {p \in Providers : Knows(p, s)}
<1>1. Route(kind) = <<"firstrate", "yahoo", "ibkr">>
  BY RouteIs
<1>2. Range(Route(kind)) = Providers
  BY <1>1 DEF Range, Providers
<1> QED
  BY <1>2 DEF Sources

-----------------------------------------------------------------------------
(* Types.                                                                  *)

LEMMA NoCallType == NoCall \in Call
<1>1. NoCall.sym \in Symbols
  BY MarketAssumption DEF NoCall
<1> QED
  BY <1>1 DEF NoCall, Call, QuoteKinds, BarKinds

\* Goto: the thread in hand gets its line and variables, the others keep theirs.
LEMMA GotoStep ==
    ASSUME TypeOK, NEW t \in Threads, NEW l \in Labels, NEW r \in Call, Goto(t, l, r)
    PROVE  /\ pc' \in [Threads -> Labels]
           /\ call' \in [Threads -> Call]
           /\ pc'[t] = l /\ call'[t] = r
           /\ \A u \in Threads \ {t} : pc'[u] = pc[u] /\ call'[u] = call[u]
  BY DEF Goto, TypeOK, Labels

\* AskTheRest: what is left is what has no bars.
LEMMA AskTheRestStep ==
    ASSUME TypeOK, NEW t \in Threads, NEW r \in Call, AskTheRest(t, r),
           r.kind = "batch"
    PROVE  /\ pc' \in [Threads -> Labels]
           /\ call' \in [Threads -> Call]
           /\ \A u \in Threads \ {t} : pc'[u] = pc[u] /\ call'[u] = call[u]
           /\ pc'[t] \in {"last", "done"}
           /\ call'[t].kind = r.kind /\ call'[t].syms = r.syms
           /\ call'[t].missing = r.missing /\ call'[t].got = r.got
           /\ call'[t].left = r.missing \ r.got
           /\ \A tr : Fine("next", r, tr) => Fine(pc'[t], call'[t], tr)
           /\ pc'[t] = "done" <=> r.missing \ r.got = {}
<1> DEFINE q == [r EXCEPT !.left = r.missing \ r.got]
           l == IF r.missing \ r.got = {} THEN "done" ELSE "last"
<1>1. Goto(t, l, q)
  BY DEF AskTheRest
<1>2. /\ q \in Call /\ q.kind = r.kind /\ q.syms = r.syms /\ q.warm = r.warm
      /\ q.left = r.missing \ r.got /\ q.old = r.old
      /\ q.missing = r.missing /\ q.got = r.got
  BY DEF Call
<1>3. l \in {"last", "done"} /\ (l = "done" <=> r.missing \ r.got = {})
  OBVIOUS
<1> HIDE DEF q, l
<1>4. /\ pc' \in [Threads -> Labels] /\ call' \in [Threads -> Call]
      /\ pc'[t] = l /\ call'[t] = q
      /\ \A u \in Threads \ {t} : pc'[u] = pc[u] /\ call'[u] = call[u]
  BY <1>1, <1>2, <1>3, GotoStep DEF Labels
<1>5. ASSUME NEW tr, Fine("next", r, tr) PROVE Fine(l, q, tr)
  BY <1>2, <1>3, <1>5 DEF Fine, AskFine, LoopFine, BatchFine
<1> QED
  BY <1>2, <1>3, <1>4, <1>5

\* Advance: on to the next symbol, or to what follows the last one, with all
\* that is known of the symbols dealt with.
LEMMA AdvanceStep ==
    ASSUME TypeOK, NEW t \in Threads, NEW r \in Call, Advance(t, r)
    PROVE  /\ pc' \in [Threads -> Labels]
           /\ call' \in [Threads -> Call]
           /\ \A u \in Threads \ {t} : pc'[u] = pc[u] /\ call'[u] = call[u]
           /\ pc'[t] \in {"next", "last", "done"}
           /\ call'[t].kind = r.kind /\ call'[t].syms = r.syms
           /\ call'[t].missing = r.missing /\ call'[t].got = r.got
           /\ \A tr : Fine("next", r, tr) => Fine(pc'[t], call'[t], tr)
           /\ r.kind = "batch" /\ ~r.warm /\ pc'[t] = "last" =>
                 call'[t].left = r.missing \ r.got
           /\ r.kind = "batch" /\ ~r.warm /\ pc'[t] = "done" =>
                 r.missing \ r.got = {}
<1>1. CASE r.left # {}
  <2>1. Goto(t, "next", r)
    BY <1>1 DEF Advance
  <2>2. /\ pc' \in [Threads -> Labels] /\ call' \in [Threads -> Call]
        /\ pc'[t] = "next" /\ call'[t] = r
        /\ \A u \in Threads \ {t} : pc'[u] = pc[u] /\ call'[u] = call[u]
    BY <2>1, GotoStep DEF Labels
  <2> QED
    BY <2>2
<1>2. CASE r.left = {} /\ r.warm
  <2> DEFINE q == [r EXCEPT !.warm = FALSE, !.left = r.syms]
  <2>1. Goto(t, "next", q)
    BY <1>2 DEF Advance
  <2>2. /\ q \in Call /\ q.kind = r.kind /\ q.syms = r.syms /\ q.left = r.syms
        /\ q.missing = r.missing /\ q.got = r.got /\ q.warm = FALSE
    BY DEF Call
  <2> HIDE DEF q
  <2>3. /\ pc' \in [Threads -> Labels] /\ call' \in [Threads -> Call]
        /\ pc'[t] = "next" /\ call'[t] = q
        /\ \A u \in Threads \ {t} : pc'[u] = pc[u] /\ call'[u] = call[u]
    BY <2>1, <2>2, GotoStep DEF Labels
  <2>4. ASSUME NEW tr, Fine("next", r, tr) PROVE Fine("next", q, tr)
    BY <1>2, <2>2, <2>4 DEF Fine, AskFine, LoopFine, BatchFine
  <2> QED
    BY <2>2, <2>3, <2>4, <1>2
<1>3. CASE r.left = {} /\ ~r.warm /\ r.kind = "batch"
  <2>1. AskTheRest(t, r)
    BY <1>3 DEF Advance
  <2> QED
    BY <2>1, <1>3, AskTheRestStep
<1>4. CASE r.left = {} /\ ~r.warm /\ r.kind # "batch"
  <2>1. Goto(t, "done", r)
    BY <1>4 DEF Advance
  <2>2. /\ pc' \in [Threads -> Labels] /\ call' \in [Threads -> Call]
        /\ pc'[t] = "done" /\ call'[t] = r
        /\ \A u \in Threads \ {t} : pc'[u] = pc[u] /\ call'[u] = call[u]
    BY <2>1, GotoStep DEF Labels
  <2>3. ASSUME NEW tr, Fine("next", r, tr) PROVE Fine("done", r, tr)
    BY <1>4, <2>3 DEF Fine, AskFine, LoopFine, BatchFine
  <2> QED
    BY <2>2, <2>3, <1>4
<1> QED
  BY <1>1, <1>2, <1>3, <1>4 DEF Call

\* Settled: what it changes of the call in hand.
LEMMA SettledIs ==
    ASSUME TypeOK, NEW t \in Threads, NEW s \in Symbols,
           NEW found \in BOOLEAN, NEW cached \in BOOLEAN
    PROVE  /\ Settled(t, s, found, cached) \in Call
           /\ Settled(t, s, found, cached).kind = call[t].kind
           /\ Settled(t, s, found, cached).syms = call[t].syms
           /\ Settled(t, s, found, cached).missing = call[t].missing
           /\ Settled(t, s, found, cached).warm = call[t].warm
           /\ Settled(t, s, found, cached).left = call[t].left \ {s}
           /\ found => Settled(t, s, found, cached).got = call[t].got \cup {s}
           /\ ~found => Settled(t, s, found, cached).got = call[t].got \ {s}
           /\ cached /\ ~found => Settled(t, s, found, cached).old = call[t].old \cup {s}
           /\ ~cached \/ found => Settled(t, s, found, cached).old = call[t].old
<1> DEFINE left == call[t].left \ {s}
           got == IF found THEN call[t].got \cup {s} ELSE call[t].got \ {s}
           old == IF cached /\ ~found THEN call[t].old \cup {s} ELSE call[t].old
           any == NoCall.sym
           c == call[t]
           c1 == [c EXCEPT !.left = left]
           c2 == [c1 EXCEPT !.at = 1]
           c3 == [c2 EXCEPT !.sym = any]
           c4 == [c3 EXCEPT !.got = got]
           c5 == [c4 EXCEPT !.old = old]
<1>1. Settled(t, s, found, cached) = c5
  BY DEF Settled
<1>2. c \in Call
  BY DEF TypeOK
<1>3. any \in Symbols
  BY NoCallType DEF Call
<1>4. left \in SUBSET Symbols /\ got \in SUBSET Symbols /\ old \in SUBSET Symbols
  BY <1>2 DEF Call
<1>5. /\ c.kind = call[t].kind /\ c.syms = call[t].syms /\ c.warm = call[t].warm
      /\ c.missing = call[t].missing /\ left = call[t].left \ {s}
      /\ found => got = call[t].got \cup {s}
      /\ ~found => got = call[t].got \ {s}
      /\ cached /\ ~found => old = call[t].old \cup {s}
      /\ ~cached \/ found => old = call[t].old
  OBVIOUS
<1> HIDE DEF left, got, old, any, c
<1>6. /\ c1 \in Call /\ c1.kind = c.kind /\ c1.syms = c.syms
      /\ c1.missing = c.missing /\ c1.warm = c.warm /\ c1.left = left
  BY <1>2, <1>4 DEF Call
<1> HIDE DEF c1
<1>7. /\ c2 \in Call /\ c2.kind = c.kind /\ c2.syms = c.syms
      /\ c2.missing = c.missing /\ c2.warm = c.warm /\ c2.left = left
  BY <1>6 DEF Call
<1> HIDE DEF c2
<1>8. /\ c3 \in Call /\ c3.kind = c.kind /\ c3.syms = c.syms
      /\ c3.missing = c.missing /\ c3.warm = c.warm /\ c3.left = left
  BY <1>3, <1>7 DEF Call
<1> HIDE DEF c3
<1>9. /\ c4 \in Call /\ c4.kind = c.kind /\ c4.syms = c.syms
      /\ c4.missing = c.missing /\ c4.warm = c.warm /\ c4.left = left /\ c4.got = got
  BY <1>4, <1>8 DEF Call
<1> HIDE DEF c4
<1>10. /\ c5 \in Call /\ c5.kind = c.kind /\ c5.syms = c.syms
       /\ c5.missing = c.missing /\ c5.warm = c.warm /\ c5.left = left
       /\ c5.got = got /\ c5.old = old
  BY <1>4, <1>9 DEF Call
<1> HIDE DEF c5
<1> QED
  BY <1>1, <1>5, <1>10, Zenon

\* Store: what is in the cache afterwards, and whom it moves.
LEMMA StoreStep ==
    ASSUME TypeOK, NEW t \in Threads, NEW full \in SUBSET Symbols,
           NEW empty \in SUBSET Symbols, Store(t, full, empty)
    PROVE  /\ bars' \in [Symbols -> BarsEntry \cup {NoBars}]
           /\ moved' \in [Threads -> SUBSET Symbols]
           /\ \A s \in full : bars'[s] = Full
           /\ \A s \in Symbols : s \notin full /\ s \notin empty => bars'[s] = bars[s]
           /\ \A u \in Threads : moved[u] \subseteq moved'[u]
           /\ \A u \in Threads : \A s \in call[u].syms :
                 s \in full \/ s \in empty => s \in moved'[u]
<1>1. \A s \in Symbols : IsExcused(t, s) \in BOOLEAN
  BY DEF IsExcused
<1>2. \A s \in Symbols :
         [any |-> FALSE, by |-> t, excused |-> IsExcused(t, s)] \in BarsEntry
  BY <1>1 DEF BarsEntry
<1>3. Full \in BarsEntry
  BY DEF BarsEntry
<1>4. bars \in [Symbols -> BarsEntry \cup {NoBars}]
  BY DEF TypeOK
<1> HIDE DEF BarsEntry, Full, IsExcused
<1>5. bars' = [s \in Symbols |->
          IF s \in full THEN Full
          ELSE IF s \in empty THEN [any |-> FALSE, by |-> t, excused |-> IsExcused(t, s)]
          ELSE bars[s]]
  BY DEF Store
<1>6. bars' \in [Symbols -> BarsEntry \cup {NoBars}]
  BY <1>2, <1>3, <1>4, <1>5
<1>7. /\ \A s \in full : bars'[s] = Full
      /\ \A s \in Symbols : s \notin full /\ s \notin empty => bars'[s] = bars[s]
  BY <1>5
<1>8. \A u \in Threads : moved'[u] = moved[u] \cup ((full \cup empty) \cap call[u].syms)
  BY DEF Store
<1>9. moved' \in [Threads -> SUBSET Symbols]
  BY DEF Store, TypeOK, Call
<1> QED
  BY <1>6, <1>7, <1>8, <1>9

\* The entry it makes of a symbol without bars.
LEMMA StoreEmpty ==
    ASSUME TypeOK, NEW t \in Threads, NEW full \in SUBSET Symbols,
           NEW empty \in SUBSET Symbols, Store(t, full, empty),
           NEW s \in empty, s \notin full
    PROVE  /\ ~bars'[s].any /\ bars'[s].by = t
           /\ IsExcused(t, s) => bars'[s].excused
<1>1. bars'[s] = [any |-> FALSE, by |-> t, excused |-> IsExcused(t, s)]
  BY DEF Store
<1> HIDE DEF IsExcused
<1> QED
  BY <1>1

\* Again: another download, or the symbols one by one.
LEMMA AgainStep ==
    ASSUME TypeOK, NEW t \in Threads, NEW r \in Call, Again(t, r),
           r.kind = "batch", ~r.warm
    PROVE  /\ pc' \in [Threads -> Labels]
           /\ call' \in [Threads -> Call]
           /\ \A u \in Threads \ {t} : pc'[u] = pc[u] /\ call'[u] = call[u]
           /\ pc'[t] \in {"download", "next", "last", "done"}
           /\ call'[t].kind = r.kind /\ call'[t].syms = r.syms
           /\ call'[t].missing = r.missing /\ call'[t].got = r.got
           /\ \A tr : Fine("download", r, tr) /\ Fine("next", r, tr) =>
                 Fine(pc'[t], call'[t], tr)
           /\ pc'[t] = "last" => call'[t].left = r.missing \ r.got
           /\ pc'[t] = "done" => r.missing \ r.got = {}
<1>1. CASE r.attempts > 1
  <2> DEFINE q == [r EXCEPT !.attempts = r.attempts - 1]
  <2>1. Goto(t, "download", q)
    BY <1>1 DEF Again
  <2>2. /\ q \in Call /\ q.kind = r.kind /\ q.syms = r.syms /\ q.warm = r.warm
        /\ q.left = r.left /\ q.old = r.old
        /\ q.missing = r.missing /\ q.got = r.got
    BY <1>1 DEF Call
  <2> HIDE DEF q
  <2>3. /\ pc' \in [Threads -> Labels] /\ call' \in [Threads -> Call]
        /\ pc'[t] = "download" /\ call'[t] = q
        /\ \A u \in Threads \ {t} : pc'[u] = pc[u] /\ call'[u] = call[u]
    BY <2>1, <2>2, GotoStep DEF Labels
  <2>4. ASSUME NEW tr, Fine("download", r, tr) PROVE Fine("download", q, tr)
    BY <2>2, <2>4 DEF Fine, AskFine, LoopFine, BatchFine
  <2> QED
    BY <2>2, <2>3, <2>4
<1>2. CASE ~(r.attempts > 1)
  <2> DEFINE q == [r EXCEPT !.attempts = 0]
  <2>1. Advance(t, q)
    BY <1>2 DEF Again
  <2>2. /\ q \in Call /\ q.kind = r.kind /\ q.syms = r.syms /\ q.warm = r.warm
        /\ q.left = r.left /\ q.old = r.old
        /\ q.missing = r.missing /\ q.got = r.got
    BY DEF Call
  <2> HIDE DEF q
  <2>3. ASSUME NEW tr, Fine("next", r, tr) PROVE Fine("next", q, tr)
    BY <2>2, <2>3 DEF Fine, AskFine, LoopFine, BatchFine
  <2>4. /\ pc' \in [Threads -> Labels] /\ call' \in [Threads -> Call]
        /\ \A u \in Threads \ {t} : pc'[u] = pc[u] /\ call'[u] = call[u]
        /\ pc'[t] \in {"next", "last", "done"}
        /\ call'[t].kind = q.kind /\ call'[t].syms = q.syms
        /\ call'[t].missing = q.missing /\ call'[t].got = q.got
        /\ \A tr : Fine("next", q, tr) => Fine(pc'[t], call'[t], tr)
        /\ pc'[t] = "last" => call'[t].left = q.missing \ q.got
        /\ pc'[t] = "done" => q.missing \ q.got = {}
    BY <2>1, <2>2, AdvanceStep
  <2> QED
    BY <2>2, <2>3, <2>4
<1> QED
  BY <1>1, <1>2

\* AskOn: the next symbol, or the end.
LEMMA AskOnStep ==
    ASSUME TypeOK, NEW t \in Threads, NEW r \in Call, AskOn(t, r)
    PROVE  /\ pc' \in [Threads -> Labels]
           /\ call' \in [Threads -> Call]
           /\ \A u \in Threads \ {t} : pc'[u] = pc[u] /\ call'[u] = call[u]
           /\ call'[t] = r
           /\ pc'[t] \in {"last", "done"}
           /\ pc'[t] = "done" <=> r.left = {}
<1> DEFINE l == IF r.left = {} THEN "done" ELSE "last"
<1>1. Goto(t, l, r)
  BY DEF AskOn
<1>2. l \in Labels /\ l \in {"last", "done"} /\ (l = "done" <=> r.left = {})
  BY DEF Labels
<1> HIDE DEF l
<1> QED
  BY <1>1, <1>2, GotoStep

\* Start: a call that begins knows nothing yet, and needs to know nothing.
LEMMA StartStep ==
    ASSUME TypeOK, NEW t \in Threads, NEW kind \in Kinds, NEW syms \in SUBSET Symbols,
           Start(t, kind, syms)
    PROVE  /\ pc' \in [Threads -> Labels]
           /\ call' \in [Threads -> Call]
           /\ \A u \in Threads \ {t} : pc'[u] = pc[u] /\ call'[u] = call[u]
           /\ pc'[t] \in {"begin", "next", "last", "done"}
           /\ \A tr : Fine(pc'[t], call'[t], tr)
<1> DEFINE n1 == [NoCall EXCEPT !.kind = kind]
           n2 == [n1 EXCEPT !.syms = syms]
           record == [n2 EXCEPT !.left = syms]
<1>1. NoCall \in Call /\ NoCall.warm = FALSE
  BY NoCallType DEF NoCall
<1> HIDE DEF NoCall
<1>2. n1 \in Call /\ n1.kind = kind /\ n1.warm = FALSE
  BY <1>1 DEF Call, Kinds
<1> HIDE DEF n1
<1>3. n2 \in Call /\ n2.kind = kind /\ n2.warm = FALSE /\ n2.syms = syms
  BY <1>2 DEF Call
<1> HIDE DEF n2
<1>4. /\ record \in Call /\ record.kind = kind /\ record.warm = FALSE
      /\ record.syms = syms /\ record.left = syms
  BY <1>3 DEF Call
<1>5. record = [NoCall EXCEPT !.kind = kind, !.syms = syms, !.left = syms]
  BY DEF n1, n2
<1> HIDE DEF record
<1>6. CASE kind = "batch"
  <2> DEFINE q == [record EXCEPT !.attempts = 2]
  <2>1. Goto(t, "begin", q)
    BY <1>5, <1>6 DEF Start
  <2>2. q \in Call /\ q.kind = "batch" /\ q.warm = FALSE
    BY <1>4, <1>6 DEF Call
  <2> HIDE DEF q
  <2>3. /\ pc' \in [Threads -> Labels] /\ call' \in [Threads -> Call]
        /\ pc'[t] = "begin" /\ call'[t] = q
        /\ \A u \in Threads \ {t} : pc'[u] = pc[u] /\ call'[u] = call[u]
    BY <2>1, <2>2, GotoStep DEF Labels
  <2>4. \A tr : Fine("begin", q, tr)
    BY <2>2 DEF Fine, AskFine, LoopFine, BatchFine
  <2> QED
    BY <2>3, <2>4
<1>7. CASE kind \in {"prices", "yahoo prices"}
  <2> DEFINE left == {s \in syms : quotes[s] = NoQuote}
             q1 == [record EXCEPT !.warm = TRUE]
             q == [q1 EXCEPT !.left = left]
  <2>1. Advance(t, [record EXCEPT !.warm = TRUE, !.left = left])
    BY <1>5, <1>7 DEF Start
  <2>2. /\ q1 \in Call /\ q1.kind # "batch" /\ q1.warm = TRUE /\ q1.syms = syms
    BY <1>4, <1>7 DEF Call
  <2>3. left \in SUBSET Symbols /\ left \subseteq syms
    OBVIOUS
  <2>4. [record EXCEPT !.warm = TRUE, !.left = left] = q
    OBVIOUS
  <2> HIDE DEF left, q1
  <2>5. /\ q \in Call /\ q.kind # "batch" /\ q.warm = TRUE
        /\ q.left \subseteq q.syms
    BY <2>2, <2>3 DEF Call
  <2> HIDE DEF q
  <2>6. \A tr : Fine("next", q, tr)
    BY <2>5 DEF Fine, AskFine, LoopFine, BatchFine
  <2> QED
    BY <2>1, <2>4, <2>5, <2>6, AdvanceStep
<1>8. CASE kind \notin {"batch", "prices", "yahoo prices"}
  <2>1. Goto(t, "next", record)
    BY <1>5, <1>8 DEF Start
  <2>2. /\ pc' \in [Threads -> Labels] /\ call' \in [Threads -> Call]
        /\ pc'[t] = "next" /\ call'[t] = record
        /\ \A u \in Threads \ {t} : pc'[u] = pc[u] /\ call'[u] = call[u]
    BY <1>4, <2>1, GotoStep DEF Labels
  <2>3. \A tr : Fine("next", record, tr)
    BY <1>4, <1>8 DEF Fine, AskFine, LoopFine, BatchFine
  <2> QED
    BY <2>2, <2>3
<1> QED
  BY <1>6, <1>7, <1>8

LEMMA TypeInit == Init => TypeOK
<1> SUFFICES ASSUME Init PROVE TypeOK
  OBVIOUS
<1>1. pc \in [Threads -> Labels] /\ call \in [Threads -> Call]
  BY NoCallType DEF Init, Labels
<1>2. events \in 0..MaxEvents
  BY MarketAssumption DEF Init
<1> QED
  BY <1>1, <1>2 DEF Init, TypeOK, Labels

\* What the actions of calls leave of the types to show.
LEMMA CallTypes ==
    ASSUME TypeOK, about' = about, bundle' = bundle, up' = up,
           pc' \in [Threads -> Labels], call' \in [Threads -> Call],
           quotes' \in [Symbols -> Providers \cup {NoQuote}],
           bars' \in [Symbols -> BarsEntry \cup {NoBars}],
           trouble' \in [Threads -> SUBSET Providers],
           moved' \in [Threads -> SUBSET Symbols],
           events' \in 0..MaxEvents
    PROVE  TypeOK'
  BY DEF TypeOK, Labels

\* Asked: the provider whose turn it is.
LEMMA AskedType ==
    ASSUME TypeOK, NEW t \in Threads, call[t].at <= Len(Route(call[t].kind))
    PROVE  Asked(t) \in Providers
<1>1. call[t].kind \in Kinds /\ call[t].at \in 1..3
  BY DEF TypeOK, Call, Kinds
<1>2. call[t].at \in 1..Len(Route(call[t].kind))
  BY <1>1, RouteType
<1> QED
  BY <1>1, <1>2, RouteType DEF Asked

-----------------------------------------------------------------------------
(* Steps of the invariant's parts.                                         *)

\* What a call knows stays true when more providers have failed.
LEMMA FineMore ==
    ASSUME NEW l, NEW r, NEW few, NEW many, few \subseteq many, Fine(l, r, few)
    PROVE  Fine(l, r, many)
  BY DEF Fine, AskFine, LoopFine, BatchFine

\* The files of FirstRateData are the same after the step.
LEMMA FineKept ==
    ASSUME bundle' = bundle, NEW u \in Threads, Fine(pc'[u], call'[u], trouble'[u])
    PROVE  Fine(pc[u], call[u], trouble[u])'
  BY DEF Fine, AskFine, LoopFine, BatchFine, Sources, Knows

\* A step of one call: the other threads know what they knew.
LEMMA ThreadStep ==
    ASSUME TypeOK, ThreadInv, NEW t \in Threads, bundle' = bundle, up' = up,
           \A u \in Threads \ {t} :
              pc'[u] = pc[u] /\ call'[u] = call[u] /\ trouble'[u] = trouble[u],
           Fine(pc'[t], call'[t], trouble'[t]),
           pc'[t] # "idle" => \A p \in Providers : ~up[p] => p \in trouble'[t]
    PROVE  ThreadInv'
<1> SUFFICES ASSUME NEW u \in Threads
             PROVE  /\ Fine(pc[u], call[u], trouble[u])'
                    /\ pc'[u] # "idle" => \A p \in Providers : ~up'[p] => p \in trouble'[u]
  BY DEF ThreadInv
<1>1. Fine(pc'[u], call'[u], trouble'[u])
  BY DEF ThreadInv
<1>2. Fine(pc[u], call[u], trouble[u])'
  BY <1>1, FineKept
<1>3. pc'[u] # "idle" => \A p \in Providers : ~up'[p] => p \in trouble'[u]
  BY DEF ThreadInv
<1> QED
  BY <1>2, <1>3

\* A step of one call: it goes on waiting for the symbols of which it has stored
\* that they have no bars, and what it stores it waits for or is excused for.
LEMMA OwnEmptyStep ==
    ASSUME TypeOK, EmptyInv, NEW t \in Threads,
           \A u \in Threads \ {t} : pc'[u] = pc[u] /\ call'[u] = call[u],
           \A s \in Symbols :
              /\ IsEmpty(s) /\ ~bars[s].excused /\ bars[s].by = t
              /\ bars'[s] = bars[s] /\ Awaits(t, s)
              => Awaits(t, s)',
           \A s \in Symbols : IsEmpty(s)' =>
              \/ bars'[s] = bars[s]
              \/ bars'[s].excused
              \/ bars'[s].by = t /\ Awaits(t, s)'
    PROVE  EmptyInv'
<1> SUFFICES ASSUME NEW s \in Symbols, IsEmpty(s)', ~bars'[s].excused
             PROVE  \A b : b = bars'[s].by => Awaits(b, s)'
  BY DEF EmptyInv
<1> SUFFICES ASSUME NEW b, b = bars'[s].by PROVE Awaits(b, s)'
  OBVIOUS
<1>1. CASE bars'[s] = bars[s]
  <2>1. IsEmpty(s) /\ ~bars[s].excused /\ bars[s].by = b
    BY <1>1 DEF IsEmpty
  <2>2. Awaits(b, s)
    BY <2>1 DEF EmptyInv
  <2>3. b \in Threads
    <3>1. bars[s] \in BarsEntry /\ ~bars[s].any
      BY <2>1 DEF IsEmpty, TypeOK
    <3>2. bars[s] # Full
      BY <3>1 DEF Full
    <3>3. bars[s] \in [any : {FALSE}, by : Threads, excused : BOOLEAN]
      BY <3>1, <3>2 DEF BarsEntry
    <3> QED
      BY <3>3, <2>1
  <2>4. CASE b = t
    BY <1>1, <2>1, <2>2, <2>4
  <2>5. CASE b # t
    BY <2>2, <2>3, <2>5 DEF Awaits
  <2> QED
    BY <2>4, <2>5
<1>2. CASE bars'[s].by = t /\ Awaits(t, s)'
  <2>1. b = t
    BY <1>2
  <2> QED
    BY <1>2, <2>1
<1> QED
  BY <1>1, <1>2

\* The same when it goes on waiting for them whoever stored that.
LEMMA EmptyStep ==
    ASSUME TypeOK, EmptyInv, NEW t \in Threads,
           \A u \in Threads \ {t} : pc'[u] = pc[u] /\ call'[u] = call[u],
           \A s \in Symbols : Awaits(t, s) /\ IsEmpty(s) /\ IsEmpty(s)' => Awaits(t, s)',
           \A s \in Symbols : IsEmpty(s)' =>
              \/ bars'[s] = bars[s]
              \/ bars'[s].excused
              \/ bars'[s].by = t /\ Awaits(t, s)'
    PROVE  EmptyInv'
<1>1. \A s \in Symbols : bars'[s] = bars[s] => (IsEmpty(s)' <=> IsEmpty(s))
  BY DEF IsEmpty
<1>2. \A s \in Symbols :
         /\ IsEmpty(s) /\ ~bars[s].excused /\ bars[s].by = t
         /\ bars'[s] = bars[s] /\ Awaits(t, s)
         => Awaits(t, s)'
  BY <1>1
<1> QED
  BY <1>2, OwnEmptyStep

\* A call stores only about symbols it was asked for.
LEMMA StoresWhatItWasAsked ==
    ThreadInv => \A u \in Threads, s \in Symbols : MayStore(u, s) => s \in call[u].syms
<1> SUFFICES ASSUME ThreadInv, NEW u \in Threads, NEW s \in Symbols, MayStore(u, s)
             PROVE  s \in call[u].syms
  OBVIOUS
<1>1. Fine(pc[u], call[u], trouble[u])
  BY DEF ThreadInv
<1> QED
  BY <1>1 DEF MayStore, Fine, AskFine, LoopFine, BatchFine

\* A step of one call: the bars that are new are known to have moved.
LEMMA MovedStep ==
    ASSUME TypeOK, ThreadInv, MovedInv, NEW t \in Threads,
           \A u \in Threads \ {t} :
              pc'[u] = pc[u] /\ call'[u] = call[u] /\ moved[u] \subseteq moved'[u],
           \A s \in Symbols : HasBars(s)' =>
              HasBars(s) \/ \A u \in Threads \ {t} : s \in call[u].syms => s \in moved'[u],
           \A s \in Symbols : MayStore(t, s)' /\ HasBars(s)' => s \in moved'[t]
    PROVE  MovedInv'
<1> SUFFICES ASSUME NEW u \in Threads, NEW s \in Symbols, MayStore(u, s)', HasBars(s)'
             PROVE  s \in moved'[u]
  BY DEF MovedInv
<1>1. CASE u = t
  BY <1>1
<1>2. CASE u # t
  <2>1. MayStore(u, s)
    BY <1>2 DEF MayStore
  <2>2. s \in call[u].syms
    BY <2>1, StoresWhatItWasAsked
  <2> QED
    BY <1>2, <2>1, <2>2 DEF MovedInv
<1> QED
  BY <1>1, <1>2

\* The same of a step after which the call in hand stores nothing, if it
\* stores nothing itself.
LEMMA QuietStep ==
    ASSUME TypeOK, ThreadInv, MovedInv, EmptyInv, NEW t \in Threads,
           \A u \in Threads \ {t} : pc'[u] = pc[u] /\ call'[u] = call[u],
           bars' = bars, moved' = moved,
           \A s \in Symbols : MayStore(t, s)' /\ HasBars(s) => s \in moved[t],
           \A s \in Symbols : Awaits(t, s) /\ IsEmpty(s) => Awaits(t, s)'
    PROVE  EmptyInv' /\ MovedInv'
<1>1. \A s \in Symbols : (IsEmpty(s)' <=> IsEmpty(s)) /\ (HasBars(s)' <=> HasBars(s))
  BY DEF IsEmpty, HasBars
<1>2. EmptyInv'
  BY <1>1, EmptyStep
<1>3. MovedInv'
  BY <1>1, MovedStep
<1> QED
  BY <1>2, <1>3

-----------------------------------------------------------------------------
(* The calls for one symbol keep the invariant.                            *)

\* A symbol that is settled: found, or in the cache, or every provider that
\* knows it has failed.
LEMMA SettledFine ==
    ASSUME TypeOK, NEW t \in Threads, NEW s \in Symbols, NEW found \in BOOLEAN,
           NEW cached \in BOOLEAN, NEW tr, pc[t] \in {"next", "ask"},
           Fine(pc[t], call[t], tr), s \in call[t].left,
           found \/ cached \/ Sources(call[t].kind, s) \subseteq tr
    PROVE  Fine("next", Settled(t, s, found, cached), tr)
<1> DEFINE r == Settled(t, s, found, cached)
<1>1. /\ r.kind = call[t].kind /\ r.syms = call[t].syms
      /\ r.missing = call[t].missing /\ r.warm = call[t].warm
      /\ r.left = call[t].left \ {s}
      /\ found => r.got = call[t].got \cup {s} /\ r.old = call[t].old
      /\ ~found => r.got = call[t].got \ {s}
      /\ cached /\ ~found => r.old = call[t].old \cup {s}
      /\ ~cached => r.old = call[t].old
  BY SettledIs
<1> HIDE DEF r
<1>2. ASSUME call[t].kind # "batch" PROVE Fine("next", r, tr)
  <2>1. r.left \subseteq r.syms
    BY <1>1, <1>2 DEF Fine, LoopFine
  <2>2. ASSUME ~r.warm, NEW x \in r.syms \ r.left
        PROVE  x \in r.got \cup r.old \/ Sources(r.kind, x) \subseteq tr
    <3>1. CASE x = s
      BY <1>1, <3>1
    <3>2. CASE x # s
      <4>1. x \in call[t].got \cup call[t].old \/ Sources(call[t].kind, x) \subseteq tr
        BY <1>1, <1>2, <2>2, <3>2 DEF Fine, LoopFine
      <4>2. x \in call[t].got => x \in r.got
        BY <1>1, <3>2
      <4>3. x \in call[t].old => x \in r.old
        BY <1>1
      <4> QED
        BY <1>1, <4>1, <4>2, <4>3
    <3> QED
      BY <3>1, <3>2
  <2> QED
    BY <1>1, <1>2, <2>1, <2>2 DEF Fine, AskFine, LoopFine, BatchFine
<1>3. ASSUME call[t].kind = "batch" PROVE Fine("next", r, tr)
  <2>1. /\ ~call[t].warm
        /\ call[t].missing \subseteq call[t].syms \ bundle
        /\ call[t].syms \ call[t].missing \subseteq call[t].got \cup call[t].old
        /\ call[t].left \subseteq call[t].missing \ call[t].got
        /\ \A x \in call[t].missing \ call[t].got : Knows("yahoo", x) => "yahoo" \in tr
    BY <1>3 DEF Fine, BatchFine
  <2>2. call[t].got \subseteq r.got /\ r.got \subseteq call[t].got \cup {s}
    BY <1>1, <2>1
  <2>3. call[t].old \subseteq r.old
    BY <1>1
  <2>4. r.left \subseteq r.missing \ r.got
    BY <1>1, <2>1, <2>2
  <2>5. r.syms \ r.missing \subseteq r.got \cup r.old
    BY <1>1, <2>1, <2>2, <2>3
  <2>6. \A x \in r.missing \ r.got : Knows("yahoo", x) => "yahoo" \in tr
    BY <1>1, <2>1, <2>2
  <2> QED
    BY <1>1, <1>3, <2>1, <2>4, <2>5, <2>6 DEF Fine, AskFine, LoopFine, BatchFine
<1>4. Fine("next", r, tr)
  BY <1>2, <1>3
<1> QED
  BY <1>4 DEF r

\* IsNextOf: the next symbol is one that is left.
LEMMA NextIsLeft ==
    ASSUME NEW t, NEW s, IsNextOf(t, s) PROVE s \in call[t].left
  BY DEF IsNextOf

\* A symbol is settled and the loop goes on.
LEMMA SettleStep ==
    ASSUME TypeOK, ThreadInv, NEW t \in Threads, NEW s \in Symbols,
           NEW found \in BOOLEAN, NEW cached \in BOOLEAN,
           pc[t] \in {"next", "ask"}, s \in call[t].left,
           found \/ cached \/ Sources(call[t].kind, s) \subseteq trouble[t],
           Advance(t, Settled(t, s, found, cached))
    PROVE  /\ pc' \in [Threads -> Labels]
           /\ call' \in [Threads -> Call]
           /\ \A u \in Threads \ {t} : pc'[u] = pc[u] /\ call'[u] = call[u]
           /\ Fine(pc'[t], call'[t], trouble[t])
           /\ \A x \in Symbols : ~MayStore(t, x)'
           /\ \A x \in Symbols :
                 Awaits(t, x) /\ (found => x # s) => Awaits(t, x)'
<1> DEFINE r == Settled(t, s, found, cached)
<1>1. Fine(pc[t], call[t], trouble[t])
  BY DEF ThreadInv
<1>2. /\ r \in Call /\ r.kind = call[t].kind /\ r.missing = call[t].missing
      /\ r.warm = call[t].warm
      /\ found => r.got = call[t].got \cup {s}
      /\ ~found => r.got = call[t].got \ {s}
  BY SettledIs
<1>3. Fine("next", r, trouble[t])
  BY <1>1, SettledFine
<1>4. Advance(t, r)
  OBVIOUS
<1> HIDE DEF r
<1>5. /\ pc' \in [Threads -> Labels] /\ call' \in [Threads -> Call]
      /\ \A u \in Threads \ {t} : pc'[u] = pc[u] /\ call'[u] = call[u]
      /\ pc'[t] \in {"next", "last", "done"}
      /\ call'[t].kind = r.kind
      /\ call'[t].missing = r.missing /\ call'[t].got = r.got
      /\ Fine("next", r, trouble[t]) => Fine(pc'[t], call'[t], trouble[t])
      /\ r.kind = "batch" /\ ~r.warm /\ pc'[t] = "last" =>
            call'[t].left = r.missing \ r.got
      /\ r.kind = "batch" /\ ~r.warm /\ pc'[t] = "done" => r.missing \ r.got = {}
  BY <1>2, <1>4, AdvanceStep
<1>6. ASSUME NEW x \in Symbols, Awaits(t, x), found => x # s
      PROVE  Awaits(t, x)'
  <2>1. call[t].kind = "batch" /\ x \in call[t].missing /\ x \notin call[t].got
    BY <1>6 DEF Awaits
  <2>2. ~call[t].warm
    BY <1>1, <2>1 DEF Fine, BatchFine
  <2>3. x \in r.missing \ r.got
    BY <1>2, <1>6, <2>1
  <2> QED
    BY <1>2, <1>5, <2>1, <2>2, <2>3 DEF Awaits
<1>7. \A x \in Symbols : ~MayStore(t, x)'
  BY <1>5 DEF MayStore
<1> QED
  BY <1>3, <1>5, <1>6, <1>7

\* The cache has the answer: only the call moves on.
LEMMA LookHit ==
    ASSUME IInv, NEW t \in Threads, NEW s \in Symbols, NEW found \in BOOLEAN,
           NEW cached \in BOOLEAN, found \/ cached, pc[t] = "next", s \in call[t].left,
           found /\ call[t].kind = "batch" => ~IsEmpty(s),
           Advance(t, Settled(t, s, found, cached)),
           UNCHANGED <<about, bundle, quotes, bars, up, trouble, moved, events>>
    PROVE  IInv'
<1>1. TypeOK /\ ThreadInv /\ EmptyInv /\ MovedInv
  BY DEF IInv
<1>2. /\ pc' \in [Threads -> Labels] /\ call' \in [Threads -> Call]
      /\ \A u \in Threads \ {t} : pc'[u] = pc[u] /\ call'[u] = call[u]
      /\ Fine(pc'[t], call'[t], trouble[t])
      /\ \A x \in Symbols : ~MayStore(t, x)'
      /\ \A x \in Symbols : Awaits(t, x) /\ (found => x # s) => Awaits(t, x)'
  BY <1>1, SettleStep
<1>3. TypeOK'
  BY <1>1, <1>2, CallTypes DEF TypeOK
<1>4. ThreadInv'
  BY <1>1, <1>2, ThreadStep DEF ThreadInv
<1>5. \A x \in Symbols : Awaits(t, x) /\ IsEmpty(x) => Awaits(t, x)'
  BY <1>2 DEF Awaits
<1>6. EmptyInv' /\ MovedInv'
  BY <1>1, <1>2, <1>5, QuietStep
<1> QED
  BY <1>3, <1>4, <1>6 DEF IInv

LEMMA LookKeeps ==
    ASSUME IInv, NEW t \in Threads, NEW s \in Symbols, Look(t, s) PROVE IInv'
<1>1. pc[t] = "next" /\ s \in call[t].left
  BY NextIsLeft DEF Look
<1>2. CASE call[t].kind \in QuoteKinds /\ IsQuoted(call[t].kind, s)
  <2>1. Advance(t, Settled(t, s, TRUE, TRUE)) /\ UNCHANGED moved
    BY <1>2 DEF Look
  <2>2. call[t].kind # "batch"
    BY <1>2 DEF QuoteKinds, YahooKinds
  <2> DEFINE yes == TRUE
  <2>3. yes \in BOOLEAN /\ (yes \/ yes) /\ Advance(t, Settled(t, s, yes, yes))
    BY <2>1
  <2> HIDE DEF yes
  <2> QED
    BY <1>1, <2>1, <2>2, <2>3, LookHit DEF Look
<1>3. CASE /\ ~(call[t].kind \in QuoteKinds /\ IsQuoted(call[t].kind, s))
           /\ call[t].kind \in BarKinds /\ IsCached(s)
  <2>1. Advance(t, Settled(t, s, HasBars(s), TRUE)) /\ UNCHANGED moved
    BY <1>3 DEF Look
  <2>2. HasBars(s) \in BOOLEAN /\ (HasBars(s) => ~IsEmpty(s))
    BY DEF HasBars, IsEmpty
  <2> DEFINE found == HasBars(s)
             yes == TRUE
  <2>3. /\ found \in BOOLEAN /\ (found => ~IsEmpty(s)) /\ yes \in BOOLEAN /\ (found \/ yes)
        /\ Advance(t, Settled(t, s, found, yes))
    BY <2>1, <2>2
  <2> HIDE DEF found, yes
  <2> QED
    BY <1>1, <2>1, <2>3, LookHit DEF Look
<1>4. CASE /\ ~(call[t].kind \in QuoteKinds /\ IsQuoted(call[t].kind, s))
           /\ ~(call[t].kind \in BarKinds /\ IsCached(s))
  <2> DEFINE q1 == [call[t] EXCEPT !.sym = s]
             q == [q1 EXCEPT !.at = 1]
  <2>1. /\ Goto(t, "ask", q)
        /\ moved' = [moved EXCEPT ![t] = @ \ {s}]
    <3>1. /\ Goto(t, "ask", [call[t] EXCEPT !.sym = s, !.at = 1])
          /\ moved' = [moved EXCEPT ![t] = @ \ {s}]
      BY <1>4 DEF Look
    <3> QED
      BY <3>1
  <2>2. UNCHANGED <<about, bundle, quotes, bars, up, trouble, events>>
    BY DEF Look
  <2>3. call[t] \in Call /\ TypeOK
    BY DEF IInv, TypeOK
  <2>4. /\ q \in Call /\ q.kind = call[t].kind /\ q.syms = call[t].syms
        /\ q.warm = call[t].warm /\ q.left = call[t].left /\ q.old = call[t].old
        /\ q.missing = call[t].missing /\ q.got = call[t].got /\ q.sym = s /\ q.at = 1
    <3>1. /\ q1 \in Call /\ q1.kind = call[t].kind /\ q1.syms = call[t].syms
          /\ q1.warm = call[t].warm /\ q1.left = call[t].left /\ q1.old = call[t].old
          /\ q1.missing = call[t].missing /\ q1.got = call[t].got /\ q1.sym = s
      BY <2>3 DEF Call
    <3> HIDE DEF q1
    <3> QED
      BY <3>1 DEF Call
  <2> HIDE DEF q, q1
  <2>5. /\ pc' \in [Threads -> Labels] /\ call' \in [Threads -> Call]
        /\ pc'[t] = "ask" /\ call'[t] = q
        /\ \A u \in Threads \ {t} : pc'[u] = pc[u] /\ call'[u] = call[u]
    BY <2>1, <2>3, <2>4, GotoStep DEF Labels
  <2>6. /\ moved' \in [Threads -> SUBSET Symbols]
        /\ \A u \in Threads \ {t} : moved'[u] = moved[u]
    BY <2>1, <2>3 DEF TypeOK
  <2>7. TypeOK'
    BY <2>2, <2>3, <2>5, <2>6, CallTypes DEF TypeOK
  <2>8. Fine("next", call[t], trouble[t])
    BY <1>1 DEF IInv, ThreadInv
  <2>9. Fine("ask", q, trouble[t])
    <3>1. q.at <= Len(Route(q.kind)) /\ q.at = 1
      <4>1. q.kind \in Kinds
        BY <2>4 DEF Call, Kinds
      <4>2. Len(Route(q.kind)) \in 1..3
        BY <4>1, RouteType
      <4>3. \A n \in 1..3 : 1 <= n
        OBVIOUS
      <4>4. 1 <= Len(Route(q.kind))
        BY <4>2, <4>3, Zenon
      <4> QED
        BY <2>4, <4>4
    <3>2. AskFine("ask", q, trouble[t])
      BY <1>1, <2>4, <3>1 DEF AskFine
    <3>3. LoopFine("ask", q, trouble[t])
      BY <2>4, <2>8 DEF Fine, LoopFine
    <3>4. BatchFine("ask", q, trouble[t])
      BY <2>4, <2>8 DEF Fine, BatchFine
    <3> QED
      BY <3>2, <3>3, <3>4 DEF Fine
  <2>10. ThreadInv'
    BY <1>1, <2>2, <2>3, <2>5, <2>9, ThreadStep DEF IInv, ThreadInv
  <2>11. \A x \in Symbols : (IsEmpty(x)' <=> IsEmpty(x)) /\ (HasBars(x)' <=> HasBars(x))
    BY <2>2 DEF IsEmpty, HasBars
  <2>12. \A x \in Symbols : Awaits(t, x) => Awaits(t, x)'
    BY <2>4, <2>5 DEF Awaits
  <2>13. EmptyInv'
    BY <2>2, <2>3, <2>5, <2>11, <2>12, EmptyStep DEF IInv
  <2>14. \A x \in Symbols : MayStore(t, x)' => ~HasBars(x)
    <3> SUFFICES ASSUME NEW x \in Symbols, MayStore(t, x)' PROVE ~HasBars(x)
      OBVIOUS
    <3>1. x = s /\ call[t].kind \in BarKinds
      BY <2>4, <2>5 DEF MayStore
    <3> QED
      BY <3>1, <1>4 DEF IsCached, HasBars
  <2>15. MovedInv'
    BY <2>3, <2>5, <2>6, <2>11, <2>14, MovedStep DEF IInv
  <2> QED
    BY <2>7, <2>10, <2>13, <2>15 DEF IInv
<1> QED
  BY <1>2, <1>3, <1>4

\* A call asks about a symbol it still has to settle, in its route.
LEMMA AskingFor ==
    ASSUME TypeOK, ThreadInv, NEW t \in Threads, pc[t] = "ask"
    PROVE  /\ call[t].sym \in Symbols /\ call[t].sym \in call[t].left
           /\ call[t].sym \in call[t].syms
           /\ call[t].kind \in Kinds
           /\ call[t].at \in 1..Len(Route(call[t].kind))
           /\ Asked(t) \in Providers
           /\ \A i \in 1..(call[t].at - 1) :
                 Knows(Route(call[t].kind)[i], call[t].sym) =>
                    Route(call[t].kind)[i] \in trouble[t]
           /\ \A p \in Providers : ~up[p] => p \in trouble[t]
<1>1. Fine(pc[t], call[t], trouble[t])
  BY DEF ThreadInv
<1>2. call[t] \in Call
  BY DEF TypeOK
<1>3. /\ call[t].sym \in call[t].left
      /\ call[t].at <= Len(Route(call[t].kind))
      /\ \A i \in 1..(call[t].at - 1) :
            Knows(Route(call[t].kind)[i], call[t].sym) =>
               Route(call[t].kind)[i] \in trouble[t]
  BY <1>1 DEF Fine, AskFine
<1>4. call[t].left \subseteq call[t].syms
  BY <1>1 DEF Fine, LoopFine, BatchFine
<1>5. call[t].kind \in Kinds /\ call[t].at \in 1..3 /\ call[t].sym \in Symbols
  BY <1>2 DEF Call, Kinds
<1>6. Len(Route(call[t].kind)) \in 1..3
  BY <1>5, RouteType
<1>7. call[t].at \in 1..Len(Route(call[t].kind))
  BY <1>3, <1>5, <1>6
<1>8. Asked(t) \in Providers
  BY <1>3, AskedType
<1>9. \A p \in Providers : ~up[p] => p \in trouble[t]
  BY DEF ThreadInv
<1> QED
  BY <1>3, <1>4, <1>5, <1>7, <1>8, <1>9

\* A provider that is asked in vain does not know the symbol, or has failed.
LEMMA AskedInVain ==
    ASSUME TypeOK, ThreadInv, NEW t \in Threads, pc[t] = "ask",
           ~Serves(Asked(t), call[t].sym)
    PROVE  \A i \in 1..call[t].at :
              Knows(Route(call[t].kind)[i], call[t].sym) =>
                 Route(call[t].kind)[i] \in trouble[t]
<1> SUFFICES ASSUME NEW i \in 1..call[t].at,
                    Knows(Route(call[t].kind)[i], call[t].sym)
             PROVE  Route(call[t].kind)[i] \in trouble[t]
  OBVIOUS
<1>1. call[t].at \in Int
  BY DEF TypeOK, Call
<1>2. CASE i = call[t].at
  <2>1. Route(call[t].kind)[i] = Asked(t)
    BY <1>2 DEF Asked
  <2>2. ~up[Asked(t)]
    BY <2>1 DEF Serves
  <2> QED
    BY <2>1, <2>2, AskingFor
<1>3. CASE i # call[t].at
  <2>1. i \in 1..(call[t].at - 1)
    BY <1>1, <1>3
  <2> QED
    BY <2>1, AskingFor
<1> QED
  BY <1>2, <1>3

\* After the last one, all of them.
LEMMA NobodyHasIt ==
    ASSUME TypeOK, ThreadInv, NEW t \in Threads, pc[t] = "ask",
           ~Serves(Asked(t), call[t].sym),
           call[t].at = Len(Route(call[t].kind))
    PROVE  Sources(call[t].kind, call[t].sym) \subseteq trouble[t]
<1> SUFFICES ASSUME NEW p \in Sources(call[t].kind, call[t].sym)
             PROVE  p \in trouble[t]
  OBVIOUS
<1>1. call[t].kind \in Kinds
  BY AskingFor
<1>2. PICK i \in 1..Len(Route(call[t].kind)) :
         p = Route(call[t].kind)[i] /\ Knows(p, call[t].sym)
  BY <1>1, SourceOnRoute
<1> QED
  BY <1>2, AskedInVain

LEMMA FoundKeeps ==
    ASSUME IInv, NEW t \in Threads, Found(t) PROVE IInv'
<1>1. TypeOK /\ ThreadInv /\ EmptyInv /\ MovedInv
  BY DEF IInv
<1>2. pc[t] = "ask" /\ UNCHANGED <<about, bundle, up, trouble, events>>
  BY DEF Found
<1> PICK s \in Symbols : s = call[t].sym
  BY <1>1, <1>2, AskingFor
<1> DEFINE yes == TRUE
           no == FALSE
<1>3. /\ s \in Symbols /\ s \in call[t].left /\ s \in call[t].syms
      /\ call[t].kind \in Kinds /\ Asked(t) \in Providers
  BY <1>1, <1>2, AskingFor
<1>4. /\ yes \in BOOLEAN /\ no \in BOOLEAN /\ (yes \/ no)
      /\ Advance(t, Settled(t, s, yes, no))
  BY DEF Found
<1>5. IF call[t].kind \in QuoteKinds
      THEN quotes' = [quotes EXCEPT ![s] = Asked(t)] /\ UNCHANGED <<bars, moved>>
      ELSE Store(t, {s}, {}) /\ UNCHANGED quotes
  BY DEF Found
<1> HIDE DEF yes, no
<1>6. /\ pc' \in [Threads -> Labels] /\ call' \in [Threads -> Call]
      /\ \A u \in Threads \ {t} : pc'[u] = pc[u] /\ call'[u] = call[u]
      /\ Fine(pc'[t], call'[t], trouble[t])
      /\ \A x \in Symbols : ~MayStore(t, x)'
      /\ \A x \in Symbols : Awaits(t, x) /\ x # s => Awaits(t, x)'
  BY <1>1, <1>2, <1>3, <1>4, SettleStep
<1>7. ThreadInv'
  BY <1>1, <1>2, <1>6, ThreadStep DEF ThreadInv
<1>8. CASE call[t].kind \in QuoteKinds
  <2>1. quotes' = [quotes EXCEPT ![s] = Asked(t)] /\ bars' = bars /\ moved' = moved
    BY <1>5, <1>8
  <2>2. TypeOK'
    BY <1>1, <1>2, <1>3, <1>6, <2>1, CallTypes DEF TypeOK
  <2>3. \A x \in Symbols : ~Awaits(t, x)
    BY <1>8 DEF Awaits, QuoteKinds, YahooKinds
  <2>4. EmptyInv' /\ MovedInv'
    BY <1>1, <1>6, <2>1, <2>3, QuietStep
  <2> QED
    BY <1>7, <2>2, <2>4 DEF IInv
<1>9. CASE call[t].kind \notin QuoteKinds
  <2>1. Store(t, {s}, {}) /\ quotes' = quotes
    BY <1>5, <1>9
  <2>2. /\ bars' \in [Symbols -> BarsEntry \cup {NoBars}]
        /\ moved' \in [Threads -> SUBSET Symbols]
        /\ bars'[s] = Full
        /\ \A x \in Symbols \ {s} : bars'[x] = bars[x]
        /\ \A u \in Threads : moved[u] \subseteq moved'[u]
        /\ \A u \in Threads : s \in call[u].syms => s \in moved'[u]
    <3> DEFINE full == {s}
               empty == {}
    <3>1. /\ full \in SUBSET Symbols /\ empty \in SUBSET Symbols
          /\ s \in full
          /\ \A x \in Symbols \ {s} : x \notin full /\ x \notin empty
      OBVIOUS
    <3>2. Store(t, full, empty)
      BY <2>1
    <3> HIDE DEF full, empty
    <3>3. /\ bars' \in [Symbols -> BarsEntry \cup {NoBars}]
          /\ moved' \in [Threads -> SUBSET Symbols]
          /\ \A x \in full : bars'[x] = Full
          /\ \A x \in Symbols : x \notin full /\ x \notin empty => bars'[x] = bars[x]
          /\ \A u \in Threads : moved[u] \subseteq moved'[u]
          /\ \A u \in Threads : \A x \in call[u].syms :
                x \in full \/ x \in empty => x \in moved'[u]
      BY <1>1, <3>1, <3>2, StoreStep
    <3> QED
      BY <3>1, <3>3
  <2>3. TypeOK'
    BY <1>1, <1>2, <1>6, <2>1, <2>2, CallTypes DEF TypeOK
  <2>4. ~IsEmpty(s)'
    BY <2>2 DEF IsEmpty, Full
  <2>5. \A x \in Symbols : Awaits(t, x) /\ IsEmpty(x) /\ IsEmpty(x)' => Awaits(t, x)'
    BY <1>6, <2>4
  <2>6. \A x \in Symbols : IsEmpty(x)' => bars'[x] = bars[x]
    BY <2>2, <2>4
  <2>7. EmptyInv'
    BY <1>1, <1>6, <2>5, <2>6, EmptyStep
  <2>8. \A x \in Symbols : HasBars(x)' =>
           HasBars(x) \/ \A u \in Threads \ {t} : x \in call[u].syms => x \in moved'[u]
    BY <2>2 DEF HasBars
  <2>9. MovedInv'
    BY <1>1, <1>6, <2>2, <2>8, MovedStep
  <2> QED
    BY <1>7, <2>3, <2>7, <2>9 DEF IInv
<1> QED
  BY <1>8, <1>9

LEMMA AskNextKeeps ==
    ASSUME IInv, NEW t \in Threads, AskNext(t) PROVE IInv'
<1> DEFINE c == call[t]
           q == [c EXCEPT !.at = c.at + 1]
<1>1. TypeOK /\ ThreadInv /\ EmptyInv /\ MovedInv
  BY DEF IInv
<1>2. /\ pc[t] = "ask" /\ ~Serves(Asked(t), c.sym) /\ c.at < Len(Route(c.kind))
      /\ Goto(t, "ask", q)
      /\ UNCHANGED <<about, bundle, quotes, bars, up, trouble, moved, events>>
  BY DEF AskNext
<1>3. c \in Call /\ Fine("ask", c, trouble[t]) /\ c.kind \in Kinds
  BY <1>1, <1>2, AskingFor DEF TypeOK, ThreadInv
<1>4. \A i \in 1..c.at :
         Knows(Route(c.kind)[i], c.sym) => Route(c.kind)[i] \in trouble[t]
  BY <1>1, <1>2, AskedInVain
<1>5. Len(Route(c.kind)) \in 1..3
  BY <1>3, RouteType
<1>6. c.at \in 1..3 /\ c.at + 1 \in 1..3 /\ c.at + 1 <= Len(Route(c.kind))
  <2>1. c.at \in 1..3
    BY <1>3 DEF Call
  <2>2. \A a, n \in 1..3 : a < n => a + 1 \in 1..3 /\ a + 1 <= n
    OBVIOUS
  <2>3. c.at < Len(Route(c.kind))
    BY <1>2
  <2> QED
    BY <1>5, <2>1, <2>2, <2>3, Zenon
<1>7. c = call[t]
  OBVIOUS
<1> HIDE DEF c
<1>8. /\ q \in Call /\ q.kind = c.kind /\ q.syms = c.syms
      /\ q.warm = c.warm /\ q.left = c.left /\ q.old = c.old
      /\ q.missing = c.missing /\ q.got = c.got /\ q.sym = c.sym /\ q.at = c.at + 1
  BY <1>3, <1>6 DEF Call
<1> HIDE DEF q
<1>9. /\ pc' \in [Threads -> Labels] /\ call' \in [Threads -> Call]
      /\ pc'[t] = "ask" /\ call'[t] = q
      /\ \A u \in Threads \ {t} : pc'[u] = pc[u] /\ call'[u] = call[u]
  BY <1>1, <1>2, <1>8, GotoStep DEF Labels
<1>10. Fine("ask", q, trouble[t])
  <2>1. 1..(q.at - 1) = 1..c.at
    <3>1. q.at - 1 = c.at
      BY <1>6, <1>8
    <3> QED
      BY <3>1
  <2>2. AskFine("ask", q, trouble[t])
    <3>1. q.sym \in q.left
      BY <1>3, <1>8 DEF Fine, AskFine
    <3>2. q.at <= Len(Route(q.kind))
      BY <1>6, <1>8
    <3> QED
      BY <1>4, <1>8, <2>1, <3>1, <3>2 DEF AskFine
  <2>3. LoopFine("ask", q, trouble[t])
    BY <1>3, <1>8 DEF Fine, LoopFine
  <2>4. BatchFine("ask", q, trouble[t])
    BY <1>3, <1>8 DEF Fine, BatchFine
  <2> QED
    BY <2>2, <2>3, <2>4 DEF Fine
<1>11. TypeOK'
  BY <1>1, <1>2, <1>9, CallTypes DEF TypeOK
<1>12. ThreadInv'
  BY <1>1, <1>2, <1>9, <1>10, ThreadStep DEF ThreadInv
<1>13. \A x \in Symbols : Awaits(t, x) => Awaits(t, x)'
  BY <1>7, <1>8, <1>9 DEF Awaits
<1>14. \A x \in Symbols : MayStore(t, x)' => MayStore(t, x)
  BY <1>2, <1>7, <1>8, <1>9 DEF MayStore
<1>15. EmptyInv' /\ MovedInv'
  BY <1>1, <1>2, <1>9, <1>13, <1>14, QuietStep DEF MovedInv
<1> QED
  BY <1>11, <1>12, <1>15 DEF IInv

LEMMA NotFoundKeeps ==
    ASSUME IInv, NEW t \in Threads, NotFound(t) PROVE IInv'
<1>1. TypeOK /\ ThreadInv /\ EmptyInv /\ MovedInv
  BY DEF IInv
<1>2. /\ pc[t] = "ask" /\ ~Serves(Asked(t), call[t].sym)
      /\ call[t].at = Len(Route(call[t].kind))
      /\ UNCHANGED <<about, bundle, quotes, up, trouble, events>>
  BY DEF NotFound
<1> PICK s \in Symbols : s = call[t].sym
  BY <1>1, <1>2, AskingFor
<1> DEFINE no == FALSE
<1>3. /\ s \in Symbols /\ s \in call[t].left /\ s \in call[t].syms
      /\ call[t].kind \in Kinds
  BY <1>1, <1>2, AskingFor
<1>4. Sources(call[t].kind, s) \subseteq trouble[t]
  BY <1>1, <1>2, NobodyHasIt
<1>5. no \in BOOLEAN /\ ~no /\ Advance(t, Settled(t, s, no, no))
  BY DEF NotFound
<1>6. IF call[t].kind \in BarKinds THEN Store(t, {}, {s}) ELSE UNCHANGED <<bars, moved>>
  BY DEF NotFound
<1> HIDE DEF no
<1>7. /\ pc' \in [Threads -> Labels] /\ call' \in [Threads -> Call]
      /\ \A u \in Threads \ {t} : pc'[u] = pc[u] /\ call'[u] = call[u]
      /\ Fine(pc'[t], call'[t], trouble[t])
      /\ \A x \in Symbols : ~MayStore(t, x)'
      /\ \A x \in Symbols : Awaits(t, x) /\ (no => x # s) => Awaits(t, x)'
  <2>1. no \in BOOLEAN
    BY <1>5
  <2>2. no \/ no \/ Sources(call[t].kind, s) \subseteq trouble[t]
    BY <1>4
  <2>3. Advance(t, Settled(t, s, no, no))
    BY <1>5
  <2> QED
    BY <1>1, <1>2, <1>3, <2>1, <2>2, <2>3, SettleStep
<1>8. \A x \in Symbols : Awaits(t, x) => Awaits(t, x)'
  <2>1. ~no
    BY <1>5
  <2> QED
    BY <1>7, <2>1
<1>9. ThreadInv'
  BY <1>1, <1>2, <1>7, ThreadStep DEF ThreadInv
<1>10. CASE call[t].kind \in BarKinds
  <2>1. Store(t, {}, {s})
    BY <1>6, <1>10
  <2>2. /\ bars' \in [Symbols -> BarsEntry \cup {NoBars}]
        /\ moved' \in [Threads -> SUBSET Symbols]
        /\ ~bars'[s].any /\ (IsExcused(t, s) => bars'[s].excused)
        /\ \A x \in Symbols \ {s} : bars'[x] = bars[x]
        /\ \A u \in Threads : moved[u] \subseteq moved'[u]
        /\ \A u \in Threads : s \in call[u].syms => s \in moved'[u]
    <3> DEFINE full == {}
               empty == {s}
    <3>1. /\ full \in SUBSET Symbols /\ empty \in SUBSET Symbols
          /\ s \in empty /\ s \notin full
          /\ \A x \in Symbols \ {s} : x \notin full /\ x \notin empty
      OBVIOUS
    <3>2. Store(t, full, empty)
      BY <2>1
    <3> HIDE DEF full, empty
    <3>3. /\ bars' \in [Symbols -> BarsEntry \cup {NoBars}]
          /\ moved' \in [Threads -> SUBSET Symbols]
          /\ \A x \in Symbols : x \notin full /\ x \notin empty => bars'[x] = bars[x]
          /\ \A u \in Threads : moved[u] \subseteq moved'[u]
          /\ \A u \in Threads : \A x \in call[u].syms :
                x \in full \/ x \in empty => x \in moved'[u]
      BY <1>1, <3>1, <3>2, StoreStep
    <3>4. ~bars'[s].any /\ (IsExcused(t, s) => bars'[s].excused)
      BY <1>1, <3>1, <3>2, StoreEmpty
    <3> QED
      BY <3>1, <3>3, <3>4
  <2>3. TypeOK'
    BY <1>1, <1>2, <1>7, <2>2, CallTypes DEF TypeOK
  <2>4. IsExcused(t, s)
    <3>1. Sources("bars", s) = Sources(call[t].kind, s)
      BY <1>10, BarSources DEF BarKinds
    <3> QED
      BY <1>2, <1>4, <3>1 DEF IsExcused
  <2>5. bars'[s].excused
    BY <2>2, <2>4
  <2>6. \A x \in Symbols : IsEmpty(x)' => bars'[x] = bars[x] \/ bars'[x].excused
    BY <2>2, <2>5
  <2>7. EmptyInv'
    BY <1>1, <1>7, <1>8, <2>6, EmptyStep
  <2>8. ~HasBars(s)'
    BY <2>2 DEF HasBars
  <2>9. \A x \in Symbols : HasBars(x)' => HasBars(x)
    BY <2>2, <2>8 DEF HasBars
  <2>10. MovedInv'
    BY <1>1, <1>7, <2>2, <2>9, MovedStep
  <2> QED
    BY <1>9, <2>3, <2>7, <2>10 DEF IInv
<1>11. CASE call[t].kind \notin BarKinds
  <2>1. bars' = bars /\ moved' = moved
    BY <1>6, <1>11
  <2>2. TypeOK'
    BY <1>1, <1>2, <1>7, <2>1, CallTypes DEF TypeOK
  <2>3. EmptyInv' /\ MovedInv'
    BY <1>1, <1>7, <1>8, <2>1, QuietStep
  <2> QED
    BY <1>9, <2>2, <2>3 DEF IInv
<1> QED
  BY <1>10, <1>11

-----------------------------------------------------------------------------
(* Batches keep the invariant.                                             *)

\* What a batch knows while it downloads.
LEMMA Downloading ==
    ASSUME TypeOK, ThreadInv, NEW t \in Threads, pc[t] = "download"
    PROVE  /\ call[t] \in Call /\ call[t].kind = "batch" /\ ~call[t].warm
           /\ call[t].missing \in SUBSET Symbols
           /\ call[t].missing \subseteq call[t].syms
           /\ Fine("download", call[t], trouble[t])
           /\ \A p \in Providers : ~up[p] => p \in trouble[t]
<1>1. Fine("download", call[t], trouble[t])
  BY DEF ThreadInv
<1>2. call[t].kind = "batch"
  BY <1>1 DEF Fine, LoopFine
<1>3. ~call[t].warm /\ call[t].missing \subseteq call[t].syms
  BY <1>1, <1>2 DEF Fine, BatchFine
<1>4. call[t] \in Call /\ call[t].missing \in SUBSET Symbols
  BY DEF TypeOK, Call
<1>5. \A p \in Providers : ~up[p] => p \in trouble[t]
  BY DEF ThreadInv
<1> QED
  BY <1>1, <1>2, <1>3, <1>4, <1>5

\* What it knows afterwards; to go on, what it lacks must be lacking at Yahoo.
LEMMA DownloadFine ==
    ASSUME TypeOK, NEW t \in Threads, call[t].kind = "batch", NEW tr,
           Fine("download", call[t], tr),
           NEW full \in SUBSET Symbols, NEW empty \in SUBSET Symbols,
           full \subseteq call[t].missing, empty \subseteq call[t].missing,
           NEW r, r = WithDownload(t, full, empty)
    PROVE  /\ Fine("download", r, tr)
           /\ (\A x \in r.missing \ r.got : Knows("yahoo", x) => "yahoo" \in tr) =>
                 Fine("next", r, tr)
<1>2. /\ r.kind = call[t].kind /\ r.syms = call[t].syms
      /\ r.warm = call[t].warm /\ r.missing = call[t].missing /\ r.old = call[t].old
      /\ r.left = call[t].left \ (full \cup empty)
      /\ r.got = (call[t].got \ empty) \cup full
  <2>1. call[t] \in Call
    BY DEF TypeOK
  <2> QED
    BY <2>1 DEF WithDownload, Call
<1>3. /\ ~call[t].warm
      /\ call[t].missing \subseteq call[t].syms \ bundle
      /\ call[t].syms \ call[t].missing \subseteq call[t].got \cup call[t].old
      /\ call[t].left \subseteq call[t].missing \ call[t].got
  BY DEF Fine, BatchFine
<1>4. r.left \subseteq r.missing \ r.got
  BY <1>2, <1>3
<1>5. r.syms \ r.missing \subseteq r.got \cup r.old
  BY <1>2, <1>3
<1>6. Fine("download", r, tr)
  BY <1>2, <1>3, <1>4, <1>5 DEF Fine, AskFine, LoopFine, BatchFine
<1>7. (\A x \in r.missing \ r.got : Knows("yahoo", x) => "yahoo" \in tr) =>
         Fine("next", r, tr)
  BY <1>2, <1>3, <1>4, <1>5 DEF Fine, AskFine, LoopFine, BatchFine
<1> QED
  BY <1>6, <1>7

\* What a download stores: bars, or that there are none although the batch
\* goes on to ask for them.
LEMMA DownloadStores ==
    ASSUME TypeOK, ThreadInv, EmptyInv, MovedInv, NEW t \in Threads,
           pc[t] = "download", NEW full \in SUBSET Symbols,
           NEW empty \in SUBSET Symbols, full \subseteq call[t].missing,
           empty \subseteq call[t].missing, \A x \in empty : x \notin full,
           Store(t, full, empty),
           NEW r \in Call, r = WithDownload(t, full, empty),
           \A u \in Threads \ {t} : pc'[u] = pc[u] /\ call'[u] = call[u],
           pc'[t] \in {"download", "next", "last", "done"},
           call'[t].kind = r.kind, call'[t].missing = r.missing,
           call'[t].got = r.got,
           pc'[t] = "last" => call'[t].left = r.missing \ r.got,
           pc'[t] = "done" => r.missing \ r.got = {}
    PROVE  EmptyInv' /\ MovedInv'
<1>1. /\ call[t].kind = "batch" /\ call[t].missing \in SUBSET Symbols
      /\ call[t].missing \subseteq call[t].syms
  BY Downloading
<1>3. /\ r.kind = "batch" /\ r.missing = call[t].missing
      /\ r.got = (call[t].got \ empty) \cup full
  <2>1. call[t] \in Call
    BY DEF TypeOK
  <2> QED
    BY <1>1, <2>1 DEF WithDownload, Call
<1>4. /\ \A x \in full : bars'[x] = Full
      /\ \A x \in Symbols : x \notin full /\ x \notin empty => bars'[x] = bars[x]
      /\ \A u \in Threads : moved[u] \subseteq moved'[u]
      /\ \A u \in Threads : \A x \in call[u].syms :
            x \in full \/ x \in empty => x \in moved'[u]
  <2>1. /\ \A x \in full : bars'[x] = Full
        /\ \A x \in Symbols : x \notin full /\ x \notin empty => bars'[x] = bars[x]
    BY DEF Store
  <2>2. \A u \in Threads :
           moved'[u] = moved[u] \cup ((full \cup empty) \cap call[u].syms)
    BY DEF Store
  <2> QED
    BY <2>1, <2>2
<1>5. \A x \in empty : ~bars'[x].any /\ bars'[x].by = t
  BY StoreEmpty
<1>6. \A x \in full : ~IsEmpty(x)'
  BY <1>4 DEF IsEmpty, Full
<1>7. \A x \in Symbols : x \in call[t].missing /\ x \notin r.got => Awaits(t, x)'
  BY <1>3 DEF Awaits
<1>8. ASSUME NEW x \in Symbols, Awaits(t, x), IsEmpty(x)' PROVE Awaits(t, x)'
  <2>1. x \in call[t].missing /\ x \notin call[t].got /\ x \notin full
    BY <1>6, <1>8 DEF Awaits
  <2> QED
    BY <1>3, <1>7, <2>1
<1>9. ASSUME NEW x \in Symbols, IsEmpty(x)'
      PROVE  bars'[x] = bars[x] \/ (bars'[x].by = t /\ Awaits(t, x)')
  <2>1. x \notin full
    BY <1>6, <1>9
  <2>2. CASE x \in empty
    <3>1. x \in call[t].missing /\ x \notin r.got
      BY <1>3, <2>1, <2>2
    <3> QED
      BY <1>5, <1>7, <2>2, <3>1
  <2>3. CASE x \notin empty
    BY <1>4, <2>1, <2>3
  <2> QED
    BY <2>2, <2>3
<1>10. EmptyInv'
  BY <1>8, <1>9, EmptyStep
<1>11. \A x \in Symbols : HasBars(x)' => HasBars(x) \/ x \in full
  <2> SUFFICES ASSUME NEW x \in Symbols, HasBars(x)', x \notin full PROVE HasBars(x)
    OBVIOUS
  <2>1. x \notin empty
    BY <1>5 DEF HasBars
  <2> QED
    BY <1>4, <2>1 DEF HasBars
<1>12. ASSUME NEW x \in Symbols, MayStore(t, x)', HasBars(x)' PROVE x \in moved'[t]
  <2>1. x \in call[t].missing
    BY <1>3, <1>12 DEF MayStore
  <2>2. CASE x \in full
    BY <1>1, <1>4, <2>1, <2>2
  <2>3. CASE x \notin full
    <3>1. HasBars(x)
      BY <1>11, <1>12, <2>3
    <3>2. x \in moved[t]
      BY <2>1, <3>1 DEF MovedInv, MayStore
    <3> QED
      BY <1>4, <3>2
  <2> QED
    BY <2>2, <2>3
<1>13. \A x \in Symbols : HasBars(x)' =>
          HasBars(x) \/ \A u \in Threads \ {t} : x \in call[u].syms => x \in moved'[u]
  BY <1>4, <1>11
<1>14. MovedInv'
  BY <1>4, <1>12, <1>13, MovedStep
<1> QED
  BY <1>10, <1>14

LEMMA DownloadKeeps ==
    ASSUME IInv, NEW t \in Threads, Download(t) PROVE IInv'
<1>1. TypeOK /\ ThreadInv /\ EmptyInv /\ MovedInv
  BY DEF IInv
<1>2. /\ pc[t] = "download" /\ up["yahoo"]
      /\ UNCHANGED <<about, bundle, quotes, up, trouble, events>>
  BY DEF Download
<1>3. /\ call[t] \in Call /\ call[t].kind = "batch" /\ ~call[t].warm
      /\ call[t].missing \in SUBSET Symbols
      /\ Fine("download", call[t], trouble[t])
  BY <1>1, <1>2, Downloading
<1>4. PICK full \in SUBSET Symbols, empty \in SUBSET Symbols :
         /\ full = call[t].missing \cap Lists["yahoo"]
         /\ empty \subseteq call[t].missing /\ \A x \in empty : x \notin full
         /\ Store(t, full, empty)
         /\ AskTheRest(t, WithDownload(t, full, empty))
  <2> DEFINE found == call[t].missing \cap Lists["yahoo"]
  <2>1. PICK empty \in SUBSET (call[t].missing \ found) :
           Store(t, found, empty) /\ AskTheRest(t, WithDownload(t, found, empty))
    BY DEF Download
  <2>2. /\ found \in SUBSET Symbols /\ empty \in SUBSET Symbols
        /\ empty \subseteq call[t].missing /\ \A x \in empty : x \notin found
    BY <1>3
  <2> QED
    BY <2>1, <2>2
<1> PICK r : r = WithDownload(t, full, empty)
  OBVIOUS
<1>5. full \subseteq call[t].missing
  BY <1>4
<1>6. /\ r \in Call /\ r.kind = "batch" /\ r.missing = call[t].missing
      /\ r.got = (call[t].got \ empty) \cup full
  BY <1>3 DEF WithDownload, Call
<1>7. Fine("next", r, trouble[t])
  <2>1. ASSUME NEW x \in r.missing \ r.got PROVE ~Knows("yahoo", x)
    BY <1>4, <1>6, <2>1 DEF Knows
  <2> QED
    BY <1>1, <1>3, <1>4, <1>5, <2>1, DownloadFine
<1>8. /\ pc' \in [Threads -> Labels] /\ call' \in [Threads -> Call]
      /\ \A u \in Threads \ {t} : pc'[u] = pc[u] /\ call'[u] = call[u]
      /\ pc'[t] \in {"last", "done"}
      /\ call'[t].kind = r.kind /\ call'[t].missing = r.missing /\ call'[t].got = r.got
      /\ call'[t].left = r.missing \ r.got
      /\ Fine("next", r, trouble[t]) => Fine(pc'[t], call'[t], trouble[t])
      /\ pc'[t] = "done" <=> r.missing \ r.got = {}
  <2>1. AskTheRest(t, r)
    BY <1>4
  <2> QED
    BY <1>1, <1>6, <2>1, AskTheRestStep
<1>9. TypeOK'
  <2>1. /\ bars' \in [Symbols -> BarsEntry \cup {NoBars}]
        /\ moved' \in [Threads -> SUBSET Symbols]
    BY <1>1, <1>4, <1>5, StoreStep
  <2> QED
    BY <1>1, <1>2, <1>8, <2>1, CallTypes DEF TypeOK
<1>10. ThreadInv'
  BY <1>1, <1>2, <1>7, <1>8, ThreadStep DEF ThreadInv
<1>11. EmptyInv' /\ MovedInv'
  <2>1. /\ empty \subseteq call[t].missing /\ \A x \in empty : x \notin full
        /\ Store(t, full, empty) /\ pc[t] = "download" /\ r \in Call
    BY <1>2, <1>4, <1>6
  <2>2. /\ \A u \in Threads \ {t} : pc'[u] = pc[u] /\ call'[u] = call[u]
        /\ pc'[t] \in {"download", "next", "last", "done"}
        /\ call'[t].kind = r.kind /\ call'[t].missing = r.missing
        /\ call'[t].got = r.got
        /\ pc'[t] = "last" => call'[t].left = r.missing \ r.got
        /\ pc'[t] = "done" => r.missing \ r.got = {}
    BY <1>8
  <2> QED
    BY <1>1, <1>5, <2>1, <2>2, DownloadStores
<1> QED
  BY <1>9, <1>10, <1>11 DEF IInv

\* The trouble a bad download adds.
LEMMA TroubleAdded ==
    ASSUME TypeOK, ThreadInv, NEW t \in Threads, pc[t] = "download",
           trouble' = [trouble EXCEPT ![t] = @ \cup {"yahoo"}]
    PROVE  /\ trouble' \in [Threads -> SUBSET Providers]
           /\ \A u \in Threads \ {t} : trouble'[u] = trouble[u]
           /\ "yahoo" \in trouble'[t] /\ trouble[t] \subseteq trouble'[t]
           /\ Fine("download", call[t], trouble'[t])
           /\ \A p \in Providers : ~up[p] => p \in trouble'[t]
<1>1. /\ trouble' \in [Threads -> SUBSET Providers]
      /\ \A u \in Threads \ {t} : trouble'[u] = trouble[u]
      /\ "yahoo" \in trouble'[t] /\ trouble[t] \subseteq trouble'[t]
  BY DEF TypeOK, Providers
<1>2. /\ Fine("download", call[t], trouble[t])
      /\ \A p \in Providers : ~up[p] => p \in trouble[t]
  BY Downloading
<1>3. Fine("download", call[t], trouble'[t])
  BY <1>1, <1>2, FineMore
<1> QED
  BY <1>1, <1>2, <1>3

LEMMA DownloadLacksKeeps ==
    ASSUME IInv, NEW t \in Threads, DownloadLacks(t) PROVE IInv'
<1>1. TypeOK /\ ThreadInv /\ EmptyInv /\ MovedInv
  BY DEF IInv
<1>2. /\ pc[t] = "download" /\ events < MaxEvents /\ events' = events + 1
      /\ trouble' = [trouble EXCEPT ![t] = @ \cup {"yahoo"}]
      /\ UNCHANGED <<about, bundle, quotes, up>>
  BY DEF DownloadLacks, MayHappen
<1>3. /\ call[t] \in Call /\ call[t].kind = "batch"
      /\ call[t].missing \in SUBSET Symbols
  BY <1>1, <1>2, Downloading
<1>4. PICK full \in SUBSET Symbols, empty \in SUBSET Symbols :
         /\ full \subseteq call[t].missing
         /\ empty \subseteq call[t].missing /\ \A x \in empty : x \notin full
         /\ Store(t, full, empty)
         /\ AskTheRest(t, WithDownload(t, full, empty))
  <2>1. PICK full \in SUBSET (call[t].missing \cap Lists["yahoo"]) :
           \E empty \in SUBSET (call[t].missing \ full) :
              Store(t, full, empty) /\ AskTheRest(t, WithDownload(t, full, empty))
    BY DEF DownloadLacks
  <2>2. PICK empty \in SUBSET (call[t].missing \ full) :
           Store(t, full, empty) /\ AskTheRest(t, WithDownload(t, full, empty))
    BY <2>1
  <2>3. /\ full \in SUBSET Symbols /\ empty \in SUBSET Symbols
        /\ full \subseteq call[t].missing
        /\ empty \subseteq call[t].missing /\ \A x \in empty : x \notin full
    BY <1>3
  <2> QED
    BY <2>2, <2>3
<1> PICK r : r = WithDownload(t, full, empty)
  OBVIOUS
<1>5. r \in Call /\ r.kind = "batch" /\ r.missing = call[t].missing
  BY <1>3 DEF WithDownload, Call
<1>6. /\ trouble' \in [Threads -> SUBSET Providers]
      /\ \A u \in Threads \ {t} : trouble'[u] = trouble[u]
      /\ "yahoo" \in trouble'[t] /\ Fine("download", call[t], trouble'[t])
      /\ \A p \in Providers : ~up[p] => p \in trouble'[t]
  BY <1>1, <1>2, TroubleAdded
<1>7. Fine("next", r, trouble'[t])
  BY <1>1, <1>3, <1>4, <1>6, DownloadFine
<1>8. /\ pc' \in [Threads -> Labels] /\ call' \in [Threads -> Call]
      /\ \A u \in Threads \ {t} : pc'[u] = pc[u] /\ call'[u] = call[u]
      /\ pc'[t] \in {"last", "done"}
      /\ call'[t].kind = r.kind /\ call'[t].missing = r.missing /\ call'[t].got = r.got
      /\ call'[t].left = r.missing \ r.got
      /\ Fine("next", r, trouble'[t]) => Fine(pc'[t], call'[t], trouble'[t])
      /\ pc'[t] = "done" <=> r.missing \ r.got = {}
  <2>1. AskTheRest(t, r)
    BY <1>4
  <2> QED
    BY <1>1, <1>5, <2>1, AskTheRestStep
<1>9. TypeOK'
  <2>1. /\ bars' \in [Symbols -> BarsEntry \cup {NoBars}]
        /\ moved' \in [Threads -> SUBSET Symbols]
    BY <1>1, <1>4, StoreStep
  <2>2. events' \in 0..MaxEvents
    BY <1>1, <1>2, MarketAssumption DEF TypeOK
  <2> QED
    BY <1>1, <1>2, <1>6, <1>8, <2>1, <2>2, CallTypes DEF TypeOK
<1>10. ThreadInv'
  <2>1. Fine(pc'[t], call'[t], trouble'[t])
    BY <1>7, <1>8
  <2>2. /\ bundle' = bundle /\ up' = up
        /\ \A u \in Threads \ {t} :
              pc'[u] = pc[u] /\ call'[u] = call[u] /\ trouble'[u] = trouble[u]
    BY <1>2, <1>6, <1>8
  <2> QED
    BY <1>1, <1>6, <2>1, <2>2, ThreadStep
<1>11. EmptyInv' /\ MovedInv'
  BY <1>1, <1>2, <1>4, <1>5, <1>8, DownloadStores
<1> QED
  BY <1>9, <1>10, <1>11 DEF IInv

LEMMA DownloadBreaksKeeps ==
    ASSUME IInv, NEW t \in Threads, DownloadBreaks(t) PROVE IInv'
<1>1. TypeOK /\ ThreadInv /\ EmptyInv /\ MovedInv
  BY DEF IInv
<1>2. /\ pc[t] = "download" /\ events < MaxEvents /\ events' = events + 1
      /\ trouble' = [trouble EXCEPT ![t] = @ \cup {"yahoo"}]
      /\ UNCHANGED <<about, bundle, quotes, up>>
  BY DEF DownloadBreaks, MayHappen
<1>3. /\ call[t] \in Call /\ call[t].kind = "batch" /\ ~call[t].warm
      /\ call[t].missing \in SUBSET Symbols
  BY <1>1, <1>2, Downloading
<1>4. PICK full \in SUBSET Symbols, empty \in SUBSET Symbols :
         /\ full \subseteq call[t].missing
         /\ empty \subseteq call[t].missing /\ \A x \in empty : x \notin full
         /\ Store(t, full, empty)
         /\ Again(t, WithDownload(t, full, empty))
  <2>1. PICK full \in SUBSET (call[t].missing \cap Lists["yahoo"]) :
           \E empty \in SUBSET (call[t].missing \ full) :
              Store(t, full, empty) /\ Again(t, WithDownload(t, full, empty))
    BY DEF DownloadBreaks
  <2>2. PICK empty \in SUBSET (call[t].missing \ full) :
           Store(t, full, empty) /\ Again(t, WithDownload(t, full, empty))
    BY <2>1
  <2>3. /\ full \in SUBSET Symbols /\ empty \in SUBSET Symbols
        /\ full \subseteq call[t].missing
        /\ empty \subseteq call[t].missing /\ \A x \in empty : x \notin full
    BY <1>3
  <2> QED
    BY <2>2, <2>3
<1> PICK r : r = WithDownload(t, full, empty)
  OBVIOUS
<1>5. r \in Call /\ r.kind = "batch" /\ ~r.warm /\ r.missing = call[t].missing
  BY <1>3 DEF WithDownload, Call
<1>6. /\ trouble' \in [Threads -> SUBSET Providers]
      /\ \A u \in Threads \ {t} : trouble'[u] = trouble[u]
      /\ "yahoo" \in trouble'[t] /\ Fine("download", call[t], trouble'[t])
      /\ \A p \in Providers : ~up[p] => p \in trouble'[t]
  BY <1>1, <1>2, TroubleAdded
<1>7. Fine("download", r, trouble'[t]) /\ Fine("next", r, trouble'[t])
  BY <1>1, <1>3, <1>4, <1>6, DownloadFine
<1>8. /\ pc' \in [Threads -> Labels] /\ call' \in [Threads -> Call]
      /\ \A u \in Threads \ {t} : pc'[u] = pc[u] /\ call'[u] = call[u]
      /\ pc'[t] \in {"download", "next", "last", "done"}
      /\ call'[t].kind = r.kind /\ call'[t].missing = r.missing /\ call'[t].got = r.got
      /\ Fine("download", r, trouble'[t]) /\ Fine("next", r, trouble'[t]) =>
            Fine(pc'[t], call'[t], trouble'[t])
      /\ pc'[t] = "last" => call'[t].left = r.missing \ r.got
      /\ pc'[t] = "done" => r.missing \ r.got = {}
  <2>1. Again(t, r)
    BY <1>4
  <2> QED
    BY <1>1, <1>5, <2>1, AgainStep
<1>9. TypeOK'
  <2>1. /\ bars' \in [Symbols -> BarsEntry \cup {NoBars}]
        /\ moved' \in [Threads -> SUBSET Symbols]
    BY <1>1, <1>4, StoreStep
  <2>2. events' \in 0..MaxEvents
    BY <1>1, <1>2, MarketAssumption DEF TypeOK
  <2> QED
    BY <1>1, <1>2, <1>6, <1>8, <2>1, <2>2, CallTypes DEF TypeOK
<1>10. ThreadInv'
  <2>1. Fine(pc'[t], call'[t], trouble'[t])
    BY <1>7, <1>8
  <2>2. /\ bundle' = bundle /\ up' = up
        /\ \A u \in Threads \ {t} :
              pc'[u] = pc[u] /\ call'[u] = call[u] /\ trouble'[u] = trouble[u]
    BY <1>2, <1>6, <1>8
  <2> QED
    BY <1>1, <1>6, <2>1, <2>2, ThreadStep
<1>11. EmptyInv' /\ MovedInv'
  BY <1>1, <1>2, <1>4, <1>5, <1>8, DownloadStores
<1> QED
  BY <1>9, <1>10, <1>11 DEF IInv

LEMMA DownloadFailsKeeps ==
    ASSUME IInv, NEW t \in Threads, DownloadFails(t) PROVE IInv'
<1>1. TypeOK /\ ThreadInv /\ EmptyInv /\ MovedInv
  BY DEF IInv
<1>2. /\ pc[t] = "download"
      /\ ~up["yahoo"] \/ call[t].missing \cap Lists["yahoo"] = {}
      /\ Again(t, call[t])
      /\ UNCHANGED <<about, bundle, quotes, bars, up, trouble, moved, events>>
  BY DEF DownloadFails
<1>3. /\ call[t] \in Call /\ call[t].kind = "batch" /\ ~call[t].warm
      /\ Fine("download", call[t], trouble[t])
      /\ \A p \in Providers : ~up[p] => p \in trouble[t]
  BY <1>1, <1>2, Downloading
<1>4. \A x \in call[t].missing : Knows("yahoo", x) => "yahoo" \in trouble[t]
  BY <1>2, <1>3 DEF Knows, Providers
<1>5. Fine("next", call[t], trouble[t])
  BY <1>3, <1>4 DEF Fine, AskFine, LoopFine, BatchFine
<1>6. /\ pc' \in [Threads -> Labels] /\ call' \in [Threads -> Call]
      /\ \A u \in Threads \ {t} : pc'[u] = pc[u] /\ call'[u] = call[u]
      /\ pc'[t] \in {"download", "next", "last", "done"}
      /\ call'[t].kind = call[t].kind /\ call'[t].missing = call[t].missing
      /\ call'[t].got = call[t].got
      /\ Fine(pc'[t], call'[t], trouble[t])
      /\ pc'[t] = "last" => call'[t].left = call[t].missing \ call[t].got
      /\ pc'[t] = "done" => call[t].missing \ call[t].got = {}
  BY <1>1, <1>2, <1>3, <1>5, AgainStep
<1>7. TypeOK'
  BY <1>1, <1>2, <1>6, CallTypes DEF TypeOK
<1>8. ThreadInv'
  BY <1>1, <1>2, <1>6, ThreadStep DEF ThreadInv
<1>9. \A x \in Symbols : Awaits(t, x) => Awaits(t, x)'
  BY <1>6 DEF Awaits
<1>10. \A x \in Symbols : MayStore(t, x)' => MayStore(t, x)
  BY <1>2, <1>6 DEF MayStore
<1>11. EmptyInv' /\ MovedInv'
  BY <1>1, <1>2, <1>6, <1>9, <1>10, QuietStep DEF MovedInv
<1> QED
  BY <1>7, <1>8, <1>11 DEF IInv

\* For bars it takes the files and both services.
LEMMA AllLackIt ==
    ASSUME NEW kind \in BarKinds, NEW s, NEW tr, s \notin bundle,
           Knows("yahoo", s) => "yahoo" \in tr,
           Knows("ibkr", s) => "ibkr" \in tr
    PROVE  Sources(kind, s) \subseteq tr
<1> SUFFICES ASSUME NEW p \in Sources(kind, s) PROVE p \in tr
  OBVIOUS
<1>1. p \in Providers /\ Knows(p, s)
  BY BarSources
<1>2. p # "firstrate"
  BY <1>1 DEF Knows
<1> QED
  BY <1>1, <1>2 DEF Providers

LEMMA BeginBatchKeeps ==
    ASSUME IInv, NEW t \in Threads, BeginBatch(t) PROVE IInv'
<1>1. TypeOK /\ ThreadInv /\ EmptyInv /\ MovedInv
  BY DEF IInv
<1>2. /\ pc[t] = "begin"
      /\ UNCHANGED <<about, bundle, quotes, up, trouble, events>>
  BY DEF BeginBatch
<1>3. call[t] \in Call /\ call[t].kind = "batch" /\ ~call[t].warm
  <2>1. Fine("begin", call[t], trouble[t])
    BY <1>1, <1>2 DEF ThreadInv
  <2>2. call[t].kind = "batch"
    BY <2>1 DEF Fine, LoopFine
  <2> QED
    BY <1>1, <2>1, <2>2 DEF Fine, BatchFine, TypeOK
<1>4. PICK cached, bundled, missing, got, old :
         /\ cached = {s \in call[t].syms : IsCached(s)}
         /\ bundled = (call[t].syms \ cached) \cap bundle
         /\ missing = call[t].syms \ (cached \cup bundled)
         /\ got = bundled \cup {s \in cached : HasBars(s)}
         /\ old = {s \in cached : IsEmpty(s)}
  OBVIOUS
<1>5. /\ Goto(t, IF missing = {} THEN "done" ELSE "download",
              [call[t] EXCEPT !.missing = missing, !.left = missing,
                              !.got = got, !.old = old])
      /\ bars' = [s \in Symbols |-> IF s \in bundled THEN Full ELSE bars[s]]
      /\ moved' = [u \in Threads |-> (IF u = t THEN moved[u] \ missing ELSE moved[u])
                                      \cup (bundled \cap call[u].syms)]
  BY <1>4 DEF BeginBatch
<1>6. call[t].syms \in SUBSET Symbols
  BY <1>3 DEF Call
<1>7. /\ missing \in SUBSET Symbols /\ got \in SUBSET Symbols /\ old \in SUBSET Symbols
      /\ bundled \in SUBSET Symbols
  BY <1>4, <1>6
<1>8. /\ missing \subseteq call[t].syms /\ \A s \in missing : s \notin bundle
      /\ \A s \in call[t].syms : s \in missing \/ s \in got \/ s \in old
      /\ \A s \in missing : s \notin got
      /\ \A s \in missing : ~IsCached(s) /\ s \notin bundled
  BY <1>4 DEF IsCached, HasBars, IsEmpty
<1> DEFINE q == [call[t] EXCEPT !.missing = missing, !.left = missing,
                                !.got = got, !.old = old]
           l == IF missing = {} THEN "done" ELSE "download"
<1>9. /\ q \in Call /\ q.kind = "batch" /\ q.syms = call[t].syms /\ ~q.warm
      /\ q.missing = missing /\ q.left = missing /\ q.got = got /\ q.old = old
  <2> DEFINE c == call[t]
             q1 == [c EXCEPT !.missing = missing]
             q2 == [q1 EXCEPT !.left = missing]
             q3 == [q2 EXCEPT !.got = got]
             q4 == [q3 EXCEPT !.old = old]
  <2>1. c \in Call /\ c.kind = "batch" /\ c.syms = call[t].syms /\ ~c.warm
    BY <1>3
  <2>2. q = q4
    OBVIOUS
  <2> HIDE DEF c, q
  <2>3. /\ q1 \in Call /\ q1.kind = "batch" /\ q1.syms = call[t].syms /\ ~q1.warm
        /\ q1.missing = missing
    BY <1>7, <2>1 DEF Call
  <2> HIDE DEF q1
  <2>4. /\ q2 \in Call /\ q2.kind = "batch" /\ q2.syms = call[t].syms /\ ~q2.warm
        /\ q2.missing = missing /\ q2.left = missing
    BY <1>7, <2>3 DEF Call
  <2> HIDE DEF q2
  <2>5. /\ q3 \in Call /\ q3.kind = "batch" /\ q3.syms = call[t].syms /\ ~q3.warm
        /\ q3.missing = missing /\ q3.left = missing /\ q3.got = got
    BY <1>7, <2>4 DEF Call
  <2> HIDE DEF q3
  <2>6. /\ q4 \in Call /\ q4.kind = "batch" /\ q4.syms = call[t].syms /\ ~q4.warm
        /\ q4.missing = missing /\ q4.left = missing /\ q4.got = got /\ q4.old = old
    BY <1>7, <2>5 DEF Call
  <2> HIDE DEF q4
  <2> QED
    BY <2>2, <2>6
<1>10. /\ l \in {"done", "download"} /\ (l = "done" => missing = {}) /\ Goto(t, l, q)
  BY <1>5
<1> HIDE DEF q, l
<1>11. /\ pc' \in [Threads -> Labels] /\ call' \in [Threads -> Call]
       /\ pc'[t] = l /\ call'[t] = q
       /\ \A u \in Threads \ {t} : pc'[u] = pc[u] /\ call'[u] = call[u]
  BY <1>1, <1>9, <1>10, GotoStep DEF Labels
<1>12. Fine(l, q, trouble[t])
  <2>1. q.missing \subseteq q.syms \ bundle
    BY <1>8, <1>9
  <2>2. q.syms \ q.missing \subseteq q.got \cup q.old
    BY <1>8, <1>9
  <2>3. q.left \subseteq q.missing \ q.got
    BY <1>8, <1>9
  <2>4. l = "done" => q.missing = {} /\ q.left = {}
    BY <1>9, <1>10
  <2> QED
    BY <1>9, <1>10, <2>1, <2>2, <2>3, <2>4 DEF Fine, AskFine, LoopFine, BatchFine
<1>13. /\ \A s \in bundled : bars'[s] = Full
       /\ \A s \in Symbols : s \notin bundled => bars'[s] = bars[s]
  BY <1>5, <1>7
<1>14. bars' \in [Symbols -> BarsEntry \cup {NoBars}]
  <2>1. Full \in BarsEntry
    BY DEF BarsEntry
  <2> QED
    BY <1>1, <1>5, <2>1 DEF TypeOK
<1>15. moved' \in [Threads -> SUBSET Symbols]
  BY <1>1, <1>5, <1>7 DEF TypeOK
<1>16. TypeOK'
  BY <1>1, <1>2, <1>11, <1>14, <1>15, CallTypes DEF TypeOK
<1>17. ThreadInv'
  BY <1>1, <1>2, <1>11, <1>12, ThreadStep DEF ThreadInv
<1>18. \A s \in bundled : ~IsEmpty(s)'
  BY <1>13 DEF IsEmpty, Full
<1>19. \A s \in Symbols : ~Awaits(t, s)
  BY <1>2 DEF Awaits
<1>20. EmptyInv'
  BY <1>1, <1>11, <1>13, <1>18, <1>19, EmptyStep
<1>21. \A u \in Threads \ {t} :
          /\ moved[u] \subseteq moved'[u]
          /\ \A s \in bundled : s \in call[u].syms => s \in moved'[u]
  BY <1>5
<1>22. \A s \in Symbols : HasBars(s)' => HasBars(s) \/ s \in bundled
  BY <1>13 DEF HasBars
<1>23. \A s \in Symbols : ~(MayStore(t, s)' /\ HasBars(s)')
  <2> SUFFICES ASSUME NEW s \in Symbols, MayStore(t, s)', HasBars(s)' PROVE FALSE
    OBVIOUS
  <2>1. s \in missing
    BY <1>9, <1>10, <1>11 DEF MayStore
  <2>2. ~HasBars(s) /\ s \notin bundled
    BY <1>8, <2>1 DEF IsCached, HasBars
  <2> QED
    BY <1>22, <2>2
<1>24. MovedInv'
  BY <1>1, <1>11, <1>21, <1>22, <1>23, MovedStep
<1> QED
  BY <1>16, <1>17, <1>20, <1>24 DEF IInv

LEMMA AskIbkrKeeps ==
    ASSUME IInv, NEW t \in Threads, NEW s \in Symbols, AskIbkr(t, s) PROVE IInv'
<1> DEFINE found == Serves("ibkr", s)
           no == FALSE
           r == Settled(t, s, found, no)
<1>1. TypeOK /\ ThreadInv /\ EmptyInv /\ MovedInv
  BY DEF IInv
<1>2. /\ pc[t] = "last" /\ s \in call[t].left
      /\ UNCHANGED <<about, bundle, quotes, up, trouble, events>>
  BY NextIsLeft DEF AskIbkr
<1>3. found \in BOOLEAN /\ no \in BOOLEAN
  BY DEF Serves
<1>4. AskOn(t, r) /\ ~no
  BY DEF AskIbkr
<1>5. /\ Fine("last", call[t], trouble[t])
      /\ \A p \in Providers : ~up[p] => p \in trouble[t]
  BY <1>1, <1>2 DEF ThreadInv
<1>6. call[t].kind = "batch" /\ call[t] \in Call
  BY <1>1, <1>5 DEF Fine, LoopFine, TypeOK
<1>7. /\ ~call[t].warm
      /\ call[t].missing \subseteq call[t].syms \ bundle
      /\ call[t].syms \ call[t].missing \subseteq call[t].got \cup call[t].old
      /\ call[t].left \subseteq call[t].missing \ call[t].got
      /\ \A x \in call[t].missing \ call[t].got : Knows("yahoo", x) => "yahoo" \in trouble[t]
      /\ \A x \in call[t].missing \ (call[t].left \cup call[t].got) :
            Knows("ibkr", x) => "ibkr" \in trouble[t]
  BY <1>5, <1>6 DEF Fine, BatchFine
<1>8. ~found /\ Knows("ibkr", s) => "ibkr" \in trouble[t]
  BY <1>5 DEF Serves, Providers
<1> HIDE DEF found, no
<1>9. /\ r \in Call /\ r.kind = "batch" /\ r.syms = call[t].syms /\ ~r.warm
      /\ r.missing = call[t].missing /\ r.left = call[t].left \ {s}
      /\ found => r.got = call[t].got \cup {s}
      /\ ~found => r.got = call[t].got \ {s}
      /\ r.old = call[t].old
  BY <1>1, <1>3, <1>4, <1>6, <1>7, SettledIs
<1> HIDE DEF r
<1>10. /\ pc' \in [Threads -> Labels] /\ call' \in [Threads -> Call]
       /\ \A u \in Threads \ {t} : pc'[u] = pc[u] /\ call'[u] = call[u]
       /\ call'[t] = r /\ pc'[t] \in {"last", "done"}
       /\ pc'[t] = "done" <=> r.left = {}
  BY <1>1, <1>4, <1>9, AskOnStep
<1>11. call[t].got \subseteq r.got /\ r.got \subseteq call[t].got \cup {s}
  BY <1>2, <1>7, <1>9
<1>12. ASSUME NEW x \in r.missing \ (r.left \cup r.got), Knows("ibkr", x)
       PROVE  "ibkr" \in trouble[t]
  <2>1. CASE x = s
    <3>1. ~found
      BY <1>9, <1>12, <2>1
    <3> QED
      BY <1>8, <1>12, <2>1, <3>1
  <2>2. CASE x # s
    BY <1>7, <1>9, <1>11, <1>12, <2>2
  <2> QED
    BY <2>1, <2>2
<1>13. Fine(pc'[t], r, trouble[t])
  <2>1. r.missing \subseteq r.syms \ bundle
    BY <1>7, <1>9
  <2>2. r.syms \ r.missing \subseteq r.got \cup r.old
    BY <1>7, <1>9, <1>11
  <2>3. r.left \subseteq r.missing \ r.got
    BY <1>7, <1>9, <1>11
  <2>4. \A x \in r.missing \ r.got : Knows("yahoo", x) => "yahoo" \in trouble[t]
    BY <1>7, <1>9, <1>11
  <2> QED
    BY <1>9, <1>10, <1>12, <2>1, <2>2, <2>3, <2>4 DEF Fine, AskFine, LoopFine, BatchFine
<1>14. ThreadInv'
  BY <1>1, <1>2, <1>5, <1>10, <1>13, ThreadStep
<1>15. \A x \in Symbols : ~MayStore(t, x)'
  BY <1>10 DEF MayStore
<1>16. ASSUME NEW x \in Symbols, Awaits(t, x), x # s PROVE Awaits(t, x)'
  <2>1. x \in call[t].missing /\ x \notin call[t].got /\ x \in call[t].left
    BY <1>2, <1>16 DEF Awaits
  <2>2. x \in r.left /\ x \in r.missing /\ x \notin r.got
    BY <1>9, <1>11, <1>16, <2>1
  <2> QED
    BY <1>9, <1>10, <2>2 DEF Awaits
<1>17. CASE found
  <2>1. Store(t, {s}, {})
    BY <1>17 DEF AskIbkr, found
  <2>2. /\ bars' \in [Symbols -> BarsEntry \cup {NoBars}]
        /\ moved' \in [Threads -> SUBSET Symbols]
        /\ bars'[s] = Full
        /\ \A x \in Symbols \ {s} : bars'[x] = bars[x]
        /\ \A u \in Threads : moved[u] \subseteq moved'[u]
        /\ \A u \in Threads : s \in call[u].syms => s \in moved'[u]
    <3> DEFINE full == {s}
               empty == {}
    <3>1. /\ full \in SUBSET Symbols /\ empty \in SUBSET Symbols
          /\ s \in full
          /\ \A x \in Symbols \ {s} : x \notin full /\ x \notin empty
      OBVIOUS
    <3>2. Store(t, full, empty)
      BY <2>1
    <3> HIDE DEF full, empty
    <3>3. /\ bars' \in [Symbols -> BarsEntry \cup {NoBars}]
          /\ moved' \in [Threads -> SUBSET Symbols]
          /\ \A x \in full : bars'[x] = Full
          /\ \A x \in Symbols : x \notin full /\ x \notin empty => bars'[x] = bars[x]
          /\ \A u \in Threads : moved[u] \subseteq moved'[u]
          /\ \A u \in Threads : \A x \in call[u].syms :
                x \in full \/ x \in empty => x \in moved'[u]
      BY <1>1, <3>1, <3>2, StoreStep
    <3> QED
      BY <3>1, <3>3
  <2>3. TypeOK'
    BY <1>1, <1>2, <1>10, <2>2, CallTypes DEF TypeOK
  <2>4. ~IsEmpty(s)'
    BY <2>2 DEF IsEmpty, Full
  <2>5. \A x \in Symbols : Awaits(t, x) /\ IsEmpty(x) /\ IsEmpty(x)' => Awaits(t, x)'
    BY <1>16, <2>4
  <2>6. \A x \in Symbols : IsEmpty(x)' => bars'[x] = bars[x]
    BY <2>2, <2>4
  <2>7. EmptyInv'
    BY <1>1, <1>10, <2>5, <2>6, EmptyStep
  <2>8. \A x \in Symbols : HasBars(x)' =>
           HasBars(x) \/ \A u \in Threads \ {t} : x \in call[u].syms => x \in moved'[u]
    BY <2>2 DEF HasBars
  <2>9. MovedInv'
    BY <1>1, <1>10, <1>15, <2>2, <2>8, MovedStep
  <2> QED
    BY <1>14, <2>3, <2>7, <2>9 DEF IInv
<1>18. CASE ~found
  <2>1. /\ bars' = IF IsEmpty(s) /\ bars[s].by = t
                   THEN [bars EXCEPT ![s].excused = IsExcused(t, s)] ELSE bars
        /\ moved' = moved
    BY <1>18 DEF AskIbkr, found
  <2>2. IsExcused(t, s)
    <3>1. s \notin bundle /\ s \in call[t].missing \ call[t].got
      BY <1>2, <1>7
    <3>2. Sources("bars", s) \subseteq trouble[t]
      BY <1>7, <1>8, <1>18, <3>1, AllLackIt DEF BarKinds
    <3> QED
      BY <1>2, <3>2 DEF IsExcused
  <2>3. CASE IsEmpty(s) /\ bars[s].by = t
    <3>1. bars' = [bars EXCEPT ![s] = [@ EXCEPT !.excused = TRUE]]
      BY <2>1, <2>2, <2>3
    <3>2. bars[s] \in [any : {FALSE}, by : Threads, excused : BOOLEAN]
      <4>1. bars[s] \in BarsEntry /\ ~bars[s].any
        BY <1>1, <2>3 DEF IsEmpty, TypeOK
      <4>2. bars[s] # Full
        BY <4>1 DEF Full
      <4> QED
        BY <4>1, <4>2 DEF BarsEntry
    <3>3. /\ bars'[s] \in [any : {FALSE}, by : Threads, excused : BOOLEAN]
          /\ bars'[s].excused /\ ~bars'[s].any
      <4> DEFINE e == [bars[s] EXCEPT !.excused = TRUE]
      <4>1. e \in [any : {FALSE}, by : Threads, excused : BOOLEAN]
        BY <3>2
      <4>2. e.excused /\ ~e.any
        BY <3>2
      <4>3. bars'[s] = e
        BY <1>1, <3>1 DEF TypeOK
      <4> HIDE DEF e
      <4> QED
        BY <4>1, <4>2, <4>3
    <3>4. \A x \in Symbols \ {s} : bars'[x] = bars[x]
      BY <1>1, <3>1 DEF TypeOK
    <3>5. bars' \in [Symbols -> BarsEntry \cup {NoBars}]
      <4>1. bars'[s] \in BarsEntry
        BY <3>3 DEF BarsEntry
      <4>2. \A x \in Symbols : bars'[x] \in BarsEntry \cup {NoBars}
        BY <1>1, <3>4, <4>1 DEF TypeOK
      <4> HIDE DEF BarsEntry
      <4>3. bars' = [x \in Symbols |-> bars'[x]]
        BY <1>1, <3>1 DEF TypeOK
      <4> QED
        BY <4>2, <4>3
    <3>6. TypeOK'
      BY <1>1, <1>2, <1>10, <2>1, <3>5, CallTypes DEF TypeOK
    <3>7. \A x \in Symbols : IsEmpty(x)' => bars'[x] = bars[x] \/ bars'[x].excused
      BY <3>3, <3>4
    <3>8. \A x \in Symbols :
             /\ IsEmpty(x) /\ ~bars[x].excused /\ bars[x].by = t
             /\ bars'[x] = bars[x] /\ Awaits(t, x)
             => Awaits(t, x)'
      BY <1>16, <3>3
    <3>9. EmptyInv'
      BY <1>1, <1>10, <3>7, <3>8, OwnEmptyStep
    <3>10. \A x \in Symbols : HasBars(x)' => HasBars(x)
      BY <3>3, <3>4 DEF HasBars
    <3>11. MovedInv'
      BY <1>1, <1>10, <1>15, <2>1, <3>10, MovedStep
    <3> QED
      BY <1>14, <3>6, <3>9, <3>11 DEF IInv
  <2>4. CASE ~(IsEmpty(s) /\ bars[s].by = t)
    <3>1. bars' = bars
      BY <2>1, <2>4
    <3>2. TypeOK'
      BY <1>1, <1>2, <1>10, <2>1, <3>1, CallTypes DEF TypeOK
    <3>3. \A x \in Symbols :
             /\ IsEmpty(x) /\ ~bars[x].excused /\ bars[x].by = t
             /\ bars'[x] = bars[x] /\ Awaits(t, x)
             => Awaits(t, x)'
      BY <1>16, <2>4
    <3>4. EmptyInv'
      BY <1>1, <1>10, <3>1, <3>3, OwnEmptyStep
    <3>5. \A x \in Symbols : HasBars(x)' => HasBars(x)
      BY <3>1 DEF HasBars
    <3>6. MovedInv'
      BY <1>1, <1>10, <1>15, <2>1, <3>5, MovedStep
    <3> QED
      BY <1>14, <3>2, <3>4, <3>6 DEF IInv
  <2> QED
    BY <2>3, <2>4
<1> QED
  BY <1>17, <1>18

-----------------------------------------------------------------------------
(* Calls begin and end, time passes, providers fail.                       *)

LEMMA StartKeeps ==
    ASSUME IInv, NEW t \in Threads, NEW kind \in Kinds, NEW syms \in SUBSET Symbols,
           Start(t, kind, syms)
    PROVE  IInv'
<1>1. TypeOK /\ ThreadInv /\ EmptyInv /\ MovedInv
  BY DEF IInv
<1>2. /\ pc[t] = "idle"
      /\ trouble' = [trouble EXCEPT ![t] = {p \in Providers : ~up[p]}]
      /\ UNCHANGED <<about, bundle, quotes, bars, up, moved, events>>
  BY DEF Start
<1>3. /\ pc' \in [Threads -> Labels]
      /\ call' \in [Threads -> Call]
      /\ \A u \in Threads \ {t} : pc'[u] = pc[u] /\ call'[u] = call[u]
      /\ pc'[t] \in {"begin", "next", "last", "done"}
      /\ \A tr : Fine(pc'[t], call'[t], tr)
  BY <1>1, StartStep
<1>4. /\ trouble' \in [Threads -> SUBSET Providers]
      /\ \A u \in Threads \ {t} : trouble'[u] = trouble[u]
      /\ \A p \in Providers : ~up[p] => p \in trouble'[t]
  BY <1>1, <1>2 DEF TypeOK
<1>5. TypeOK'
  BY <1>1, <1>2, <1>3, <1>4, CallTypes DEF TypeOK
<1>6. ThreadInv'
  BY <1>1, <1>2, <1>3, <1>4, ThreadStep
<1>7. \A x \in Symbols : ~Awaits(t, x) /\ ~MayStore(t, x)'
  BY <1>2, <1>3 DEF Awaits, MayStore
<1>8. EmptyInv' /\ MovedInv'
  BY <1>1, <1>2, <1>3, <1>7, QuietStep
<1> QED
  BY <1>5, <1>6, <1>8 DEF IInv

LEMMA ReturnKeeps ==
    ASSUME IInv, NEW t \in Threads, Return(t) PROVE IInv'
<1>1. TypeOK /\ ThreadInv /\ EmptyInv /\ MovedInv
  BY DEF IInv
<1>2. /\ pc[t] = "done" /\ Goto(t, "idle", NoCall)
      /\ trouble' = [trouble EXCEPT ![t] = {}]
      /\ moved' = [moved EXCEPT ![t] = {}]
      /\ UNCHANGED <<about, bundle, quotes, bars, up, events>>
  BY DEF Return
<1>3. /\ pc' \in [Threads -> Labels] /\ call' \in [Threads -> Call]
      /\ pc'[t] = "idle"
      /\ \A u \in Threads \ {t} : pc'[u] = pc[u] /\ call'[u] = call[u]
  BY <1>1, <1>2, GotoStep, NoCallType DEF Labels
<1>4. /\ trouble' \in [Threads -> SUBSET Providers]
      /\ moved' \in [Threads -> SUBSET Symbols]
      /\ \A u \in Threads \ {t} : trouble'[u] = trouble[u] /\ moved'[u] = moved[u]
  BY <1>1, <1>2 DEF TypeOK
<1>5. TypeOK'
  BY <1>1, <1>2, <1>3, <1>4, CallTypes DEF TypeOK
<1>6. Fine(pc'[t], call'[t], trouble'[t])
  BY <1>3 DEF Fine
<1>7. ThreadInv'
  BY <1>1, <1>2, <1>3, <1>4, <1>6, ThreadStep
<1>8. \A x \in Symbols : ~Awaits(t, x) /\ ~MayStore(t, x)'
  BY <1>2, <1>3 DEF Awaits, MayStore
<1>9. EmptyInv'
  BY <1>1, <1>2, <1>3, <1>8, EmptyStep
<1>10. \A x \in Symbols : HasBars(x)' => HasBars(x)
  BY <1>2 DEF HasBars
<1>11. MovedInv'
  BY <1>1, <1>3, <1>4, <1>8, <1>10, MovedStep
<1> QED
  BY <1>5, <1>7, <1>9, <1>11 DEF IInv

\* Calls and providers stay as they are.
LEMMA SameCalls ==
    ASSUME IInv, UNCHANGED <<bundle, up, pc, call, trouble, moved>>,
           \A s \in Symbols : bars'[s] = bars[s] \/ bars'[s] = NoBars
    PROVE  ThreadInv' /\ EmptyInv' /\ MovedInv'
<1>1. TypeOK /\ ThreadInv /\ EmptyInv /\ MovedInv
  BY DEF IInv
<1>2. ThreadInv'
  <2>1. ASSUME NEW u \in Threads PROVE Fine(pc[u], call[u], trouble[u])'
    <3>1. Fine(pc'[u], call'[u], trouble'[u])
      BY <1>1 DEF ThreadInv
    <3> QED
      BY <3>1, FineKept
  <2>2. \A u \in Threads :
           pc'[u] # "idle" => \A p \in Providers : ~up'[p] => p \in trouble'[u]
    BY <1>1 DEF ThreadInv
  <2> QED
    BY <2>1, <2>2 DEF ThreadInv
<1>3. \A s \in Symbols : (IsEmpty(s)' => bars'[s] = bars[s] /\ IsEmpty(s))
                         /\ (HasBars(s)' => HasBars(s))
  BY DEF IsEmpty, HasBars
<1>4. \A u, s : Awaits(u, s) => Awaits(u, s)'
  BY DEF Awaits
<1>5. EmptyInv'
  <2> SUFFICES ASSUME NEW s \in Symbols, IsEmpty(s)', ~bars'[s].excused
               PROVE  \A b : b = bars'[s].by => Awaits(b, s)'
    BY DEF EmptyInv
  <2> SUFFICES ASSUME NEW b, b = bars'[s].by PROVE Awaits(b, s)'
    OBVIOUS
  <2>1. IsEmpty(s) /\ ~bars[s].excused /\ b = bars[s].by
    BY <1>3
  <2>2. Awaits(b, s)
    BY <1>1, <2>1 DEF EmptyInv
  <2> QED
    BY <1>4, <2>2
<1>6. MovedInv'
  <2> SUFFICES ASSUME NEW u \in Threads, NEW s \in Symbols, MayStore(u, s)', HasBars(s)'
               PROVE  s \in moved'[u]
    BY DEF MovedInv
  <2>1. MayStore(u, s) /\ HasBars(s)
    BY <1>3 DEF MayStore
  <2> QED
    BY <1>1, <2>1 DEF MovedInv
<1> QED
  BY <1>2, <1>5, <1>6

LEMMA QuoteExpiresKeeps ==
    ASSUME IInv, NEW s \in Symbols, QuoteExpires(s) PROVE IInv'
<1>1. TypeOK'
  BY DEF IInv, QuoteExpires, TypeOK
<1>2. ThreadInv' /\ EmptyInv' /\ MovedInv'
  BY SameCalls DEF QuoteExpires
<1> QED
  BY <1>1, <1>2 DEF IInv

LEMMA BarsExpireKeeps ==
    ASSUME IInv, NEW s \in Symbols, BarsExpire(s) PROVE IInv'
<1>1. bars \in [Symbols -> BarsEntry \cup {NoBars}] /\ TypeOK
  BY DEF IInv, TypeOK
<1>2. bars' = [bars EXCEPT ![s] = NoBars]
      /\ UNCHANGED <<about, bundle, quotes, up, pc, call, trouble, moved, events>>
  BY DEF BarsExpire
<1>3. /\ bars' \in [Symbols -> BarsEntry \cup {NoBars}]
      /\ \A x \in Symbols : bars'[x] = bars[x] \/ bars'[x] = NoBars
  BY <1>1, <1>2
<1>4. TypeOK'
  BY <1>1, <1>2, <1>3, CallTypes DEF TypeOK, Labels
<1>5. ThreadInv' /\ EmptyInv' /\ MovedInv'
  BY <1>2, <1>3, SameCalls
<1> QED
  BY <1>4, <1>5 DEF IInv

\* A provider fails or serves again: the calls under way have seen it fail.
LEMMA ProviderKeeps ==
    ASSUME IInv, UNCHANGED <<about, bundle, quotes, bars, pc, call, moved>>,
           up' \in [Providers -> BOOLEAN], events' \in 0..MaxEvents,
           trouble' \in [Threads -> SUBSET Providers],
           \A u \in Threads : pc[u] # "idle" =>
              /\ trouble[u] \subseteq trouble'[u]
              /\ \A p \in Providers : ~up'[p] => p \in trouble'[u]
    PROVE  IInv'
<1>1. TypeOK /\ ThreadInv /\ EmptyInv /\ MovedInv
  BY DEF IInv
<1>2. TypeOK'
  BY <1>1 DEF TypeOK
<1>3. ThreadInv'
  <2> SUFFICES ASSUME NEW u \in Threads
               PROVE  /\ Fine(pc[u], call[u], trouble[u])'
                      /\ pc'[u] # "idle" =>
                            \A p \in Providers : ~up'[p] => p \in trouble'[u]
    BY DEF ThreadInv
  <2>1. Fine(pc[u], call[u], trouble[u])
    BY <1>1 DEF ThreadInv
  <2>2. Fine(pc'[u], call'[u], trouble'[u])
    <3>1. CASE pc[u] = "idle"
      BY <3>1 DEF Fine
    <3>2. CASE pc[u] # "idle"
      <4>1. trouble[u] \subseteq trouble'[u]
        BY <3>2
      <4>2. Fine(pc[u], call[u], trouble'[u])
        BY <2>1, <4>1, FineMore
      <4> QED
        BY <4>2
    <3> QED
      BY <3>1, <3>2
  <2>3. Fine(pc[u], call[u], trouble[u])'
    BY <2>2, FineKept
  <2> QED
    BY <2>3
<1>4. EmptyInv'
  BY <1>1 DEF EmptyInv, IsEmpty, Awaits
<1>5. MovedInv'
  BY <1>1 DEF MovedInv, MayStore, HasBars
<1> QED
  BY <1>2, <1>3, <1>4, <1>5 DEF IInv

LEMMA GoesDownKeeps ==
    ASSUME IInv, NEW p \in Providers, GoesDown(p) PROVE IInv'
<1>1. TypeOK /\ ThreadInv
  BY DEF IInv
<1>2. events' \in 0..MaxEvents
  BY <1>1, MarketAssumption DEF GoesDown, MayHappen, TypeOK
<1>3. /\ up' = [up EXCEPT ![p] = FALSE]
      /\ trouble' = [t \in Threads |-> IF pc[t] = "idle" THEN {} ELSE trouble[t] \cup {p}]
      /\ UNCHANGED <<about, bundle, quotes, bars, pc, call, moved>>
  BY DEF GoesDown
<1>4. up' \in [Providers -> BOOLEAN]
  BY <1>1, <1>3 DEF TypeOK
<1>5. trouble' \in [Threads -> SUBSET Providers]
  BY <1>1, <1>3 DEF TypeOK
<1>6. ASSUME NEW u \in Threads, pc[u] # "idle"
      PROVE  /\ trouble[u] \subseteq trouble'[u]
             /\ \A q \in Providers : ~up'[q] => q \in trouble'[u]
  <2>1. trouble'[u] = trouble[u] \cup {p}
    BY <1>3, <1>6
  <2>2. \A q \in Providers : ~up[q] => q \in trouble[u]
    BY <1>1, <1>6 DEF ThreadInv
  <2>3. \A q \in Providers \ {p} : up'[q] = up[q]
    BY <1>1, <1>3 DEF TypeOK
  <2> QED
    BY <2>1, <2>2, <2>3
<1> QED
  BY <1>2, <1>3, <1>4, <1>5, <1>6, ProviderKeeps

LEMMA ComesBackKeeps ==
    ASSUME IInv, NEW p \in Providers, ComesBack(p) PROVE IInv'
<1>1. TypeOK /\ ThreadInv
  BY DEF IInv
<1>2. /\ up' = [up EXCEPT ![p] = TRUE]
      /\ UNCHANGED <<about, bundle, quotes, bars, pc, call, trouble, moved, events>>
  BY DEF ComesBack
<1>3. up' \in [Providers -> BOOLEAN] /\ \A q \in Providers : ~up'[q] => ~up[q]
  BY <1>1, <1>2 DEF TypeOK
<1>4. \A u \in Threads : pc[u] # "idle" =>
         /\ trouble[u] \subseteq trouble'[u]
         /\ \A q \in Providers : ~up'[q] => q \in trouble'[u]
  BY <1>1, <1>2, <1>3 DEF ThreadInv
<1> QED
  BY <1>1, <1>2, <1>3, <1>4, ProviderKeeps DEF TypeOK

LEMMA StutterKeeps ==
    ASSUME IInv, UNCHANGED vars PROVE IInv'
<1>1. TypeOK'
  BY DEF IInv, TypeOK, vars
<1>2. ThreadInv' /\ EmptyInv' /\ MovedInv'
  BY SameCalls DEF vars
<1> QED
  BY <1>1, <1>2 DEF IInv

-----------------------------------------------------------------------------
(* The theorems.                                                           *)

LEMMA InvInit == Init => IInv
<1> SUFFICES ASSUME Init PROVE IInv
  OBVIOUS
<1>1. TypeOK
  BY TypeInit
<1>2. \A u \in Threads : pc[u] = "idle"
  BY DEF Init
<1>3. ThreadInv
  BY <1>2 DEF ThreadInv, Fine
<1>4. EmptyInv
  BY DEF Init, EmptyInv, IsEmpty
<1>5. MovedInv
  BY <1>2 DEF MovedInv, MayStore
<1> QED
  BY <1>1, <1>3, <1>4, <1>5 DEF IInv

LEMMA InvStep == IInv /\ [Next]_vars => IInv'
<1> SUFFICES ASSUME IInv, [Next]_vars PROVE IInv'
  OBVIOUS
<1>1. ASSUME NEW t \in Threads, NEW kind \in QuoteKinds \cup BarKinds,
             NEW syms \in SUBSET Symbols, Start(t, kind, syms)
      PROVE  IInv'
  BY <1>1, StartKeeps DEF Kinds
<1>2. ASSUME NEW t \in Threads, Step(t) PROVE IInv'
  BY <1>2, LookKeeps, AskIbkrKeeps, FoundKeeps, AskNextKeeps, NotFoundKeeps,
     BeginBatchKeeps, DownloadKeeps, DownloadFailsKeeps, ReturnKeeps DEF Step
<1>3. ASSUME NEW t \in Threads, DownloadLacks(t) \/ DownloadBreaks(t) PROVE IInv'
  BY <1>3, DownloadLacksKeeps, DownloadBreaksKeeps
<1>4. ASSUME NEW s \in Symbols, QuoteExpires(s) \/ BarsExpire(s) PROVE IInv'
  BY <1>4, QuoteExpiresKeeps, BarsExpireKeeps
<1>5. ASSUME NEW p \in Providers, GoesDown(p) \/ ComesBack(p) PROVE IInv'
  BY <1>5, GoesDownKeeps, ComesBackKeeps
<1>6. CASE UNCHANGED vars
  BY <1>6, StutterKeeps
<1> QED
  BY <1>1, <1>2, <1>3, <1>4, <1>5, <1>6 DEF Next

\* What a call knows and what it may rely on holds at every step.
THEOREM CallsKnow == Spec => []IInv
<1>1. Init => IInv
  BY InvInit
<1>2. IInv /\ [Next]_vars => IInv'
  BY InvStep
<1> QED
  BY <1>1, <1>2, PTL DEF Spec

\* Both caches, the calls' variables and the history have their types: no call
\* runs past the end of its route or of its downloads.
THEOREM TypeCorrect == Spec => []TypeOK
<1>1. IInv => TypeOK
  BY DEF IInv
<1> QED
  BY <1>1, CallsKnow, PTL

\* get_quote, get_historical_bars and their batches: whoever answers without a
\* symbol had trouble with every provider that knows it, or was told by the
\* cache that there are no bars.
THEOREM MissingMeansTrouble == Spec => []MissingForCause
<1>1. IInv => MissingForCause
  <2> SUFFICES ASSUME IInv, NEW t \in Threads, pc[t] = "done",
                      NEW s \in call[t].syms, s \notin call[t].got, s \notin call[t].old
               PROVE  Sources(call[t].kind, s) \subseteq trouble[t]
    BY DEF MissingForCause
  <2>1. Fine("done", call[t], trouble[t])
    BY DEF IInv, ThreadInv
  <2>2. CASE call[t].kind # "batch"
    BY <2>1, <2>2 DEF Fine, LoopFine
  <2>3. CASE call[t].kind = "batch"
    <3>1. s \in call[t].missing /\ s \notin bundle /\ s \notin call[t].left
      BY <2>1, <2>3 DEF Fine, BatchFine
    <3>2. /\ Knows("yahoo", s) => "yahoo" \in trouble[t]
          /\ Knows("ibkr", s) => "ibkr" \in trouble[t]
      BY <2>1, <2>3, <3>1 DEF Fine, BatchFine
    <3> QED
      BY <2>3, <3>1, <3>2, AllLackIt DEF BarKinds
  <2> QED
    BY <2>2, <2>3
<1> QED
  BY <1>1, CallsKnow, PTL

\* _hist_cache: that a symbol has no bars is remembered only of a call that had
\* trouble with every provider that knows it, or of a batch under way.
THEOREM EmptyMeansTrouble == Spec => []EmptyForCause
<1>1. IInv => EmptyForCause
  BY DEF IInv, EmptyInv, Awaits, EmptyForCause, IsProvisional
<1> QED
  BY <1>1, CallsKnow, PTL

\* Bars that stay, are replaced by bars or expire; an empty answer that is
\* only excused now.
LEMMA NotEmptied ==
    ASSUME \A s \in Symbols : \/ bars'[s] = bars[s] \/ bars'[s] = Full
                              \/ bars'[s] = NoBars \/ IsEmpty(s)
    PROVE  \A s \in Symbols : ~(HasBars(s) /\ IsEmpty(s)')
  BY DEF HasBars, IsEmpty, Full

\* The actions that store no empty answer.
LEMMA StoresNoEmpty ==
    ASSUME IInv, NEW t \in Threads,
           \/ \E s \in Symbols : Look(t, s) \/ AskIbkr(t, s)
           \/ \E kind \in Kinds, syms \in SUBSET Symbols : Start(t, kind, syms)
           \/ Found(t) \/ AskNext(t) \/ BeginBatch(t) \/ DownloadFails(t) \/ Return(t)
    PROVE  \A s \in Symbols : ~(HasBars(s) /\ IsEmpty(s)')
<1>1. bars \in [Symbols -> BarsEntry \cup {NoBars}]
  BY DEF IInv, TypeOK
<1>2. CASE bars' = bars
  BY <1>2, NotEmptied
<1>3. CASE Found(t)
  <2>1. CASE bars' = bars
    BY <2>1, <1>2
  <2>2. CASE Store(t, {call[t].sym}, {})
    <3>1. \A s \in Symbols : bars'[s] = bars[s] \/ bars'[s] = Full
      BY <2>2 DEF Store
    <3> QED
      BY <3>1, NotEmptied
  <2> QED
    BY <1>3, <2>1, <2>2 DEF Found
<1>4. CASE BeginBatch(t)
  <2>1. \A s \in Symbols : bars'[s] = bars[s] \/ bars'[s] = Full
    BY <1>4 DEF BeginBatch
  <2> QED
    BY <2>1, NotEmptied
<1>5. ASSUME NEW s \in Symbols, AskIbkr(t, s)
      PROVE  \A x \in Symbols : ~(HasBars(x) /\ IsEmpty(x)')
  <2>1. CASE Store(t, {s}, {})
    <3>1. \A x \in Symbols : bars'[x] = bars[x] \/ bars'[x] = Full
      BY <2>1 DEF Store
    <3> QED
      BY <3>1, NotEmptied
  <2>2. CASE bars' = [bars EXCEPT ![s].excused = IsExcused(t, s)] /\ IsEmpty(s)
    <3>1. \A x \in Symbols \ {s} : bars'[x] = bars[x]
      BY <1>1, <2>2
    <3> QED
      BY <2>2, <3>1, NotEmptied
  <2>3. CASE bars' = bars
    BY <2>3, <1>2
  <2> QED
    BY <1>5, <2>1, <2>2, <2>3 DEF AskIbkr
<1> QED
  BY <1>2, <1>3, <1>4, <1>5 DEF Look, Start, AskNext, DownloadFails, Return

\* What is stored empty is what the call may store: it has moved.
LEMMA EmptiedHasMoved ==
    ASSUME IInv, NEW t \in Threads, NEW full \in SUBSET Symbols,
           NEW empty \in SUBSET Symbols, Store(t, full, empty),
           \A s \in empty : MayStore(t, s)
    PROVE  \A s \in Symbols : HasBars(s) /\ IsEmpty(s)' => s \in moved[bars'[s].by]
<1> SUFFICES ASSUME NEW s \in Symbols, HasBars(s), IsEmpty(s)'
             PROVE  s \in moved[bars'[s].by]
  OBVIOUS
<1>1. /\ \A x \in full : bars'[x] = Full
      /\ \A x \in Symbols : x \notin full /\ x \notin empty => bars'[x] = bars[x]
  BY DEF Store
<1>2. s \notin full
  BY <1>1 DEF IsEmpty, Full
<1>3. s \in empty
  BY <1>1, <1>2 DEF HasBars, IsEmpty
<1>4. bars'[s].by = t
  BY <1>2, <1>3, StoreEmpty DEF IInv
<1>5. s \in moved[t]
  BY <1>3 DEF IInv, MovedInv
<1> QED
  BY <1>4, <1>5

LEMMA OnlyNewerStep ==
    IInv /\ [Next]_vars =>
       \A s \in Symbols : HasBars(s) /\ IsEmpty(s)' => s \in moved[bars'[s].by]
<1> SUFFICES ASSUME IInv, [Next]_vars
             PROVE  \A s \in Symbols : HasBars(s) /\ IsEmpty(s)' => s \in moved[bars'[s].by]
  OBVIOUS
<1>1. ASSUME NEW t \in Threads, NEW kind \in QuoteKinds \cup BarKinds,
             NEW syms \in SUBSET Symbols, Start(t, kind, syms)
      PROVE  \A s \in Symbols : ~(HasBars(s) /\ IsEmpty(s)')
  BY <1>1, StoresNoEmpty DEF Kinds
<1>2. ASSUME NEW t \in Threads,
             \/ \E s \in Symbols : Look(t, s) \/ AskIbkr(t, s)
             \/ Found(t) \/ AskNext(t) \/ BeginBatch(t) \/ DownloadFails(t) \/ Return(t)
      PROVE  \A s \in Symbols : ~(HasBars(s) /\ IsEmpty(s)')
  BY <1>2, StoresNoEmpty
<1>3. ASSUME NEW t \in Threads, NotFound(t)
      PROVE  \A s \in Symbols : HasBars(s) /\ IsEmpty(s)' => s \in moved[bars'[s].by]
  <2>1. CASE call[t].kind \notin BarKinds
    <3>1. bars' = bars
      BY <1>3, <2>1 DEF NotFound
    <3> QED
      BY <3>1, NotEmptied
  <2>2. CASE call[t].kind \in BarKinds
    <3>1. pc[t] = "ask" /\ Store(t, {}, {call[t].sym})
      BY <1>3, <2>2 DEF NotFound
    <3> DEFINE full == {}
               empty == {call[t].sym}
    <3>2. Store(t, full, empty)
      BY <3>1
    <3>3. full \in SUBSET Symbols /\ empty \in SUBSET Symbols
      BY <3>1, AskingFor DEF IInv
    <3>4. \A s \in empty : MayStore(t, s)
      BY <2>2, <3>1 DEF MayStore
    <3> HIDE DEF full, empty
    <3> QED
      BY <3>2, <3>3, <3>4, EmptiedHasMoved
  <2> QED
    BY <2>1, <2>2
<1>4. ASSUME NEW t \in Threads, Download(t) \/ DownloadLacks(t) \/ DownloadBreaks(t)
      PROVE  \A s \in Symbols : HasBars(s) /\ IsEmpty(s)' => s \in moved[bars'[s].by]
  <2>1. pc[t] = "download"
    BY <1>4 DEF Download, DownloadLacks, DownloadBreaks
  <2>2. call[t].missing \in SUBSET Symbols
    BY <2>1, Downloading DEF IInv
  <2>3. PICK full \in SUBSET call[t].missing : \E empty \in SUBSET call[t].missing :
           Store(t, full, empty)
    <3>1. CASE Download(t)
      <4> DEFINE found == call[t].missing \cap Lists["yahoo"]
      <4>1. PICK empty \in SUBSET (call[t].missing \ found) : Store(t, found, empty)
        BY <3>1 DEF Download
      <4>2. found \in SUBSET call[t].missing /\ empty \in SUBSET call[t].missing
        OBVIOUS
      <4> QED
        BY <4>1, <4>2
    <3>2. CASE DownloadLacks(t) \/ DownloadBreaks(t)
      <4>1. PICK full \in SUBSET (call[t].missing \cap Lists["yahoo"]) :
               \E empty \in SUBSET (call[t].missing \ full) : Store(t, full, empty)
        BY <3>2 DEF DownloadLacks, DownloadBreaks
      <4>2. PICK empty \in SUBSET (call[t].missing \ full) : Store(t, full, empty)
        BY <4>1
      <4>3. full \in SUBSET call[t].missing /\ empty \in SUBSET call[t].missing
        OBVIOUS
      <4> QED
        BY <4>2, <4>3
    <3> QED
      BY <1>4, <3>1, <3>2
  <2>4. PICK empty \in SUBSET call[t].missing : Store(t, full, empty)
    BY <2>3
  <2>5. full \in SUBSET Symbols /\ empty \in SUBSET Symbols
    BY <2>2
  <2>6. \A s \in empty : MayStore(t, s)
    BY <2>1 DEF MayStore
  <2> QED
    BY <2>4, <2>5, <2>6, EmptiedHasMoved
<1>5. ASSUME NEW s \in Symbols, BarsExpire(s)
      PROVE  \A x \in Symbols : ~(HasBars(x) /\ IsEmpty(x)')
  <2>1. \A x \in Symbols : bars'[x] = bars[x] \/ bars'[x] = NoBars
    BY <1>5 DEF BarsExpire, IInv, TypeOK
  <2> QED
    BY <2>1, NotEmptied
<1>6. CASE bars' = bars
  BY <1>6, NotEmptied
<1>7. ASSUME NEW t \in Threads, Step(t)
      PROVE  \A s \in Symbols : HasBars(s) /\ IsEmpty(s)' => s \in moved[bars'[s].by]
  BY <1>2, <1>3, <1>4, <1>7 DEF Step
<1>8. CASE UNCHANGED vars \/ \E s \in Symbols : QuoteExpires(s)
           \/ \E p \in Providers : GoesDown(p) \/ ComesBack(p)
  <2>1. bars' = bars
    BY <1>8 DEF vars, QuoteExpires, GoesDown, ComesBack
  <2> QED
    BY <2>1, <1>6
<1> QED
  BY <1>1, <1>4, <1>5, <1>7, <1>8 DEF Next

\* _store_bars: an empty answer takes the place of bars in the cache only if
\* they came after the call with the empty answer had looked for them.
THEOREM EmptyNeverOverwritesOlder == Spec => EmptyReplacesOnlyNewer
<1>1. IInv /\ [Next]_vars =>
         [\A s \in Symbols :
             HasBars(s) /\ IsEmpty(s)' => s \in moved[bars'[s].by]]_vars
  BY OnlyNewerStep
<1>2. Spec => [][\A s \in Symbols :
                    HasBars(s) /\ IsEmpty(s)' => s \in moved[bars'[s].by]]_vars
  BY <1>1, CallsKnow, PTL DEF Spec
<1> QED
  BY <1>2 DEF EmptyReplacesOnlyNewer

=============================================================================
