---------------------------- MODULE IbkrSession ----------------------------
(***************************************************************************)
(* The broker's session, trade-tracker/api/services/ibkr_client.py: worker *)
(* threads send requests through one client, while the keepalive task of   *)
(* main.py checks the session every minute and, when a tickle says that it *)
(* is lost, reauthenticates and then reconnects, which first takes the     *)
(* OAuth headers away from everybody.                                      *)
(*                                                                         *)
(* A request passes _throttle_ibkr (read the time stamp, sleep, write it), *)
(* reads the headers, waits for the answer, and is repeated once after a   *)
(* 429.  No lock guards the time stamp or the headers.                     *)
(***************************************************************************)
EXTENDS Integers, FiniteSets

CONSTANTS Workers,   \* threads of asyncio.to_thread
          Keeper,    \* the event loop: start-up, then the keepalive task
          Delay,     \* IBKR_REQUEST_DELAY_SECONDS
          Retries,   \* IBKR_POSITIONS_RETRY_COUNT
          Polls,     \* IBKR_SNAPSHOT_MAX_ATTEMPTS
          MaxEvents  \* bound: what happens at the broker in one behaviour

ASSUME SessionAssumption ==
    /\ Keeper \notin Workers
    /\ Delay \in Nat
    /\ Retries \in Nat \ {0}
    /\ Polls \in Nat \ {0}
    /\ MaxEvents \in Nat

Threads == Workers \cup {Keeper}

-----------------------------------------------------------------------------
(* The requests.                                                           *)

\* What a worker calls: get_positions, get_account_summary, get_recent_trades,
\* get_market_snapshot_batch, one GET of an account's data, one POST of a report.
Calls == {"positions", "summary", "trades", "snapshot", "data", "report"}

\* The requests of the keeper, in _bootstrap_iserver and ensure_session.
Steps == {"accounts", "status", "iserver", "activate", "first tickle",
          "tickle", "reauthenticate", "second tickle"}

Posts == {"report", "activate", "reauthenticate"}

\* The calls that ask for /portfolio/accounts before what they are about.
HasLead == {"positions", "summary", "trades"}

\* The requests answered only to an authenticated brokerage session.  A tickle
\* is answered in any case and says whether it is.
OfBrokerage == {"trades", "snapshot", "iserver", "activate",
                "first tickle", "tickle", "second tickle"}

\* Attempts until one is answered with data; of get_positions the last one is
\* at portfolio2.
Tries(call) ==
    CASE call = "positions" -> Retries + 1
      [] call = "snapshot"  -> Polls
      [] OTHER              -> 1

-----------------------------------------------------------------------------
VARIABLES age,      \* time since _last_ibkr_request_at, counted up to Delay
          headers,  \* _oauth_headers: none, or what the broker thinks of them
          healthy,  \* _session_healthy
          started,  \* the start-up handler has returned
          pc,       \* where each thread's request stands
          doing,    \* the call, or the keeper's step
          lead,     \* the request for the accounts is still to come
          tries,    \* attempts left, this one included
          wait,     \* time left to sleep in the throttle
          repeated, \* _retry: the request is the one after a 429
          carried,  \* the headers of the request in flight
          mode,     \* the broker: up, up with cold positions, busy or down
          authed,   \* the brokerage session is authenticated
          events,   \* what has happened at the broker, a number
          beaten,   \* history: another thread wrote the stamp during the sleep
          calm,     \* history: no trouble at the broker in the keeper's round
          smooth    \* history: no trouble and no reconnect during the call

clock  == <<age, wait, beaten>>
client == <<headers, healthy, started>>
calls  == <<doing, lead, tries, repeated, carried>>
broker == <<mode, authed, events>>
vars == <<age, wait, beaten, headers, healthy, started, doing, lead, tries,
          repeated, carried, mode, authed, events, pc, calm, smooth>>

Serving == mode \in {"up", "cold"}
Fine == Serving /\ headers = "valid" /\ authed

Init ==
    /\ age = Delay
    /\ headers = "none"
    /\ healthy = FALSE
    /\ started = FALSE
    /\ pc = [t \in Threads |-> IF t = Keeper THEN "handshake" ELSE "idle"]
    /\ doing = [t \in Threads |-> IF t = Keeper THEN "accounts" ELSE "data"]
    /\ lead = [t \in Threads |-> FALSE]
    /\ tries = [t \in Threads |-> 1]
    /\ wait = [t \in Threads |-> 0]
    /\ repeated = [t \in Threads |-> FALSE]
    /\ carried = [t \in Threads |-> "none"]
    /\ mode \in {"up", "cold", "busy", "down"}
    /\ authed = FALSE
    /\ events = 0
    /\ beaten = [t \in Threads |-> FALSE]
    /\ calm = Serving
    /\ smooth = [w \in Workers |-> FALSE]

Goto(t, label) == pc' = [pc EXCEPT ![t] = label]

\* is_connected, with OAuth.
IsConnected == headers # "none" /\ healthy

-----------------------------------------------------------------------------
(* _throttle_ibkr.                                                         *)

\* Mutant: the delay is slept off from the wrong end.
ReadStampInverted(t) ==
    /\ pc[t] = "due"
    /\ wait' = [wait EXCEPT ![t] = age]
    /\ beaten' = [beaten EXCEPT ![t] = FALSE]
    /\ Goto(t, "asleep")
    /\ UNCHANGED <<age, client, calls, broker, calm, smooth>>

ReadStamp(t) ==
    /\ pc[t] = "due"
    /\ wait' = [wait EXCEPT ![t] = Delay - age]
    /\ beaten' = [beaten EXCEPT ![t] = FALSE]
    /\ Goto(t, "asleep")
    /\ UNCHANGED <<age, client, calls, broker, calm, smooth>>

WriteStamp(t) ==
    /\ pc[t] = "asleep"
    /\ wait[t] = 0
    /\ age' = 0
    /\ beaten' = [u \in Threads |-> u # t /\ pc[u] = "asleep"]
    /\ Goto(t, "send")
    /\ UNCHANGED <<wait, client, calls, broker, calm, smooth>>

Tick ==
    /\ age < Delay \/ \E t \in Threads : wait[t] > 0
    /\ age' = IF age < Delay THEN age + 1 ELSE age
    /\ wait' = [t \in Threads |-> IF wait[t] > 0 THEN wait[t] - 1 ELSE 0]
    /\ UNCHANGED <<beaten, client, calls, broker, pc, calm, smooth>>

-----------------------------------------------------------------------------
(* _get and _post.                                                         *)

\* Does the broker answer the request in flight of a thread with data, for a
\* tickle with "authenticated"?  With cold positions only portfolio2 does.
Answers(t) ==
    /\ Serving
    /\ carried[t] = "valid"
    /\ ~lead[t] /\ doing[t] \in OfBrokerage => authed
    /\ ~(mode = "cold" /\ doing[t] = "positions" /\ ~lead[t] /\ tries[t] > 1)

\* Mutant: the request after a 429 is repeated for another 429.
IsRepeatedForEver(t) == mode = "busy" /\ doing[t] \notin Posts

\* A GET is repeated once after a 429.
IsRepeated(t) == mode = "busy" /\ doing[t] \notin Posts /\ ~repeated[t]

\* Mutant: the first answer ends a call, with data or without.
ContinueOnce(w, answered) ==
    /\ lead' = [lead EXCEPT ![w] = FALSE]
    /\ repeated' = [repeated EXCEPT ![w] = FALSE]
    /\ UNCHANGED tries
    /\ Goto(w, IF lead[w] THEN "due" ELSE IF answered THEN "found" ELSE "empty")

\* Mutant: one attempt too many.
ContinueToZero(w, answered) ==
    /\ lead' = [lead EXCEPT ![w] = FALSE]
    /\ repeated' = [repeated EXCEPT ![w] = FALSE]
    /\ tries' = [tries EXCEPT ![w] = IF lead[w] \/ answered \/ @ = 0 THEN @ ELSE @ - 1]
    /\ Goto(w, IF lead[w] THEN "due"
               ELSE IF answered THEN "found"
               ELSE IF tries[w] = 0 THEN "empty" ELSE "due")

\* The next request of a call, or its end: a worker's call ends with the first
\* data or with its last attempt; what becomes of a keeper's step is below.
Continue(w, answered) ==
    /\ lead' = [lead EXCEPT ![w] = FALSE]
    /\ repeated' = [repeated EXCEPT ![w] = FALSE]
    /\ tries' = [tries EXCEPT ![w] = IF lead[w] \/ answered \/ @ = 1 THEN @ ELSE @ - 1]
    /\ Goto(w, IF lead[w] THEN "due"
               ELSE IF answered THEN "found"
               ELSE IF tries[w] = 1 THEN "empty" ELSE "due")

\* Without headers a request is answered None, and never sent.
SendNothing(w) ==
    /\ pc[w] = "send"
    /\ headers = "none"
    /\ Continue(w, FALSE)
    /\ UNCHANGED <<clock, client, doing, carried, broker, calm, smooth>>

Send(t) ==
    /\ pc[t] = "send"
    /\ headers # "none"
    /\ carried' = [carried EXCEPT ![t] = headers]
    /\ Goto(t, "flight")
    /\ UNCHANGED <<clock, client, doing, lead, tries, repeated, broker, calm, smooth>>

BackOff(t) ==
    /\ pc[t] = "flight"
    /\ IsRepeated(t)
    /\ repeated' = [repeated EXCEPT ![t] = TRUE]
    /\ Goto(t, "backoff")
    /\ UNCHANGED <<clock, client, doing, lead, tries, carried, broker, calm, smooth>>

\* time.sleep, then the whole of _get again.
Repeat(t) ==
    /\ pc[t] = "backoff"
    /\ Goto(t, "due")
    /\ UNCHANGED <<clock, client, calls, broker, calm, smooth>>

\* An answer, an HTTP error, a refused connection or a timeout.
Receive(w) ==
    /\ pc[w] = "flight"
    /\ ~IsRepeated(w)
    /\ Continue(w, Answers(w))
    /\ carried' = [carried EXCEPT ![w] = "none"]
    /\ UNCHANGED <<clock, client, doing, broker, calm, smooth>>

\* A handler, the refresh loop or a job of market data calls the client; most
\* look at is_connected some time before, and none again.
Start(w, call) ==
    /\ pc[w] = "idle"
    /\ pc[Keeper] # "dead"
    /\ doing' = [doing EXCEPT ![w] = call]
    /\ lead' = [lead EXCEPT ![w] = call \in HasLead]
    /\ tries' = [tries EXCEPT ![w] = Tries(call)]
    /\ smooth' = [smooth EXCEPT ![w] = Fine]
    /\ Goto(w, "due")
    /\ UNCHANGED <<clock, client, repeated, carried, broker, calm>>

Return(w) ==
    /\ pc[w] \in {"found", "empty"}
    /\ Goto(w, "idle")
    /\ UNCHANGED <<clock, client, calls, broker, calm, smooth>>

-----------------------------------------------------------------------------
(* connect_oauth, ensure_session and _reconnect.                           *)

\* The keeper's next request.
Ask(step) ==
    /\ doing' = [doing EXCEPT ![Keeper] = step]
    /\ repeated' = [repeated EXCEPT ![Keeper] = FALSE]
    /\ Goto(Keeper, "due")

\* get_access_token, get_bearer_token, validate_sso and ssodh_init; the new
\* headers are set after the last of them.
Handshake ==
    /\ pc[Keeper] = "handshake"
    /\ Serving
    /\ headers' = "valid"
    /\ authed' = TRUE
    /\ Ask("accounts")
    /\ UNCHANGED <<clock, healthy, started, lead, tries, carried, mode, events, calm, smooth>>

\* Mutant: the keepalive task ends with the handshake that raises.
HandshakeFailsForGood ==
    /\ pc[Keeper] = "handshake"
    /\ ~Serving
    /\ pc' = IF started THEN [pc EXCEPT ![Keeper] = "ended"]
             ELSE [t \in Threads |-> IF t = Keeper THEN "dead" ELSE "idle"]
    /\ UNCHANGED <<clock, client, calls, broker, calm, smooth>>

\* One of them raises.  _reconnect answers that the session is unhealthy, and
\* the task sleeps; the start-up handler does not catch it, the process ends.
HandshakeFails ==
    /\ pc[Keeper] = "handshake"
    /\ ~Serving
    /\ pc' = IF started THEN [pc EXCEPT ![Keeper] = "idle"]
             ELSE [t \in Threads |-> IF t = Keeper THEN "dead" ELSE "idle"]
    /\ UNCHANGED <<clock, client, calls, broker, calm, smooth>>

\* Somebody starts the process again.  Nothing says that anybody does: the
\* service has no restart policy in docker-compose.yml, and railway.toml:8-9
\* gives up after three retries.
StartUp ==
    /\ pc[Keeper] = "dead"
    /\ Goto(Keeper, "handshake")
    /\ calm' = Serving
    /\ age' = Delay
    /\ wait' = [t \in Threads |-> 0]
    /\ UNCHANGED <<beaten, client, calls, broker, smooth>>

\* Mutant: a failing tickle leads to a reconnect at once.
RoundAfterImpatient(step, answered) ==
    IF answered THEN "idle" ELSE "reconnect"

\* Mutant: the reauthentication is taken for a success.
RoundAfterTrusting(step, answered) ==
    IF answered \/ step = "second tickle" THEN "idle" ELSE "reauthenticate"

\* Where a tickle of ensure_session leads: healthy, or one step further.
RoundAfter(step, answered) ==
    IF answered THEN "idle"
    ELSE IF step = "tickle" THEN "reauthenticate" ELSE "reconnect"

\* The session is healthy, is dropped, or another request follows.
Tickled(answered) ==
    LET next == RoundAfter(doing[Keeper], answered)
    IN  /\ healthy' = (healthy \/ next = "idle")
        /\ IF next = "reauthenticate" THEN Ask(next)
           ELSE Goto(Keeper, next) /\ UNCHANGED <<doing, repeated>>
        /\ UNCHANGED <<headers, started, authed>>

\* A reauthentication that reaches the broker with its token restores the
\* brokerage session; its answer is not looked at.
Reauthenticated(answered) ==
    /\ authed' = (authed \/ answered)
    /\ Ask("second tickle")
    /\ UNCHANGED client

\* _validate_account_ids and _bootstrap_iserver log what they get; only the
\* list of the accounts decides whether one of them is activated.  The session
\* counts as healthy after the last of them, whatever it answered.
Bootstrapped(answered) ==
    LET step == doing[Keeper]
    IN  /\ IF step = "first tickle"
           THEN /\ healthy' = TRUE
                /\ started' = TRUE
                /\ Goto(Keeper, "idle")
                /\ UNCHANGED <<doing, repeated>>
           ELSE /\ Ask(CASE step = "accounts" -> "status"
                         [] step = "status"   -> "iserver"
                         [] step = "iserver" /\ answered -> "activate"
                         [] OTHER             -> "first tickle")
                /\ UNCHANGED <<healthy, started>>
        /\ UNCHANGED <<headers, authed>>

Hear ==
    /\ pc[Keeper] = "flight"
    /\ ~IsRepeated(Keeper)
    /\ CASE doing[Keeper] \in {"tickle", "second tickle"} -> Tickled(Answers(Keeper))
         [] doing[Keeper] = "reauthenticate" -> Reauthenticated(Answers(Keeper))
         [] OTHER -> Bootstrapped(Answers(Keeper))
    /\ carried' = [carried EXCEPT ![Keeper] = "none"]
    /\ UNCHANGED <<clock, lead, tries, mode, events, calm, smooth>>

\* _ibkr_keepalive_loop wakes up after its minute.
Wake ==
    /\ pc[Keeper] = "idle"
    /\ calm' = Serving
    /\ IF headers = "none"
       THEN Goto(Keeper, "reconnect") /\ UNCHANGED <<doing, repeated>>
       ELSE Ask("tickle")
    /\ UNCHANGED <<clock, client, lead, tries, carried, broker, smooth>>

\* _reconnect, up to the first await of the handshake.
Reconnect ==
    /\ pc[Keeper] = "reconnect"
    /\ headers' = "none"
    /\ healthy' = FALSE
    /\ smooth' = [w \in Workers |-> FALSE]
    /\ Goto(Keeper, "handshake")
    /\ UNCHANGED <<clock, started, calls, broker, calm>>

-----------------------------------------------------------------------------
(* The broker.                                                             *)

Event == events < MaxEvents /\ events' = events + 1

Trouble ==
    /\ calm' = FALSE
    /\ smooth' = [w \in Workers |-> FALSE]

\* It comes back, or its answers of positions warm up or get cold.
Recover ==
    /\ Event
    /\ mode' \in {"up", "cold"} \ {mode}
    /\ UNCHANGED <<clock, client, calls, pc, authed, calm, smooth>>

Degrade ==
    /\ Event
    /\ mode' \in {"busy", "down"} \ {mode}
    /\ Trouble
    /\ UNCHANGED <<clock, client, calls, pc, authed>>

\* The brokerage session ends, after a minute without a request or because
\* another login takes it.
LogOut ==
    /\ authed
    /\ Event
    /\ authed' = FALSE
    /\ Trouble
    /\ UNCHANGED <<clock, client, calls, pc, mode>>

\* The bearer token expires, also for the requests in flight.
Expire ==
    /\ headers = "valid"
    /\ Event
    /\ headers' = "expired"
    /\ carried' = [t \in Threads |-> IF carried[t] = "valid" THEN "expired" ELSE carried[t]]
    /\ authed' = FALSE
    /\ Trouble
    /\ UNCHANGED <<clock, healthy, started, doing, lead, tries, repeated, pc, mode>>

-----------------------------------------------------------------------------
Request(t) == ReadStamp(t) \/ WriteStamp(t) \/ Send(t) \/ BackOff(t) \/ Repeat(t)
Work(w) == Request(w) \/ SendNothing(w) \/ Receive(w) \/ Return(w)
Keep == Request(Keeper) \/ Handshake \/ HandshakeFails \/ Hear \/ Wake \/ Reconnect

Next ==
    \/ \E w \in Workers : Work(w) \/ \E call \in Calls : Start(w, call)
    \/ Keep
    \/ StartUp
    \/ Tick
    \/ Recover \/ Degrade \/ LogOut \/ Expire

\* Threads run, sleeps and timeouts end, and the minute passes.  Nothing is
\* assumed of the broker, nor that a process that ended is started again.
Fairness ==
    /\ \A w \in Workers : WF_vars(Work(w))
    /\ WF_vars(Keep)
    /\ WF_vars(Tick)

Spec == Init /\ [][Next]_vars
FairSpec == Spec /\ Fairness

-----------------------------------------------------------------------------
Labels == {"idle", "due", "asleep", "send", "flight", "backoff",
           "found", "empty", "reconnect", "handshake", "dead"}

TypeOK ==
    /\ age \in 0..Delay
    /\ headers \in {"none", "valid", "expired"}
    /\ healthy \in BOOLEAN /\ started \in BOOLEAN
    /\ pc \in [Threads -> Labels]
    /\ doing \in [Threads -> Calls \cup Steps]
    /\ lead \in [Threads -> BOOLEAN]
    /\ tries \in [Threads -> Nat \ {0}]
    /\ wait \in [Threads -> 0..Delay]
    /\ repeated \in [Threads -> BOOLEAN]
    /\ carried \in [Threads -> {"none", "valid", "expired"}]
    /\ mode \in {"up", "cold", "busy", "down"}
    /\ authed \in BOOLEAN
    /\ events \in 0..MaxEvents
    /\ beaten \in [Threads -> BOOLEAN]
    /\ calm \in BOOLEAN
    /\ smooth \in [Workers -> BOOLEAN]

\* Two requests are Delay apart, unless the threads were in the throttle at the
\* same time: the one that is early read the time stamp before the other wrote
\* it (_throttle_ibkr has no lock).
SpacedUnlessOverlapping ==
    [][\A t \in Threads : WriteStamp(t) => age = Delay \/ beaten[t]]_vars

\* The keepalive does not tear down a session the broker still honours: in a
\* round without trouble at the broker a lost brokerage session is restored by
\* the reauthentication, and nobody loses the headers.
LiveSessionIsKept ==
    [][calm /\ headers = "valid" => headers' # "none"]_vars

\* One round of ensure_session heals: when it ends and there was no trouble at
\* the broker since it began, is_connected is true and the session works.
OneRoundHeals ==
    pc[Keeper] = "idle" /\ calm => IsConnected /\ Fine

\* A call that comes back without data met trouble at the broker or a reconnect
\* of the keeper; cold positions are none, the fallback gets over them.
EmptyForCause == \A w \in Workers : pc[w] = "empty" => ~smooth[w]

\* Whatever became of the session: once the broker serves for good and the
\* process stays up, the client is connected for good.  A start-up whose
\* handshake raises ends the process, and nothing brings it back.
SessionHeals ==
    <>[](Serving /\ pc[Keeper] # "dead") => <>[](IsConnected /\ Fine)

\* Every call returns: retries, polls and back-offs end, also in an outage.
EveryCallReturns == \A w \in Workers : pc[w] # "idle" ~> pc[w] = "idle"
=============================================================================
