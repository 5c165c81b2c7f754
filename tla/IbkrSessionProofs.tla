------------------------- MODULE IbkrSessionProofs -------------------------
(***************************************************************************)
(* Proofs about IbkrSession, for every set of worker threads, every delay, *)
(* every number of retries, and whatever happens at the broker.            *)
(***************************************************************************)
EXTENDS IbkrSession, TLAPS

(***************************************************************************)
(* A thread that sleeps in the throttle alone will wake up Delay after the *)
(* last request: the time it has left and the time that has passed add up. *)
(***************************************************************************)
SpacingInv ==
    \A t \in Threads : pc[t] = "asleep" /\ ~beaten[t] => wait[t] + age >= Delay

(***************************************************************************)
(* The keeper's round, while nothing goes wrong at the broker: its request *)
(* carries the headers everybody has, the handshake or the                 *)
(* reauthentication before it has restored the brokerage session, and so   *)
(* it never comes to a reconnect with headers the broker honours.          *)
(***************************************************************************)
Asking == pc[Keeper] \in {"due", "asleep", "send", "flight", "backoff"}

CalmInv == calm => Serving

CarriedInv ==
    pc[Keeper] = "flight" =>
       /\ carried[Keeper] = "valid" => headers = "valid"
       /\ calm /\ headers = "valid" => carried[Keeper] = "valid"

BootInv ==
    Asking /\ calm /\ doing[Keeper] \in {"accounts", "status", "iserver", "activate", "first tickle"} =>
       headers = "valid" /\ authed

RestoredInv ==
    Asking /\ calm /\ headers = "valid" /\ doing[Keeper] = "second tickle" => authed

DropInv == pc[Keeper] = "reconnect" /\ calm => headers # "valid"

KeeperInv ==
    /\ ~lead[Keeper]
    /\ doing[Keeper] \in Steps
    /\ pc[Keeper] \notin {"found", "empty"}

RoundInv ==
    /\ CalmInv /\ CarriedInv /\ BootInv /\ RestoredInv /\ DropInv /\ KeeperInv
    /\ OneRoundHeals

(***************************************************************************)
(* A worker's call in smooth waters: the session works, and the request in *)
(* flight carries good headers.                                            *)
(***************************************************************************)
SmoothInv ==
    \A w \in Workers : smooth[w] /\ pc[w] # "idle" =>
       /\ Fine
       /\ pc[w] = "flight" => carried[w] = "valid"
       /\ pc[w] # "empty"

-----------------------------------------------------------------------------
LEMMA ThreadsAreTwoSorts ==
    /\ Keeper \in Threads /\ Keeper \notin Workers
    /\ Workers \subseteq Threads
    /\ \A t \in Threads : t # Keeper => t \in Workers
  BY SessionAssumption DEF Threads

LEMMA TriesType == \A call \in Calls : Tries(call) \in Nat \ {0}
  BY SessionAssumption DEF Tries, Calls

LEMMA ServingType == Serving \in BOOLEAN
  BY DEF Serving

LEMMA InitType == Init => TypeOK
<1> SUFFICES ASSUME Init PROVE TypeOK
  OBVIOUS
<1>1. calm \in BOOLEAN /\ healthy \in BOOLEAN /\ started \in BOOLEAN /\ authed \in BOOLEAN
  BY ServingType DEF Init
<1>2. age \in 0..Delay /\ events \in 0..MaxEvents
  BY SessionAssumption DEF Init
<1>3. pc \in [Threads -> Labels] /\ doing \in [Threads -> Calls \cup Steps]
  BY DEF Init, Labels, Calls, Steps
<1>4. wait \in [Threads -> 0..Delay] /\ tries \in [Threads -> Nat \ {0}]
  BY SessionAssumption DEF Init
<1>5. QED BY <1>1, <1>2, <1>3, <1>4 DEF Init, TypeOK

LEMMA ContinueType ==
    ASSUME TypeOK, NEW w \in Workers, NEW answered \in BOOLEAN, Continue(w, answered)
    PROVE  /\ lead' \in [Threads -> BOOLEAN]
           /\ repeated' \in [Threads -> BOOLEAN]
           /\ tries' \in [Threads -> Nat \ {0}]
           /\ pc' \in [Threads -> Labels]
<1>1. tries[w] \in Nat \ {0}
  BY ThreadsAreTwoSorts DEF TypeOK
<1>2. (IF lead[w] \/ answered \/ tries[w] = 1 THEN tries[w] ELSE tries[w] - 1) \in Nat \ {0}
  BY <1>1
<1>3. tries' \in [Threads -> Nat \ {0}]
  BY <1>2, ThreadsAreTwoSorts DEF TypeOK, Continue
<1>4. QED BY <1>3 DEF TypeOK, Continue, Goto, Labels

LEMMA AskType ==
    ASSUME TypeOK, NEW step \in Steps, Ask(step)
    PROVE  /\ pc' \in [Threads -> Labels] /\ pc'[Keeper] = "due"
           /\ doing' \in [Threads -> Calls \cup Steps] /\ doing'[Keeper] = step
           /\ repeated' \in [Threads -> BOOLEAN]
<1>1. Keeper \in Threads
  BY ThreadsAreTwoSorts
<1>2. pc' \in [Threads -> Labels] /\ pc'[Keeper] = "due"
  BY <1>1 DEF TypeOK, Ask, Goto, Labels
<1>3. doing' \in [Threads -> Calls \cup Steps] /\ doing'[Keeper] = step
  BY <1>1 DEF TypeOK, Ask
<1>4. repeated' \in [Threads -> BOOLEAN]
  BY DEF TypeOK, Ask
<1>5. QED BY <1>2, <1>3, <1>4

\* Every step keeps the types.
LEMMA NextType == TypeOK /\ [Next]_vars => TypeOK'
<1> SUFFICES ASSUME TypeOK, [Next]_vars PROVE TypeOK'
  OBVIOUS
<1> USE ThreadsAreTwoSorts
<1>1. ASSUME NEW t \in Threads, ReadStamp(t) PROVE TypeOK'
  BY <1>1, SessionAssumption DEF TypeOK, ReadStamp, Goto, Labels, client, calls, broker
<1>2. ASSUME NEW t \in Threads, WriteStamp(t) PROVE TypeOK'
  BY <1>2, SessionAssumption DEF TypeOK, WriteStamp, Goto, Labels, client, calls, broker
<1>3. ASSUME NEW t \in Threads, Send(t) PROVE TypeOK'
  BY <1>3 DEF TypeOK, Send, Goto, Labels, clock, client, broker
<1>4. ASSUME NEW t \in Threads, BackOff(t) PROVE TypeOK'
  BY <1>4 DEF TypeOK, BackOff, Goto, Labels, clock, client, broker
<1>5. ASSUME NEW t \in Threads, Repeat(t) PROVE TypeOK'
  BY <1>5 DEF TypeOK, Repeat, Goto, Labels, clock, client, calls, broker
<1>6. ASSUME NEW w \in Workers, SendNothing(w) PROVE TypeOK'
  BY <1>6, ContinueType DEF TypeOK, SendNothing, clock, client, broker
<1>7. ASSUME NEW w \in Workers, Receive(w) PROVE TypeOK'
  <2>1. Answers(w) \in BOOLEAN
    BY DEF Answers
  <2>2. QED BY <1>7, <2>1, ContinueType DEF TypeOK, Receive, clock, client, broker
<1>8. ASSUME NEW w \in Workers, Return(w) PROVE TypeOK'
  BY <1>8 DEF TypeOK, Return, Goto, Labels, clock, client, calls, broker
<1>9. ASSUME NEW w \in Workers, NEW call \in Calls, Start(w, call) PROVE TypeOK'
  BY <1>9, TriesType DEF TypeOK, Start, Goto, Labels, Fine, Serving, HasLead, clock, client, broker
<1>10. ASSUME Handshake PROVE TypeOK'
  BY <1>10 DEF TypeOK, Handshake, Ask, Goto, Labels, Steps, clock
<1>11. ASSUME HandshakeFails PROVE TypeOK'
  BY <1>11 DEF TypeOK, HandshakeFails, Labels, clock, client, calls, broker
<1>12. ASSUME Hear PROVE TypeOK'
  <2>1. Answers(Keeper) \in BOOLEAN
    BY DEF Answers
  <2>2. CASE doing[Keeper] \in {"tickle", "second tickle"}
    <3> DEFINE after == RoundAfter(doing[Keeper], Answers(Keeper))
    <3>1. after \in {"idle", "reauthenticate", "reconnect"}
      BY DEF RoundAfter
    <3>a. Tickled(Answers(Keeper))
      BY <1>12, <2>2 DEF Hear
    <3>b. /\ healthy' = (healthy \/ after = "idle")
          /\ IF after = "reauthenticate" THEN Ask(after)
             ELSE Goto(Keeper, after) /\ UNCHANGED <<doing, repeated>>
          /\ UNCHANGED <<headers, started, authed>>
      BY <3>a DEF Tickled
    <3> HIDE DEF after
    <3>2. healthy' \in BOOLEAN
      BY <3>b
    <3>3. /\ pc' \in [Threads -> Labels] /\ doing' \in [Threads -> Calls \cup Steps]
          /\ repeated' \in [Threads -> BOOLEAN]
      <4>1. CASE after = "reauthenticate"
        <5>1. Ask(after) /\ after \in Steps
          BY <3>b, <4>1 DEF Steps
        <5>2. QED BY <5>1, AskType
      <4>2. CASE after # "reauthenticate"
        <5>1. Goto(Keeper, after) /\ UNCHANGED <<doing, repeated>> /\ after \in Labels
          BY <3>1, <3>b, <4>2 DEF Labels
        <5>2. QED BY <5>1 DEF TypeOK, Goto
      <4>3. QED BY <4>1, <4>2
    <3>4. QED BY <1>12, <3>b, <3>2, <3>3 DEF TypeOK, Hear, clock
  <2>3. CASE doing[Keeper] = "reauthenticate"
    <3>1. Reauthenticated(Answers(Keeper))
      BY <1>12, <2>3 DEF Hear
    <3>2. authed' \in BOOLEAN /\ UNCHANGED client
      BY <2>1, <3>1 DEF TypeOK, Reauthenticated
    <3>3. Ask("second tickle") /\ "second tickle" \in Steps
      BY <3>1 DEF Reauthenticated, Steps
    <3>4. /\ pc' \in [Threads -> Labels] /\ doing' \in [Threads -> Calls \cup Steps]
          /\ repeated' \in [Threads -> BOOLEAN]
      BY <3>3, AskType
    <3>5. /\ carried' = [carried EXCEPT ![Keeper] = "none"]
          /\ UNCHANGED <<clock, lead, tries, mode, events, calm, smooth>>
      BY <1>12 DEF Hear
    <3>6. carried' \in [Threads -> {"none", "valid", "expired"}]
      BY <3>5 DEF TypeOK
    <3>7. QED BY <3>2, <3>4, <3>5, <3>6 DEF TypeOK, clock, client
  <2>4. CASE doing[Keeper] \notin {"tickle", "second tickle", "reauthenticate"}
    <3>1. Bootstrapped(Answers(Keeper))
      BY <1>12, <2>4 DEF Hear
    <3>2. healthy' \in BOOLEAN /\ started' \in BOOLEAN /\ UNCHANGED <<headers, authed>>
      BY <3>1 DEF TypeOK, Bootstrapped
    <3>3. /\ pc' \in [Threads -> Labels] /\ doing' \in [Threads -> Calls \cup Steps]
          /\ repeated' \in [Threads -> BOOLEAN]
      <4>1. CASE doing[Keeper] = "first tickle"
        BY <3>1, <4>1 DEF TypeOK, Bootstrapped, Goto, Labels
      <4>2. CASE doing[Keeper] # "first tickle"
        <5>1. PICK step \in {"status", "iserver", "activate", "first tickle"} : Ask(step)
          BY <3>1, <4>2 DEF Bootstrapped
        <5>2. step \in Steps
          BY DEF Steps
        <5>3. QED BY <5>1, <5>2, AskType
      <4>3. QED BY <4>1, <4>2
    <3>4. QED BY <1>12, <3>2, <3>3 DEF TypeOK, Hear, clock
  <2>5. QED BY <2>2, <2>3, <2>4
<1>13. ASSUME Wake PROVE TypeOK'
  <2>1. pc' \in [Threads -> Labels] /\ doing' \in [Threads -> Calls \cup Steps]
        /\ repeated' \in [Threads -> BOOLEAN]
    BY <1>13 DEF TypeOK, Wake, Ask, Goto, Labels, Steps
  <2>2. calm' \in BOOLEAN
    BY <1>13, ServingType DEF Wake
  <2>3. QED BY <1>13, <2>1, <2>2 DEF TypeOK, Wake, clock, client, broker
<1>14. ASSUME Reconnect PROVE TypeOK'
  BY <1>14 DEF TypeOK, Reconnect, Goto, Labels, clock, calls, broker
<1>15. ASSUME StartUp PROVE TypeOK'
  BY <1>15, SessionAssumption DEF TypeOK, StartUp, Goto, Labels, Serving, client, calls, broker
<1>16. ASSUME Tick PROVE TypeOK'
  BY <1>16, SessionAssumption DEF TypeOK, Tick, client, calls, broker
<1>17. ASSUME Recover PROVE TypeOK'
  BY <1>17, SessionAssumption DEF TypeOK, Recover, Event, clock, client, calls
<1>a. ASSUME Event, Trouble
      PROVE  events' \in 0..MaxEvents /\ calm' \in BOOLEAN /\ smooth' \in [Workers -> BOOLEAN]
  <2>1. events' \in 0..MaxEvents
    BY <1>a, SessionAssumption DEF TypeOK, Event
  <2>2. calm' \in BOOLEAN /\ smooth' \in [Workers -> BOOLEAN]
    BY <1>a DEF Trouble
  <2>3. QED BY <2>1, <2>2
<1>18. ASSUME Degrade PROVE TypeOK'
  <2>1. Event /\ Trouble /\ mode' \in {"up", "cold", "busy", "down"}
    BY <1>18 DEF Degrade
  <2>2. QED BY <1>18, <1>a, <2>1 DEF TypeOK, Degrade, clock, client, calls
<1>b. ASSUME LogOut PROVE TypeOK'
  <2>1. Event /\ Trouble /\ authed' \in BOOLEAN
    BY <1>b DEF LogOut
  <2>2. QED BY <1>b, <1>a, <2>1 DEF TypeOK, LogOut, clock, client, calls
<1>19. ASSUME Expire PROVE TypeOK'
  <2>1. carried' \in [Threads -> {"none", "valid", "expired"}]
    BY <1>19 DEF TypeOK, Expire
  <2>2. QED BY <1>19, <1>a, <2>1 DEF TypeOK, Expire, clock
<1>20. ASSUME UNCHANGED vars PROVE TypeOK'
  BY <1>20 DEF TypeOK, vars
<1>21. QED
  BY <1>1, <1>2, <1>3, <1>4, <1>5, <1>6, <1>7, <1>8, <1>9, <1>10, <1>11, <1>12, <1>13,
     <1>14, <1>15, <1>16, <1>17, <1>18, <1>b, <1>19, <1>20
     DEF Next, Work, Request, Keep

\* The session's state stays well typed.
THEOREM TypeCorrect == Spec => []TypeOK
  BY InitType, NextType, PTL DEF Spec

-----------------------------------------------------------------------------
(* The throttle.                                                           *)

\* The keeper's answers lead to the throttle's door, never into it.
LEMMA HearLeads ==
    ASSUME TypeOK, Hear
    PROVE  /\ \A t \in Threads \ {Keeper} : pc'[t] = pc[t]
           /\ pc'[Keeper] \in {"idle", "due", "reconnect"}
<1> USE ThreadsAreTwoSorts
<1>1. CASE doing[Keeper] \in {"tickle", "second tickle"}
  BY <1>1 DEF Hear, Tickled, RoundAfter, Ask, Goto, TypeOK
<1>2. CASE doing[Keeper] = "reauthenticate"
  BY <1>2 DEF Hear, Reauthenticated, Ask, Goto, TypeOK
<1>3. CASE doing[Keeper] \notin {"tickle", "second tickle", "reauthenticate"}
  BY <1>3 DEF Hear, Bootstrapped, Ask, Goto, TypeOK
<1>4. QED BY <1>1, <1>2, <1>3

LEMMA SpacingStep ==
    ASSUME TypeOK, SpacingInv, [Next]_vars
    PROVE  SpacingInv'
<1> USE ThreadsAreTwoSorts
\* A step that leaves the clock alone and puts nobody to sleep.
<1>0. ASSUME UNCHANGED clock,
             \A t \in Threads : pc'[t] = "asleep" => pc[t] = "asleep"
      PROVE  SpacingInv'
  BY <1>0 DEF SpacingInv, clock
<1>1. ASSUME NEW t \in Threads, ReadStamp(t) PROVE SpacingInv'
  BY <1>1, SessionAssumption DEF TypeOK, SpacingInv, ReadStamp, Goto
<1>2. ASSUME NEW t \in Threads, WriteStamp(t) PROVE SpacingInv'
  BY <1>2, SessionAssumption DEF TypeOK, SpacingInv, WriteStamp, Goto
<1>3. ASSUME NEW t \in Threads, Send(t) \/ BackOff(t) \/ Repeat(t) PROVE SpacingInv'
  BY <1>0, <1>3 DEF TypeOK, Send, BackOff, Repeat, Goto
<1>4. ASSUME NEW w \in Workers, SendNothing(w) \/ Receive(w) PROVE SpacingInv'
  BY <1>0, <1>4 DEF TypeOK, SendNothing, Receive, Continue, Goto
<1>5. ASSUME NEW w \in Workers, Return(w) \/ \E call \in Calls : Start(w, call)
      PROVE  SpacingInv'
  BY <1>0, <1>5 DEF TypeOK, Return, Start, Goto
<1>6. ASSUME Handshake \/ HandshakeFails \/ Wake \/ Reconnect PROVE SpacingInv'
  BY <1>0, <1>6 DEF TypeOK, Handshake, HandshakeFails, Wake, Reconnect, Ask, Goto
<1>7. ASSUME Hear PROVE SpacingInv'
  BY <1>0, <1>7, HearLeads DEF Hear
<1>8. ASSUME StartUp PROVE SpacingInv'
  BY <1>8, SessionAssumption DEF TypeOK, SpacingInv, StartUp, Goto
<1>9. ASSUME Tick PROVE SpacingInv'
  BY <1>9, SessionAssumption DEF TypeOK, SpacingInv, Tick
<1>10. ASSUME Recover \/ Degrade \/ LogOut \/ Expire PROVE SpacingInv'
  BY <1>0, <1>10 DEF Recover, Degrade, LogOut, Expire
<1>11. ASSUME UNCHANGED vars PROVE SpacingInv'
  BY <1>0, <1>11 DEF vars, clock
<1>12. QED
  BY <1>1, <1>2, <1>3, <1>4, <1>5, <1>6, <1>7, <1>8, <1>9, <1>10, <1>11
     DEF Next, Work, Request, Keep

\* Two requests closer than Delay were in the throttle together: the time
\* stamp was read by one before the other wrote it.
THEOREM RequestsAreSpaced == Spec => SpacedUnlessOverlapping
<1>1. Init => TypeOK /\ SpacingInv
  BY InitType, ThreadsAreTwoSorts DEF Init, SpacingInv
<1>2. TypeOK /\ SpacingInv /\ [Next]_vars => (TypeOK /\ SpacingInv)'
  BY NextType, SpacingStep
<1>3. TypeOK /\ SpacingInv /\ [Next]_vars =>
         [\A t \in Threads : WriteStamp(t) => age = Delay \/ beaten[t]]_vars
  <2> SUFFICES ASSUME TypeOK, SpacingInv, NEW t \in Threads, WriteStamp(t)
               PROVE  age = Delay \/ beaten[t]
    OBVIOUS
  <2>1. pc[t] = "asleep" /\ wait[t] = 0
    BY DEF WriteStamp
  <2>2. beaten[t] \/ age >= Delay
    BY <2>1 DEF SpacingInv, TypeOK
  <2>3. QED BY <2>2, SessionAssumption DEF TypeOK
<1>4. QED BY <1>1, <1>2, <1>3, PTL DEF Spec, SpacedUnlessOverlapping

-----------------------------------------------------------------------------
(* The keeper's round.                                                     *)

\* In a calm round the broker honours good headers: it answers whatever the
\* keeper asks, if the session of the brokerage is there or not needed.
LEMMA CalmAnswers ==
    ASSUME TypeOK, RoundInv, pc[Keeper] = "flight"
    PROVE  /\ calm /\ headers = "valid" /\ (authed \/ doing[Keeper] = "reauthenticate")
                => Answers(Keeper)
           /\ Answers(Keeper) /\ doing[Keeper] \in {"tickle", "second tickle"}
                => headers = "valid" /\ authed /\ Serving
  BY DEF RoundInv, CalmInv, CarriedInv, KeeperInv, Answers, OfBrokerage, Steps, HasLead

\* A step that leaves the keeper and the session alone.
LEMMA Aside ==
    ASSUME RoundInv,
           UNCHANGED <<headers, healthy, mode, authed, calm,
                       pc[Keeper], doing[Keeper], lead[Keeper], carried[Keeper]>>
    PROVE  RoundInv'
  BY DEF RoundInv, CalmInv, CarriedInv, BootInv, RestoredInv, DropInv, KeeperInv,
         OneRoundHeals, IsConnected, Fine, Serving, Asking

\* A step of the keeper's request that waits for no answer.
LEMMA RequestStep ==
    ASSUME TypeOK, RoundInv, Request(Keeper)
    PROVE  RoundInv'
<1> USE ThreadsAreTwoSorts DEF RoundInv, CalmInv, CarriedInv, BootInv, RestoredInv, DropInv,
        KeeperInv, OneRoundHeals, IsConnected, Fine, Serving, Asking, Goto, TypeOK
<1>1. CASE ReadStamp(Keeper)
  BY <1>1 DEF ReadStamp, client, calls, broker
<1>2. CASE WriteStamp(Keeper)
  BY <1>2 DEF WriteStamp, client, calls, broker
<1>3. CASE Send(Keeper)
  BY <1>3 DEF Send, client, broker
<1>4. CASE BackOff(Keeper)
  BY <1>4 DEF BackOff, client, broker
<1>5. CASE Repeat(Keeper)
  BY <1>5 DEF Repeat, client, calls, broker
<1>6. QED BY <1>1, <1>2, <1>3, <1>4, <1>5 DEF Request

\* An answer: the round goes on, ends well, or leads to a reconnect when the
\* reauthentication has not helped.
LEMMA HearStep ==
    ASSUME TypeOK, RoundInv, Hear
    PROVE  RoundInv'
<1> USE ThreadsAreTwoSorts
<1>1. pc[Keeper] = "flight"
  BY DEF Hear
<1>2. UNCHANGED <<mode, calm, lead>>
  BY DEF Hear
<1>3. CASE doing[Keeper] \in {"tickle", "second tickle"}
  <2>1. Tickled(Answers(Keeper))
    BY <1>3 DEF Hear
  <2>2. CASE Answers(Keeper)
    <3>1. pc'[Keeper] = "idle" /\ healthy' /\ UNCHANGED <<headers, authed, doing>>
      BY <2>1, <2>2 DEF Tickled, RoundAfter, Goto, TypeOK
    <3>2. headers = "valid" /\ authed /\ Serving
      BY <1>1, <1>3, <2>2, CalmAnswers
    <3>3. headers' = "valid" /\ authed' /\ Serving'
      BY <1>2, <3>1, <3>2 DEF Serving
    <3>4. OneRoundHeals' /\ CalmInv'
      BY <3>1, <3>3 DEF OneRoundHeals, IsConnected, Fine, CalmInv
    <3>5. QED
      BY <1>2, <3>1, <3>4 DEF RoundInv, CarriedInv, BootInv, RestoredInv, DropInv, KeeperInv, Asking
  <2>3. CASE ~Answers(Keeper) /\ doing[Keeper] = "tickle"
    <3>1. pc'[Keeper] = "due" /\ doing'[Keeper] = "reauthenticate" /\ UNCHANGED <<headers, authed>>
      BY <2>1, <2>3 DEF Tickled, RoundAfter, Ask, Goto, TypeOK
    <3>2. QED
      BY <1>2, <3>1
         DEF RoundInv, CalmInv, CarriedInv, BootInv, RestoredInv, DropInv, KeeperInv,
             OneRoundHeals, Serving, Asking, Steps
  <2>4. CASE ~Answers(Keeper) /\ doing[Keeper] = "second tickle"
    <3>1. pc'[Keeper] = "reconnect" /\ UNCHANGED <<headers, authed, doing>>
      BY <2>1, <2>4 DEF Tickled, RoundAfter, Goto, TypeOK
    <3>2. ~(calm /\ headers = "valid")
      BY <1>1, <2>4, CalmAnswers DEF RoundInv, RestoredInv, Asking
    <3>3. QED
      BY <1>2, <3>1, <3>2
         DEF RoundInv, CalmInv, CarriedInv, BootInv, RestoredInv, DropInv, KeeperInv,
             OneRoundHeals, Serving, Asking
  <2>5. QED BY <1>3, <2>2, <2>3, <2>4
<1>4. CASE doing[Keeper] = "reauthenticate"
  <2>1. /\ authed' = (authed \/ Answers(Keeper)) /\ UNCHANGED headers
        /\ pc'[Keeper] = "due" /\ doing'[Keeper] = "second tickle"
    BY <1>4 DEF Hear, Reauthenticated, Ask, Goto, TypeOK, client
  <2>2. calm /\ headers = "valid" => authed'
    BY <1>1, <1>4, <2>1, CalmAnswers
  <2>3. QED
    BY <1>2, <2>1, <2>2
       DEF RoundInv, CalmInv, CarriedInv, BootInv, RestoredInv, DropInv, KeeperInv,
           OneRoundHeals, Serving, Asking, Steps
<1>5. CASE doing[Keeper] \notin {"tickle", "second tickle", "reauthenticate"}
  <2>1. doing[Keeper] \in {"accounts", "status", "iserver", "activate", "first tickle"}
    BY <1>5 DEF RoundInv, KeeperInv, Steps
  <2>2. calm => headers = "valid" /\ authed
    BY <1>1, <2>1 DEF RoundInv, BootInv, Asking
  <2>3. UNCHANGED <<headers, authed>> /\ Bootstrapped(Answers(Keeper))
    BY <1>5 DEF Hear, Bootstrapped
  <2>4. CASE doing[Keeper] = "first tickle"
    <3>1. healthy' /\ pc'[Keeper] = "idle" /\ UNCHANGED doing
      BY <2>3, <2>4 DEF Bootstrapped, Goto, TypeOK
    <3>2. calm => headers' = "valid" /\ authed' /\ Serving'
      BY <1>2, <2>2, <2>3 DEF RoundInv, CalmInv, Serving
    <3>3. OneRoundHeals' /\ CalmInv'
      BY <1>2, <3>1, <3>2 DEF OneRoundHeals, IsConnected, Fine, CalmInv
    <3>4. QED
      BY <1>2, <3>1, <3>3 DEF RoundInv, CarriedInv, BootInv, RestoredInv, DropInv, KeeperInv, Asking
  <2>5. CASE doing[Keeper] # "first tickle"
    <3>1. /\ pc'[Keeper] = "due"
          /\ doing'[Keeper] \in {"status", "iserver", "activate", "first tickle"}
      <4>1. PICK step \in {"status", "iserver", "activate", "first tickle"} : Ask(step)
        BY <2>3, <2>5 DEF Bootstrapped
      <4>2. step \in Steps
        BY DEF Steps
      <4>3. QED BY <4>1, <4>2, AskType
    <3>2. QED
      BY <1>2, <2>2, <2>3, <3>1
         DEF RoundInv, CalmInv, CarriedInv, BootInv, RestoredInv, DropInv, KeeperInv,
             OneRoundHeals, Serving, Asking, Steps
  <2>6. QED BY <2>4, <2>5
<1>6. QED BY <1>3, <1>4, <1>5

LEMMA RoundStep ==
    ASSUME TypeOK, RoundInv, [Next]_vars
    PROVE  RoundInv'
<1> USE ThreadsAreTwoSorts
<1>1. ASSUME NEW w \in Workers, Work(w) PROVE RoundInv'
  <2>1. w # Keeper /\ w \in Threads
    OBVIOUS
  <2>2. CASE Request(w)
    BY <1>1, <2>1, <2>2, Aside
       DEF Request, ReadStamp, WriteStamp, Send, BackOff, Repeat, Goto, client, calls, broker, TypeOK
  <2>3. CASE SendNothing(w) \/ Receive(w) \/ Return(w)
    BY <1>1, <2>1, <2>3, Aside
       DEF SendNothing, Receive, Return, Continue, Goto, client, calls, broker, TypeOK
  <2>4. QED BY <1>1, <2>2, <2>3 DEF Work
<1>2. ASSUME NEW w \in Workers, NEW call \in Calls, Start(w, call) PROVE RoundInv'
  <2>1. w # Keeper /\ w \in Threads
    OBVIOUS
  <2>2. QED BY <1>2, <2>1, Aside DEF Start, Goto, client, broker, TypeOK
<1>3. ASSUME Handshake PROVE RoundInv'
  BY <1>3 DEF Handshake, Ask, Goto, TypeOK, Steps, RoundInv, CalmInv, CarriedInv, BootInv,
       RestoredInv, DropInv, KeeperInv, OneRoundHeals, Serving, Asking
<1>4. ASSUME HandshakeFails PROVE RoundInv'
  <2>1. ~calm /\ UNCHANGED <<calm, mode, doing, lead>>
    BY <1>4 DEF HandshakeFails, RoundInv, CalmInv, calls, broker
  <2>2. pc'[Keeper] \in {"idle", "dead"}
    BY <1>4 DEF HandshakeFails, TypeOK
  <2>3. QED
    BY <2>1, <2>2 DEF RoundInv, CalmInv, CarriedInv, BootInv, RestoredInv, DropInv, KeeperInv,
       OneRoundHeals, Serving, Asking
<1>5. ASSUME Wake PROVE RoundInv'
  <2>1. /\ calm' = Serving /\ UNCHANGED <<mode, headers, authed, lead>>
        /\ \/ pc'[Keeper] = "reconnect" /\ headers = "none" /\ UNCHANGED doing
           \/ pc'[Keeper] = "due" /\ doing'[Keeper] = "tickle"
    BY <1>5 DEF Wake, Ask, Goto, TypeOK, client, broker
  <2>2. QED
    BY <2>1 DEF RoundInv, CalmInv, CarriedInv, BootInv, RestoredInv, DropInv, KeeperInv,
       OneRoundHeals, Serving, Asking, Steps
<1>6. ASSUME Reconnect PROVE RoundInv'
  BY <1>6 DEF Reconnect, Goto, TypeOK, RoundInv, CalmInv, CarriedInv, BootInv,
       RestoredInv, DropInv, KeeperInv, OneRoundHeals, Serving, Asking, calls, broker
<1>7. ASSUME StartUp PROVE RoundInv'
  <2>1. calm' = Serving /\ pc'[Keeper] = "handshake" /\ UNCHANGED <<mode, doing, lead>>
    BY <1>7 DEF StartUp, Goto, TypeOK, calls, broker
  <2>2. QED
    BY <2>1 DEF RoundInv, CalmInv, CarriedInv, BootInv, RestoredInv, DropInv, KeeperInv,
       OneRoundHeals, Serving, Asking
<1>8. ASSUME Tick \/ UNCHANGED vars PROVE RoundInv'
  BY <1>8, Aside DEF Tick, vars, client, calls, broker
<1>9. ASSUME Recover PROVE RoundInv'
  BY <1>9 DEF Recover, RoundInv, CalmInv, CarriedInv, BootInv, RestoredInv, DropInv, KeeperInv,
       OneRoundHeals, IsConnected, Fine, Serving, Asking, client, calls
<1>10. ASSUME Degrade \/ LogOut \/ Expire PROVE RoundInv'
  <2>1. ~calm' /\ UNCHANGED <<pc, doing, lead>>
    BY <1>10 DEF Degrade, LogOut, Expire, Trouble, calls
  <2>2. CarriedInv'
    BY <1>10, <2>1 DEF Degrade, LogOut, Expire, RoundInv, CarriedInv, client, calls, TypeOK
  <2>3. QED
    BY <2>1, <2>2 DEF RoundInv, CalmInv, BootInv, RestoredInv, DropInv, KeeperInv, OneRoundHeals
<1>11. QED
  BY <1>1, <1>2, <1>3, <1>4, <1>5, <1>6, <1>7, <1>8, <1>9, <1>10, HearStep, RequestStep
     DEF Next, Keep

\* In the first state nobody has asked for anything.
LEMMA InitRound == Init => RoundInv
<1> SUFFICES ASSUME Init PROVE RoundInv
  OBVIOUS
<1>1. pc[Keeper] = "handshake" /\ doing[Keeper] = "accounts" /\ ~lead[Keeper]
  BY ThreadsAreTwoSorts DEF Init
<1>2. calm => Serving
  BY DEF Init
<1>3. QED
  BY <1>1, <1>2 DEF RoundInv, CalmInv, CarriedInv, BootInv, RestoredInv, DropInv, KeeperInv,
     OneRoundHeals, Asking, Steps

LEMMA RoundHolds == Spec => [](TypeOK /\ RoundInv)
<1>1. Init => TypeOK /\ RoundInv
  BY InitType, InitRound
<1>2. TypeOK /\ RoundInv /\ [Next]_vars => (TypeOK /\ RoundInv)'
  BY NextType, RoundStep
<1>3. QED BY <1>1, <1>2, PTL DEF Spec

\* A round of ensure_session that met no trouble leaves a working session.
THEOREM RoundsHeal == Spec => []OneRoundHeals
<1>1. TypeOK /\ RoundInv => OneRoundHeals
  BY DEF RoundInv
<1>2. QED BY <1>1, RoundHolds, PTL

\* Only _reconnect takes headers away.
LEMMA OnlyReconnectDrops ==
    ASSUME TypeOK, [Next]_vars, headers = "valid", headers' = "none"
    PROVE  Reconnect
<1>1. ASSUME NEW w \in Workers, Work(w) PROVE FALSE
  BY <1>1 DEF Work, Request, ReadStamp, WriteStamp, Send, BackOff, Repeat, SendNothing,
     Receive, Return, client
<1>2. ASSUME NEW w \in Workers, NEW call \in Calls, Start(w, call) PROVE FALSE
  BY <1>2 DEF Start, client
<1>3. ASSUME Request(Keeper) PROVE FALSE
  BY <1>3 DEF Request, ReadStamp, WriteStamp, Send, BackOff, Repeat, client
<1>4. ASSUME Hear PROVE FALSE
  BY <1>4 DEF Hear, Tickled, Reauthenticated, Bootstrapped, client
<1>5. ASSUME Handshake \/ HandshakeFails \/ Wake \/ StartUp \/ Tick PROVE FALSE
  BY <1>5 DEF Handshake, HandshakeFails, Wake, StartUp, Tick, client
<1>6. ASSUME Recover \/ Degrade \/ LogOut \/ Expire \/ UNCHANGED vars PROVE FALSE
  BY <1>6 DEF Recover, Degrade, LogOut, Expire, vars, client
<1>7. QED BY <1>1, <1>2, <1>3, <1>4, <1>5, <1>6 DEF Next, Keep

\* The keepalive never takes headers away that a calm broker still honours.
THEOREM LiveSessionsAreKept == Spec => LiveSessionIsKept
<1>1. TypeOK /\ RoundInv /\ [Next]_vars =>
         [calm /\ headers = "valid" => headers' # "none"]_vars
  <2> SUFFICES ASSUME TypeOK, RoundInv, Next, calm, headers = "valid", headers' = "none"
               PROVE  FALSE
    OBVIOUS
  <2>1. Reconnect
    BY OnlyReconnectDrops
  <2>2. QED BY <2>1 DEF Reconnect, RoundInv, DropInv
<1>2. QED BY <1>1, RoundHolds, PTL DEF Spec, LiveSessionIsKept

-----------------------------------------------------------------------------
(* The calls of the workers.                                               *)

LEMMA SmoothStep ==
    ASSUME TypeOK, SmoothInv, [Next]_vars
    PROVE  SmoothInv'
<1> USE ThreadsAreTwoSorts
<1>1. ASSUME NEW t \in Threads, Request(t) PROVE SmoothInv'
  <2>1. UNCHANGED <<headers, mode, authed, smooth>>
    BY <1>1 DEF Request, ReadStamp, WriteStamp, Send, BackOff, Repeat, client, broker
  <2>2. ASSUME NEW w \in Workers, smooth[w], pc'[w] # "idle"
        PROVE  Fine /\ (pc'[w] = "flight" => carried'[w] = "valid") /\ pc'[w] # "empty"
    <3>1. pc[w] # "idle"
      BY <1>1, <2>2 DEF Request, ReadStamp, WriteStamp, Send, BackOff, Repeat, Goto, TypeOK
    <3>2. Fine /\ pc[w] # "empty" /\ (pc[w] = "flight" => carried[w] = "valid")
      BY <2>2, <3>1 DEF SmoothInv
    <3>3. QED
      BY <1>1, <3>2
         DEF Request, ReadStamp, WriteStamp, Send, BackOff, Repeat, Goto, TypeOK, Fine, calls
  <2>3. QED BY <2>1, <2>2 DEF SmoothInv, Fine, Serving
<1>2. ASSUME NEW w \in Workers, SendNothing(w) \/ Receive(w) PROVE SmoothInv'
  <2>1. UNCHANGED <<headers, mode, authed, smooth>>
    BY <1>2 DEF SendNothing, Receive, client, broker
  <2>2. \A v \in Workers \ {w} : pc'[v] = pc[v] /\ carried'[v] = carried[v]
    BY <1>2 DEF SendNothing, Receive, Continue, Goto, TypeOK
  <2>3. ASSUME smooth[w] PROVE pc'[w] \in {"due", "found"}
    <3>1. Fine
      BY <1>2, <2>3 DEF SmoothInv, SendNothing, Receive
    <3>2. Receive(w) /\ carried[w] = "valid"
      BY <1>2, <2>3, <3>1 DEF SmoothInv, SendNothing, Receive, Fine
    <3>3. CASE lead[w]
      BY <3>2, <3>3 DEF Receive, Continue, Goto, TypeOK
    <3>4. CASE ~lead[w] /\ tries[w] # 1
      BY <3>2, <3>4 DEF Receive, Continue, Goto, TypeOK
    <3>5. CASE ~lead[w] /\ tries[w] = 1
      <4>1. Answers(w)
        BY <3>1, <3>2, <3>5 DEF Answers, Fine
      <4>2. QED BY <3>2, <3>5, <4>1 DEF Receive, Continue, Goto, TypeOK
    <3>6. QED BY <3>3, <3>4, <3>5
  <2>4. QED
    BY <1>2, <2>1, <2>2, <2>3 DEF SmoothInv, Fine, Serving, SendNothing, Receive
<1>3. ASSUME NEW w \in Workers, Return(w) PROVE SmoothInv'
  BY <1>3 DEF SmoothInv, Return, Fine, Serving, Goto, TypeOK, client, calls, broker
<1>4. ASSUME NEW w \in Workers, NEW call \in Calls, Start(w, call) PROVE SmoothInv'
  <2>1. UNCHANGED <<headers, mode, authed, carried>> /\ smooth'[w] = Fine /\ pc'[w] = "due"
    BY <1>4 DEF Start, Goto, TypeOK, client, broker
  <2>2. \A v \in Workers \ {w} : pc'[v] = pc[v] /\ smooth'[v] = smooth[v]
    BY <1>4 DEF Start, Goto, TypeOK
  <2>3. QED BY <2>1, <2>2 DEF SmoothInv, Fine, Serving
<1>5. ASSUME Hear PROVE SmoothInv'
  <2>1. /\ UNCHANGED <<mode, smooth>> /\ headers' = headers
        /\ authed => authed'
        /\ \A w \in Workers : pc'[w] = pc[w] /\ carried'[w] = carried[w]
    BY <1>5, HearLeads DEF Hear, Tickled, Reauthenticated, Bootstrapped, TypeOK, client
  <2>2. QED BY <2>1 DEF SmoothInv, Fine, Serving
<1>6. ASSUME Handshake PROVE SmoothInv'
  BY <1>6 DEF SmoothInv, Handshake, Ask, Fine, Serving, Goto, TypeOK
<1>7. ASSUME HandshakeFails \/ Wake \/ StartUp PROVE SmoothInv'
  <2>1. /\ UNCHANGED <<headers, mode, authed, smooth, carried>>
        /\ \A w \in Workers : pc'[w] \in {pc[w], "idle"}
    BY <1>7 DEF HandshakeFails, Wake, StartUp, Ask, Goto, TypeOK, client, calls, broker
  <2>2. QED BY <2>1 DEF SmoothInv, Fine, Serving
<1>8. ASSUME Reconnect \/ Degrade \/ LogOut \/ Expire PROVE SmoothInv'
  BY <1>8 DEF SmoothInv, Reconnect, Degrade, LogOut, Expire, Trouble
<1>9. ASSUME Recover PROVE SmoothInv'
  BY <1>9 DEF SmoothInv, Recover, Fine, Serving, client, calls
<1>10. ASSUME Tick \/ UNCHANGED vars PROVE SmoothInv'
  BY <1>10 DEF SmoothInv, Tick, vars, Fine, Serving, client, calls, broker
<1>11. QED
  BY <1>1, <1>2, <1>3, <1>4, <1>5, <1>6, <1>7, <1>8, <1>9, <1>10 DEF Next, Work, Keep

\* A call is answered without data for a cause only: trouble at the broker or
\* a reconnect while it ran, whatever the number of retries and polls.
THEOREM EmptyAnswersHaveACause == Spec => []EmptyForCause
<1>1. Init => TypeOK /\ SmoothInv
  BY InitType, ThreadsAreTwoSorts DEF Init, SmoothInv
<1>2. TypeOK /\ SmoothInv /\ [Next]_vars => (TypeOK /\ SmoothInv)'
  BY NextType, SmoothStep
<1>3. TypeOK /\ SmoothInv => EmptyForCause
  BY DEF SmoothInv, EmptyForCause
<1>4. QED BY <1>1, <1>2, <1>3, PTL DEF Spec
=============================================================================
