--------------------------- MODULE ServiceProofs ---------------------------
(***************************************************************************)
(* Proofs about Service for any intervals, limits, accounts and batches.   *)
(***************************************************************************)
EXTENDS ServiceProperties, MoneyProofs

(* The steps of a fetch, and the other steps, one by one. *)
FetchStep ==
    \/ Dial \/ DialFails \/ Connected \/ Answered \/ Broken \/ DecodePanics
    \/ LoggedOut \/ Concluded \/ Release \/ Close
    \/ WatchdogBites \/ WatchdogCloses \/ WatchdogGoes

(* The ends of a poll that is not a good one. *)
BadEnd == pc \in Polling /\ (PollFails \/ PollPanics)

(* The ends of the process that come from outside. *)
Death == pc # "down" /\ Dies

LEMMA NextCases ==
  ASSUME Next
  PROVE  \/ Start \/ ReadArguments \/ VerifyAnswered \/ Verified \/ BeginPoll
         \/ Fetching(FetchStep)
         \/ Fetched \/ HandledLocally \/ Asks \/ NotFound \/ Settled \/ RequestFails
         \/ MarkPollOK \/ PollUnmarked \/ BadEnd \/ Death
         \/ Wake \/ Shutdown \/ Signal \/ MailTurns \/ LedgerTurns \/ Tick
  <1>1. ASSUME MailAnswers PROVE Fetching(FetchStep)
    BY <1>1 DEF MailAnswers, Fetching, ServerActs, FetchStep
  <1>2. ASSUME Fetching(FetchProceeds) PROVE Fetching(FetchStep)
    BY <1>2 DEF Fetching, FetchProceeds, DialTimesOut, CutOff, Watchdog, FetchStep
  <1>3. ASSUME talk = "none", Fetching(Dial) PROVE Fetching(FetchStep)
    BY <1>3 DEF Fetching, FetchStep
  <1>4. ASSUME LaunchFails \/ VerifyFails \/ Crash PROVE Death
    BY <1>4 DEF LaunchFails, VerifyFails, Crash, Death
  <1>5. ASSUME FetchFailed \/ FetchPanicked \/ Stopped \/ WatermarkUnreadable \/ WatermarkUnwritable \/ HandlePanics
        PROVE  BadEnd
    BY <1>5 DEF FetchFailed, FetchPanicked, Returned, Stopped, WatermarkUnreadable, WatermarkUnwritable,
                HandlePanics, BadEnd, Polling
  <1> QED  BY <1>1, <1>2, <1>3, <1>4, <1>5 DEF Next, Proceeds, Meets, LedgerAnswers

----------------------------------------------------------------------------
(* The numbers.                                                             *)

(* The loop of nextDelay.                                                   *)
Doubles(f, n) ==
    /\ f \in [0 .. n -> Nat \ {0}] /\ f[0] = Interval
    /\ \A i \in 1 .. n : f[i] = Doubled(f[i - 1])
    /\ NextDelay(n) = IF n = 0 THEN Interval ELSE MinOf(f[n], MaxBackoff)

LEMMA DelayLoop ==
  ASSUME NEW n \in Nat
  PROVE  \E f : Doubles(f, n)
  <1> DEFINE Positive == Nat \ {0}
             Turn(f) == [i \in 0 .. n |-> IF i = 0 THEN Interval ELSE Doubled(f[i - 1])]
             delay == CHOOSE f : f = Turn(f)
             S == {i \in Nat : delay[i] \in Positive}
             turns == [i \in 1 .. n |-> 0]
             next == [s \in Positive \X {0} |-> Doubled(s[1])]
  <1>1. turns \in Seq({0}) /\ Len(turns) = n /\ \A i \in 1 .. n : turns[i] = 0
    OBVIOUS
  <1>2. Interval \in Positive /\ \A d \in Positive : Doubled(d) \in Positive
    BY ServiceAssumption DEF Doubled
  <1>3. next \in [Positive \X {0} -> Positive] /\ \A a \in Positive, b \in {0} : next[<<a, b>>] = Doubled(a)
    BY <1>2
  <1> HIDE DEF next, turns, Positive
  <1>4. PICK h \in [0 .. n -> Positive] : Loops(h, turns, Interval, next)
    <2>1. PICK h \in [0 .. Len(turns) -> Positive] : Loops(h, turns, Interval, next)
      BY <1>1, <1>2, <1>3, LoopExists, Zenon
    <2> QED  BY <1>1, <2>1
  <1>5. h[0] = Interval /\ \A i \in 1 .. n : h[i] = Doubled(h[i - 1])
    <2>1. \A i \in 1 .. n : i - 1 \in 0 .. n
      OBVIOUS
    <2>2. h[0] = Interval /\ \A i \in 1 .. n : h[i] = next[<<h[i - 1], turns[i]>>]
      BY <1>1, <1>4 DEF Loops
    <2> QED  BY <1>1, <1>3, <1>4, <2>1, <2>2
  <1>6. h = Turn(h)
    BY <1>4, <1>5
  <1>7. delay = Turn(delay)
    <2> HIDE DEF Turn
    <2> QED  BY <1>6
  <1>8. NextDelay(n) = IF n <= 0 THEN Interval ELSE MinOf(delay[n], MaxBackoff)
    BY DEF NextDelay
  <1> HIDE DEF delay
  <1>9. delay[0] = Interval /\ \A i \in 1 .. n : delay[i] = Doubled(delay[i - 1])
    <2>1. \A i \in 0 .. n : Turn(delay)[i] = IF i = 0 THEN Interval ELSE Doubled(delay[i - 1])
      OBVIOUS
    <2> HIDE DEF Turn
    <2>2. \A i \in 0 .. n : delay[i] = IF i = 0 THEN Interval ELSE Doubled(delay[i - 1])
      BY <1>7, <2>1
    <2> QED  BY <2>2
  <1>10. \A i \in 0 .. n : delay[i] \in Positive
    <2>1. 0 \in S /\ \A i \in 1 .. n : i - 1 \in S => i \in S
      BY <1>2, <1>9
    <2> HIDE DEF S
    <2>2. \A i \in 0 .. n : i \in S
      BY <2>1, Along
    <2> QED  BY <2>2 DEF S
  <1>11. delay \in [0 .. n -> Positive]
    BY <1>7, <1>10
  <1>12. NextDelay(n) = IF n = 0 THEN Interval ELSE MinOf(delay[n], MaxBackoff)
    BY <1>8
  <1>13. Doubles(delay, n)
    BY <1>9, <1>11, <1>12 DEF Doubles, Positive
  <1> QED  BY <1>13

(* What nextDelay returns is positive, and no more than the cap if there    *)
(* are failures.                                                            *)
LEMMA DelayOK ==
  ASSUME NEW n \in Nat
  PROVE  /\ NextDelay(n) \in 1 .. MaxOf(Interval, MaxBackoff)
         /\ n > 0 => NextDelay(n) \in 1 .. MaxBackoff
         /\ n = 0 => NextDelay(n) = Interval
  <1>1. PICK f : Doubles(f, n)
    BY DelayLoop
  <1>2. f[n] \in Nat \ {0}
    BY <1>1 DEF Doubles
  <1>3. NextDelay(n) = IF n = 0 THEN Interval ELSE MinOf(f[n], MaxBackoff)
    BY <1>1 DEF Doubles
  <1> QED  BY <1>2, <1>3, ServiceAssumption DEF MinOf, MaxOf

(* With each failure the wait grows, or stays at the cap.                   *)
LEMMA DelayGrows ==
  /\ NextDelay(1) >= MinOf(2 * Interval, MaxBackoff)
  /\ \A n \in Nat \ {0} : NextDelay(n + 1) >= NextDelay(n)
  <1>1. NextDelay(1) >= MinOf(2 * Interval, MaxBackoff)
    <2>1. 1 \in Nat /\ 1 \in 1 .. 1 /\ 1 - 1 = 0
      OBVIOUS
    <2>2. PICK f : Doubles(f, 1)
      BY <2>1, DelayLoop
    <2>3. f[0] = Interval /\ f[1] = Doubled(Interval) /\ NextDelay(1) = MinOf(f[1], MaxBackoff)
      BY <2>1, <2>2 DEF Doubles
    <2> QED  BY <2>3, ServiceAssumption DEF Doubled, MinOf
  <1>2. ASSUME NEW n \in Nat \ {0} PROVE NextDelay(n + 1) >= NextDelay(n)
    <2> DEFINE m == n + 1
    <2>1. m \in Nat \ {0} /\ m - 1 = n /\ n \in Nat /\ n # 0 /\ m \in 1 .. m
      OBVIOUS
    <2> HIDE DEF m
    <2>2. PICK f : Doubles(f, n)
      BY <2>1, DelayLoop
    <2>3. PICK g : Doubles(g, m)
      BY <2>1, DelayLoop
    <2> DEFINE S == {i \in Nat : g[i] = f[i]}
    <2>4. 0 \in S
      BY <2>2, <2>3 DEF Doubles
    <2>5. \A i \in 1 .. n : i - 1 \in S => i \in S
      <3>1. \A i \in 1 .. n : i \in 1 .. m /\ i \in Nat
        BY <2>1
      <3> QED  BY <2>2, <2>3, <3>1 DEF Doubles
    <2> HIDE DEF S
    <2>6. n \in S
      <3>1. \A i \in 0 .. n : i \in S
        BY <2>1, <2>4, <2>5, Along
      <3> QED  BY <2>1, <3>1
    <2>7. g[n] = f[n]
      BY <2>6 DEF S
    <2>8. f[n] \in Nat \ {0} /\ g[m] = Doubled(f[n])
      <3>1. f[n] \in Nat \ {0}
        BY <2>1, <2>2 DEF Doubles
      <3>2. g[m] = Doubled(g[m - 1])
        BY <2>1, <2>3 DEF Doubles
      <3> QED  BY <2>1, <2>7, <3>1, <3>2
    <2>9. NextDelay(n) = MinOf(f[n], MaxBackoff) /\ NextDelay(m) = MinOf(g[m], MaxBackoff)
      BY <2>1, <2>2, <2>3 DEF Doubles
    <2>10. NextDelay(m) >= NextDelay(n)
      BY <2>8, <2>9, ServiceAssumption DEF Doubled, MinOf
    <2> QED  BY <2>10 DEF m
  <1> QED  BY <1>1, <1>2

(* So it is always twice the interval at least, or the cap.                 *)
LEMMA DelayAtLeast ==
  ASSUME NEW n \in Nat \ {0}
  PROVE  NextDelay(n) >= MinOf(2 * Interval, MaxBackoff)
  <1> DEFINE least == MinOf(2 * Interval, MaxBackoff)
             S == {k \in Nat : NextDelay(k + 1) >= least}
  <1>1. 0 \in S
    BY DelayGrows
  <1>2. ASSUME NEW k \in Nat, k \in S PROVE k + 1 \in S
    <2>1. k + 1 \in Nat \ {0}
      OBVIOUS
    <2>2. NextDelay((k + 1) + 1) >= NextDelay(k + 1)
      BY <2>1, DelayGrows
    <2>3. NextDelay(k + 1) \in Int /\ NextDelay((k + 1) + 1) \in Int
      <3>1. k + 1 \in Nat /\ (k + 1) + 1 \in Nat
        OBVIOUS
      <3>2. \A j \in Nat : NextDelay(j) \in Int
        BY DelayOK
      <3> QED  BY <3>1, <3>2
    <2>4. least \in Int /\ NextDelay(k + 1) >= least
      BY <1>2, ServiceAssumption DEF MinOf
    <2> HIDE DEF least
    <2>5. NextDelay((k + 1) + 1) >= least
      BY <2>2, <2>3, <2>4
    <2> QED  BY <2>1, <2>5
  <1> HIDE DEF S, least
  <1>3. Nat \subseteq S
    BY <1>1, <1>2, NatSet
  <1>4. n - 1 \in S /\ (n - 1) + 1 = n
    BY <1>3
  <1> QED  BY <1>4 DEF S, least

(* The time that n messages take at the worst. *)
Work(n) == 2 * n * RequestTimeout

LEMMA WorkOK ==
  /\ Work(0) = 0 /\ SlowestBatch = Work(MaxBatch)
  /\ \A n \in Nat : Work(n) \in Nat /\ (n > 0 => Work(n) = Work(n - 1) + 2 * RequestTimeout)
  /\ \A n \in 0 .. MaxBatch : Work(n) <= SlowestBatch
  <1>1. RequestTimeout \in Nat /\ MaxBatch \in Nat
    BY ServiceAssumption
  <1>2. \A n \in Nat : Work(n) \in Nat
    BY <1>1 DEF Work
  <1>3. \A n \in Nat : n > 0 => Work(n) = Work(n - 1) + 2 * RequestTimeout
    BY <1>1 DEF Work
  <1>4. ASSUME NEW n \in 0 .. MaxBatch
        PROVE  Work(n) <= Work(MaxBatch)
    <2>1. Work(MaxBatch) = Work(n) + Work(MaxBatch - n)
      BY <1>1 DEF Work
    <2>2. Work(MaxBatch - n) \in Nat /\ Work(n) \in Nat /\ Work(MaxBatch) \in Nat
      BY <1>1, <1>2
    <2> QED  BY <2>1, <2>2
  <1> QED  BY <1>1, <1>2, <1>3, <1>4 DEF Work, SlowestBatch

LEMMA SettlingOK ==
  /\ SlowestBatch \in Nat /\ Settling \in Nat \ {0}
  /\ Settling = MaxOf(Interval, MaxBackoff) + SlowestBatch + 1
  BY WorkOK, ServiceAssumption DEF Settling, MaxOf
----------------------------------------------------------------------------
(* Types.                                                                   *)

(* What realMain makes of a command line is a mode and a switch. *)
LEMMA LaunchedOK ==
  ASSUME NEW l \in Intents
  PROVE  Launched[l].dry \in BOOLEAN
  <1>1. DryRun(Typed(l)) \in BOOLEAN
    BY SMT DEF DryRun
  <1>2. Launched[l] = [mode |-> Launch(Typed(l)), dry |-> DryRun(Typed(l))]
    BY Zenon DEF Launched
  <1>3. \A a, b : [mode |-> a, dry |-> b].dry = b
    OBVIOUS
  <1> QED BY <1>1, <1>2, <1>3, Zenon

(* The steps of a fetch keep its types. *)
LEMMA FetchStepType ==
  ASSUME FetchTypeOK, FetchStep
  PROVE  FetchTypeOK'
  <1> USE FetchAssumption DEF FetchTypeOK, Commands
  <1>1. CASE Dial
    BY <1>1 DEF Dial
  <1>2. CASE DialFails
    BY <1>2 DEF DialFails
  <1>3. CASE Connected
    BY <1>3 DEF Connected
  <1>4. CASE Answered
    BY <1>4 DEF Answered
  <1>5. CASE Broken \/ DecodePanics \/ LoggedOut
    BY <1>5 DEF Broken, DecodePanics, LoggedOut
  <1>6. CASE Concluded
    BY <1>6 DEF Concluded
  <1>7. CASE Release \/ Close
    BY <1>7 DEF Release, Close
  <1>8. CASE WatchdogBites \/ WatchdogCloses \/ WatchdogGoes
    BY <1>8 DEF WatchdogBites, WatchdogCloses, WatchdogGoes
  <1> QED  BY <1>1, <1>2, <1>3, <1>4, <1>5, <1>6, <1>7, <1>8 DEF FetchStep

LEMMA FetchGoneType ==
  ASSUME FetchTypeOK, FetchGone
  PROVE  FetchTypeOK'
  BY FetchAssumption DEF FetchTypeOK, FetchGone

LEMMA FetchSameType ==
  ASSUME FetchTypeOK, UNCHANGED fetchVars
  PROVE  FetchTypeOK'
  BY DEF FetchTypeOK, fetchVars

(* So are the switches kept by every step. *)
LEMMA FlagsStep ==
  ASSUME TypeOK, [Next]_vars
  PROVE  FlagsOK'
  <1> USE DEF FlagsOK
  <1>0. CASE UNCHANGED vars
    BY <1>0, Zenon DEF TypeOK, vars, fetchVars, processVars, worldVars
  <1>1. CASE Fetching(FetchStep)
    <2>1. done' \in BOOLEAN
      BY <1>1, Zenon DEF TypeOK, Fetching, FetchStep, Dial, DialFails, Connected, Answered, Broken, DecodePanics,
         LoggedOut, Concluded, Release, Close, WatchdogBites, WatchdogCloses, WatchdogGoes
    <2> QED  BY <1>1, <2>1, Zenon DEF TypeOK, Fetching, processVars, worldVars
  <1>2. CASE ReadArguments
    <2>1. line \in Intents
      BY <1>2 DEF TypeOK, ReadArguments
    <2>2. dry' \in BOOLEAN
      BY <1>2, <2>1, LaunchedOK, Zenon DEF ReadArguments
    <2> QED  BY <1>2, <2>2, Zenon DEF TypeOK, ReadArguments, fetchVars, worldVars
  <1>3. CASE Start \/ VerifyAnswered \/ Verified \/ BeginPoll
    BY <1>3, Zenon DEF TypeOK, Start, VerifyAnswered, Verified, BeginPoll, fetchVars, worldVars
  <1>4. CASE Fetched
    BY <1>4, Zenon DEF TypeOK, Fetched, FetchGone, worldVars
  <1>5. CASE HandledLocally \/ Asks \/ NotFound \/ Settled
    BY <1>5, Zenon DEF TypeOK, HandledLocally, Asks, NotFound, Settled, fetchVars, worldVars
  <1>6. CASE RequestFails
    BY <1>6, Zenon DEF TypeOK, RequestFails, fetchVars, worldVars
  <1>7. CASE MarkPollOK \/ PollUnmarked \/ BadEnd
    <2>1. \E f : PollEnds(f)
      BY <1>7 DEF MarkPollOK, PollUnmarked, BadEnd, PollFails, PollPanics
    <2>2. PICK f : PollEnds(f)
      BY <2>1
    <2>3. CASE mode = "once"
      BY <2>2, <2>3, Zenon DEF TypeOK, PollEnds, FetchGone, worldVars
    <2>4. CASE mode # "once"
      BY <2>2, <2>4, Zenon DEF TypeOK, PollEnds, FetchGone, worldVars
    <2> QED  BY <2>3, <2>4
  <1>8. CASE Death \/ Shutdown
    BY <1>8, Zenon DEF TypeOK, Death, Dies, Shutdown, Exits, Gone, FetchGone, worldVars
  <1>9. CASE Wake \/ Signal \/ Tick
    BY <1>9, Zenon DEF TypeOK, Wake, Signal, Tick, FetchTicks, fetchVars, processVars, worldVars
  <1>10. CASE MailTurns \/ LedgerTurns
    BY <1>10, Zenon DEF TypeOK, MailTurns, LedgerTurns, fetchVars, processVars
  <1> QED
    BY NextCases, <1>0, <1>1, <1>2, <1>3, <1>4, <1>5, <1>6, <1>7, <1>8, <1>9, <1>10

(* A process that is gone has the types of one that is down. *)
LEMMA GoneType ==
  ASSUME TypeOK, Gone, FlagsOK', pollAge' \in 0 .. MaxAge + 1, calm' \in 0 .. Settling
  PROVE  TypeOK'
  <1>1. FetchTypeOK'
    BY FetchGoneType DEF Gone, TypeOK
  <1> QED
    BY <1>1, ServiceAssumption DEF Gone, TypeOK, MaxOf, Requests

(* The end of a poll. *)
LEMMA PollEndsType ==
  ASSUME TypeOK, NEW f \in 0 .. MaxFailures, PollEnds(f), pc \in Polling, FlagsOK',
         pollAge' \in 0 .. MaxAge + 1, calm' \in 0 .. Settling
  PROVE  TypeOK'
  <1>1. FetchTypeOK'
    BY FetchGoneType DEF PollEnds, TypeOK
  <1>2. NextDelay(f) \in 1 .. IF f > 0 THEN MaxBackoff ELSE Interval
    BY DelayOK, ServiceAssumption
  <1> QED
    BY <1>1, <1>2, ServiceAssumption DEF PollEnds, TypeOK, MaxOf, Running, Polling, Requests

LEMMA OneMoreOK ==
  ASSUME TypeOK
  PROVE  OneMore \in 1 .. MaxFailures /\ OneMore >= failures
  BY ServiceAssumption DEF OneMore, MinOf, TypeOK

LEMMA BadEndOK ==
  ASSUME TypeOK, BadEnd
  PROVE  /\ \E f \in 0 .. MaxFailures : f >= failures /\ PollEnds(f)
         /\ calm' = 0 /\ pollAge' = pollAge
  BY OneMoreOK DEF BadEnd, PollFails, PollPanics, TypeOK

(* The types are kept by every step. *)
LEMMA TypeStep ==
  ASSUME TypeOK, [Next]_vars
  PROVE  TypeOK'
  <1>f. FlagsOK'
    BY FlagsStep
  <1>t. UNCHANGED fetchVars => FetchTypeOK'
    BY FetchSameType DEF TypeOK
  <1> USE <1>f, <1>t, ServiceAssumption, SettlingOK DEF TypeOK, Requests
  <1>0. CASE UNCHANGED vars
    BY <1>0 DEF vars, processVars
  <1>1. CASE Start
    BY <1>1 DEF Start
  <1>2. CASE ReadArguments
    BY <1>2 DEF ReadArguments, Running, MaxOf
  <1>3. CASE VerifyAnswered \/ Verified \/ BeginPoll
    BY <1>3 DEF VerifyAnswered, Verified, BeginPoll, Running, Polling, MaxOf
  <1>4. CASE Fetching(FetchStep)
    BY <1>4, FetchStepType DEF Fetching, processVars
  <1>5. CASE Fetched
    <2>1. FetchTypeOK'
      BY <1>5, FetchGoneType DEF Fetched
    <2> QED  BY <1>5, <2>1 DEF Fetched, Returned, Running, Polling, MaxOf
  <1>6. CASE HandledLocally \/ Settled \/ RequestFails
    BY <1>6 DEF HandledLocally, Settled, RequestFails, ToNext, Running, Polling, MaxOf
  <1>7. CASE Asks \/ NotFound
    BY <1>7 DEF Asks, NotFound, Running, Polling, MaxOf
  <1>8. CASE MarkPollOK \/ PollUnmarked
    <2>1. 0 \in 0 .. MaxFailures /\ 0 \in 0 .. MaxAge + 1 /\ 0 \in 0 .. Settling
      OBVIOUS
    <2> QED  BY <1>8, <2>1, PollEndsType DEF MarkPollOK, PollUnmarked, Polling
  <1>9. CASE BadEnd
    BY <1>9, BadEndOK, PollEndsType DEF BadEnd
  <1>10. CASE Death \/ Shutdown
    BY <1>10, GoneType DEF Death, Dies, Shutdown, Exits
  <1>11. CASE Wake \/ Signal \/ MailTurns \/ LedgerTurns
    BY <1>11 DEF Wake, Signal, MailTurns, LedgerTurns, processVars, Running, Polling
  <1>12. CASE Tick
    <2>1. FetchTypeOK'
      BY <1>12, FetchAssumption DEF Tick, FetchTicks, FetchTypeOK
    <2> QED  BY <1>12, <2>1 DEF Tick, MinOf, MaxOf
  <1> QED
    BY NextCases, <1>0, <1>1, <1>2, <1>3, <1>4, <1>5, <1>6, <1>7, <1>8, <1>9, <1>10, <1>11, <1>12

(* Every variable of the service keeps its type, and every wait its bound,  *)
(* however the servers, the store and the user behave.                      *)
THEOREM ServiceTypeCorrect == Spec => []TypeOK
  <1>1. ASSUME Init PROVE TypeOK
    <2>1. FlagsOK
      BY <1>1, Zenon DEF Init, FetchOff, FlagsOK
    <2> QED  BY <1>1, <2>1, FetchAssumption, ServiceAssumption, SettlingOK
                DEF Init, FetchOff, TypeOK, FetchTypeOK, MaxOf, Requests
  <1> QED  BY <1>1, TypeStep, PTL DEF Spec

----------------------------------------------------------------------------
(* The connection and the watchdog.                                         *)

Talking == Commands \cup {"logout", "return", "deferred"}

(* While the goroutine talks, an open connection has a watchdog that waits  *)
(* or is closing it; it closes it only after the end of the context.        *)
FetchSound ==
    /\ talk \in {"none", "dial"} => result = "none" /\ conn = "none" /\ watchdog = "none" /\ closeOnce = "fresh"
    /\ talk \in {"none", "dial"} \cup Talking => ~done
    /\ talk \in Talking /\ conn = "open" =>
          \/ watchdog = "waiting" /\ closeOnce = "fresh"
          \/ watchdog = "closing" /\ closeOnce = "running"
    /\ talk \in Talking /\ (conn # "open" \/ watchdog = "closing") => ContextDone
    /\ talk = "returned" => conn # "open"
    /\ talk \in Talking \ {"deferred"} => result = "none"
    /\ pc # "fetch" => talk = "none"

LEMMA FetchStepSound ==
  ASSUME FetchTypeOK, FetchSound, FetchStep, pc = "fetch", pc' = pc, cancelled' = cancelled
  PROVE  FetchSound'
  <1> USE FetchAssumption DEF FetchTypeOK, FetchSound, Talking, Commands, ContextDone
  <1>1. CASE Dial
    <2>1. ~done'
      BY <1>1, Zenon DEF Dial
    <2> QED  BY <1>1, <2>1 DEF Dial
  <1>2. CASE DialFails \/ Connected
    BY <1>2 DEF DialFails, Connected
  <1>3. CASE Answered
    BY <1>3 DEF Answered
  <1>4. CASE Broken \/ DecodePanics \/ LoggedOut
    BY <1>4 DEF Broken, DecodePanics, LoggedOut
  <1>5. CASE Concluded
    BY <1>5 DEF Concluded
  <1>6. CASE Release \/ Close
    BY <1>6 DEF Release, Close
  <1>7. CASE WatchdogBites \/ WatchdogCloses \/ WatchdogGoes
    BY <1>7 DEF WatchdogBites, WatchdogCloses, WatchdogGoes
  <1> QED  BY <1>1, <1>2, <1>3, <1>4, <1>5, <1>6, <1>7 DEF FetchStep

LEMMA FetchSoundStep ==
  ASSUME TypeOK, FetchSound, [Next]_vars
  PROVE  FetchSound'
  <1>a. ASSUME FetchGone PROVE FetchSound'
    BY <1>a DEF FetchGone, FetchSound, Talking, Commands
  <1>b. ASSUME UNCHANGED fetchVars, cancelled => cancelled', pc = "fetch" => pc' = "fetch"
        PROVE  FetchSound'
    BY <1>b DEF fetchVars, FetchSound, ContextDone
  <1>c. ASSUME UNCHANGED fetchVars, UNCHANGED cancelled, pc # "fetch"
        PROVE  FetchSound'
    BY <1>c DEF fetchVars, FetchSound, Talking, Commands
  <1>0. CASE UNCHANGED vars
    BY <1>0, <1>b DEF vars, processVars
  <1>1. CASE Start \/ ReadArguments \/ VerifyAnswered \/ Verified \/ BeginPoll
    BY <1>1, <1>c DEF Start, ReadArguments, VerifyAnswered, Verified, BeginPoll
  <1>2. CASE Fetching(FetchStep)
    BY <1>2, FetchStepSound DEF Fetching, processVars, TypeOK
  <1>3. CASE HandledLocally \/ Asks \/ NotFound \/ Settled \/ RequestFails \/ Wake
    BY <1>3, <1>c DEF HandledLocally, Asks, NotFound, Settled, RequestFails, Wake
  <1>4. CASE Fetched \/ MarkPollOK \/ PollUnmarked \/ BadEnd \/ Death \/ Shutdown
    BY <1>4, <1>a DEF Fetched, MarkPollOK, PollUnmarked, BadEnd, PollFails, PollPanics, PollEnds,
                      Death, Dies, Shutdown, Exits, Gone
  <1>5. CASE Signal \/ MailTurns \/ LedgerTurns
    BY <1>5, <1>b DEF Signal, MailTurns, LedgerTurns, processVars
  <1>6. CASE Tick
    BY <1>6, FetchAssumption DEF Tick, FetchTicks, FetchSound, ContextDone, TypeOK, FetchTypeOK
  <1> QED
    BY NextCases, <1>0, <1>1, <1>2, <1>3, <1>4, <1>5, <1>6

(* However a fetch ends and whoever closes its connection, none is left     *)
(* open, and what the watchdog broke is reported as the end of the context. *)
THEOREM FetchSafe == Spec => []NothingLeftOpen /\ EndReported
  <1>1. ASSUME Init PROVE FetchSound
    BY <1>1, Zenon DEF Init, FetchOff, FetchSound, Talking, Commands
  <1>2. FetchSound => NothingLeftOpen
    BY DEF FetchSound, NothingLeftOpen
  <1>3. ASSUME TypeOK, FetchSound, [Next]_vars
        PROVE  [talk = "return" /\ result' = "error" => conn = "open"]_vars
    <2> SUFFICES ASSUME Next, talk = "return", result' = "error", conn # "open"
                 PROVE  FALSE
      BY <1>3 DEF vars, fetchVars, FetchSound, Talking
    <2>1. ContextDone /\ pc = "fetch" /\ result = "none"
      BY <1>3 DEF FetchSound, Talking
    <2>2. Fetching(FetchStep) \/ FetchGone \/ result' = result
      BY NextCases, <2>1
         DEF Start, ReadArguments, VerifyAnswered, Verified, BeginPoll, Fetched, HandledLocally, Asks, NotFound,
             Settled, RequestFails, MarkPollOK, PollUnmarked, BadEnd, PollFails, PollPanics, PollEnds, Death, Dies,
             Wake, Shutdown, Exits, Gone, Signal, MailTurns, LedgerTurns, Tick, FetchTicks, fetchVars
    <2>3. ~Fetching(FetchStep)
      BY <2>1 DEF Fetching, FetchStep, Dial, DialFails, Connected, Answered, Broken, DecodePanics, LoggedOut,
                  Concluded, Release, Close, WatchdogBites, WatchdogCloses, WatchdogGoes, Commands
    <2> QED  BY <2>1, <2>2, <2>3 DEF FetchGone
  <1> QED
    BY <1>1, <1>2, <1>3, FetchSoundStep, ServiceTypeCorrect, PTL DEF Spec, EndReported

----------------------------------------------------------------------------
(* The end.                                                                 *)

(* After the signal, time passes only in a dial; a dial follows the signal  *)
(* only if nothing came between but steps that take no time; and after the  *)
(* poll of that dial the process does not wake again.                       *)
StopSound ==
    /\ ~cancelled => stopping = 0
    /\ pc \in {"down", "launch"} => ~cancelled
    /\ pc \in {"verify", "poll"} => stopping = 0
    /\ pc = "sleep" /\ timer = 0 => stopping = 0
    /\ pc = "fetch" /\ talk = "none" => stopping = 0
    /\ talk = "dial" => stopping + dialLeft <= DialTimeout
    /\ stopping <= DialTimeout

LEMMA StopSoundStep ==
  ASSUME TypeOK, FetchSound, StopSound, [Next]_vars
  PROVE  StopSound'
  <1> USE FetchAssumption DEF StopSound, TypeOK, FetchTypeOK
  <1>0. CASE UNCHANGED vars
    BY <1>0 DEF vars, fetchVars, processVars
  <1>1. CASE Start \/ ReadArguments \/ VerifyAnswered \/ Verified \/ BeginPoll
    BY <1>1 DEF Start, ReadArguments, VerifyAnswered, Verified, BeginPoll, fetchVars, FetchSound
  <1>2. CASE Fetching(FetchStep)
    BY <1>2 DEF Fetching, processVars, FetchStep, Dial, DialFails, Connected, Answered, Broken, DecodePanics,
                LoggedOut, Concluded, Release, Close, WatchdogBites, WatchdogCloses, WatchdogGoes, Commands
  <1>3. CASE HandledLocally \/ Asks \/ NotFound \/ Settled \/ RequestFails
    BY <1>3 DEF HandledLocally, Asks, NotFound, Settled, RequestFails, ToNext, fetchVars, FetchSound
  <1>4. CASE Fetched
    BY <1>4 DEF Fetched, FetchGone
  <1>5. CASE MarkPollOK \/ PollUnmarked \/ BadEnd
    <2>1. PICK f \in 0 .. MaxFailures : PollEnds(f)
      BY <1>5, BadEndOK, ServiceAssumption DEF MarkPollOK, PollUnmarked
    <2>2. NextDelay(f) > 0
      BY DelayOK
    <2>3. CASE mode = "once"
      <3>1. ~cancelled'
        BY <2>1, <2>3, Zenon DEF PollEnds
      <3> QED  BY <2>1, <2>3, <3>1 DEF PollEnds, FetchGone
    <2>4. CASE mode # "once"
      BY <2>1, <2>2, <2>4 DEF PollEnds, FetchGone
    <2> QED  BY <2>3, <2>4
  <1>6. CASE Death \/ Shutdown
    <2>1. ~cancelled'
      BY <1>6, Zenon DEF Death, Dies, Shutdown, Exits, Gone
    <2> QED  BY <1>6, <2>1 DEF Death, Dies, Shutdown, Exits, Gone, FetchGone
  <1>7. CASE Wake
    BY <1>7 DEF Wake, fetchVars, FetchSound
  <1>8. CASE Signal
    BY <1>8 DEF Signal, fetchVars, processVars, Running, Polling
  <1>9. CASE MailTurns \/ LedgerTurns
    BY <1>9 DEF MailTurns, LedgerTurns, fetchVars, processVars
  <1>10. CASE Tick
    <2>1. ASSUME cancelled
          PROVE  talk = "dial" /\ dialLeft > 0 /\ pc = "fetch"
      BY <1>10, <2>1 DEF Tick, Waits, ServerAwaited, WatchdogWaits, ContextDone, FetchSound, Talking
    <2>2. CASE cancelled
      BY <1>10, <2>1, <2>2 DEF Tick, FetchTicks
    <2>3. CASE ~cancelled
      BY <1>10, <2>3 DEF Tick, FetchTicks
    <2> QED  BY <2>2, <2>3
  <1> QED
    BY NextCases, <1>0, <1>1, <1>2, <1>3, <1>4, <1>5, <1>6, <1>7, <1>8, <1>9, <1>10

(* SIGTERM ends the process within the time of one dial, at whatever moment *)
(* it comes and whatever the servers do.                                    *)
THEOREM ShutsDown == Spec => []ShutdownPrompt
  <1>1. ASSUME Init PROVE FetchSound
    BY <1>1, Zenon DEF Init, FetchOff, FetchSound, Talking, Commands
  <1>2. ASSUME Init PROVE StopSound
    <2>1. ~cancelled
      BY <1>2, Zenon DEF Init
    <2> QED  BY <1>2, <2>1, FetchAssumption DEF Init, FetchOff, StopSound
  <1>3. StopSound => ShutdownPrompt
    BY DEF StopSound, ShutdownPrompt
  <1> QED
    BY <1>1, <1>2, <1>3, FetchSoundStep, StopSoundStep, ServiceTypeCorrect, PTL DEF Spec

----------------------------------------------------------------------------
(* The health of the service.                                               *)

(* The time until the end of a wait, and of the poll after it, at the worst *)
(* that Firefly can do while Gmail answers.                                 *)
Due ==
    CASE pc = "sleep"             -> timer + SlowestBatch
      [] pc \in {"poll", "fetch"} -> SlowestBatch
      [] pc = "next"              -> Work(left)
      [] pc = "find"              -> timer + RequestTimeout + Work(left - 1)
      [] pc = "create"            -> timer + Work(left - 1)
      [] OTHER                    -> 0

InLoop == pc \in Polling \cup {"sleep"}

(* Undisturbed, the service has either still to come to the end of its      *)
(* first good poll, which is due in time, or it has passed one, and the     *)
(* next is due in time.                                                     *)
Recent == failures = 0 /\ pollAge + Due <= Interval + SlowestBatch

HealthSound ==
    /\ calm > 0 => mailUp /\ ~cancelled
    /\ pc \in {"launch", "verify"} => calm = 0
    /\ pc = "down" => calm = 0 \/ pollAge = 0
    /\ InLoop /\ mailUp => calm + Due < Settling \/ Recent

LEMMA DueOK ==
  ASSUME TypeOK, InLoop
  PROVE  /\ Due \in Nat
         /\ pc # "sleep" => Due <= SlowestBatch
         /\ Due < Settling
  <1> USE WorkOK, ServiceAssumption DEF TypeOK, Requests
  <1>1. CASE pc = "sleep"
    BY <1>1, SettlingOK DEF Due, MaxOf
  <1>2. CASE pc \in {"poll", "fetch"}
    BY <1>2, SettlingOK DEF Due, MaxOf
  <1>3. CASE pc = "next"
    BY <1>3, SettlingOK DEF Due, MaxOf
  <1>4. CASE pc = "mark"
    BY <1>4, SettlingOK DEF Due, MaxOf
  <1>5. CASE pc \in {"find", "create"}
    <2>1. Work(left) = Work(left - 1) + 2 * RequestTimeout /\ Work(left - 1) \in Nat /\ Work(left) <= SlowestBatch
      BY <1>5
    <2>2. timer \in 0 .. RequestTimeout
      BY <1>5
    <2>3. Due \in Nat /\ Due <= Work(left)
      BY <1>5, <2>1, <2>2 DEF Due
    <2> QED  BY <1>5, <2>1, <2>3, SettlingOK DEF MaxOf
  <1> QED  BY <1>1, <1>2, <1>3, <1>4, <1>5 DEF InLoop, Polling

LEMMA DueBound == TypeOK /\ InLoop => Due < Settling /\ Due \in Nat
  BY DueOK

(* A step that takes no time and leaves less, or as much, to do. *)
LEMMA StillSound ==
  ASSUME TypeOK, HealthSound, InLoop, InLoop', Due \in Nat, Due' \in Nat, Due' <= Due,
         UNCHANGED <<mailUp, cancelled, calm, pollAge, failures>>
  PROVE  HealthSound'
  BY SettlingOK, ServiceAssumption DEF HealthSound, Recent, InLoop, Polling, TypeOK

(* A disturbance. *)
LEMMA DisturbedSound ==
  ASSUME TypeOK', calm' = 0
  PROVE  HealthSound'
  <1>1. (TypeOK /\ InLoop => Due < Settling /\ Due \in Nat)'
    BY DueBound, PTL
  <1> QED  BY <1>1, SettlingOK DEF HealthSound

(* The end of a good poll. *)
LEMMA RecentAgain ==
  ASSUME TypeOK, TypeOK', HealthSound, MarkPollOK
  PROVE  HealthSound'
  <1>1. pollAge' = 0 /\ calm' = calm /\ mailUp' = mailUp
    BY DEF MarkPollOK, PollEnds, worldVars
  <1>2. CASE mode = "once"
    <2>1. pc' = "down" /\ ~cancelled'
      BY <1>2, Zenon DEF MarkPollOK, PollEnds
    <2> QED  BY <1>1, <2>1 DEF HealthSound, InLoop, Polling
  <1>3. CASE mode # "once"
    <2>1. pc' = "sleep" /\ failures' = 0 /\ timer' = Interval /\ cancelled' = cancelled
      BY <1>3, DelayOK DEF MarkPollOK, PollEnds
    <2>2. Due' = Interval + SlowestBatch
      BY <2>1 DEF Due
    <2> QED  BY <1>1, <2>1, <2>2, SettlingOK, ServiceAssumption DEF HealthSound, Recent
  <1> QED  BY <1>2, <1>3

(* Time passes. *)
LEMMA TickSound ==
  ASSUME TypeOK, TypeOK', HealthSound, StopSound, Tick
  PROVE  HealthSound'
  <1> DEFINE Quiet == mailUp /\ InLoop /\ ~cancelled
  <1>1. CASE ~Quiet
    <2>1. calm' = 0
      BY <1>1 DEF Tick, InLoop
    <2> QED  BY <2>1, DisturbedSound
  <1>2. CASE Quiet
    <2>1. pc \in {"sleep", "find", "create"} /\ timer > 0
      BY <1>2 DEF Tick, Waits, InLoop, Polling, Requests
    <2>2. timer' = timer - 1 /\ UNCHANGED <<pc, left, failures, mailUp, cancelled>>
      BY <2>1 DEF Tick, worldVars
    <2>3. Due \in Nat /\ Due' = Due - 1 /\ Due < Settling
      <3>1. left > 0 /\ pc # "sleep" => Work(left - 1) \in Nat
        BY WorkOK DEF TypeOK
      <3>2. Due \in Nat /\ Due < Settling
        BY <1>2, DueOK
      <3>3. timer \in Nat /\ SlowestBatch \in Nat /\ RequestTimeout \in Nat
        BY <2>1, SettlingOK, ServiceAssumption DEF TypeOK, Requests
      <3>4. pc # "sleep" => left > 0 /\ left \in Nat
        BY <2>1 DEF TypeOK
      <3> QED  BY <2>1, <2>2, <3>1, <3>2, <3>3, <3>4 DEF Due
    <2>4. calm' = MinOf(calm + 1, Settling) /\ pollAge' = MinOf(pollAge + 1, MaxAge + 1)
      BY <1>2 DEF Tick, InLoop
    <2>5. calm' <= calm + 1 /\ pollAge' <= pollAge + 1 /\ calm' \in Nat /\ pollAge' \in Nat
      BY <2>4, SettlingOK, ServiceAssumption DEF MinOf, TypeOK
    <2>6. calm + Due < Settling \/ Recent
      BY <1>2 DEF HealthSound
    <2>7. calm' + Due' < Settling \/ Recent'
      <3>1. CASE calm + Due < Settling
        BY <2>3, <2>5, <3>1, SettlingOK DEF TypeOK
      <3>2. CASE Recent
        BY <2>2, <2>3, <2>5, <3>2, SettlingOK, ServiceAssumption DEF Recent, TypeOK
      <3> QED  BY <2>6, <3>1, <3>2
    <2> QED  BY <1>2, <2>1, <2>2, <2>7 DEF HealthSound
  <1> QED  BY <1>1, <1>2

LEMMA HealthSoundStep ==
  ASSUME TypeOK, TypeOK', FetchSound, StopSound, HealthSound, [Next]_vars
  PROVE  HealthSound'
  <1>d. (TypeOK /\ InLoop => Due < Settling /\ Due \in Nat)'
    BY DueBound, PTL
  <1>e. InLoop => Due \in Nat /\ Due < Settling /\ (pc # "sleep" => Due <= SlowestBatch)
    BY DueOK
  <1>w. left \in 1 .. MaxBatch =>
          Work(left - 1) \in Nat /\ Work(left) = Work(left - 1) + 2 * RequestTimeout
    BY WorkOK, ServiceAssumption
  <1>r. RequestTimeout \in Nat /\ MaxBatch \in Nat
    BY ServiceAssumption
  <1>0. CASE UNCHANGED vars
    BY <1>0 DEF vars, processVars, worldVars, HealthSound, InLoop, Recent, Due, Polling
  <1>1. CASE Start
    BY <1>1, DisturbedSound DEF Start
  <1>2. CASE ReadArguments \/ VerifyAnswered
    BY <1>2 DEF ReadArguments, VerifyAnswered, worldVars, HealthSound, InLoop, Polling
  <1>3. CASE Verified
    <2>1. calm' = 0
      BY <1>3 DEF Verified, HealthSound
    <2> QED  BY <2>1, DisturbedSound
  <1>4. CASE BeginPoll
    <2>1. InLoop /\ InLoop' /\ Due' = Due
      BY <1>4 DEF BeginPoll, InLoop, Polling, Due
    <2> QED  BY <1>4, <1>e, <2>1, StillSound DEF BeginPoll, worldVars
  <1>5. CASE Fetching(FetchStep)
    BY <1>5 DEF Fetching, processVars, worldVars, HealthSound, InLoop, Recent, Due, Polling
  <1>6. CASE Fetched
    <2>1. InLoop /\ InLoop' /\ Due = SlowestBatch /\ Due' <= SlowestBatch
      <3>1. pc' = "mark" \/ (pc' = "next" /\ left' \in 0 .. MaxBatch)
        BY <1>6 DEF Fetched
      <3> QED  BY <1>6, <3>1, WorkOK, SettlingOK DEF Fetched, Returned, InLoop, Polling, Due
    <2> QED  BY <1>6, <1>d, <1>e, <2>1, StillSound DEF Fetched, worldVars
  <1>7. CASE HandledLocally \/ Settled \/ RequestFails
    <2>1. /\ pc \in {"next", "find", "create"} /\ ToNext
          /\ UNCHANGED <<mailUp, cancelled, calm, pollAge, failures>>
      BY <1>7 DEF HandledLocally, Settled, RequestFails, worldVars
    <2>2. left \in 1 .. MaxBatch /\ timer \in Nat
      BY <2>1, <1>r DEF TypeOK, Requests
    <2>3. InLoop /\ InLoop' /\ Due' <= Work(left - 1)
      BY <1>w, <2>1, <2>2 DEF ToNext, InLoop, Polling, Due
    <2>4. Work(left - 1) <= Due
      BY <1>w, <1>r, <2>1, <2>2 DEF Due
    <2>5. Due \in Nat /\ Due' \in Nat /\ Work(left - 1) \in Nat
      BY <1>d, <1>e, <1>w, <2>2, <2>3
    <2> QED  BY <2>1, <2>3, <2>4, <2>5, StillSound
  <1>8. CASE Asks \/ NotFound
    <2>1. /\ pc \in {"next", "find"} /\ pc' \in {"find", "create"}
          /\ pc = "find" => pc' = "create"
          /\ timer' = RequestTimeout /\ left' = left
          /\ UNCHANGED <<mailUp, cancelled, calm, pollAge, failures>>
      BY <1>8 DEF Asks, NotFound, worldVars
    <2>2. left \in 1 .. MaxBatch /\ timer \in Nat
      BY <2>1, <1>r DEF TypeOK, Requests
    <2>3. InLoop /\ InLoop' /\ Due' <= Due
      BY <1>w, <1>r, <2>1, <2>2 DEF InLoop, Polling, Due
    <2> QED  BY <1>d, <1>e, <2>1, <2>3, StillSound
  <1>9. CASE MarkPollOK
    BY <1>9, RecentAgain
  <1>10. CASE PollUnmarked \/ BadEnd \/ Death \/ Signal \/ MailTurns
    BY <1>10, DisturbedSound, BadEndOK DEF PollUnmarked, Death, Dies, Signal, MailTurns
  <1>11. CASE Wake
    <2>1. InLoop /\ InLoop' /\ Due' = Due
      BY <1>11, SettlingOK DEF Wake, InLoop, Polling, Due
    <2> QED  BY <1>11, <1>e, <2>1, StillSound DEF Wake, worldVars
  <1>12. CASE Shutdown
    <2>1. calm' = 0
      BY <1>12 DEF Shutdown, Exits, HealthSound, TypeOK
    <2> QED  BY <2>1, DisturbedSound
  <1>13. CASE LedgerTurns
    BY <1>13 DEF LedgerTurns, processVars, HealthSound, InLoop, Recent, Due, Polling
  <1>14. CASE Tick
    BY <1>14, TickSound
  <1> QED
    BY NextCases, <1>0, <1>1, <1>2, <1>3, <1>4, <1>5, <1>6, <1>7, <1>8, <1>9, <1>10, <1>11, <1>12, <1>13, <1>14

LEMMA HealthImplied ==
  ASSUME TypeOK, HealthSound
  PROVE  StaysHealthy
  <1> SUFFICES ASSUME calm = Settling, Interval + SlowestBatch <= MaxAge
               PROVE  pollAge <= MaxAge
    BY DEF StaysHealthy, Healthy
  <1>1. CASE InLoop
    <2>1. Due \in Nat
      BY <1>1, DueOK
    <2>2. Recent
      BY <1>1, <2>1, SettlingOK DEF HealthSound
    <2> QED  BY <2>1, <2>2, SettlingOK, ServiceAssumption DEF Recent, TypeOK
  <1>2. CASE ~InLoop
    <2>1. pc = "down" /\ pollAge = 0
      BY <1>2, SettlingOK DEF InLoop, Running, HealthSound, TypeOK
    <2> QED  BY <2>1, ServiceAssumption
  <1> QED  BY <1>1, <1>2

(* A service that nobody disturbs is healthy from a wait and a poll after   *)
(* the last disturbance on, whatever Firefly does, for every interval, cap, *)
(* limit and size of a batch.                                               *)
THEOREM HealthKept == Spec => []StaysHealthy
  <1>1. ASSUME Init PROVE FetchSound
    BY <1>1, Zenon DEF Init, FetchOff, FetchSound, Talking, Commands
  <1>2. ASSUME Init PROVE StopSound
    <2>1. ~cancelled
      BY <1>2, Zenon DEF Init
    <2> QED  BY <1>2, <2>1, FetchAssumption DEF Init, FetchOff, StopSound
  <1>3. ASSUME Init PROVE HealthSound
    BY <1>3 DEF Init, HealthSound, InLoop, Polling
  <1> QED
    BY <1>1, <1>2, <1>3, FetchSoundStep, StopSoundStep, HealthSoundStep, HealthImplied, TypeStep,
       ServiceTypeCorrect, PTL DEF Spec

----------------------------------------------------------------------------
(* The wait after a failure.                                              *)

(* The only steps from a poll to a wait are those that end the poll.        *)
LEMMA PollEnded ==
  ASSUME TypeOK, Next, pc \in Polling, pc' = "sleep"
  PROVE  \E f \in {0, failures, OneMore} : PollEnds(f)
  <1>1. CASE MarkPollOK \/ PollUnmarked
    BY <1>1 DEF MarkPollOK, PollUnmarked
  <1>2. CASE BadEnd
    BY <1>2 DEF BadEnd, PollFails, PollPanics
  <1>3. CASE Start \/ ReadArguments \/ VerifyAnswered \/ Verified \/ BeginPoll \/ Fetching(FetchStep)
    BY <1>3 DEF Start, ReadArguments, VerifyAnswered, Verified, BeginPoll, Fetching, processVars, Polling
  <1>4. CASE Fetched \/ HandledLocally \/ Asks \/ NotFound \/ Settled \/ RequestFails
    BY <1>4 DEF Fetched, HandledLocally, Asks, NotFound, Settled, RequestFails, ToNext
  <1>5. CASE Death \/ Shutdown \/ Wake
    BY <1>5 DEF Death, Dies, Shutdown, Exits, Gone, Wake
  <1>6. CASE Signal \/ MailTurns \/ LedgerTurns \/ Tick
    BY <1>6 DEF Signal, MailTurns, LedgerTurns, Tick, processVars, Polling
  <1> QED  BY <1>1, <1>2, <1>3, <1>4, <1>5, <1>6, NextCases

(* nextDelay keeps its promise to an outage: whatever happens in between,   *)
(* after each failed poll in a row the service waits at least as long as    *)
(* after the one before, at least twice the interval or the cap, and a good *)
(* poll brings it back to the interval.                                     *)
THEOREM Backoff == Spec => BacksOff
  <1> DEFINE Waited == /\ failures' > failures => timer' >= MinOf(2 * Interval, MaxBackoff)
                       /\ failures' > failures /\ failures > 0 => timer' >= NextDelay(failures)
                       /\ failures' = 0 => timer' = Interval
  <1>1. ASSUME TypeOK, Next, pc \in Polling, pc' = "sleep" PROVE Waited
    <2>1. PICK f \in {0, failures, OneMore} : PollEnds(f)
      BY <1>1, PollEnded
    <2>2. failures' = f /\ timer' = NextDelay(f)
      BY <1>1, <2>1 DEF PollEnds
    <2>3. failures \in Nat
      BY <1>1, ServiceAssumption DEF TypeOK
    <2>4. f \in Nat
      BY <1>1, <2>3, OneMoreOK, ServiceAssumption
    <2>5. f > failures => f = failures + 1
      <3>1. OneMore \in {failures + 1, MaxFailures} /\ OneMore <= failures + 1
        BY <2>3, ServiceAssumption DEF OneMore, MinOf
      <3> QED  BY <2>3, <3>1, ServiceAssumption
    <2>6. ASSUME f > failures PROVE timer' >= MinOf(2 * Interval, MaxBackoff)
      <3>1. f \in Nat \ {0}
        BY <2>3, <2>4, <2>6
      <3> QED  BY <2>2, <3>1, DelayAtLeast
    <2>7. ASSUME f > failures, failures > 0 PROVE timer' >= NextDelay(failures)
      <3>1. failures \in Nat \ {0} /\ f = failures + 1
        BY <2>3, <2>5, <2>7
      <3> QED  BY <2>2, <3>1, DelayGrows
    <2>8. ASSUME f = 0 PROVE timer' = Interval
      BY <2>2, <2>4, <2>8, DelayOK
    <2> QED  BY <2>2, <2>6, <2>7, <2>8
  <1>2. TypeOK /\ [Next]_vars => [pc' = "sleep" /\ pc \in Polling => Waited]_vars
    BY <1>1
  <1> QED  BY <1>2, ServiceTypeCorrect, PTL DEF Spec, BacksOff

----------------------------------------------------------------------------
(* The command line.  SplitCommand and Parsed are loops over the arguments. *)
SplitStates == [cmd: STRING \cup {""}, rest: Seq(Arguments), next: {"argument", "value", "rest"}]
SplitBegin == [cmd |-> "", rest |-> <<>>, next |-> "argument"]
SplitTurn == [s \in SplitStates \X Arguments |-> SplitNext(s[1], s[2])]

(* Where SplitCommand begins.                                               *)
LEMMA SplitBeginType == SplitBegin \in SplitStates
  <1> DEFINE none == <<>>
  <1>1. none \in Seq(Arguments)
    OBVIOUS
  <1> HIDE DEF none
  <1>2. "" \in STRING \cup {""} /\ "argument" \in {"argument", "value", "rest"}
    OBVIOUS
  <1>3. [cmd |-> "", rest |-> none, next |-> "argument"] \in SplitStates
    BY <1>1, <1>2 DEF SplitStates
  <1> QED BY <1>3 DEF SplitBegin, none

(* A turn of SplitCommand keeps its types.                                  *)
LEMMA SplitNextType ==
    \A s \in SplitStates, a \in Arguments : SplitNext(s, a) \in SplitStates
  <1> SUFFICES ASSUME NEW s \in SplitStates, NEW a \in Arguments PROVE SplitNext(s, a) \in SplitStates
    OBVIOUS
  <1>1. s = [cmd |-> s.cmd, rest |-> s.rest, next |-> s.next]
    BY DEF SplitStates
  <1>2. s.cmd \in STRING \cup {""} /\ s.rest \in Seq(Arguments) /\ s.next \in {"argument", "value", "rest"}
    BY DEF SplitStates
  <1>3. a.name \in STRING
    BY DEF Arguments
  <1>4. Append(s.rest, a) \in Seq(Arguments)
    <2>1. \A x \in Seq(Arguments) : Append(x, a) \in Seq(Arguments)
      OBVIOUS
    <2> QED BY <1>2, <2>1
  <1> QED BY <1>1, <1>2, <1>3, <1>4 DEF SplitStates, SplitNext

(* Split runs to its end over every sequence of arguments.               *)
LEMMA SplitLoop ==
    ASSUME NEW x \in Seq(Arguments)
    PROVE  \E f \in [0 .. Len(x) -> SplitStates] :
               Loops(f, x, SplitBegin, SplitTurn) /\ SplitCommand(x) = f[Len(x)]
  <1> DEFINE n == Len(x)
             Turn(f) == [i \in 0 .. n |-> IF i = 0 THEN SplitBegin ELSE SplitNext(f[i - 1], x[i])]
             ran == CHOOSE f : f = Turn(f)
             S == {i \in Nat : ran[i] \in SplitStates}
  <1>1. n \in Nat /\ \A i \in 1 .. n : x[i] \in Arguments
    OBVIOUS
  <1>2. /\ SplitTurn \in [SplitStates \X Arguments -> SplitStates]
        /\ \A s \in SplitStates, a \in Arguments : SplitTurn[<<s, a>>] = SplitNext(s, a)
    BY SplitNextType, Zenon DEF SplitTurn
  <1>3. SplitBegin \in SplitStates
    BY SplitBeginType
  <1>4. PICK h \in [0 .. n -> SplitStates] : Loops(h, x, SplitBegin, SplitTurn)
    BY <1>2, <1>3, LoopExists, Zenon
  <1>5. h[0] = SplitBegin /\ \A i \in 1 .. n : h[i] = SplitNext(h[i - 1], x[i])
    <2>1. \A i \in 1 .. n : i - 1 \in 0 .. n
      BY <1>1
    <2>2. h[0] = SplitBegin /\ \A i \in 1 .. n : h[i] = SplitTurn[<<h[i - 1], x[i]>>]
      BY <1>4 DEF Loops
    <2>3. \A i \in 1 .. n : h[i - 1] \in SplitStates
      BY <1>4, <2>1
    <2> HIDE DEF n
    <2> QED BY <1>1, <1>2, <2>2, <2>3
  <1>6. h = Turn(h)
    <2> HIDE DEF n
    <2> QED BY <1>1, <1>4, <1>5
  <1>7. ran = Turn(ran)
    <2> HIDE DEF Turn
    <2> QED BY <1>6
  <1>8. SplitCommand(x) = ran[n]
    BY DEF SplitCommand, SplitBegin
  <1> HIDE DEF ran
  <1>9. ran[0] = SplitBegin /\ \A i \in 1 .. n : ran[i] = SplitNext(ran[i - 1], x[i])
    <2>1. \A i \in 0 .. n : Turn(ran)[i] = IF i = 0 THEN SplitBegin ELSE SplitNext(ran[i - 1], x[i])
      BY Zenon
    <2> HIDE DEF Turn, n
    <2>2. \A i \in 0 .. n : ran[i] = IF i = 0 THEN SplitBegin ELSE SplitNext(ran[i - 1], x[i])
      BY <1>7, <2>1
    <2> QED BY <1>1, <2>2
  <1>10. \A i \in 0 .. n : ran[i] \in SplitStates
    <2>1. 0 \in S /\ \A i \in 1 .. n : i - 1 \in S => i \in S
      <3>1. \A i \in 1 .. n : ran[i - 1] \in SplitStates => ran[i] \in SplitStates
        BY <1>1, <1>9, SplitNextType
      <3>2. \A i \in 1 .. n : i \in Nat
        BY <1>1
      <3> QED BY <1>3, <1>9, <3>1, <3>2
    <2> HIDE DEF S, n
    <2>2. \A i \in 0 .. n : i \in S
      BY <1>1, <2>1, Along
    <2> QED BY <2>2 DEF S
  <1>11. ran \in [0 .. n -> SplitStates]
    BY <1>7, <1>10
  <1>12. Loops(ran, x, SplitBegin, SplitTurn)
    <2>1. \A i \in 1 .. n : i - 1 \in 0 .. n
      BY <1>1
    <2>2. \A i \in 1 .. n : ran[i] = SplitTurn[<<ran[i - 1], x[i]>>]
      <3> HIDE DEF n
      <3> QED BY <1>1, <1>2, <1>9, <1>10, <2>1
    <2> QED BY <1>9, <2>2 DEF Loops
  <1> QED BY <1>8, <1>11, <1>12

(* Nothing to read.                                                         *)
LEMMA SplitCommandEmpty == SplitCommand(<<>>) = SplitBegin
  <1>1. <<>> \in Seq(Arguments) /\ Len(<<>>) = 0
    OBVIOUS
  <1>2. PICK f \in [0 .. Len(<<>>) -> SplitStates] :
            Loops(f, <<>>, SplitBegin, SplitTurn) /\ SplitCommand(<<>>) = f[Len(<<>>)]
    BY <1>1, SplitLoop
  <1> QED BY <1>1, <1>2 DEF Loops

(* One argument more is one turn more.                                      *)
LEMMA SplitCommandAppend ==
    ASSUME NEW x \in Seq(Arguments), NEW a \in Arguments
    PROVE  SplitCommand(Append(x, a)) = SplitNext(SplitCommand(x), a) /\ SplitCommand(x) \in SplitStates
  <1> DEFINE t == Append(x, a)
  <1>1. t \in Seq(Arguments)
    OBVIOUS
  <1>2. PICK f \in [0 .. Len(x) -> SplitStates] :
            Loops(f, x, SplitBegin, SplitTurn) /\ SplitCommand(x) = f[Len(x)]
    BY SplitLoop
  <1>3. PICK g \in [0 .. Len(t) -> SplitStates] :
            Loops(g, t, SplitBegin, SplitTurn) /\ SplitCommand(t) = g[Len(t)]
    <2> HIDE DEF t
    <2> QED BY <1>1, SplitLoop
  <1>4. TurnMore(f, x, a, g, t, SplitTurn)
    <2>1. Loops(f, x, SplitBegin, SplitTurn)
      BY <1>2
    <2>2. t = Append(x, a) /\ Loops(g, t, SplitBegin, SplitTurn)
      BY <1>3
    <2> HIDE DEF t
    <2> QED BY <2>1, <2>2, LoopAppend, Zenon
  <1>5. f[Len(x)] \in SplitStates
    BY <1>2
  <1> HIDE DEF t
  <1>6. SplitCommand(t) = SplitTurn[<<f[Len(x)], a>>]
    BY <1>3, <1>4 DEF TurnMore
  <1>7. SplitTurn[<<f[Len(x)], a>>] = SplitNext(f[Len(x)], a)
    BY <1>5 DEF SplitTurn
  <1> QED BY <1>2, <1>5, <1>6, <1>7 DEF t

ParseStates == [given: SUBSET Switches, next: {"flag", "value", "nothing", "wrong"}]
ParseBegin == [given |-> {}, next |-> "flag"]
ParseTurn == [s \in ParseStates \X Arguments |-> ParseNext(s[1], s[2])]

(* Where Parsed begins.                                                     *)
LEMMA ParseBeginType == ParseBegin \in ParseStates
  BY DEF ParseBegin, ParseStates

(* A turn of Parsed keeps its types.                                        *)
LEMMA ParseNextType ==
    \A s \in ParseStates, a \in Arguments : ParseNext(s, a) \in ParseStates
  BY DEF ParseStates, Arguments, ParseNext, Switches, TextFlags

(* Parse runs to its end over every sequence of arguments.               *)
LEMMA ParseLoop ==
    ASSUME NEW x \in Seq(Arguments)
    PROVE  \E f \in [0 .. Len(x) -> ParseStates] :
               Loops(f, x, ParseBegin, ParseTurn) /\ Parsed(x) = f[Len(x)]
  <1> DEFINE n == Len(x)
             Turn(f) == [i \in 0 .. n |-> IF i = 0 THEN ParseBegin ELSE ParseNext(f[i - 1], x[i])]
             ran == CHOOSE f : f = Turn(f)
             S == {i \in Nat : ran[i] \in ParseStates}
  <1>1. n \in Nat /\ \A i \in 1 .. n : x[i] \in Arguments
    OBVIOUS
  <1>2. /\ ParseTurn \in [ParseStates \X Arguments -> ParseStates]
        /\ \A s \in ParseStates, a \in Arguments : ParseTurn[<<s, a>>] = ParseNext(s, a)
    BY ParseNextType, Zenon DEF ParseTurn
  <1>3. ParseBegin \in ParseStates
    BY ParseBeginType
  <1>4. PICK h \in [0 .. n -> ParseStates] : Loops(h, x, ParseBegin, ParseTurn)
    BY <1>2, <1>3, LoopExists, Zenon
  <1>5. h[0] = ParseBegin /\ \A i \in 1 .. n : h[i] = ParseNext(h[i - 1], x[i])
    <2>1. \A i \in 1 .. n : i - 1 \in 0 .. n
      BY <1>1
    <2>2. h[0] = ParseBegin /\ \A i \in 1 .. n : h[i] = ParseTurn[<<h[i - 1], x[i]>>]
      BY <1>4 DEF Loops
    <2>3. \A i \in 1 .. n : h[i - 1] \in ParseStates
      BY <1>4, <2>1
    <2> HIDE DEF n
    <2> QED BY <1>1, <1>2, <2>2, <2>3
  <1>6. h = Turn(h)
    <2> HIDE DEF n
    <2> QED BY <1>1, <1>4, <1>5
  <1>7. ran = Turn(ran)
    <2> HIDE DEF Turn
    <2> QED BY <1>6
  <1>8. Parsed(x) = ran[n]
    BY DEF Parsed, ParseBegin
  <1> HIDE DEF ran
  <1>9. ran[0] = ParseBegin /\ \A i \in 1 .. n : ran[i] = ParseNext(ran[i - 1], x[i])
    <2>1. \A i \in 0 .. n : Turn(ran)[i] = IF i = 0 THEN ParseBegin ELSE ParseNext(ran[i - 1], x[i])
      BY Zenon
    <2> HIDE DEF Turn, n
    <2>2. \A i \in 0 .. n : ran[i] = IF i = 0 THEN ParseBegin ELSE ParseNext(ran[i - 1], x[i])
      BY <1>7, <2>1
    <2> QED BY <1>1, <2>2
  <1>10. \A i \in 0 .. n : ran[i] \in ParseStates
    <2>1. 0 \in S /\ \A i \in 1 .. n : i - 1 \in S => i \in S
      <3>1. \A i \in 1 .. n : ran[i - 1] \in ParseStates => ran[i] \in ParseStates
        BY <1>1, <1>9, ParseNextType
      <3>2. \A i \in 1 .. n : i \in Nat
        BY <1>1
      <3> QED BY <1>3, <1>9, <3>1, <3>2
    <2> HIDE DEF S, n
    <2>2. \A i \in 0 .. n : i \in S
      BY <1>1, <2>1, Along
    <2> QED BY <2>2 DEF S
  <1>11. ran \in [0 .. n -> ParseStates]
    BY <1>7, <1>10
  <1>12. Loops(ran, x, ParseBegin, ParseTurn)
    <2>1. \A i \in 1 .. n : i - 1 \in 0 .. n
      BY <1>1
    <2>2. \A i \in 1 .. n : ran[i] = ParseTurn[<<ran[i - 1], x[i]>>]
      <3> HIDE DEF n
      <3> QED BY <1>1, <1>2, <1>9, <1>10, <2>1
    <2> QED BY <1>9, <2>2 DEF Loops
  <1> QED BY <1>8, <1>11, <1>12

(* Nothing to read.                                                         *)
LEMMA ParsedEmpty == Parsed(<<>>) = ParseBegin
  <1>1. <<>> \in Seq(Arguments) /\ Len(<<>>) = 0
    OBVIOUS
  <1>2. PICK f \in [0 .. Len(<<>>) -> ParseStates] :
            Loops(f, <<>>, ParseBegin, ParseTurn) /\ Parsed(<<>>) = f[Len(<<>>)]
    BY <1>1, ParseLoop
  <1> QED BY <1>1, <1>2 DEF Loops

(* One argument more is one turn more.                                      *)
LEMMA ParsedAppend ==
    ASSUME NEW x \in Seq(Arguments), NEW a \in Arguments
    PROVE  Parsed(Append(x, a)) = ParseNext(Parsed(x), a) /\ Parsed(x) \in ParseStates
  <1> DEFINE t == Append(x, a)
  <1>1. t \in Seq(Arguments)
    OBVIOUS
  <1>2. PICK f \in [0 .. Len(x) -> ParseStates] :
            Loops(f, x, ParseBegin, ParseTurn) /\ Parsed(x) = f[Len(x)]
    BY ParseLoop
  <1>3. PICK g \in [0 .. Len(t) -> ParseStates] :
            Loops(g, t, ParseBegin, ParseTurn) /\ Parsed(t) = g[Len(t)]
    <2> HIDE DEF t
    <2> QED BY <1>1, ParseLoop
  <1>4. TurnMore(f, x, a, g, t, ParseTurn)
    <2>1. Loops(f, x, ParseBegin, ParseTurn)
      BY <1>2
    <2>2. t = Append(x, a) /\ Loops(g, t, ParseBegin, ParseTurn)
      BY <1>3
    <2> HIDE DEF t
    <2> QED BY <2>1, <2>2, LoopAppend, Zenon
  <1>5. f[Len(x)] \in ParseStates
    BY <1>2
  <1> HIDE DEF t
  <1>6. Parsed(t) = ParseTurn[<<f[Len(x)], a>>]
    BY <1>3, <1>4 DEF TurnMore
  <1>7. ParseTurn[<<f[Len(x)], a>>] = ParseNext(f[Len(x)], a)
    BY <1>5 DEF ParseTurn
  <1> QED BY <1>2, <1>5, <1>6, <1>7 DEF t

----------------------------------------------------------------------------
(* FlattenSeq is a loop that puts one sequence behind the other.            *)
Concat == [s \in Seq(Arguments) \X Seq(Arguments) |-> s[1] \o s[2]]

(* Two lists of arguments make one.                                         *)
LEMMA ConcatType ==
    /\ Concat \in [Seq(Arguments) \X Seq(Arguments) -> Seq(Arguments)]
    /\ \A s, t \in Seq(Arguments) : Concat[<<s, t>>] = s \o t /\ s \o t \in Seq(Arguments)
  <1>1. \A s, t \in Seq(Arguments) : s \o t \in Seq(Arguments)
    OBVIOUS
  <1> QED BY <1>1, Zenon DEF Concat

(* FlattenSeq runs through the sequences from the first to the last.        *)
LEMMA FlattenLoop ==
    ASSUME NEW x \in Seq(Seq(Arguments))
    PROVE  \E f \in [0 .. Len(x) -> Seq(Arguments)] :
               Loops(f, x, <<>>, Concat) /\ FlattenSeq(x) = f[Len(x)]
  <1> DEFINE n == Len(x)
             A == Seq(Arguments)
             none == <<>>
             Turn(f) == [i \in 1 .. n |-> IF i = 1 THEN x[i] ELSE f[i - 1] \o x[i]]
             flat == CHOOSE f : f = Turn(f)
  <1>1. n \in Nat /\ none \in A /\ \A i \in 1 .. n : x[i] \in A
    OBVIOUS
  <1>2. PICK h \in [0 .. n -> A] : Loops(h, x, none, Concat)
    <2> HIDE DEF none
    <2> QED BY <1>1, ConcatType, LoopExists, Zenon
  <1>3. CASE n = 0
    <2>1. FlattenSeq(x) = none
      <3>1. x = none
        BY <1>3
      <3> HIDE DEF none
      <3> QED BY <1>3, <3>1 DEF FlattenSeq
    <2>2. h[n] = none
      <3> HIDE DEF none, n
      <3> QED BY <1>2, <1>3 DEF Loops
    <2> QED BY <1>2, <2>1, <2>2
  <1>4. CASE n # 0
    <2>1. h[0] = none /\ \A i \in 1 .. n : i - 1 \in 0 .. n /\ h[i] = Concat[<<h[i - 1], x[i]>>]
      <3>1. \A i \in 1 .. n : i - 1 \in 0 .. n
        BY <1>1
      <3> HIDE DEF none
      <3> QED BY <1>2, <3>1 DEF Loops
    <2>2. \A i \in 1 .. n : h[i] = h[i - 1] \o x[i]
      <3> HIDE DEF n, none, A
      <3>1. \A i \in 1 .. n : h[i - 1] \in A
        BY <1>2, <2>1
      <3> QED BY <1>1, <2>1, <3>1, ConcatType DEF A
    <2>3. 1 \in 1 .. n /\ h[1] = x[1]
      <3>1. 1 \in 1 .. n
        BY <1>1, <1>4
      <3>2. x[1] \in A
        BY <1>1, <3>1
      <3>3. \A s \in A : none \o s = s
        OBVIOUS
      <3> HIDE DEF n, none, A
      <3>4. 1 - 1 = 0
        OBVIOUS
      <3>5. h[1] = h[0] \o x[1]
        BY <2>2, <3>1, <3>4
      <3> QED BY <2>1, <3>1, <3>2, <3>3, <3>5, Zenon
    <2> DEFINE g == [i \in 1 .. n |-> h[i]]
    <2>4. g = Turn(g)
      <3>1. \A i \in 1 .. n : i # 1 => i - 1 \in 1 .. n
        BY <1>1
      <3> HIDE DEF n, none, A
      <3> QED BY <2>2, <2>3, <3>1
    <2>5. flat = Turn(flat)
      <3> HIDE DEF Turn, g
      <3> QED BY <2>4
    <2>6. FlattenSeq(x) = flat[n]
      BY <1>4 DEF FlattenSeq
    <2> HIDE DEF flat, g
    <2>7. \A i \in 1 .. n : flat[i] = IF i = 1 THEN x[i] ELSE flat[i - 1] \o x[i]
      <3>1. \A i \in 1 .. n : Turn(flat)[i] = IF i = 1 THEN x[i] ELSE flat[i - 1] \o x[i]
        BY Zenon
      <3> HIDE DEF Turn, n
      <3> QED BY <2>5, <3>1
    <2> HIDE DEF Turn, n, none, A
    <2> DEFINE S == {i \in Nat : i \in 1 .. n => flat[i] = h[i]}
    <2>8. 0 \in S /\ \A i \in 1 .. n : i - 1 \in S => i \in S
      <3>1. 0 \notin 1 .. n /\ \A i \in 1 .. n : i \in Nat /\ (i # 1 => i - 1 \in 1 .. n)
        BY <1>1
      <3>2. \A i \in 1 .. n : i # 1 /\ flat[i - 1] = h[i - 1] => flat[i] = h[i]
        BY <2>2, <2>7
      <3> QED BY <2>3, <2>7, <3>1, <3>2
    <2>9. n \in 0 .. n /\ n \in 1 .. n
      BY <1>1, <1>4
    <2> HIDE DEF S
    <2>10. n \in S
      BY <1>1, <2>8, <2>9, Along
    <2>11. flat[n] = h[n]
      BY <2>9, <2>10 DEF S
    <2> QED BY <1>2, <2>6, <2>11 DEF n, A, none
  <1> QED BY <1>3, <1>4

(* No sequences make none.                                                  *)
LEMMA FlattenEmpty == FlattenSeq(<<>>) = <<>>
  BY DEF FlattenSeq

(* Lists of arguments make one.                                             *)
LEMMA FlattenType ==
    ASSUME NEW x \in Seq(Seq(Arguments))
    PROVE  FlattenSeq(x) \in Seq(Arguments)
  <1>1. PICK f \in [0 .. Len(x) -> Seq(Arguments)] : FlattenSeq(x) = f[Len(x)]
    BY FlattenLoop, Zenon
  <1>2. Len(x) \in 0 .. Len(x)
    OBVIOUS
  <1> QED BY <1>1, <1>2, Zenon

(* One more goes to the end.                                                *)
LEMMA FlattenAppend ==
    ASSUME NEW x \in Seq(Seq(Arguments)), NEW a \in Seq(Arguments)
    PROVE  FlattenSeq(Append(x, a)) = FlattenSeq(x) \o a
  <1> DEFINE t == Append(x, a)
             none == <<>>
             A == Seq(Arguments)
  <1>1. t \in Seq(A)
    OBVIOUS
  <1>2. PICK f \in [0 .. Len(x) -> A] : Loops(f, x, none, Concat) /\ FlattenSeq(x) = f[Len(x)]
    BY FlattenLoop
  <1>3. PICK g \in [0 .. Len(t) -> A] : Loops(g, t, none, Concat) /\ FlattenSeq(t) = g[Len(t)]
    <2> HIDE DEF t
    <2> QED BY <1>1, FlattenLoop
  <1>4. TurnMore(f, x, a, g, t, Concat)
    <2>1. Loops(f, x, none, Concat)
      BY <1>2
    <2>2. t = Append(x, a) /\ Loops(g, t, none, Concat)
      BY <1>3
    <2> HIDE DEF t, none
    <2> QED BY <2>1, <2>2, LoopAppend, Zenon
  <1>5. f[Len(x)] \in A
    BY <1>2
  <1> HIDE DEF t
  <1>6. FlattenSeq(t) = Concat[<<f[Len(x)], a>>]
    BY <1>3, <1>4 DEF TurnMore
  <1>7. Concat[<<f[Len(x)], a>>] = f[Len(x)] \o a
    BY <1>5, ConcatType, Zenon
  <1> QED BY <1>2, <1>6, <1>7 DEF t

----------------------------------------------------------------------------
Options == {g \in Seq(Arguments) : IsOption(g)}

(* What an option is made of.                                               *)
LEMMA OptionCases ==
    ASSUME NEW g \in Options
    PROVE  \/ \E n \in Switches : Flag(n) \in Arguments /\ g = <<Flag(n)>>
           \/ \E n \in TextFlags : Attached(n) \in Arguments /\ g = <<Attached(n)>>
           \/ \E n \in TextFlags, v \in Arguments : Flag(n) \in Arguments /\ g = <<Flag(n), v>>
  <1>1. g \in Seq(Arguments) /\ IsOption(g)
    BY DEF Options
  <1>2. \A a : g = <<a>> => a \in Arguments
    BY <1>1
  <1>3. ASSUME NEW n \in TextFlags, Len(g) = 2, g[1] = Flag(n)
        PROVE  \E v \in Arguments : Flag(n) \in Arguments /\ g = <<Flag(n), v>>
    <2>1. g[1] \in Arguments /\ g[2] \in Arguments /\ g = <<g[1], g[2]>>
      BY <1>1, <1>3
    <2> QED BY <1>3, <2>1
  <1> QED BY <1>1, <1>2, <1>3, Zenon DEF IsOption

(* The arguments x are read, c is the command and r the rest so far, and an *)
(* argument comes next.                                                     *)
SplitTo(x, c, r) == SplitCommand(x) = [cmd |-> c, rest |-> r, next |-> "argument"]

(* Options go to the rest, whatever their values are.                       *)
LEMMA SplitOption ==
    ASSUME NEW x \in Seq(Arguments), NEW r \in Seq(Arguments), NEW c, NEW g \in Options,
           SplitTo(x, c, r)
    PROVE  SplitTo(x \o g, c, r \o g)
  <1> DEFINE s == [cmd |-> c, rest |-> r, next |-> "argument"]
  <1>1. \A a : /\ x \o <<a>> = Append(x, a) /\ r \o <<a>> = Append(r, a)
    OBVIOUS
  <1>2. \A a \in Arguments : SplitCommand(Append(x, a)) = SplitNext(s, a)
    BY SplitCommandAppend, Zenon DEF SplitTo
  <1>3. ASSUME NEW n \in Switches, Flag(n) \in Arguments
        PROVE  SplitTo(Append(x, Flag(n)), c, Append(r, Flag(n)))
    <2>1. n \notin ValueFlags
      BY DEF Switches, ValueFlags
    <2>2. SplitNext(s, Flag(n)) = [s EXCEPT !.rest = Append(@, Flag(n)), !.next = "argument"]
      BY <2>1 DEF SplitNext, Flag
    <2> QED BY <1>2, <1>3, <2>2 DEF SplitTo
  <1>4. ASSUME NEW n \in TextFlags, Attached(n) \in Arguments
        PROVE  SplitTo(Append(x, Attached(n)), c, Append(r, Attached(n)))
    <2>2. SplitNext(s, Attached(n)) = [s EXCEPT !.rest = Append(@, Attached(n)), !.next = "argument"]
      BY DEF SplitNext, Attached
    <2> QED BY <1>2, <1>4, <2>2 DEF SplitTo
  <1>5. ASSUME NEW n \in TextFlags, NEW v \in Arguments, Flag(n) \in Arguments
        PROVE  SplitTo(Append(Append(x, Flag(n)), v), c, Append(Append(r, Flag(n)), v))
    <2> DEFINE t == [cmd |-> c, rest |-> Append(r, Flag(n)), next |-> "value"]
    <2>1. n \in ValueFlags
      BY DEF TextFlags, ValueFlags
    <2>2. SplitNext(s, Flag(n)) = t
      BY <2>1 DEF SplitNext, Flag
    <2>3. SplitCommand(Append(x, Flag(n))) = t
      BY <1>2, <1>5, <2>2
    <2>4. Append(x, Flag(n)) \in Seq(Arguments)
      BY <1>5
    <2>5. SplitCommand(Append(Append(x, Flag(n)), v)) = SplitNext(t, v)
      BY <2>3, <2>4, SplitCommandAppend, Zenon
    <2>6. SplitNext(t, v) = [t EXCEPT !.rest = Append(@, v), !.next = "argument"]
      BY DEF SplitNext
    <2> QED BY <2>5, <2>6 DEF SplitTo
  <1>6. \A a, v : x \o <<a, v>> = Append(Append(x, a), v) /\ r \o <<a, v>> = Append(Append(r, a), v)
    OBVIOUS
  <1> HIDE DEF s
  <1>7. CASE \E n \in Switches : Flag(n) \in Arguments /\ g = <<Flag(n)>>
    BY <1>1, <1>3, <1>7, Zenon
  <1>8. CASE \E n \in TextFlags : Attached(n) \in Arguments /\ g = <<Attached(n)>>
    BY <1>1, <1>4, <1>8, Zenon
  <1>9. CASE \E n \in TextFlags, v \in Arguments : Flag(n) \in Arguments /\ g = <<Flag(n), v>>
    <2>1. PICK n \in TextFlags, v \in Arguments : Flag(n) \in Arguments /\ g = <<Flag(n), v>>
      BY <1>9
    <2>2. SplitTo(Append(Append(x, Flag(n)), v), c, Append(Append(r, Flag(n)), v))
      BY <1>5, <2>1, Zenon
    <2> QED BY <1>6, <2>1, <2>2, Zenon
  <1> QED BY <1>7, <1>8, <1>9, OptionCases, Zenon

(* The options on a command line are arguments.                             *)
LEMMA Flat ==
    ASSUME NEW o \in Seq(Options)
    PROVE  o \in Seq(Seq(Arguments)) /\ FlattenSeq(o) \in Seq(Arguments)
  <1>1. o \in Seq(Seq(Arguments))
    BY DEF Options
  <1> QED BY <1>1, FlattenType

(* One option more goes behind the others.                                  *)
LEMMA FlatMore ==
    ASSUME NEW o \in Seq(Options), NEW g \in Options, NEW x \in Seq(Arguments)
    PROVE  x \o FlattenSeq(Append(o, g)) = (x \o FlattenSeq(o)) \o g
  <1>1. g \in Seq(Arguments)
    BY DEF Options
  <1>2. FlattenSeq(Append(o, g)) = FlattenSeq(o) \o g /\ FlattenSeq(o) \in Seq(Arguments)
    BY <1>1, Flat, FlattenAppend
  <1>3. \A y \in Seq(Arguments) : x \o (y \o g) = (x \o y) \o g
    BY <1>1
  <1> QED BY <1>2, <1>3

(* So do any number of options.                                             *)
LEMMA SplitOptions ==
    ASSUME NEW x \in Seq(Arguments), NEW r \in Seq(Arguments), NEW c, NEW o \in Seq(Options),
           SplitTo(x, c, r)
    PROVE  SplitTo(x \o FlattenSeq(o), c, r \o FlattenSeq(o))
  <1> DEFINE Read(p) == SplitTo(x \o FlattenSeq(p), c, r \o FlattenSeq(p))
             S == {p \in Seq(Options) : Read(p)}
  <1>1. <<>> \in S
    <2>1. x \o <<>> = x /\ r \o <<>> = r /\ <<>> \in Seq(Options)
      OBVIOUS
    <2> QED BY <2>1, FlattenEmpty
  <1>2. ASSUME NEW p \in Seq(Options), NEW g \in Options, Read(p) PROVE Read(Append(p, g))
    <2>1. x \o FlattenSeq(p) \in Seq(Arguments) /\ r \o FlattenSeq(p) \in Seq(Arguments)
      <3>1. \A y, z \in Seq(Arguments) : y \o z \in Seq(Arguments)
        OBVIOUS
      <3> QED BY <3>1, Flat, Zenon
    <2>2. SplitTo((x \o FlattenSeq(p)) \o g, c, (r \o FlattenSeq(p)) \o g)
      BY <1>2, <2>1, SplitOption, Zenon
    <2> QED BY <2>2, FlatMore
  <1>3. \A p \in Seq(Options), g \in Options : p \in S => Append(p, g) \in S
    <2>1. \A p \in Seq(Options), g \in Options : Append(p, g) \in Seq(Options)
      OBVIOUS
    <2> HIDE DEF Read
    <2> QED BY <1>2, <2>1
  <1> HIDE DEF S
  <1>4. o \in S
    BY <1>1, <1>3, AllSequences
  <1> QED BY <1>4 DEF S

----------------------------------------------------------------------------
(* The arguments x are parsed, with these switches given, and a flag may    *)
(* come next.                                                               *)
ParsedTo(x, given) == Parsed(x) = [given |-> given, next |-> "flag"]

Given(g) == {n \in Switches : g = <<Flag(n)>>}

(* A switch is noted.                                                       *)
LEMMA ParseSwitch ==
    ASSUME NEW given, NEW n \in Switches
    PROVE  ParseNext([given |-> given, next |-> "flag"], Flag(n))
               = [given |-> given \cup {n}, next |-> "flag"]
  <1> DEFINE s == [given |-> given, next |-> "flag"]
             a == Flag(n)
             more == given \cup {n}
  <1>1. a.kind = "flag" /\ a.name = n /\ s.next = "flag" /\ s.given = given
    BY DEF Flag
  <1>2. \A b : [s EXCEPT !.given = b] = [given |-> b, next |-> "flag"]
    OBVIOUS
  <1> HIDE DEF a, s
  <1>3. s.given \cup {a.name} = more
    BY <1>1
  <1> HIDE DEF more
  <1>4. n \notin TextFlags
    BY DEF Switches, TextFlags
  <1>5. ParseNext(s, a) = [s EXCEPT !.given = s.given \cup {a.name}]
    BY <1>1, <1>4 DEF ParseNext
  <1> QED BY <1>2, <1>3, <1>5 DEF s, a, more

(* An option adds itself to the switches given, if it is one.               *)
LEMMA ParseOption ==
    ASSUME NEW x \in Seq(Arguments), NEW given \in SUBSET Switches, NEW g \in Options,
           ParsedTo(x, given)
    PROVE  ParsedTo(x \o g, given \cup Given(g))
  <1> DEFINE s == [given |-> given, next |-> "flag"]
  <1>1. \A a : x \o <<a>> = Append(x, a)
    OBVIOUS
  <1>2. \A a \in Arguments : Parsed(Append(x, a)) = ParseNext(s, a)
    BY ParsedAppend, Zenon DEF ParsedTo
  <1>3. ASSUME NEW n \in Switches, Flag(n) \in Arguments, g = <<Flag(n)>>
        PROVE  ParsedTo(Append(x, Flag(n)), given \cup Given(g))
    <2>1. ParseNext(s, Flag(n)) = [given |-> given \cup {n}, next |-> "flag"]
      BY ParseSwitch, Zenon
    <2>2. Given(g) = {n}
      <3>1. \A k : <<Flag(k)>> = <<Flag(n)>> => k = n
        BY DEF Flag
      <3> QED BY <1>3, <3>1 DEF Given
    <2> QED BY <1>2, <1>3, <2>1, <2>2 DEF ParsedTo
  <1>4. ASSUME NEW n \in TextFlags, Attached(n) \in Arguments, g = <<Attached(n)>>
        PROVE  ParsedTo(Append(x, Attached(n)), given \cup Given(g))
    <2>1. ParseNext(s, Attached(n)) = s
      BY DEF ParseNext, Attached
    <2>2. Given(g) = {}
      <3>1. \A k : <<Flag(k)>> # <<Attached(n)>>
        BY DEF Flag, Attached
      <3> QED BY <1>4, <3>1 DEF Given
    <2> QED BY <1>2, <1>4, <2>1, <2>2 DEF ParsedTo
  <1>5. ASSUME NEW n \in TextFlags, NEW v \in Arguments, Flag(n) \in Arguments, g = <<Flag(n), v>>
        PROVE  ParsedTo(Append(Append(x, Flag(n)), v), given \cup Given(g))
    <2> DEFINE t == [given |-> given, next |-> "value"]
    <2>1. n \notin Switches
      BY DEF TextFlags, Switches
    <2>2. ParseNext(s, Flag(n)) = t
      BY <2>1 DEF ParseNext, Flag
    <2>3. Parsed(Append(x, Flag(n))) = t
      BY <1>2, <1>5, <2>2
    <2>4. Append(x, Flag(n)) \in Seq(Arguments)
      BY <1>5
    <2>5. Parsed(Append(Append(x, Flag(n)), v)) = ParseNext(t, v)
      BY <2>3, <2>4, ParsedAppend, Zenon
    <2>6. ParseNext(t, v) = s
      BY DEF ParseNext
    <2>7. Given(g) = {}
      <3>1. \A a, b : <<a>> # <<b, v>>
        OBVIOUS
      <3> QED BY <1>5, <3>1 DEF Given
    <2> QED BY <2>5, <2>6, <2>7 DEF ParsedTo
  <1>6. \A a, v : x \o <<a, v>> = Append(Append(x, a), v)
    OBVIOUS
  <1> HIDE DEF s
  <1>7. CASE \E n \in Switches : Flag(n) \in Arguments /\ g = <<Flag(n)>>
    BY <1>1, <1>3, <1>7, Zenon
  <1>8. CASE \E n \in TextFlags : Attached(n) \in Arguments /\ g = <<Attached(n)>>
    BY <1>1, <1>4, <1>8, Zenon
  <1>9. CASE \E n \in TextFlags, v \in Arguments : Flag(n) \in Arguments /\ g = <<Flag(n), v>>
    <2>1. PICK n \in TextFlags, v \in Arguments : Flag(n) \in Arguments /\ g = <<Flag(n), v>>
      BY <1>9
    <2>2. ParsedTo(Append(Append(x, Flag(n)), v), given \cup Given(g))
      BY <1>5, <2>1, Zenon
    <2> QED BY <1>6, <2>1, <2>2, Zenon
  <1> QED BY <1>7, <1>8, <1>9, OptionCases, Zenon

(* The switches among some options.                                         *)
GivenOf(o) == {n \in Switches : <<Flag(n)>> \in Range(o)}

(* One option more adds what it is.                                         *)
LEMMA GivenMore ==
    ASSUME NEW o \in Seq(Options), NEW g \in Options
    PROVE  GivenOf(Append(o, g)) = GivenOf(o) \cup Given(g)
  <1>1. Range(Append(o, g)) = Range(o) \cup {g}
    <2> DEFINE t == Append(o, g)
               n == Len(o)
    <2>1. /\ n \in Nat /\ DOMAIN o = 1 .. n /\ DOMAIN t = 1 .. n + 1
          /\ t[n + 1] = g /\ \A k \in 1 .. n : t[k] = o[k]
      OBVIOUS
    <2> HIDE DEF t, n
    <2>2. 1 .. n + 1 = (1 .. n) \cup {n + 1}
      BY <2>1
    <2>3. Range(t) = Range(o) \cup {g}
      <3>1. ASSUME NEW y \in Range(t) PROVE y \in Range(o) \cup {g}
        <4>1. PICK k \in 1 .. n + 1 : y = t[k]
          BY <2>1, <3>1 DEF Range
        <4> QED BY <2>1, <2>2, <4>1 DEF Range
      <3>2. ASSUME NEW y \in Range(o) PROVE y \in Range(t)
        <4>1. PICK k \in 1 .. n : y = o[k]
          BY <2>1, <3>2 DEF Range
        <4> QED BY <2>1, <2>2, <4>1 DEF Range
      <3>3. g \in Range(t)
        BY <2>1, <2>2 DEF Range
      <3> QED BY <3>1, <3>2, <3>3, Zenon
    <2> QED BY <2>3 DEF t
  <1> QED BY <1>1 DEF GivenOf, Given

(* Any number of options add the switches among them.                       *)
LEMMA ParseOptions ==
    ASSUME NEW x \in Seq(Arguments), NEW given \in SUBSET Switches, NEW o \in Seq(Options),
           ParsedTo(x, given)
    PROVE  ParsedTo(x \o FlattenSeq(o), given \cup GivenOf(o))
  <1> DEFINE Read(p) == ParsedTo(x \o FlattenSeq(p), given \cup GivenOf(p))
             S == {p \in Seq(Options) : Read(p)}
  <1>1. <<>> \in S
    <2>1. x \o <<>> = x /\ <<>> \in Seq(Options)
      OBVIOUS
    <2>2. GivenOf(<<>>) = {}
      BY DEF GivenOf, Range
    <2> QED BY <2>1, <2>2, FlattenEmpty
  <1>2. ASSUME NEW p \in Seq(Options), NEW g \in Options, Read(p) PROVE Read(Append(p, g))
    <2>1. x \o FlattenSeq(p) \in Seq(Arguments)
      <3>1. \A y, z \in Seq(Arguments) : y \o z \in Seq(Arguments)
        OBVIOUS
      <3> QED BY <3>1, Flat, Zenon
    <2>2. given \cup GivenOf(p) \in SUBSET Switches
      BY DEF GivenOf
    <2>3. ParsedTo((x \o FlattenSeq(p)) \o g, (given \cup GivenOf(p)) \cup Given(g))
      BY <1>2, <2>1, <2>2, ParseOption, Zenon
    <2>4. (given \cup GivenOf(p)) \cup Given(g) = given \cup GivenOf(Append(p, g))
      BY GivenMore
    <2> QED BY <2>3, <2>4, FlatMore
  <1>3. \A p \in Seq(Options), g \in Options : p \in S => Append(p, g) \in S
    <2>1. \A p \in Seq(Options), g \in Options : Append(p, g) \in Seq(Options)
      OBVIOUS
    <2> HIDE DEF Read
    <2> QED BY <1>2, <2>1
  <1> HIDE DEF S
  <1>4. o \in S
    BY <1>1, <1>3, AllSequences
  <1> QED BY <1>4 DEF S

----------------------------------------------------------------------------
Words == STRING \cup {""}

(* A command line of options around a command word is taken apart as it was *)
(* put together.                                                            *)
LEMMA SplitTyped ==
    ASSUME NEW i, NEW c \in Words, NEW o \in Seq(Options), NEW p \in Seq(Options),
           i.cmd = c, i.before = o, i.after = p
    PROVE  SplitTo(Typed(i), c, FlattenSeq(o) \o FlattenSeq(p))
  <1> DEFINE none == <<>>
             b == FlattenSeq(o)
             d == FlattenSeq(p)
             word == IF c = "" THEN none ELSE <<Word(c)>>
  <1>1. b \in Seq(Arguments) /\ d \in Seq(Arguments) /\ none \in Seq(Arguments)
    <2>1. none \in Seq(Arguments)
      OBVIOUS
    <2> QED BY <2>1, Flat
  <1>2. Typed(i) = (b \o word) \o d
    BY DEF Typed
  <1>3. \A y \in Seq(Arguments) : none \o y = y /\ y \o none = y
    OBVIOUS
  <1>4. SplitTo(none, "", none)
    BY SplitCommandEmpty DEF SplitTo, SplitBegin
  <1>5. SplitTo(none \o b, "", none \o b)
    <2> HIDE DEF none
    <2> QED BY <1>1, <1>4, SplitOptions, Zenon
  <1> HIDE DEF none, b, d
  <1>6. SplitTo(b, "", b)
    BY <1>1, <1>3, <1>5
  <1>7. SplitTo(b \o word, c, b) /\ b \o word \in Seq(Arguments)
    <2>1. CASE c = ""
      BY <1>1, <1>3, <1>6, <2>1
    <2>2. CASE c # ""
      <3> DEFINE a == Word(c)
      <3>1. a \in Arguments
        BY <2>2 DEF Arguments, Word, Words
      <3>2. b \o <<a>> = Append(b, a) /\ Append(b, a) \in Seq(Arguments)
        BY <1>1, <3>1
      <3>3. SplitNext([cmd |-> "", rest |-> b, next |-> "argument"], a)
                = [cmd |-> c, rest |-> b, next |-> "argument"]
        BY DEF SplitNext, Word
      <3> HIDE DEF a
      <3>4. SplitTo(Append(b, a), c, b)
        BY <1>1, <1>6, <3>1, <3>3, SplitCommandAppend, Zenon DEF SplitTo
      <3> QED BY <2>2, <3>2, <3>4 DEF a
    <2> QED BY <2>1, <2>2
  <1> HIDE DEF word
  <1>8. SplitTo((b \o word) \o d, c, b \o d)
    <2>1. SplitTo((b \o word) \o FlattenSeq(p), c, b \o FlattenSeq(p))
      BY <1>1, <1>7, SplitOptions, Zenon
    <2> QED BY <2>1 DEF d
  <1> QED BY <1>2, <1>8 DEF b, d

(* The flags are read as they were meant.                                   *)
LEMMA ParseTyped ==
    ASSUME NEW b \in Seq(Options), NEW d \in Seq(Options)
    PROVE  ParsedTo(FlattenSeq(b) \o FlattenSeq(d), GivenOf(b) \cup GivenOf(d))
  <1> DEFINE none == <<>>
             x == FlattenSeq(b)
  <1>1. x \in Seq(Arguments) /\ none \in Seq(Arguments)
    <2>1. none \in Seq(Arguments)
      OBVIOUS
    <2> QED BY <2>1, Flat
  <1>2. ParsedTo(none, {})
    BY ParsedEmpty DEF ParsedTo, ParseBegin
  <1>3. ParsedTo(none \o x, {} \cup GivenOf(b))
    <2>1. {} \in SUBSET Switches
      OBVIOUS
    <2> HIDE DEF none
    <2> QED BY <1>1, <1>2, <2>1, ParseOptions, Zenon
  <1>4. none \o x = x /\ {} \cup GivenOf(b) = GivenOf(b)
    <2>1. \A y \in Seq(Arguments) : none \o y = y
      OBVIOUS
    <2> HIDE DEF none, x
    <2> QED BY <1>1, <2>1
  <1>5. GivenOf(b) \in SUBSET Switches
    BY DEF GivenOf
  <1> HIDE DEF none, x
  <1>6. ParsedTo(x, GivenOf(b))
    BY <1>3, <1>4
  <1>7. ParsedTo(x \o FlattenSeq(d), GivenOf(b) \cup GivenOf(d))
    BY <1>1, <1>5, <1>6, ParseOptions, Zenon
  <1> QED BY <1>7 DEF x

(* What realMain makes of such a line is what it says.                      *)
LEMMA LaunchTyped ==
    ASSUME NEW i, NEW c \in Words, NEW o \in Seq(Options), NEW p \in Seq(Options),
           i.cmd = c, i.before = o, i.after = p
    PROVE  /\ Launch(Typed(i)) \in {"run", "once"} => Launch(Typed(i)) = Meant(i)
           /\ DryRun(Typed(i)) = Asked(i, "dry-run")
  <1> DEFINE given == GivenOf(o) \cup GivenOf(p)
             rest == FlattenSeq(o) \o FlattenSeq(p)
  <1>1. SplitCommand(Typed(i)) = [cmd |-> c, rest |-> rest, next |-> "argument"]
    BY SplitTyped, Zenon DEF SplitTo
  <1>2. Parsed(rest) = [given |-> given, next |-> "flag"]
    BY ParseTyped, Zenon DEF ParsedTo
  <1>3. \A n \in Switches : n \in given <=> Asked(i, n)
    BY DEF GivenOf, Asked
  <1>4. "once" \in Switches /\ "dry-run" \in Switches
    BY DEF Switches
  <1> HIDE DEF given, rest
  <1>5. SplitCommand(Typed(i)).cmd = c /\ SplitCommand(Typed(i)).rest = rest
    BY <1>1
  <1>6. Parsed(rest).next = "flag" /\ Parsed(rest).given = given
    BY <1>2
  <1>7. DryRun(Typed(i)) = Asked(i, "dry-run")
    <2>1. DryRun(Typed(i)) = ("dry-run" \in given)
      BY <1>5, <1>6, Zenon DEF DryRun
    <2>2. ("dry-run" \in given) = Asked(i, "dry-run")
      BY <1>3, <1>4 DEF Asked
    <2> QED BY <2>1, <2>2
  <1>8. ASSUME Launch(Typed(i)) \in {"run", "once"} PROVE Launch(Typed(i)) = Meant(i)
    <2>1. CASE c \in {"", "run"}
      <3>1. Launch(Typed(i)) = IF "once" \in given THEN "once" ELSE "run"
        BY <1>5, <1>6, <2>1 DEF Launch, Accepted, OtherCommands
      <3> QED BY <1>3, <1>4, <2>1, <3>1 DEF Meant
    <2>2. CASE c = "once"
      <3>1. Launch(Typed(i)) = "once"
        BY <1>5, <1>6, <2>2 DEF Launch, Accepted, OtherCommands
      <3> QED BY <2>2, <3>1 DEF Meant
    <2>3. CASE c \notin {"", "run", "once"}
      <3>1. Launch(Typed(i)) \in {"other", "usage"}
        BY <1>5, <1>6, <2>3 DEF Launch, Accepted, OtherCommands
      <3> QED BY <1>8, <3>1
    <2> QED BY <2>1, <2>2, <2>3
  <1> QED BY <1>7, <1>8

(* What a user may start.                                                   *)
LEMMA IntentFields ==
    ASSUME NEW i \in Intents
    PROVE  /\ i.cmd \in Words /\ i.before \in Seq(Options) /\ i.after \in Seq(Options)
  <1>1. /\ i.cmd \in STRING
        /\ i.before \in Seq(Seq(Arguments)) /\ i.after \in Seq(Seq(Arguments))
        /\ \A option \in Range(i.before) \cup Range(i.after) : IsOption(option)
    BY IntentsAssumption
  <1>2. ASSUME NEW x \in Seq(Seq(Arguments)), \A option \in Range(x) : IsOption(option)
        PROVE  x \in Seq(Options)
    <2>1. \A k \in 1 .. Len(x) : x[k] \in Seq(Arguments) /\ x[k] \in Range(x)
      BY DEF Range
    <2>2. \A k \in 1 .. Len(x) : x[k] \in Options
      BY <1>2, <2>1 DEF Options
    <2>3. Len(x) \in Nat /\ x \in [1 .. Len(x) -> Seq(Arguments)]
      OBVIOUS
    <2>4. x \in [1 .. Len(x) -> Options]
      BY <2>2, <2>3
    <2>5. Seq(Options) = UNION {[1 .. n -> Options] : n \in Nat}
      BY SeqDef
    <2> QED BY <2>3, <2>4, <2>5
  <1> QED BY <1>1, <1>2 DEF Words

(* Nothing but the reading of the arguments leads from launch to verify.    *)
LEMMA LaunchEnds ==
    ASSUME Next, pc = "launch", pc' = "verify"
    PROVE  ReadArguments
  <1>1. ~(Start \/ VerifyAnswered \/ Verified \/ BeginPoll \/ Fetching(FetchStep))
    BY DEF Start, VerifyAnswered, Verified, BeginPoll, Fetching
  <1>2. ~(Fetched \/ HandledLocally \/ Asks \/ NotFound \/ Settled \/ RequestFails)
    BY DEF Fetched, HandledLocally, Asks, NotFound, Settled, RequestFails
  <1>3. ~(MarkPollOK \/ PollUnmarked \/ BadEnd \/ Wake \/ Shutdown)
    BY DEF MarkPollOK, PollUnmarked, BadEnd, Wake, Shutdown, Polling
  <1>4. ~(Death \/ Signal \/ MailTurns \/ LedgerTurns \/ Tick)
    BY DEF Death, Dies, Gone, Signal, MailTurns, LedgerTurns, Tick, processVars
  <1> QED BY <1>1, <1>2, <1>3, <1>4, NextCases

(* However a user mixes options and command word, whatever the values are:  *)
(* the process polls once or on and on, in earnest or dry, as it was told.  *)
THEOREM AsMeant == Spec => LaunchedAsMeant
  <1> DEFINE AsTold == mode' = Meant(line) /\ dry' = Asked(line, "dry-run")
  <1>1. ASSUME TypeOK, Next, pc = "launch", pc' = "verify" PROVE AsTold
    <2>1. ReadArguments
      BY <1>1, NextCases, LaunchEnds, Zenon
    <2>2. line \in Intents
      BY <1>1 DEF TypeOK
    <2>3. /\ mode' = Launch(Typed(line)) /\ dry' = DryRun(Typed(line))
          /\ Launch(Typed(line)) \in {"run", "once"}
      BY <2>1, <2>2 DEF ReadArguments, Launched
    <2>4. /\ Launch(Typed(line)) \in {"run", "once"} => Launch(Typed(line)) = Meant(line)
          /\ DryRun(Typed(line)) = Asked(line, "dry-run")
      BY <2>2, IntentFields, LaunchTyped, Zenon
    <2> QED BY <2>3, <2>4
  <1>2. TypeOK /\ [Next]_vars => [pc = "launch" /\ pc' = "verify" => AsTold]_vars
    BY <1>1
  <1> QED BY <1>2, ServiceTypeCorrect, PTL DEF Spec, LaunchedAsMeant
=============================================================================
