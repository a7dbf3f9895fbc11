------------------------------ MODULE Service ------------------------------
(***************************************************************************)
(* The polling process with time: cmdRun of cmd/hdfc2ff/main.go around the *)
(* fetch of module Fetch, from the command line to the exit, with the wait *)
(* between polls, the requests to Firefly III and the age of the last good *)
(* poll that the healthcheck reads.  What the messages are is left to      *)
(* module Sync; here a poll has a number of them to handle.                *)
(***************************************************************************)
EXTENDS Fetch, CommandLine

CONSTANTS
    Interval,        \* ticks between polls, POLL_INTERVAL
    MaxBackoff,      \* ticks, 30 minutes in the code
    RequestTimeout,  \* ticks for a request to Firefly, 30 seconds in the code
    MaxAge,          \* ticks, the limit of the healthcheck
    Accounts,        \* how many accounts the configuration maps
    MaxBatch,        \* messages in one poll (a bound of the model)
    MaxFailures,     \* failures are counted up to here (a bound of the model)
    Intents          \* the command lines that users and units start

ASSUME ServiceAssumption ==
    /\ Interval \in Nat \ {0} /\ MaxBackoff \in Nat \ {0} /\ RequestTimeout \in Nat \ {0}
    /\ MaxAge \in Nat /\ Accounts \in Nat \ {0} /\ MaxBatch \in Nat
    /\ MaxFailures \in Nat \ {0}

(* A command line has options and a word; the shell knows no other.         *)
ASSUME IntentsAssumption ==
    \A intent \in Intents :
        /\ intent.cmd \in STRING
        /\ intent.before \in Seq(Seq(Arguments)) /\ intent.after \in Seq(Seq(Arguments))
        /\ \A option \in Range(intent.before) \cup Range(intent.after) : IsOption(option)

VARIABLES
    pc,         \* what the process is about to do
    line,       \* the command line it was given, until it has read it
    mode,       \* does it poll "once" or "run"
    dry,        \* is it a dry run
    failures,   \* consecutive failures
    left,       \* requests of Verify, or messages of the batch, that are left
    timer,      \* ticks left of the wait or of the request at hand
    missed,     \* has Firefly failed a message of the last poll
    pollAge,    \* ticks since the last recorded good poll, up to MaxAge + 1
    calm,       \* ticks without trouble (history)
    stopping,   \* ticks since the signal (history)
    mailUp,     \* does Gmail answer within a tick
    ledgerUp    \* does Firefly answer within a tick

processVars == <<pc, line, mode, dry, failures, left, timer, missed>>
worldVars   == <<mailUp, ledgerUp>>
vars == <<fetchVars, cancelled, processVars, worldVars, pollAge, calm, stopping>>

MinOf(a, b) == IF a < b THEN a ELSE b
MaxOf(a, b) == IF a < b THEN b ELSE a

Requests == {"verify", "find", "create"}
Polling  == {"poll", "fetch", "next", "find", "create", "mark"}
Running  == Polling \cup {"verify", "sleep"}

(* With a plausible bug: the delay is not cut at the cap. *)
NextDelayUncapped(n) == IF n <= 0 THEN Interval ELSE Interval * 2 ^ n

(* With a plausible bug: the cap is a bound from below. *)
NextDelayFlat(n) == IF n <= 0 THEN Interval ELSE MinOf(Interval, MaxBackoff)

(* The wait before the next poll: doubled per failure, and cut at the cap.  *)
(* Without failures it is the interval, also when that is above the cap.    *)
Doubled(d) == IF d >= MaxBackoff THEN MaxBackoff ELSE 2 * d

NextDelay(n) ==
    LET delay[i \in 0 .. n] == IF i = 0 THEN Interval ELSE Doubled(delay[i - 1])
    IN  IF n <= 0 THEN Interval ELSE MinOf(delay[n], MaxBackoff)

(* The longest a poll takes with Gmail at its best and Firefly at its worst. *)
SlowestBatch == 2 * MaxBatch * RequestTimeout

(* After that long without trouble the service has polled, and recovered.   *)
Settling == MaxOf(Interval, MaxBackoff) + SlowestBatch + 1

NoLine == [before |-> <<>>, cmd |-> "none", after |-> <<>>]

(* What realMain makes of each command line.                                *)
Launched ==
    [intent \in Intents |->
        [mode |-> Launch(Typed(intent)), dry |-> DryRun(Typed(intent))]]

----------------------------------------------------------------------------
Init ==
    /\ FetchOff /\ cancelled = FALSE
    /\ pc = "down" /\ line = NoLine /\ mode = "none" /\ dry = FALSE
    /\ failures = 0 /\ left = 0 /\ timer = 0 /\ missed = FALSE
    /\ pollAge = MaxAge + 1 /\ calm = 0 /\ stopping = 0
    /\ mailUp = TRUE /\ ledgerUp = TRUE

(* The process ends, and all it had in memory with it.                      *)
Gone ==
    /\ FetchGone /\ cancelled' = FALSE
    /\ pc' = "down" /\ line' = NoLine /\ mode' = "none" /\ dry' = FALSE
    /\ failures' = 0 /\ left' = 0 /\ timer' = 0 /\ missed' = FALSE
    /\ stopping' = 0

Exits == Gone /\ UNCHANGED <<worldVars, pollAge, calm>>

(* An exit, or a death, that is the trouble of someone.                     *)
Dies == Gone /\ calm' = 0 /\ UNCHANGED <<worldVars, pollAge>>

(* systemd, Docker, the timer or the user start the program.                *)
Start ==
    /\ pc = "down"
    /\ pc' = "launch"
    /\ line' \in Intents
    /\ calm' = 0
    /\ UNCHANGED <<fetchVars, cancelled, mode, dry, failures, left, timer, missed,
                   worldVars, pollAge, stopping>>

(* The command line is read; the settings are in order and the store opens. *)
ReadArguments ==
    /\ pc = "launch"
    /\ Launched[line].mode \in {"run", "once"}
    /\ pc' = "verify" /\ line' = NoLine
    /\ mode' = Launched[line].mode /\ dry' = Launched[line].dry
    /\ left' = IF dry' THEN 0 ELSE 1 + Accounts
    /\ timer' = RequestTimeout
    /\ UNCHANGED <<fetchVars, cancelled, failures, missed, worldVars, pollAge, calm, stopping>>

(* Another command, a mistake in the arguments or the settings, no store.   *)
LaunchFails == pc = "launch" /\ Dies

(* Verify: the ping and the accounts, one request after the other.          *)
VerifyAnswered ==
    /\ pc = "verify" /\ left > 0
    /\ left' = left - 1 /\ timer' = RequestTimeout
    /\ UNCHANGED <<fetchVars, cancelled, pc, line, mode, dry, failures, missed,
                   worldVars, pollAge, calm, stopping>>

Verified ==
    /\ pc = "verify" /\ left = 0
    /\ pc' = "poll" /\ timer' = 0
    /\ UNCHANGED <<fetchVars, cancelled, line, mode, dry, failures, left, missed,
                   worldVars, pollAge, calm, stopping>>

VerifyFails == pc = "verify" /\ Dies

----------------------------------------------------------------------------
(* The end of a poll, with the failures counted so far: once is through,    *)
(* run waits.                                                               *)
PollEnds(f) ==
    /\ FetchGone /\ left' = 0
    /\ IF mode = "once"
       THEN /\ pc' = "down" /\ mode' = "none" /\ dry' = FALSE
            /\ cancelled' = FALSE /\ failures' = 0 /\ timer' = 0 /\ missed' = FALSE /\ stopping' = 0
       ELSE /\ pc' = "sleep" /\ failures' = f /\ timer' = NextDelay(f)
            /\ UNCHANGED <<mode, dry, cancelled, missed, stopping>>
    /\ UNCHANGED <<line, worldVars>>

OneMore == MinOf(failures + 1, MaxFailures)

(* An error ends the poll; it counts unless the process was told to stop.   *)
PollFails ==
    /\ PollEnds(IF cancelled THEN failures ELSE OneMore)
    /\ calm' = 0 /\ UNCHANGED pollAge

PollPanics == PollEnds(OneMore) /\ calm' = 0 /\ UNCHANGED pollAge

(* The watermark is read.                                                   *)
BeginPoll ==
    /\ pc = "poll"
    /\ pc' = "fetch" /\ missed' = FALSE
    /\ UNCHANGED <<fetchVars, cancelled, line, mode, dry, failures, left, timer,
                   worldVars, pollAge, calm, stopping>>

WatermarkUnreadable == pc = "poll" /\ PollFails

(* The steps of the two goroutines of the fetch.                            *)
Fetching(step) ==
    /\ pc = "fetch" /\ step
    /\ UNCHANGED <<cancelled, processVars, worldVars, pollAge, calm, stopping>>

(* The fetch is back.  A watchdog that is still on its way home finds the   *)
(* connection closed and changes nothing: it is let go first.               *)
Returned == pc = "fetch" /\ talk = "returned" /\ watchdog \in {"none", "gone"}

Fetched ==
    /\ Returned /\ result = "messages"
    /\ \E n \in 0 .. MaxBatch : left' = n /\ pc' = IF n = 0 THEN "mark" ELSE "next"
    /\ FetchGone
    /\ UNCHANGED <<cancelled, line, mode, dry, failures, timer, missed,
                   worldVars, pollAge, calm, stopping>>

FetchFailed == Returned /\ result \in {"error", "context"} /\ PollFails
FetchPanicked == Returned /\ result = "panic" /\ PollPanics

----------------------------------------------------------------------------
(* handle, for the next message of the batch.                               *)
ToNext ==
    /\ left' = left - 1
    /\ pc' = IF left = 1 THEN "mark" ELSE "next"
    /\ timer' = 0

Stopped == pc = "next" /\ cancelled /\ PollFails

(* Nothing to ask Firefly for: a dry run, no transaction, no claim, ...     *)
HandledLocally ==
    /\ pc = "next" /\ ~cancelled
    /\ ToNext
    /\ UNCHANGED <<fetchVars, cancelled, line, mode, dry, failures, missed,
                   worldVars, pollAge, calm, stopping>>

(* The duplicate check, which is skipped for want of a reference.           *)
Asks ==
    /\ pc = "next" /\ ~cancelled /\ ~dry
    /\ pc' \in {"find", "create"} /\ timer' = RequestTimeout
    /\ UNCHANGED <<fetchVars, cancelled, line, mode, dry, failures, left, missed,
                   worldVars, pollAge, calm, stopping>>

NotFound ==
    /\ pc = "find"
    /\ pc' = "create" /\ timer' = RequestTimeout
    /\ UNCHANGED <<fetchVars, cancelled, line, mode, dry, failures, left, missed,
                   worldVars, pollAge, calm, stopping>>

(* There already, or created.                                               *)
Settled ==
    /\ pc \in {"find", "create"}
    /\ ToNext
    /\ UNCHANGED <<fetchVars, cancelled, line, mode, dry, failures, missed,
                   worldVars, pollAge, calm, stopping>>

(* A request fails: the message is recorded as failed, and the poll goes on. *)
RequestFails ==
    /\ pc \in {"find", "create"}
    /\ ToNext
    /\ missed' = (missed \/ ~cancelled)
    /\ UNCHANGED <<fetchVars, cancelled, line, mode, dry, failures,
                   worldVars, pollAge, calm, stopping>>

WatermarkUnwritable ==
    /\ pc \in {"next", "find", "create"} /\ ~dry
    /\ pc = "next" => ~cancelled
    /\ PollFails

HandlePanics == pc = "next" /\ ~cancelled /\ PollPanics

(* With a plausible bug: the failures are not forgotten. *)
MarkPollOKKeeps == pc = "mark" /\ PollEnds(failures) /\ pollAge' = 0 /\ UNCHANGED calm

(* The good poll is recorded; a store that fails does not fail the poll.    *)
MarkPollOK == pc = "mark" /\ PollEnds(0) /\ pollAge' = 0 /\ UNCHANGED calm
PollUnmarked == pc = "mark" /\ PollEnds(0) /\ calm' = 0 /\ UNCHANGED pollAge

----------------------------------------------------------------------------
(* The select of the loop: with both ready it takes either.                 *)
Wake ==
    /\ pc = "sleep" /\ timer = 0
    /\ pc' = "poll"
    /\ UNCHANGED <<fetchVars, cancelled, line, mode, dry, failures, left, timer, missed,
                   worldVars, pollAge, calm, stopping>>

Shutdown == pc = "sleep" /\ cancelled /\ Exits

(* SIGTERM.  A second one changes nothing: signals stay caught.             *)
Signal ==
    /\ pc \in Running /\ ~cancelled
    /\ cancelled' = TRUE /\ stopping' = 0 /\ calm' = 0
    /\ UNCHANGED <<fetchVars, processVars, worldVars, pollAge>>

(* The process is killed, or SIGTERM comes before it is caught.             *)
Crash == pc # "down" /\ Dies

MailTurns ==
    /\ mailUp' = ~mailUp /\ calm' = 0
    /\ UNCHANGED <<fetchVars, cancelled, processVars, ledgerUp, pollAge, stopping>>

LedgerTurns ==
    /\ ledgerUp' = ~ledgerUp
    /\ UNCHANGED <<fetchVars, cancelled, processVars, mailUp, pollAge, calm, stopping>>

----------------------------------------------------------------------------
(* Does the process wait for somebody else.                                 *)
Waits ==
    \/ pc = "down"
    \/ /\ timer > 0 /\ ~cancelled
       /\ \/ pc = "sleep"
          \/ pc \in Requests /\ left > 0 /\ ~ledgerUp
    \/ pc = "fetch" /\ ServerAwaited /\ WatchdogWaits /\ ~mailUp

(* A tick passes.  What a process can do by itself takes no time, and what  *)
(* a server does that is up takes less than a tick.                         *)
Tick ==
    /\ Waits
    /\ FetchTicks
    /\ timer' = IF timer > 0 THEN timer - 1 ELSE 0
    /\ pollAge' = MinOf(pollAge + 1, MaxAge + 1)
    /\ calm' = IF mailUp /\ pc \in Polling \cup {"sleep"} /\ ~cancelled
               THEN MinOf(calm + 1, Settling) ELSE 0
    /\ stopping' = IF cancelled THEN stopping + 1 ELSE 0
    /\ UNCHANGED <<cancelled, pc, line, mode, dry, failures, left, missed, worldVars>>

(* The answers, right or wrong, of the two servers.                         *)
MailAnswers   == Fetching(ServerActs)
LedgerAnswers == VerifyAnswered \/ VerifyFails \/ NotFound \/ Settled \/ RequestFails

(* What happens without anybody being waited for: the steps of the process, *)
(* the end of requests that are over, the answers of servers that are up.   *)
Over == timer = 0 \/ cancelled

Proceeds ==
    \/ ReadArguments
    \/ pc = "launch" /\ Launched[line].mode \notin {"run", "once"} /\ LaunchFails
    \/ Verified
    \/ BeginPoll
    \/ talk = "none" /\ Fetching(Dial)
    \/ Fetching(FetchProceeds)
    \/ Fetched \/ FetchFailed \/ FetchPanicked
    \/ Stopped \/ HandledLocally \/ Asks
    \/ Over /\ (VerifyFails \/ RequestFails)
    \/ mailUp /\ MailAnswers
    \/ ledgerUp /\ LedgerAnswers
    \/ MarkPollOK
    \/ Wake \/ Shutdown

(* What may happen besides: a slow answer, a failing store, a panic.        *)
Meets ==
    \/ LaunchFails
    \/ MailAnswers \/ LedgerAnswers
    \/ WatermarkUnreadable \/ WatermarkUnwritable \/ HandlePanics \/ PollUnmarked

Next ==
    \/ Start \/ Proceeds \/ Meets
    \/ Signal \/ Crash \/ MailTurns \/ LedgerTurns \/ Tick

Spec == Init /\ [][Next]_vars

(* The process goes on, and when it waits time does.                        *)
FairSpec == Spec /\ WF_vars(Proceeds \/ Tick)
=============================================================================
