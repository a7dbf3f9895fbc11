------------------------- MODULE ServiceProperties -------------------------
(***************************************************************************)
(* What module Service promises: in time, in its reports, and at its end.  *)
(***************************************************************************)
EXTENDS Service

(* The fetch of fetch.go: what it holds at each place of the conversation.  *)
FetchTypeOK ==
    /\ talk \in {"none", "dial", "logout", "return", "deferred", "close", "returned"} \cup Commands
    /\ failed \in {"no", "error", "panic"}
    /\ result \in {"none", "messages", "error", "context", "panic"}
    /\ conn \in {"none", "open", "closed"}
    /\ closeOnce \in {"fresh", "running", "done"}
    /\ watchdog \in {"none", "waiting", "closing", "gone"}
    /\ dialLeft \in 0 .. DialTimeout /\ timeLeft \in 0 .. FetchTimeout

FlagsOK ==
    /\ done \in BOOLEAN /\ cancelled \in BOOLEAN
    /\ dry \in BOOLEAN /\ missed \in BOOLEAN
    /\ mailUp \in BOOLEAN /\ ledgerUp \in BOOLEAN

(* The variables have their types; no wait is longer than the cap or, for a *)
(* service without failures, than its interval (nextDelay, main.go:121).    *)
TypeOK ==
    /\ FetchTypeOK /\ FlagsOK
    /\ pc \in {"down", "launch"} \cup Running
    /\ line \in IF pc = "launch" THEN Intents ELSE {NoLine}
    /\ mode \in {"none", "once", "run"}
    /\ failures \in 0 .. MaxFailures
    /\ left \in 0 .. MaxOf(MaxBatch, 1 + Accounts)
    /\ pc \in {"next", "find", "create"} => left \in 1 .. MaxBatch
    /\ timer \in 0 .. CASE pc \in Requests -> RequestTimeout
                        [] pc = "sleep"   -> IF failures > 0 THEN MaxBackoff ELSE Interval
                        [] OTHER          -> 0
    /\ pollAge \in 0 .. MaxAge + 1
    /\ calm \in 0 .. Settling /\ stopping \in Nat

(* A fetch never leaves a connection to Gmail behind, however it ended and  *)
(* whoever closed it (the deferred close of fetch.go:137 and the watchdog). *)
NothingLeftOpen == talk = "returned" => conn # "open"

(* An error that comes of the watchdog's closing the connection is reported *)
(* as the end of the context, which a stopping process does not count as a  *)
(* failure (fetch.go:154-158): the close and the report do not race.        *)
EndReported == [][talk = "return" /\ result' = "error" => conn = "open"]_vars

(* SIGTERM ends the process within the time of one dial, which knows        *)
(* nothing of the context (fetch.go:128); everything else is cut short.     *)
ShutdownPrompt == stopping <= DialTimeout

(* What healthcheck reports (cmdHealthcheck, main.go:212).                  *)
Healthy == pollAge <= MaxAge

(* While Gmail answers, the store works and no one stops or kills it, the   *)
(* service is healthy, from a wait and a poll after the last trouble on:    *)
(* Firefly's troubles, backoff and the length of a batch do not matter, if  *)
(* the limit of the healthcheck leaves room for an interval and a batch.    *)
StaysHealthy ==
    calm = Settling /\ Interval + SlowestBatch <= MaxAge => Healthy

(* After a failed poll the service waits no less than after the one before, *)
(* and twice the interval or the cap at least (main.go:118); after a good   *)
(* poll it waits the interval.                                              *)
BacksOff ==
    [][pc' = "sleep" /\ pc \in Polling =>
         /\ failures' > failures => timer' >= MinOf(2 * Interval, MaxBackoff)
         /\ failures' > failures /\ failures > 0 => timer' >= NextDelay(failures)
         /\ failures' = 0 => timer' = Interval
      ]_vars

(* The command word is found wherever it stands: no line that asks for one  *)
(* poll, or for something else, starts the service (main.go:560-565), and   *)
(* what is the value of a flag is neither a command nor a flag.             *)
LaunchedAsMeant ==
    [][pc = "launch" /\ pc' = "verify" =>
          mode' = Meant(line) /\ dry' = Asked(line, "dry-run")]_vars

(* Every poll ends, whatever the servers do not answer (fetch.go:139-141,   *)
(* the time limit of the HTTP client).                                      *)
PollsEnd == pc \in Polling ~> pc \in {"sleep", "down"}

(* A poll in which Firefly failed a message is a failing poll: the service  *)
(* backs off (main.go:118-120).                                             *)
OutageBacksOff == pc = "sleep" /\ missed => failures > 0
=============================================================================
