------------------------------- MODULE Fetch -------------------------------
(***************************************************************************)
(* One fetch of internal/gmailclient/fetch.go from within: the goroutine   *)
(* that talks to the IMAP server, the watchdog goroutine that closes the   *)
(* connection when the context ends, and the sync.Once they share.  Time   *)
(* is counted in ticks that are left, relative to the present.             *)
(***************************************************************************)
EXTENDS Integers

CONSTANTS
    DialTimeout,    \* ticks to establish the connection, 30 seconds in the code
    FetchTimeout    \* ticks for the whole fetch, 90 seconds in the code

ASSUME FetchAssumption == DialTimeout \in Nat \ {0} /\ FetchTimeout \in Nat \ {0}

VARIABLES
    talk,        \* what the fetching goroutine is at
    failed,      \* did the conversation end in an error or a panic
    result,      \* what fetch returns
    conn,        \* the connection
    closeOnce,   \* the sync.Once around the close
    watchdog,    \* what the watchdog is at
    done,        \* is the channel closed that sends the watchdog home
    dialLeft,    \* ticks left to establish the connection
    timeLeft,    \* ticks left until the context's deadline
    cancelled    \* is the context of the process cancelled

fetchVars == <<talk, failed, result, conn, closeOnce, watchdog, done, dialLeft, timeLeft>>

Commands == {"login", "select", "search", "collect"}

FetchOff ==
    /\ talk = "none" /\ failed = "no" /\ result = "none"
    /\ conn = "none" /\ closeOnce = "fresh" /\ watchdog = "none" /\ done = FALSE
    /\ dialLeft = 0 /\ timeLeft = 0

(* The state of a process with no fetch under way, after an exit or a crash. *)
FetchGone ==
    /\ talk' = "none" /\ failed' = "no" /\ result' = "none"
    /\ conn' = "none" /\ closeOnce' = "fresh" /\ watchdog' = "none" /\ done' = FALSE
    /\ dialLeft' = 0 /\ timeLeft' = 0

(* With a plausible bug: the signal does not reach the fetch. *)
ContextDoneDetached == timeLeft = 0

(* With a plausible bug: the context of the fetch has no deadline. *)
ContextDoneUntimed == cancelled

(* The context of the fetch: the deadline, or the signal to the process. *)
ContextDone == timeLeft = 0 \/ cancelled

----------------------------------------------------------------------------
(* The fetching goroutine.  The deadline runs from before the dial, which   *)
(* itself knows nothing of the context.                                     *)
Dial ==
    /\ talk = "none"
    /\ talk' = "dial" /\ failed' = "no" /\ result' = "none"
    /\ conn' = "none" /\ closeOnce' = "fresh" /\ watchdog' = "none" /\ done' = FALSE
    /\ dialLeft' = DialTimeout /\ timeLeft' = FetchTimeout

(* The server refuses, or the time for it is over. *)
DialFails ==
    /\ talk = "dial"
    /\ talk' = "returned" /\ result' = "error" /\ dialLeft' = 0
    /\ UNCHANGED <<failed, conn, closeOnce, watchdog, done, timeLeft>>

Connected ==
    /\ talk = "dial"
    /\ talk' = "login" /\ conn' = "open" /\ watchdog' = "waiting" /\ dialLeft' = 0
    /\ UNCHANGED <<failed, result, closeOnce, done, timeLeft>>

(* The server answers a command, and the next one is sent; a search that    *)
(* leaves nothing to collect ends the conversation.                         *)
Answered ==
    /\ talk \in Commands /\ conn = "open"
    /\ talk' \in CASE talk = "login"   -> {"select"}
                   [] talk = "select"  -> {"search"}
                   [] talk = "search"  -> {"collect", "logout"}
                   [] talk = "collect" -> {"logout"}
    /\ UNCHANGED <<failed, result, conn, closeOnce, watchdog, done, dialLeft, timeLeft>>

(* The server refuses a command, or the connection breaks or is closed      *)
(* under the wait.  Only after the login is there a logout to send.         *)
Broken ==
    /\ talk \in Commands
    /\ failed' = "error"
    /\ talk' = IF talk = "login" THEN "return" ELSE "logout"
    /\ UNCHANGED <<result, conn, closeOnce, watchdog, done, dialLeft, timeLeft>>

(* Decoding a message panics, and the deferred calls run.                   *)
DecodePanics ==
    /\ talk = "collect"
    /\ failed' = "panic" /\ talk' = "logout"
    /\ UNCHANGED <<result, conn, closeOnce, watchdog, done, dialLeft, timeLeft>>

(* The answer to the logout is waited for, and not looked at. *)
LoggedOut ==
    /\ talk = "logout"
    /\ talk' = "return"
    /\ UNCHANGED <<failed, result, conn, closeOnce, watchdog, done, dialLeft, timeLeft>>

(* With a plausible bug: an error is taken as it comes. *)
ConcludedRaw ==
    /\ talk = "return"
    /\ result' = CASE failed = "no"    -> "messages"
                   [] failed = "panic" -> "panic"
                   [] OTHER            -> "error"
    /\ talk' = "deferred"
    /\ UNCHANGED <<failed, conn, closeOnce, watchdog, done, dialLeft, timeLeft>>

(* An error is reported as the context's when that has ended. *)
Concluded ==
    /\ talk = "return"
    /\ result' = CASE failed = "no"    -> "messages"
                   [] failed = "panic" -> "panic"
                   [] OTHER            -> IF ContextDone THEN "context" ELSE "error"
    /\ talk' = "deferred"
    /\ UNCHANGED <<failed, conn, closeOnce, watchdog, done, dialLeft, timeLeft>>

(* With a plausible bug: the connection is left to the watchdog. *)
ReleaseOnly ==
    /\ talk = "deferred"
    /\ done' = TRUE /\ talk' = "returned"
    /\ UNCHANGED <<failed, result, conn, closeOnce, watchdog, dialLeft, timeLeft>>

(* The deferred calls: first the watchdog is sent home, then the connection *)
(* is closed, which waits for a close that is under way, then the context   *)
(* is cancelled.                                                            *)
Release ==
    /\ talk = "deferred"
    /\ done' = TRUE /\ talk' = "close"
    /\ UNCHANGED <<failed, result, conn, closeOnce, watchdog, dialLeft, timeLeft>>

Close ==
    /\ talk = "close" /\ closeOnce # "running"
    /\ closeOnce' = "done" /\ conn' = "closed"
    /\ talk' = "returned" /\ timeLeft' = 0
    /\ UNCHANGED <<failed, result, watchdog, done, dialLeft>>

----------------------------------------------------------------------------
(* The watchdog: whichever of the two channels it finds closed. *)
WatchdogBites ==
    /\ watchdog = "waiting" /\ ContextDone
    /\ IF closeOnce = "fresh" THEN watchdog' = "closing" /\ closeOnce' = "running"
       ELSE watchdog' = "gone" /\ UNCHANGED closeOnce
    /\ UNCHANGED <<talk, failed, result, conn, done, dialLeft, timeLeft>>

WatchdogCloses ==
    /\ watchdog = "closing"
    /\ watchdog' = "gone" /\ closeOnce' = "done" /\ conn' = "closed"
    /\ UNCHANGED <<talk, failed, result, done, dialLeft, timeLeft>>

WatchdogGoes ==
    /\ watchdog = "waiting" /\ done
    /\ watchdog' = "gone"
    /\ UNCHANGED <<talk, failed, result, conn, closeOnce, done, dialLeft, timeLeft>>

Watchdog == WatchdogBites \/ WatchdogCloses \/ WatchdogGoes

----------------------------------------------------------------------------
(* Time passes only while both goroutines wait: for the server, or for one  *)
(* of the two channels.                                                     *)
WatchdogWaits == watchdog \in {"none", "gone"} \/ (watchdog = "waiting" /\ ~ContextDone /\ ~done)

ServerAwaited ==
    \/ talk = "dial" /\ dialLeft > 0
    \/ talk \in Commands \cup {"logout"} /\ conn = "open"

(* What needs no answer of the server.                                      *)
DialTimesOut == dialLeft = 0 /\ DialFails
CutOff == conn = "closed" /\ (Broken \/ LoggedOut)

FetchProceeds ==
    \/ DialTimesOut \/ CutOff \/ Concluded \/ Release \/ Close
    \/ Watchdog

(* What the server does, or the messages it sends.                          *)
ServerActs == DialFails \/ Connected \/ Answered \/ Broken \/ DecodePanics \/ LoggedOut

FetchTicks ==
    /\ dialLeft' = IF dialLeft > 0 THEN dialLeft - 1 ELSE 0
    /\ timeLeft' = IF timeLeft > 0 THEN timeLeft - 1 ELSE 0
    /\ UNCHANGED <<talk, failed, result, conn, closeOnce, watchdog, done>>

=============================================================================
