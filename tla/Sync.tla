------------------------------- MODULE Sync -------------------------------
(***************************************************************************)
(* The importer: internal/sync/sync.go driven by the commands run, once,   *)
(* import and replay of cmd/hdfc2ff/main.go.  Any number of processes of   *)
(* it share one store, one mailbox and one Firefly instance.  A step is    *)
(* one access to one of the three with the local work that follows it, so  *)
(* a crash, a signal, an error or another process's step may fall between  *)
(* any two of them.                                                        *)
(***************************************************************************)
EXTENDS Store, Mailbox, Firefly

CONSTANTS
    Procs,      \* process slots; a slot is reused once its process is gone
    Commands,   \* the commands that are issued
    Faults,     \* the kinds of trouble that may happen
    MaxFaults,  \* how often, over all kinds
    NoMessage   \* no message is being handled

AllCommands == {"run", "once", "import", "replay"}

AllFaults == {"crash", "signal", "panic", "mail", "nil_body", "firefly", "reply_lost",
              "late", "store", "store_lost", "age", "expunge", "correct"}

ASSUME SyncAssumption ==
    /\ Commands \subseteq AllCommands
    /\ Faults \subseteq AllFaults
    /\ MaxFaults \in Nat
    /\ NoMessage \notin Messages

VARIABLES
    run,     \* the state of each process
    faults,  \* troubles so far
    missed   \* history: what a poll could not claim, or got without its body

troubleVars == <<faults, missed>>

vars == <<storeVars, mailbox, fireflyVars, run, troubleVars>>

NoOutcome == [status |-> "none", fireflyID |-> 0]

(* Fills the field of a process that is off and has read no configuration. *)
AnyConfig == CHOOSE c \in Configs : TRUE

(* A process: where it is, its command and configuration, the watermark it *)
(* read, the messages still to handle, the one it is handling, the rows    *)
(* replay has listed, the outcome to be recorded, and whether its context  *)
(* is cancelled.                                                           *)
Off == [pc |-> "off", cmd |-> "none", conf |-> AnyConfig, after |-> 0, batch |-> {},
        cur |-> NoMessage, picked |-> {}, outcome |-> NoOutcome, cancelled |-> FALSE]

SyncInit ==
    /\ StoreInit /\ MailboxInit /\ FireflyInit
    /\ run = [p \in Procs |-> Off]
    /\ faults = 0 /\ missed = {}

----------------------------------------------------------------------------
At(p, pc) == run[p].pc = pc

Becomes(p, r) == run' = [run EXCEPT ![p] = r]

Goto(p, pc) == Becomes(p, [run[p] EXCEPT !.pc = pc])

Polling(p) == run[p].cmd \in {"run", "once"}

(* A process works on a message from its claim until the outcome is written. *)
Handling(p) == run[p].pc \in {"find", "create", "finish"}

Trips(kind) == kind \in Faults /\ faults < MaxFaults /\ faults' = faults + 1

Fault(kind) == Trips(kind) /\ UNCHANGED missed

(* Trouble that keeps a message from a process: a poll moves the watermark  *)
(* past it all the same, unless it is a dry run.                            *)
FaultWith(p, m, kind) ==
    /\ Trips(kind)
    /\ missed' = IF Polling(p) /\ ~run[p].conf.dryRun THEN missed \cup {m} ELSE missed

(* A request fails by itself, or because its context is cancelled. *)
RequestFails(p, kind) ==
    \/ run[p].cancelled /\ UNCHANGED troubleVars
    \/ Fault(kind)

(* A fetch returns what was asked for; the server may answer one message    *)
(* without a body, and then it is left out.                                 *)
Received(p, asked, got) ==
    \/ got = asked /\ UNCHANGED troubleVars
    \/ \E m \in asked : got = asked \ {m} /\ FaultWith(p, m, "nil_body")

(* The end of a poll: the service waits for the next one, once exits. *)
PollEnded(p) ==
    IF run[p].cmd = "run"
    THEN [Off EXCEPT !.pc = "idle", !.cmd = "run", !.conf = run[p].conf,
                     !.cancelled = run[p].cancelled]
    ELSE Off

(* handle has returned: a poll moves the watermark past the message. *)
Handled(p, m) ==
    [run[p] EXCEPT !.pc = IF Polling(p) THEN "advance" ELSE "next",
                   !.cur = IF Polling(p) THEN m ELSE NoMessage,
                   !.batch = @ \ {m},
                   !.outcome = NoOutcome]

Concludes(p, status, id) ==
    Becomes(p, [run[p] EXCEPT !.pc = "finish", !.outcome = [status |-> status, fireflyID |-> id]])

----------------------------------------------------------------------------
(* Startup. *)

Start(p) ==
    /\ At(p, "off")
    /\ \E command \in Commands, c \in Configs :
          Becomes(p, [Off EXCEPT !.pc = "verify", !.cmd = command, !.conf = c])
    /\ UNCHANGED <<storeVars, mailbox, fireflyVars, troubleVars>>

FirstStep(p) ==
    CASE run[p].cmd = "import" -> "import"
      [] run[p].cmd = "replay" -> "list"
      [] OTHER -> "poll"

VerifyRelease(p) ==
    /\ At(p, "verify")
    /\ ReleasePending
    /\ Goto(p, IF run[p].conf.dryRun THEN FirstStep(p) ELSE "ping")
    /\ UNCHANGED <<mailbox, fireflyVars, troubleVars>>

VerifyPing(p) ==
    /\ At(p, "ping") /\ ~run[p].cancelled
    /\ Goto(p, FirstStep(p))
    /\ UNCHANGED <<storeVars, mailbox, fireflyVars, troubleVars>>

VerifyFails(p) ==
    /\ At(p, "ping")
    /\ RequestFails(p, "firefly")
    /\ Becomes(p, Off)
    /\ UNCHANGED <<storeVars, mailbox, fireflyVars>>

----------------------------------------------------------------------------
(* One poll: run of the Syncer and poll of cmdRun. *)

ReadWatermark(p) ==
    /\ At(p, "poll")
    /\ Becomes(p, [run[p] EXCEPT !.pc = "fetch", !.after = lastUID])
    /\ UNCHANGED <<storeVars, mailbox, fireflyVars, troubleVars>>

PollFetch(p) ==
    /\ At(p, "fetch")
    /\ \E got \in SUBSET Fetch(run[p].after) :
          /\ Received(p, Fetch(run[p].after), got)
          /\ Becomes(p, [run[p] EXCEPT !.pc = "next", !.after = 0, !.batch = got])
    /\ UNCHANGED <<storeVars, mailbox, fireflyVars>>

FetchFails(p) ==
    /\ run[p].pc \in {"fetch", "refetch", "import"}
    /\ RequestFails(p, "mail")
    /\ Becomes(p, IF Polling(p) THEN PollEnded(p) ELSE Off)
    /\ UNCHANGED <<storeVars, mailbox, fireflyVars>>

(* The loop head of a poll looks at the context; those of import and       *)
(* replay do not.                                                          *)
Interrupted(p) ==
    /\ At(p, "next") /\ Polling(p) /\ run[p].cancelled /\ run[p].batch # {}
    /\ Becomes(p, PollEnded(p))
    /\ UNCHANGED <<storeVars, mailbox, fireflyVars, troubleVars>>

BatchDone(p) ==
    /\ At(p, "next") /\ run[p].batch = {}
    /\ IF Polling(p) THEN Goto(p, "mark") ELSE Becomes(p, Off)
    /\ UNCHANGED <<storeVars, mailbox, fireflyVars, troubleVars>>

PollOK(p) ==
    /\ At(p, "mark")
    /\ MarkPollOK
    /\ Becomes(p, PollEnded(p))
    /\ UNCHANGED <<mailbox, fireflyVars, troubleVars>>

Wake(p) ==
    /\ At(p, "idle") /\ ~run[p].cancelled
    /\ Goto(p, "poll")
    /\ UNCHANGED <<storeVars, mailbox, fireflyVars, troubleVars>>

Shutdown(p) ==
    /\ At(p, "idle") /\ run[p].cancelled
    /\ Becomes(p, Off)
    /\ UNCHANGED <<storeVars, mailbox, fireflyVars, troubleVars>>

----------------------------------------------------------------------------
(* handle: one message. *)

Takes(p, m) ==
    /\ At(p, "next")
    /\ m \in Oldest(run[p].batch)
    /\ ~(Polling(p) /\ run[p].cancelled)

(* A dry run parses and reports, and leaves no trace. *)
Preview(p) ==
    /\ run[p].conf.dryRun
    /\ \E m \in run[p].batch :
          /\ Takes(p, m)
          /\ Becomes(p, [run[p] EXCEPT !.batch = @ \ {m}])
    /\ UNCHANGED <<storeVars, mailbox, fireflyVars, troubleVars>>

(* What follows a claim that succeeded. *)
Claimed(p, m) ==
    LET triage == Triage(m, run[p].conf)
    IN  [run[p] EXCEPT !.cur = m,
                       !.batch = @ \ {m},
                       !.pc = IF triage = "import" THEN "find" ELSE "finish",
                       !.outcome = IF triage = "import" THEN NoOutcome
                                   ELSE [status |-> triage, fireflyID |-> 0]]

ClaimWon(p) ==
    /\ ~run[p].conf.dryRun
    /\ \E m \in run[p].batch :
          /\ Takes(p, m)
          /\ Claim(Key(m), m.uid)
          /\ Becomes(p, Claimed(p, m))
    /\ UNCHANGED <<mailbox, fireflyVars, troubleVars>>

(* With a plausible bug: the answer of Claim is not looked at. *)
AlreadyClaimedGoesOn(p) ==
    /\ ~run[p].conf.dryRun
    /\ \E m \in run[p].batch :
          /\ Takes(p, m)
          /\ Recorded(Key(m))
          /\ Becomes(p, Claimed(p, m))
    /\ UNCHANGED <<storeVars, mailbox, fireflyVars, troubleVars>>

AlreadyClaimed(p) ==
    /\ ~run[p].conf.dryRun
    /\ \E m \in run[p].batch :
          /\ Takes(p, m)
          /\ Recorded(Key(m))
          /\ Becomes(p, Handled(p, m))
    /\ UNCHANGED <<storeVars, mailbox, fireflyVars, troubleVars>>

(* The entry of the message a process is handling. *)
CurEntry(p) == Entry(run[p].cur, run[p].conf)

(* Without an external ID there is nothing to ask. *)
AsksFirefly(p) == CurEntry(p).ext # ""

Find(p) ==
    /\ At(p, "find") /\ (AsksFirefly(p) => ~run[p].cancelled)
    /\ \E found \in FindByExternalID(CurEntry(p).account, CurEntry(p).day, CurEntry(p).ext) :
          IF found THEN Concludes(p, "duplicate", 0) ELSE Goto(p, "create")
    /\ UNCHANGED <<storeVars, mailbox, fireflyVars, troubleVars>>

FindFails(p) ==
    /\ At(p, "find") /\ AsksFirefly(p)
    /\ RequestFails(p, "firefly")
    /\ Concludes(p, "failed", 0)
    /\ UNCHANGED <<storeVars, mailbox, fireflyVars>>

Create(p) ==
    /\ At(p, "create") /\ ~run[p].cancelled
    /\ Post(CurEntry(p))
    /\ IF HashKnown(CurEntry(p)) THEN Concludes(p, "duplicate", 0)
       ELSE Concludes(p, "imported", Len(ledger) + 1)
    /\ UNCHANGED <<storeVars, mailbox, removed, late, troubleVars>>

(* The request never reaches the server, or is refused. *)
CreateFails(p) ==
    /\ At(p, "create")
    /\ RequestFails(p, "firefly")
    /\ Concludes(p, "failed", 0)
    /\ UNCHANGED <<storeVars, mailbox, fireflyVars>>

(* The server carries it out, but the answer does not come back. *)
CreateReplyLost(p) ==
    /\ At(p, "create") /\ "reply_lost" \in Faults
    /\ RequestFails(p, "reply_lost")
    /\ Post(CurEntry(p))
    /\ Concludes(p, "failed", 0)
    /\ UNCHANGED <<storeVars, mailbox, removed, late>>

(* The client's time limit passes while the server still holds the request. *)
CreateTimesOut(p) ==
    /\ At(p, "create") /\ "late" \in Faults
    /\ RequestFails(p, "late")
    /\ late' = late \cup {CurEntry(p)}
    /\ Concludes(p, "failed", 0)
    /\ UNCHANGED <<storeVars, mailbox, ledger, removed>>

FinishMessage(p) ==
    /\ At(p, "finish")
    /\ Finish(Key(run[p].cur), run[p].outcome)
    /\ Becomes(p, Handled(p, run[p].cur))
    /\ UNCHANGED <<mailbox, fireflyVars, troubleVars>>

(* As if a UID had no width. *)
NextWatermarkUnbounded(uid) == uid + 1

(* setLastUID(msg.UID + 1), in the width of a UID. *)
NextWatermark(uid) == (uid + 1) % UIDModulus

Advance(p) ==
    /\ At(p, "advance")
    /\ SetLastUID(NextWatermark(run[p].cur.uid))
    /\ Becomes(p, [run[p] EXCEPT !.pc = "next", !.cur = NoMessage])
    /\ UNCHANGED <<mailbox, fireflyVars, troubleVars>>

----------------------------------------------------------------------------
(* import: ImportByUID. *)

ImportFetch(p) ==
    /\ At(p, "import")
    /\ \E uids \in (SUBSET {m.uid : m \in Messages}) \ {{}} :
          \E got \in SUBSET FetchUIDs(uids) :
             /\ Received(p, FetchUIDs(uids), got)
             /\ Becomes(p, IF got = {} THEN Off
                           ELSE [run[p] EXCEPT !.pc = "next", !.batch = got])
    /\ UNCHANGED <<storeVars, mailbox, fireflyVars>>

----------------------------------------------------------------------------
(* replay: list, delete, fetch again, handle. *)

(* A listed row is remembered by its key and its UID; a key listed before  *)
(* is passed over.                                                         *)
Listed(p, ks) ==
    run[p].picked \cup
        {[key |-> k, uid |-> messages[k].uid] : k \in {l \in ks : \A r \in run[p].picked : r.key # l}}

ListingDone(p, picked) ==
    Becomes(p, IF picked = {} THEN Off
               ELSE [run[p] EXCEPT !.picked = picked,
                                   !.pc = IF run[p].conf.dryRun THEN "refetch" ELSE "delete"])

(* -status failed, skipped or all; the last one takes a second query. *)
ReplayList(p) ==
    /\ At(p, "list")
    /\ \/ \E status \in {"failed", "skipped"} :
          \E ks \in ByStatus(status) : ListingDone(p, Listed(p, ks))
       \/ \E ks \in ByStatus("failed") :
             Becomes(p, [run[p] EXCEPT !.pc = "list more", !.picked = Listed(p, ks)])
    /\ UNCHANGED <<storeVars, mailbox, fireflyVars, troubleVars>>

ReplayListMore(p) ==
    /\ At(p, "list more")
    /\ \E ks \in ByStatus("skipped") : ListingDone(p, Listed(p, ks))
    /\ UNCHANGED <<storeVars, mailbox, fireflyVars, troubleVars>>

ReplayDelete(p) ==
    /\ At(p, "delete")
    /\ Delete({r.key : r \in run[p].picked})
    /\ Goto(p, "refetch")
    /\ UNCHANGED <<mailbox, fireflyVars, troubleVars>>

ReplayFetch(p) ==
    /\ At(p, "refetch")
    /\ LET asked == FetchUIDs({r.uid : r \in run[p].picked})
       IN  \E got \in SUBSET asked :
              /\ Received(p, asked, got)
              /\ Becomes(p, [run[p] EXCEPT !.pc = "next", !.picked = {}, !.batch = got])
    /\ UNCHANGED <<storeVars, mailbox, fireflyVars>>

----------------------------------------------------------------------------
(* Trouble within a process. *)

(* A statement of SQLite fails: the database stayed busy, the disk is full. *)
StoreFails(p) ==
    /\ \/ /\ run[p].pc \in {"verify", "list", "list more", "delete"}
          /\ Becomes(p, Off) /\ Fault("store")
       \/ /\ run[p].pc \in {"poll", "advance", "mark"}
          /\ Becomes(p, PollEnded(p)) /\ Fault("store")
       \/ /\ At(p, "finish")
          /\ Becomes(p, Handled(p, run[p].cur)) /\ Fault("store")
       \/ /\ ~run[p].conf.dryRun
          /\ \E m \in run[p].batch :
                Takes(p, m) /\ Becomes(p, Handled(p, m)) /\ FaultWith(p, m, "store")
    /\ UNCHANGED <<storeVars, mailbox, fireflyVars>>

Crash(p) ==
    /\ ~At(p, "off")
    /\ Fault("crash")
    /\ Becomes(p, Off)
    /\ UNCHANGED <<storeVars, mailbox, fireflyVars>>

(* A panic ends the poll; cmdRun recovers. *)
Panic(p) ==
    /\ Polling(p) /\ run[p].pc \in {"fetch", "find", "create", "finish"}
    /\ Fault("panic")
    /\ Becomes(p, PollEnded(p))
    /\ UNCHANGED <<storeVars, mailbox, fireflyVars>>

(* SIGTERM or an interrupt cancels the context of the process, for good: a *)
(* second signal finds it cancelled already.                               *)
Signal(p) ==
    /\ ~At(p, "off") /\ ~run[p].cancelled
    /\ Fault("signal")
    /\ Becomes(p, [run[p] EXCEPT !.cancelled = TRUE])
    /\ UNCHANGED <<storeVars, mailbox, fireflyVars>>

----------------------------------------------------------------------------
(* The world around the processes. *)

MailArrives ==
    /\ \E m \in Messages : Deliver(m)
    /\ UNCHANGED <<storeVars, fireflyVars, run, troubleVars>>

MailLeaves ==
    /\ \E m \in Messages :
          \/ Fault("age") /\ Age(m)
          \/ Fault("expunge") /\ Expunge(m)
    /\ UNCHANGED <<storeVars, fireflyVars, run>>

LateRequest ==
    /\ \E e \in late : PostLate(e)
    /\ UNCHANGED <<storeVars, mailbox, run, troubleVars>>

(* "Correct a difference": a transaction is deleted in Firefly and its     *)
(* message marked as ignored.                                              *)
CorrectByHand ==
    /\ Fault("correct")
    /\ \E k \in Keys :
          /\ messages[k].status = "imported"
          /\ Remove(messages[k].fireflyID)
          /\ MarkIgnored(k)
    /\ UNCHANGED <<mailbox, run>>

NewVolume ==
    /\ Fault("store_lost")
    /\ \A p \in Procs : At(p, "off")
    /\ LoseStore
    /\ UNCHANGED <<mailbox, fireflyVars, run>>

----------------------------------------------------------------------------
(* What a process does by itself; the trouble that may befall it. *)
Step(p) ==
    \/ VerifyRelease(p) \/ VerifyPing(p) \/ VerifyFails(p)
    \/ ReadWatermark(p) \/ PollFetch(p) \/ FetchFails(p)
    \/ Interrupted(p) \/ BatchDone(p) \/ PollOK(p) \/ Wake(p) \/ Shutdown(p)
    \/ Preview(p) \/ ClaimWon(p) \/ AlreadyClaimed(p)
    \/ Find(p) \/ FindFails(p)
    \/ Create(p) \/ CreateFails(p) \/ CreateReplyLost(p) \/ CreateTimesOut(p)
    \/ FinishMessage(p) \/ Advance(p)
    \/ ImportFetch(p)
    \/ ReplayList(p) \/ ReplayListMore(p) \/ ReplayDelete(p) \/ ReplayFetch(p)
    \/ StoreFails(p)

Trouble(p) == Crash(p) \/ Panic(p) \/ Signal(p)

World == MailArrives \/ MailLeaves \/ LateRequest \/ CorrectByHand \/ NewVolume

Next ==
    \/ \E p \in Procs : Start(p) \/ Step(p) \/ Trouble(p)
    \/ World

Spec == SyncInit /\ [][Next]_vars

(* The service is started again when it is gone (Restart=always, or the    *)
(* timer) and a process that can go on does.  No trouble is ever certain,  *)
(* and it only runs out: MaxFaults bounds it.                              *)
Fairness ==
    /\ \A p \in Procs : WF_vars(Start(p)) /\ WF_vars(Step(p))
    /\ WF_vars(LateRequest)

FairSpec == Spec /\ Fairness
=============================================================================
