--------------------------- MODULE SyncProperties ---------------------------
(***************************************************************************)
(* What the importer promises, stated over the state of Sync.  Which       *)
(* commands and which faults a promise survives is part of it: each        *)
(* comment says so, and the configurations and theorems follow suit.       *)
(***************************************************************************)
EXTENDS Sync

PCs == {"off", "verify", "ping", "poll", "fetch", "next", "find", "create", "finish",
        "advance", "mark", "idle", "import", "list", "list more", "delete", "refetch"}

RunStates ==
    [pc: PCs, cmd: AllCommands \cup {"none"}, conf: Configs, after: Nat,
     batch: SUBSET Messages, cur: Messages \cup {NoMessage},
     picked: SUBSET [key: Keys, uid: Nat],
     outcome: [status: {"none", "imported", "duplicate", "skipped", "failed"}, fireflyID: Nat],
     cancelled: BOOLEAN]

(* What a process holds fits where it is: a message while it works on one,  *)
(* an account for it before it talks to Firefly, an outcome to write.       *)
Sound(r) ==
    /\ r.pc \in {"find", "create", "finish", "advance"} => r.cur \in Messages
    /\ r.pc \in {"find", "create"} => Mapped(r.cur, r.conf)
    /\ r.pc = "finish" => r.outcome.status # "none"

(* Every variable keeps its type: the watermark stays within the width of a *)
(* UID, processes hold what their place needs, and what is in the ledger or *)
(* on its way is an entry that some message and configuration make.         *)
TypeOK ==
    /\ messages \in [Keys -> Rows]
    /\ lastUID \in 0..(UIDModulus - 1)
    /\ lastPollOK \in BOOLEAN
    /\ mailbox \in [Messages -> {"unsent", "recent", "old", "expunged"}]
    /\ ledger \in Seq(Entries)
    /\ removed \subseteq Nat
    /\ late \subseteq Entries
    /\ run \in [Procs -> RunStates]
    /\ \A p \in Procs : Sound(run[p])
    /\ faults \in 0..MaxFaults
    /\ missed \subseteq Messages

----------------------------------------------------------------------------
(* Transaction i of a ledger answers for message m under configuration c:   *)
(* it has m's external ID on m's account within a day of it, or m's content. *)
AnswersFor(book, i, m, c) ==
    LET mine == Entry(m, c)
    IN  \/ /\ mine.ext # "" /\ book[i].ext = mine.ext
           /\ book[i].account = mine.account
           /\ book[i].day \in (mine.day - 1)..(mine.day + 1)
        \/ book[i].hash = mine.hash

HasAnswer(book, k) ==
    \E m \in Messages, c \in Configs :
        /\ Key(m) = k /\ Mapped(m, c)
        /\ \E i \in DOMAIN book : AnswersFor(book, i, m, c)

(* What a row, or an outcome about to be written to it, claims of message k. *)
Backed(book, k, row) ==
    /\ row.status \in {"imported", "ignored"} =>
          row.fireflyID \in DOMAIN book /\ book[row.fireflyID].key = k
    /\ row.status = "duplicate" => HasAnswer(book, k)

(* A row never claims money that is not there: the firefly_id of an         *)
(* imported message is a transaction made from that very message, and a     *)
(* message is called a duplicate only of a transaction that was created     *)
(* with its reference or its content.  Holds with every command and fault,  *)
(* however the writes of Finish, ReleasePending and Delete interleave.      *)
SettledIsPosted == \A k \in Keys : Backed(ledger, k, messages[k])

(* The same of the outcomes not yet written: inductive with it.             *)
OutcomesBacked ==
    \A p \in Procs : At(p, "finish") => Backed(ledger, Key(run[p].cur), run[p].outcome)

(* "Claim takes ownership of a message before any work is done": no two     *)
(* processes work on the same message.  Holds while nobody replays.         *)
OneOwner ==
    \A p, q \in Procs :
        p # q /\ Handling(p) /\ Handling(q) => Key(run[p].cur) # Key(run[q].cur)

(* No message is posted twice, with any number of processes polling and     *)
(* importing at once, each with its own configuration, and whatever crashes, *)
(* answers are lost and requests arrive late.  Holds while nobody replays.  *)
AtMostOnce ==
    \A i, j \in DOMAIN ledger : ledger[i].key = ledger[j].key => i = j

PostedOrLate(k) ==
    \/ \E i \in DOMAIN ledger : ledger[i].key = k
    \/ \E e \in late : e.key = k

(* Why AtMostOnce holds while nobody replays: who works on a message, or    *)
(* has sent it, owns its row for ever; before the request is sent nothing   *)
(* of the message is in the ledger or on its way, and no two requests on    *)
(* their way are for the same message.  Inductive with OneOwner and         *)
(* AtMostOnce.                                                              *)
Ownership ==
    /\ \A p \in Procs : /\ run[p].cmd # "replay"
                        /\ run[p].pc \notin {"list", "list more", "delete", "refetch"}
    /\ \A p \in Procs : Handling(p) => Recorded(Key(run[p].cur))
    /\ \A k \in Keys : PostedOrLate(k) => Recorded(k)
    /\ \A p \in Procs : run[p].pc \in {"find", "create"} => ~PostedOrLate(Key(run[p].cur))
    /\ \A e \in late : /\ \A i \in DOMAIN ledger : ledger[i].key # e.key
                       /\ \A f \in late : f.key = e.key => f = e

(* The keys of the ledger, in its order. *)
PostedKeys == [i \in DOMAIN ledger |-> ledger[i].key]

Promise == INSTANCE Once WITH
    Alerts <- Keys, claimed <- {k \in Keys : Recorded(k)}, posted <- PostedKeys

(* The importer implements Once while nobody replays and the database is    *)
(* not lost: a key is posted only after its claim, only once, and a claim   *)
(* is never undone.                                                         *)
PromiseKept == Promise!Spec

(* One process at a time: no reference is in the ledger twice on an account *)
(* within the window of the duplicate check, also with replay, changed      *)
(* configurations, lost answers and a lost database.  FindLimit must cover  *)
(* the window, and no request may arrive late.                              *)
OncePerReference ==
    \A i, j \in Live :
        /\ i # j
        /\ ledger[i].ext # "" /\ ledger[i].ext = ledger[j].ext
        /\ ledger[i].account = ledger[j].account
        => ledger[i].day \notin (ledger[j].day - 1)..(ledger[j].day + 1)

(* One process at a time: an outcome is final.  Polls and imports never     *)
(* take up a message again that has one, be it failed; replay does, but     *)
(* only failed and skipped ones, whose rows it deletes.  A settled row is   *)
(* changed by the user, or goes with the volume, and by nothing else.       *)
OnlyReplayReopens ==
    [][\A k \in Keys : Recorded(k) /\ messages[k].status # "pending" =>
          \/ messages'[k] = messages[k]
          \/ messages'[k] = [messages[k] EXCEPT !.status = "ignored"]
          \/ /\ messages[k].status \in {"failed", "skipped"} /\ messages'[k] = Absent
             /\ \E p \in Procs : run[p].cmd = "replay" /\ At(p, "delete")
          \/ NewVolume]_vars

(* One process at a time: a message whose row is settled (imported, found   *)
(* to be a duplicate, or put aside by the user) is never posted again.      *)
SettledNotPosted ==
    [][\A k \in Keys : Settled(k) =>
          \A i \in DOMAIN ledger' \ DOMAIN ledger : ledger'[i].key # k]_vars

(* One process at a time: the watermark never moves back, whichever command *)
(* moves it, short of a new volume.                                         *)
WatermarkForward == [][lastUID' >= lastUID \/ NewVolume]_vars

(* The messages of the lookback window that the watermark hides without a   *)
(* record of them, save those whose UID follows, by one, that of another.   *)
Hidden ==
    {m \in Messages :
        /\ mailbox[m] = "recent" /\ m.uid < lastUID /\ ~Recorded(Key(m))
        /\ ~\E n \in Messages : n.uid + 1 = m.uid /\ mailbox[n] # "unsent"}

(* With any number of polls and imports at once, the watermark hides no     *)
(* message without a record that does not directly follow another one,      *)
(* save those a poll itself could not claim in the store, or got without    *)
(* their body: it moves on and counts as good.  Crashes, signals, panics,   *)
(* failed, lost and late requests hide nothing, and a message that is       *)
(* missed takes no other one with it.                                       *)
NoGap == Hidden \subseteq missed

----------------------------------------------------------------------------
(* Liveness, under FairSpec. *)

(* No row is "stuck forever" as pending: its process writes an outcome, or  *)
(* the next process to start releases it.                                   *)
PendingResolved ==
    \A k \in Keys : messages[k].status = "pending" ~> messages[k].status # "pending"

(* An alert that does not directly follow another one is recorded in the    *)
(* end, or leaves the lookback window before that.                          *)
AlertConsidered ==
    \A m \in Messages :
        (/\ mailbox[m] = "recent"
         /\ \A n \in Messages : n.uid + 1 = m.uid => mailbox[n] = "unsent")
        ~> (Recorded(Key(m)) \/ mailbox[m] # "recent")

----------------------------------------------------------------------------
(* What the repository says and the code does not do: these are stated to   *)
(* be refuted.                                                              *)

(* sync.go: "polls can skip messages that have already been considered":    *)
(* every alert in the window is considered in the end.                      *)
EveryAlertConsidered ==
    \A m \in Messages : mailbox[m] = "recent" ~> (Recorded(Key(m)) \/ mailbox[m] # "recent")

(* README: "It keeps a record of each email that it read": what was         *)
(* recorded is recorded again and again.                                    *)
RecordKept == \A k \in Keys : [](Recorded(k) => []<>Recorded(k))

(* README: "It tries the interrupted messages again": a message whose       *)
(* process dies after the claim is settled in the end.                      *)
InterruptedRetried == \A k \in Keys : messages[k].status = "pending" ~> Settled(k)

(* README: -dry-run is "Read the messages, but write nothing".              *)
DryRunWritesNothing ==
    [][\A p \in Procs :
          run'[p] # run[p] /\ run[p].conf.dryRun => UNCHANGED <<storeVars, fireflyVars>>]_vars
=============================================================================
