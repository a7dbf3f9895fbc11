------------------------------- MODULE MCSync -------------------------------
(***************************************************************************)
(* Small sets of alerts and configurations for TLC.                        *)
(***************************************************************************)
EXTENDS SyncProperties, TLC

Alerted(uid, id, wording, last4, ref, day) ==
    [uid |-> uid, id |-> id, wording |-> wording, last4 |-> last4, ref |-> ref,
     day |-> day, text |-> "t"]

(* An alert with everything; the next one has neither Message-ID nor        *)
(* reference, so that its UID is its key and it has no external ID.         *)
Plain == Alerted(1, "a", "debit", "1234", "r1", 10)
Bare  == Alerted(3, "", "debit", "1234", "", 10)

(* The bank sends the first alert again, a day later by its Date header.    *)
Resent == Alerted(4, "b", "debit", "1234", "r1", 11)

(* The same reference on another account: the other leg of a transfer.      *)
OtherLeg == Alerted(3, "c", "credit", "5678", "r1", 10)

(* A second copy of the first message, in the mailbox under its own UID.    *)
Copy == [Plain EXCEPT !.uid = 2]

Follower == Alerted(2, "f", "debit", "1234", "r2", 10)
Late5    == Alerted(5, "g", "garbled", "1234", "r3", 10)
Login    == Alerted(6, "h", "login", "1234", "", 10)

Live1 == [templates |-> {"debit", "credit"}, accounts |-> [l \in {"1234", "5678"} |-> IF l = "1234" THEN "A" ELSE "B"],
          tags |-> "x", dryRun |-> FALSE]
(* The same with other FIREFLY_TAGS. *)
Retagged == [Live1 EXCEPT !.tags = "y"]
(* One template and one account fewer. *)
Narrow == [Live1 EXCEPT !.accounts = [l \in {"1234"} |-> "A"], !.templates = {"debit"}]
Preview1 == [Live1 EXCEPT !.dryRun = TRUE]

OverlapMessages == {Plain, Bare}
OverlapConfigs  == {Live1, Retagged}
OverlapFaults   == {"crash", "panic", "reply_lost", "late", "store", "nil_body"}

ReplayMessages == {Plain, Resent, OtherLeg}
ReplayConfigs  == {Retagged, Narrow, Preview1}
ReplayFaults   == {"crash", "signal", "reply_lost", "mail", "store", "store_lost", "correct",
                   "firefly", "nil_body", "panic"}

LiveMessages == {Plain, Follower, Late5}
LiveFaults   == {"crash", "signal", "mail", "firefly", "reply_lost", "late", "age", "expunge"}

SingleMessage  == {Plain}
PairMessages   == {Plain, Follower}
OneConfig      == {Live1}
PreviewConfigs == {Live1, Preview1}

Sym == Permutations(Procs)
=============================================================================
