------------------------------- MODULE Store -------------------------------
(***************************************************************************)
(* The SQLite database: internal/store/store.go.  One row per message,     *)
(* keyed by Message-ID, and the metadata that outlives a process.  Every   *)
(* operation is one SQL statement or one SQL transaction, hence one step,  *)
(* whichever process issues it.  Kind, amount, subject and detail of a row *)
(* are never read back by the importer and are left out.                   *)
(***************************************************************************)
EXTENDS Alert, FiniteSets

CONSTANTS
    UIDModulus,  \* number of values of the integer a UID is kept in, 2^32 in the code
    ReplayLimit  \* the -limit flag

ASSUME StoreAssumption ==
    /\ UIDModulus \in Nat \ {0}
    /\ \A m \in Messages : m.uid < UIDModulus

VARIABLES
    messages,    \* the messages table: key -> row, Absent when there is none
    lastUID,     \* meta last_uid: the watermark of the polls
    lastPollOK   \* meta last_poll_ok: has a good poll been recorded

storeVars == <<messages, lastUID, lastPollOK>>

Statuses == {"pending", "imported", "duplicate", "skipped", "failed", "ignored"}

(* A firefly_id is a position in the ledger; 0 is the empty string. *)
Absent == [uid |-> 0, status |-> "absent", fireflyID |-> 0]

Rows == [uid: Nat, status: Statuses \cup {"absent"}, fireflyID: Nat]

Recorded(k) == messages[k] # Absent

(* Outcomes after which a message is never to be imported again. *)
Settled(k) == messages[k].status \in {"imported", "duplicate", "ignored"}

StoreInit ==
    /\ messages = [k \in Keys |-> Absent]
    /\ lastUID = 0
    /\ lastPollOK = FALSE

----------------------------------------------------------------------------
(* Each operation that matters is preceded by what it would be with a       *)
(* plausible bug: the properties of SyncProperties tell the two apart.      *)

(* INSERT OR REPLACE. *)
ClaimReplaces(k, uid) ==
    /\ messages' = [messages EXCEPT ![k] = [uid |-> uid, status |-> "pending", fireflyID |-> 0]]
    /\ UNCHANGED <<lastUID, lastPollOK>>

(* A failed message is up for claim again, so that polls retry it. *)
ClaimRetries(k, uid) ==
    /\ ~Recorded(k) \/ messages[k].status = "failed"
    /\ messages' = [messages EXCEPT ![k] = [uid |-> uid, status |-> "pending", fireflyID |-> 0]]
    /\ UNCHANGED <<lastUID, lastPollOK>>

(* INSERT ... ON CONFLICT DO NOTHING took effect. *)
Claim(k, uid) ==
    /\ ~Recorded(k)
    /\ messages' = [messages EXCEPT ![k] = [uid |-> uid, status |-> "pending", fireflyID |-> 0]]
    /\ UNCHANGED <<lastUID, lastPollOK>>

(* UPDATE ... WHERE message_id: no row, no effect; the owner is not asked. *)
Finish(k, outcome) ==
    /\ messages' = IF Recorded(k)
                   THEN [messages EXCEPT ![k].status = outcome.status,
                                         ![k].fireflyID = outcome.fireflyID]
                   ELSE messages
    /\ UNCHANGED <<lastUID, lastPollOK>>

(* The pending rows are deleted, so that the next poll takes them again. *)
ReleaseForgets ==
    /\ messages' = [k \in Keys |-> IF messages[k].status = "pending" THEN Absent ELSE messages[k]]
    /\ UNCHANGED <<lastUID, lastPollOK>>

(* The two statuses of the statement are swapped: nothing is released. *)
ReleaseSwapped ==
    /\ messages' = [k \in Keys |->
                       IF messages[k].status = "failed"
                       THEN [messages[k] EXCEPT !.status = "pending"]
                       ELSE messages[k]]
    /\ UNCHANGED <<lastUID, lastPollOK>>

(* Every pending row, whoever is working on it. *)
ReleasePending ==
    /\ messages' = [k \in Keys |->
                       IF messages[k].status = "pending"
                       THEN [messages[k] EXCEPT !.status = "failed"]
                       ELSE messages[k]]
    /\ UNCHANGED <<lastUID, lastPollOK>>

(* The WHERE clause is missing. *)
ByStatusAny(status) ==
    {ks \in SUBSET {k \in Keys : Recorded(k)} : Cardinality(ks) <= ReplayLimit}

(* The rows one query of ByStatus may return: at most ReplayLimit of them. *)
(* The order among rows of one second is not defined, so any choice of     *)
(* that many stands for "newest first".                                    *)
ByStatus(status) ==
    LET rows == {k \in Keys : messages[k].status = status}
    IN  {ks \in SUBSET rows :
            \/ ks = rows /\ Cardinality(rows) <= ReplayLimit
            \/ Cardinality(ks) = ReplayLimit}

Delete(ks) ==
    /\ messages' = [k \in Keys |-> IF k \in ks THEN Absent ELSE messages[k]]
    /\ UNCHANGED <<lastUID, lastPollOK>>

SetLastUID(uid) == lastUID' = uid /\ UNCHANGED <<messages, lastPollOK>>

MarkPollOK == lastPollOK' = TRUE /\ UNCHANGED <<messages, lastUID>>

(* The row is marked by hand, in SQL, once its transaction was removed     *)
(* from Firefly in favour of another one.                                  *)
MarkIgnored(k) ==
    /\ messages' = [messages EXCEPT ![k].status = "ignored"]
    /\ UNCHANGED <<lastUID, lastPollOK>>

(* The program is started on a new, empty volume. *)
LoseStore ==
    /\ messages' = [k \in Keys |-> Absent]
    /\ lastUID' = 0
    /\ lastPollOK' = FALSE
=============================================================================
