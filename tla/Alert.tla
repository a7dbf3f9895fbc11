------------------------------- MODULE Alert -------------------------------
(***************************************************************************)
(* One alert email, what the importer makes of it under a configuration,   *)
(* and the transaction it becomes: hdfcmail.Parse, the account map and     *)
(* buildEntry.  No state: the store, the mailbox, the ledger and the       *)
(* importer all speak of these values.                                     *)
(*                                                                         *)
(* A message has a uid, a Message-ID ("" when the header is missing), a    *)
(* wording (which template it is written for, "garbled" when a template    *)
(* matches but its amount or date does not parse), the last four digits of *)
(* the account, the UPI reference ("" when absent), the day of the         *)
(* transaction, and a text that stands for everything else in it.          *)
(***************************************************************************)
EXTENDS Integers

CONSTANTS
    Messages,   \* every alert that may ever reach the mailbox
    Configs     \* the configurations the importer may be started with

MessageFields ==
    [uid: Nat \ {0}, id: STRING, wording: STRING, last4: STRING,
     ref: STRING, day: Int, text: STRING]

(* IMAP gives every message of a mailbox a UID of its own. *)
ASSUME MessagesAssumption ==
    \A m \in Messages :
        /\ m \in MessageFields
        /\ \A n \in Messages : m.uid = n.uid => m = n

(* A configuration: the wordings the built templates match, the account    *)
(* map, what is put in the payload beside the message (tags, currency),    *)
(* and the dry-run switch.                                                 *)
ASSUME ConfigsAssumption ==
    /\ Configs # {}
    /\ \A c \in Configs : c.dryRun \in BOOLEAN

----------------------------------------------------------------------------
(* The primary key of a message's record: its Message-ID, or its UID. *)
Key(m) == IF m.id = "" THEN <<"uid", m.uid>> ELSE <<"id", m.id>>

Keys == {Key(m) : m \in Messages}

Parses(m, c) == m.wording \in c.templates

Mapped(m, c) == m.last4 \in DOMAIN c.accounts

(* What handle decides before it talks to Firefly: record the message as   *)
(* failed or skipped, or go on to import it.                               *)
Triage(m, c) ==
    IF m.wording = "garbled" THEN "failed"
    ELSE IF Parses(m, c) /\ Mapped(m, c) THEN "import" ELSE "skipped"

(* The duplicate check matches on the UPI reference; the Message-ID stands *)
(* in for a missing one.  Both may be missing.                             *)
ExternalID(m) == IF m.ref = "" THEN m.id ELSE m.ref

(* Everything of the message that ends up in the payload: the notes carry  *)
(* the subject, the Message-ID and the body, but not the UID.              *)
Content(m) == [m EXCEPT !.uid = 0]

(* The transaction built from a message.  "hash" stands for Firefly's      *)
(* content hash of the journal; "key" is a history field that no guard of  *)
(* the importer or of the server reads.                                    *)
Entry(m, c) ==
    LET account == c.accounts[m.last4]
    IN  [key     |-> Key(m),
         account |-> account,
         ext     |-> ExternalID(m),
         day     |-> m.day,
         hash    |-> <<Content(m), account, c.tags>>]

Entries ==
    UNION {{Entry(m, c) : c \in {d \in Configs : Mapped(m, d)}} : m \in Messages}
=============================================================================
