------------------------------ MODULE Mailbox ------------------------------
(***************************************************************************)
(* The Gmail mailbox as internal/gmailclient/fetch.go sees it: messages    *)
(* arrive with ascending UIDs, leave the lookback window as they age, and  *)
(* may be deleted by the user.  A fetch is one IMAP conversation and is    *)
(* modelled as one read of the mailbox.                                    *)
(***************************************************************************)
EXTENDS Alert

VARIABLE mailbox   \* message -> "unsent", "recent", "old" or "expunged"

MailboxInit == mailbox = [m \in Messages |-> "unsent"]

(* IMAP UIDs only grow: a message arrives after all those with lower UIDs  *)
(* (the others of the set are then never sent).                            *)
Deliver(m) ==
    /\ mailbox[m] = "unsent"
    /\ \A n \in Messages : mailbox[n] # "unsent" => n.uid < m.uid
    /\ mailbox' = [mailbox EXCEPT ![m] = "recent"]

(* The message leaves the lookback window of the polls. *)
Age(m) ==
    /\ mailbox[m] = "recent"
    /\ mailbox' = [mailbox EXCEPT ![m] = "old"]

Expunge(m) ==
    /\ mailbox[m] \in {"recent", "old"}
    /\ mailbox' = [mailbox EXCEPT ![m] = "expunged"]

----------------------------------------------------------------------------
(* What these would be with a plausible bug: the filter on UIDs missing,    *)
(* off by one, and the batch newest first.                                  *)
FetchAll(afterUID) == {m \in Messages : mailbox[m] = "recent"}

FetchAfterNext(afterUID) == {m \in Messages : mailbox[m] = "recent" /\ m.uid > afterUID + 1}

Newest(batch) == {m \in batch : \A n \in batch : n.uid <= m.uid}

(* The messages a poll asks for: inside the window and above the watermark. *)
Fetch(afterUID) ==
    {m \in Messages : mailbox[m] = "recent" /\ m.uid > afterUID}

(* The messages replay and import ask for: by UID, whatever their age. *)
FetchUIDs(uids) ==
    {m \in Messages : mailbox[m] \in {"recent", "old"} /\ m.uid \in uids}

(* Messages are handed over by ascending UID. *)
Oldest(batch) == {m \in batch : \A n \in batch : m.uid <= n.uid}
=============================================================================
