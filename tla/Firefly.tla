------------------------------ MODULE Firefly ------------------------------
(***************************************************************************)
(* The ledger and the two requests that guard it: FindByExternalID and     *)
(* Create of internal/firefly/client.go.  The server itself is external:   *)
(* it keeps a list of transactions, rejects a transaction whose content    *)
(* hash it knows, and may carry out a request whose sender has given up.   *)
(* The client takes any 422 that speaks of a duplicate for that rejection; *)
(* the server is assumed to use the word for nothing else.                 *)
(***************************************************************************)
EXTENDS Alert, FiniteSets, Sequences

CONSTANT FindLimit   \* transactions on the one page FindByExternalID reads, 200

ASSUME FireflyAssumption == FindLimit \in Nat \ {0}

VARIABLES
    ledger,    \* every transaction ever created, oldest first
    removed,   \* positions of those the user has deleted since
    late       \* requests sent and given up on that the server still holds

fireflyVars == <<ledger, removed, late>>

FireflyInit == ledger = <<>> /\ removed = {} /\ late = {}

Live == (DOMAIN ledger) \ removed

HashKnown(e) == \E i \in Live : ledger[i].hash = e.hash

----------------------------------------------------------------------------
(* With a plausible bug: every account's transactions, or one day's only.   *)
WindowAnyAccount(account, day) == {i \in Live : ledger[i].day \in (day - 1)..(day + 1)}

WindowSameDay(account, day) == {i \in Live : ledger[i].account = account /\ ledger[i].day = day}

(* The transactions of an account from the day before to the day after.    *)
Window(account, day) ==
    {i \in Live : ledger[i].account = account /\ ledger[i].day \in (day - 1)..(day + 1)}

(* The answers the duplicate check may give.  Only the first page of the   *)
(* window is read, and which transactions are on it is the server's choice: *)
(* a match may be missed when enough others fill the page.                 *)
FindByExternalID(account, day, ext) ==
    LET window  == Window(account, day)
        matches == {i \in window : ledger[i].ext = ext}
    IN  {found \in BOOLEAN :
            IF ext = "" \/ matches = {} THEN ~found
            ELSE found \/ Cardinality(window \ matches) >= FindLimit}

(* The server carries out one POST: a known hash is refused. *)
Post(e) == ledger' = IF HashKnown(e) THEN ledger ELSE Append(ledger, e)

(* A request its sender gave up on is carried out after all. *)
PostLate(e) ==
    /\ e \in late
    /\ Post(e)
    /\ late' = late \ {e}
    /\ UNCHANGED removed

(* The user deletes a transaction in the Firefly interface. *)
Remove(i) == removed' = removed \cup {i} /\ UNCHANGED <<ledger, late>>
=============================================================================
