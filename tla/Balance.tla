------------------------------ MODULE Balance ------------------------------
(***************************************************************************)
(* hdfc2ff verify: the newest balance notice of the bank against the       *)
(* balance that the transactions in Firefly III imply, which is read page  *)
(* by page while others may change the ledger (cmdVerify of                *)
(* cmd/hdfc2ff/main.go, BalanceAt of internal/firefly/client.go).          *)
(***************************************************************************)
EXTENDS Money, FiniteSets, FiniteSetsExt

CONSTANTS
    PageSize,    \* groups in a page, 100 in the code
    AccountMap,  \* from the last digits of an account to its id in Firefly
    Mails,       \* the messages the fetch may return
    MaxMails,    \* how many it returns (a bound of the model)
    Shapes,      \* the splits of the groups in the ledger
    Days,        \* their dates
    MaxGroups,   \* groups in the ledger at first (a bound of the model)
    MaxChanges   \* changes to it while it is read (a bound of the model)

ASSUME BalanceAssumption ==
    /\ PageSize \in Nat \ {0} /\ MaxMails \in Nat /\ MaxGroups \in Nat /\ MaxChanges \in Nat
    /\ Days \subseteq Int

(* Firefly III books no transfer from an account to itself, and no group    *)
(* without a split.                                                         *)
ASSUME ShapesAssumption ==
    \A splits \in Shapes :
        /\ splits \in Seq([source: STRING, destination: STRING, amount: Decimals])
        /\ splits # <<>>
        /\ \A k \in DOMAIN splits : splits[k].source # splits[k].destination

VARIABLES
    pc,       \* "ping", "fetch", "page", then "matches", "differs" or "failed"
    mail,     \* the messages fetched
    latest,   \* the newest notice among them
    page,     \* the next page of the account's transactions
    total,    \* their sum so far, in minor units
    report,   \* the difference, as it is printed
    ledger,   \* Firefly's groups, newest first
    counted,  \* the groups summed, one after the other (history)
    start,    \* the ledger when the first page was asked for (history)
    changes   \* how often it changed since (history)

vars == <<pc, mail, latest, page, total, report, ledger, counted, start, changes>>

NoNotice == [last4 |-> "none", amount |-> 0, asOf |-> 0]
IsNotice(m) == m.kind = "notice"

(* A notice gives the last digits of its account, an amount and a day.      *)
ASSUME MailsAssumption ==
    \A m \in Mails : IsNotice(m) => m.last4 # "none" /\ m.amount \in Decimals /\ m.asOf \in Int

ParseBalance(m) == [last4 |-> m.last4, amount |-> ParseMinor(m.amount), asOf |-> m.asOf]

(* With a plausible bug: the last notice is taken for the newest. *)
LatestUndated(msgs) ==
    LET found[i \in 0 .. Len(msgs)] ==
            IF i = 0 THEN NoNotice
            ELSE IF IsNotice(msgs[i]) THEN ParseBalance(msgs[i]) ELSE found[i - 1]
    IN  found[Len(msgs)]

(* The newest notice; of those of one day the first.                        *)
Newer(m, notice) == IsNotice(m) /\ (notice = NoNotice \/ m.asOf > notice.asOf)

Latest(msgs) ==
    LET found[i \in 0 .. Len(msgs)] ==
            IF i = 0 THEN NoNotice
            ELSE IF Newer(msgs[i], found[i - 1]) THEN ParseBalance(msgs[i]) ELSE found[i - 1]
    IN  found[Len(msgs)]

Account == AccountMap[latest.last4]

Touches(group, account) ==
    \E i \in DOMAIN group.splits :
        account \in {group.splits[i].source, group.splits[i].destination}

(* What the account had at the end of the day, as Firefly lists it.         *)
Shows(group, account, day) == group.date <= day /\ Touches(group, account)

Listed(groups, account, day) ==
    LET listed[i \in 0 .. Len(groups)] ==
            IF i = 0 THEN <<>>
            ELSE IF Shows(groups[i], account, day) THEN Append(listed[i - 1], groups[i])
            ELSE listed[i - 1]
    IN  listed[Len(groups)]

(* A page of that list: the limit counts groups, and a group has its splits. *)
PageOf(list, p) == SubSeq(list, (p - 1) * PageSize + 1, Min({p * PageSize, Len(list)}))

SplitCount(groups) == Total([i \in DOMAIN groups |-> Len(groups[i].splits)])

(* A split from the account's point of view.                                *)
Signed(split, minor, account) ==
    IF split.source = account THEN -minor
    ELSE IF split.destination = account THEN minor ELSE 0

GroupSum(group, account) ==
    Total([k \in DOMAIN group.splits |->
               Signed(group.splits[k], ParseMinor(group.splits[k].amount), account)])

PageSum(groups, account) == Total([i \in DOMAIN groups |-> GroupSum(groups[i], account)])

(* With a plausible bug: a page that is just full is taken for the last. *)
LastPageFull(splits) == splits <= PageSize

(* With a plausible bug: nothing ends the pages. *)
LastPageNever(splits) == FALSE

(* The page was the last: none, or fewer splits on it than groups fit.      *)
LastPage(splits) == splits < PageSize

(* With a plausible bug: pages are counted in splits. *)
FollowingSplits(splits) == page + splits \div PageSize

Following(splits) == page + 1

----------------------------------------------------------------------------
Ids(groups) == {groups[i].id : i \in DOMAIN groups}

Group(id, splits, day) == [id |-> id, splits |-> splits, date |-> day]

(* Newest first, and of those of one day the one booked last.               *)
Sorted(groups) ==
    \A i, j \in DOMAIN groups : i < j =>
        \/ groups[i].date > groups[j].date
        \/ groups[i].date = groups[j].date /\ groups[i].id > groups[j].id

(* The ledger is whatever the importer and its owner have made of it; its   *)
(* groups are numbered as they are listed.                                  *)
Init ==
    /\ \E n \in 0 .. MaxGroups : \E splits \in [1 .. n -> Shapes], days \in [1 .. n -> Days] :
           /\ ledger = [i \in 1 .. n |-> Group(n + 1 - i, splits[i], days[i])]
           /\ Sorted(ledger)
    /\ pc = "ping" /\ mail = <<>> /\ latest = NoNotice
    /\ page = 1 /\ total = 0 /\ report = FormatMinor(0)
    /\ counted = <<>> /\ start = <<>> /\ changes = 0

Ping ==
    /\ pc = "ping"
    /\ pc' = "fetch"
    /\ UNCHANGED <<mail, latest, page, total, report, ledger, counted, start, changes>>

(* The messages come, and the newest notice is found; without one, or with  *)
(* one of an account that is not mapped, there is nothing to compare.       *)
Fetch ==
    /\ pc = "fetch"
    /\ \E n \in 0 .. MaxMails : mail' \in [1 .. n -> Mails]
    /\ latest' = Latest(mail')
    /\ pc' = IF latest' # NoNotice /\ latest'.last4 \in DOMAIN AccountMap THEN "page" ELSE "failed"
    /\ UNCHANGED <<page, total, report, ledger, counted, start, changes>>

(* A page is read and summed; after the last one the balance is compared.   *)
ReadPage ==
    /\ pc = "page"
    /\ LET groups == PageOf(Listed(ledger, Account, latest.asOf), page)
           splits == SplitCount(groups)
           diff   == total' - latest.amount
       IN  /\ start' = IF page = 1 THEN ledger ELSE start
           /\ total' = total + PageSum(groups, Account)
           /\ counted' = counted \o [i \in DOMAIN groups |-> groups[i].id]
           /\ IF LastPage(splits)
              THEN /\ pc' = IF diff = 0 THEN "matches" ELSE "differs"
                   /\ report' = FormatMinor(diff)
                   /\ UNCHANGED page
              ELSE page' = Following(splits) /\ UNCHANGED <<pc, report>>
    /\ UNCHANGED <<mail, latest, ledger, changes>>

(* A request or the fetch fails, or a signal cancels it.                    *)
Fails ==
    /\ pc \in {"ping", "fetch", "page"}
    /\ pc' = "failed"
    /\ UNCHANGED <<mail, latest, page, total, report, ledger, counted, start, changes>>

(* Somebody else changes the ledger between two pages.                      *)
Changing == pc = "page" /\ page > 1 /\ changes < MaxChanges

Book ==
    /\ Changing
    /\ \E splits \in Shapes, day \in Days, i \in 1 .. Len(ledger) + 1 :
           ledger' = InsertAt(ledger, i, Group(MaxGroups + changes + 1, splits, day))
    /\ Sorted(ledger')
    /\ changes' = changes + 1
    /\ UNCHANGED <<pc, mail, latest, page, total, report, counted, start>>

Delete ==
    /\ Changing
    /\ \E i \in DOMAIN ledger : ledger' = RemoveAt(ledger, i)
    /\ changes' = changes + 1
    /\ UNCHANGED <<pc, mail, latest, page, total, report, counted, start>>

Next == Ping \/ Fetch \/ ReadPage \/ Fails \/ Book \/ Delete

Spec == Init /\ [][Next]_vars

----------------------------------------------------------------------------
(* The variables have their types.  The pages come to an end: BalanceAt     *)
(* asks for no more than the ledger can fill, and one that is empty.        *)
TypeOK ==
    /\ pc \in {"ping", "fetch", "page", "matches", "differs", "failed"}
    /\ Range(mail) \subseteq Mails /\ Len(mail) <= MaxMails
    /\ latest = NoNotice \/ \E m \in Range(mail) : IsNotice(m) /\ latest = ParseBalance(m)
    /\ page \in 1 .. (MaxGroups + MaxChanges + PageSize - 1) \div PageSize + 1
    /\ total \in Int /\ report.neg \in BOOLEAN /\ report.whole \in Nat
    /\ report.frac \in [1 .. 2 -> 0 .. 9]
    /\ Sorted(ledger) /\ Ids(ledger) \subseteq 1 .. MaxGroups + MaxChanges
    /\ changes \in 0 .. MaxChanges

(* What the account had at the end of the day: what came in less what went  *)
(* out, each amount at what it is worth.                                    *)
Moved(group, end, account) ==
    Total([k \in DOMAIN group.splits |->
               IF group.splits[k][end] = account THEN Worth(group.splits[k].amount) ELSE 0])

TrueBalance(groups, account, day) ==
    LET sum(end) == Total([i \in DOMAIN groups |->
                              IF groups[i].date <= day THEN Moved(groups[i], end, account) ELSE 0])
    IN  sum("destination") - sum("source")

(* While nobody changes the ledger, verify tells the truth: it exits with   *)
(* success exactly when the transactions in the ledger add up to the amount *)
(* of a newest notice, and the difference it prints is the true one, however *)
(* the groups fall on pages and however the amounts are written.            *)
VerdictTrue ==
    pc \in {"matches", "differs"} /\ changes = 0 =>
        \E m \in Range(mail) :
            /\ IsNotice(m) /\ m.last4 \in DOMAIN AccountMap
            /\ \A other \in Range(mail) : IsNotice(other) => other.asOf <= m.asOf
            /\ LET diff == TrueBalance(ledger, AccountMap[m.last4], m.asOf) - Worth(m.amount)
               IN  /\ (pc = "matches") = (diff = 0)
                   /\ Worth(report) = diff

(* A ledger that changes while it is read puts the sum wrong by no more     *)
(* than one group for each change: only so many groups are left out, or are *)
(* counted that were not there, or are counted again.                       *)
DriftBounded ==
    pc \in {"matches", "differs"} =>
        LET there == Ids(Listed(start, Account, latest.asOf))
            seen  == Range(counted)
        IN  Cardinality(there \ seen) + Len(counted) - Cardinality(there \cap seen) <= changes
=============================================================================
