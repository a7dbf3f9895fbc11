# A verification of hdfc2ff

`hdfc2ff` reads the transaction alerts of HDFC Bank from a Gmail mailbox and
books each of them in a Firefly III instance. It does so unattended, over three
systems that fail independently, and its one promise is about money: every
alert is booked, and none twice. This directory holds TLA+ models of the
program, the TLC configurations that check them on small instances, and proofs
of the properties that matter most for instances of any size.

Paths in this file are relative to the root of the repository.

## The system

| part | source | state | operations |
| --- | --- | --- | --- |
| importer | `internal/sync/sync.go` | none of its own; the batch and the message in hand | `Verify`, `Run`, `ImportByUID`, `Replay`, `handle` |
| store | `internal/store/store.go` | a row per message; `last_uid`, `last_poll_ok` | `Claim`, `Finish`, `ReleasePending`, `ByStatus`, `Delete`, `GetMeta`, `SetMeta`, `MarkPollOK`, `Counts` |
| mail source | `internal/gmailclient/fetch.go` | one IMAP connection per fetch | `Fetch`, `FetchUIDs` |
| ledger client | `internal/firefly/client.go` | none | `Create`, `FindByExternalID`, `Ping`, `GetAccount`, `BalanceAt` |
| alert parser | `internal/hdfcmail/parse.go`, `mail.go`, `body.go` | none | `Parse`, `Body`, `ParseDate` |
| balance notices | `internal/hdfcmail/balance.go` | none | `ParseBalance` |
| money | `internal/money/money.go` | none | `ParseMinor`, `FormatMinor` |
| configuration | `internal/config/config.go` | none after start-up | `Load`, `Validate`, `parseAccountMap`, `readEnvFile` |
| commands | `cmd/hdfc2ff/main.go` | consecutive failures; the process's context | `run`, `once`, `import`, `replay`, `verify`, `status`, `dump`, `healthcheck`, argument splitting |
| deployment | `Dockerfile`, `docker-compose.yml`, `deploy/systemd/` | none | restart, timer, healthcheck |

How they interact. A command opens the store and the ledger client, then
`Verify` releases rows left `pending` and checks Firefly. A poll reads the
watermark `last_uid`, fetches the messages of the lookback window above it,
oldest first, and handles them one by one: **claim** the row (one `INSERT ... ON
CONFLICT DO NOTHING`), parse, look up the account, ask Firefly whether the
external ID is on the account already, **create** the transaction, **finish**
the row, and move the watermark to `UID + 1`. `import` does the same for UIDs
given by hand and leaves the watermark alone; `replay` lists the rows that
failed or were skipped, deletes them, fetches their messages by UID and handles
them again. The service, a timer's `once` and commands typed by the user may
run side by side: they share the SQLite file, the mailbox and the ledger, and
nothing else. SIGTERM cancels the context of a process.

What is hard about it:

- **interleaving**: several processes between claim and finish of the same
  message; `ReleasePending` of one while another is at work; `Replay` deleting
  rows it listed earlier;
- **crashes** between the transaction in Firefly and the row in SQLite;
- **lost and late requests**: the client gives up after 30 seconds on a request
  that Firefly carries out all the same;
- **partial failure**: statements that fail after the ledger was written, a
  fetch that fails after the rows were deleted;
- **order and boundaries**: the watermark moves per message, is one more than
  the UID, and must not hide what was not handled;
- **stale answers**: the duplicate check reads one page of a three-day window,
  and the content hash changes with the configuration;
- **liveness**: the service must reach every alert through outages, and leave
  no row pending;
- **time and goroutines**: inside a fetch a watchdog closes the connection of
  the goroutine that uses it; deadlines, signals, backoff and the age of the last
  good poll interact;
- **paging**: `verify` adds up a ledger page by page while others change it.

What makes each part correct: the *store* keeps a row from being claimed twice
and settled rows as they are; the *mail source* returns what is asked for in
the order of UIDs; the *ledger client* never answers "not there" for what is
there, nor "created" for what is not; the *importer* posts a message at most
once, tells the truth in its rows, and considers every alert; the *commands*
keep going and report their health honestly; the *parser*, *money* and
*balances* compute what the bank wrote. `PROJECT.json` lists the hazards line by
line with the properties that watch them.

## The modules

| module | models |
| --- | --- |
| `Alert` | a message, a configuration, what `Parse` and the account map make of the two, and the entry built from them |
| `Store` | the table and the metadata, one action per SQL statement or transaction |
| `Mailbox` | the Gmail mailbox: messages arrive with growing UIDs, leave the lookback window, are deleted; what the two fetches return |
| `Firefly` | the ledger, the duplicate check and the posting; requests that outlive their sender |
| `Sync` | the importer and its four commands, any number of processes; composes the four modules above |
| `Once` | the abstract promise: an alert is claimed once, for ever, and posted at most once, after its claim |
| `SyncProperties` | the invariants, action properties, liveness properties and the refinement of `Once` |
| `Fetch` | one fetch from within: the goroutine that talks to the server, the watchdog, the `sync.Once` and the deadline |
| `CommandLine` | `splitCommand` and the flag package as the loops they are, and the choice of a command |
| `Service` | the process of `run` and `once` in time, from its command line to its exit; composes `Fetch` and `CommandLine` |
| `ServiceProperties` | what `Service` promises, and what `healthcheck` reports |
| `Money` | `ParseMinor` and `FormatMinor`, and what a decimal is worth |
| `Balance` | the command `verify`, beside others that change the ledger; with its properties |
| `MCSync`, `MCService`, `MCBalance` | the messages, configurations, command lines and ledgers of the TLC runs |
| `SyncProofs` | the proof of `Sync`'s `TypeOK` and the lemmas on single steps |
| `SettledProofs`, `OwnershipProofs`, `FinalProofs` | the proofs of `SettledIsPosted`; of `AtMostOnce`, `OneOwner`, `Ownership` and the refinement; of `OnlyReplayReopens`, `SettledNotPosted` and `OncePerReference` |
| `WatermarkProofs` | the proofs of `NoGap` and `WatermarkForward` |
| `MoneyProofs` | the proofs that amounts are read and written as what they are worth, and the lemmas about loops and sequences that the next two rest on |
| `BalanceProofs` | the proofs about `Balance` |
| `ServiceProofs` | the proofs about `Service`, `Fetch` and the command line |

### Sync: what the processes do to the store and the ledger

A process of `Sync` is a record `run[p]`; its `pc` names the next access to
something shared:

| `pc` | the code is about to |
| --- | --- |
| `verify`, `ping` | `ReleasePending` and the Firefly checks of `Verify` |
| `poll`, `fetch` | read `last_uid`; fetch |
| `next` | take the next message of the batch and claim it |
| `find`, `create`, `finish` | `FindByExternalID`; `Create`; `Finish` |
| `advance`, `mark` | `setLastUID`; `MarkPollOK` |
| `idle` | sleep until the next poll of `run` |
| `import` | `FetchUIDs` of `ImportByUID` |
| `list`, `list more`, `delete`, `refetch` | the queries, the deletion and the fetch of `Replay` |

A step is one such access and the local work up to the next one. That is the
grain at which another process, a crash, a signal or an error can fall between
two effects: SQLite runs one statement at a time (one connection per process, a
busy timeout between processes). Troubles are actions or alternatives of their
own (`Crash`, `Signal`, `Panic`, `FetchFails`, `CreateReplyLost`,
`CreateTimesOut`, `StoreFails`, ...); which of them may happen, and how often in
total, are the constants `Faults` and `MaxFaults`. A request also fails, at no
charge, when its context is cancelled. `missed` is a history variable: the
messages that a poll could not claim in the store, or that the server sent it
without their body (fetch.go:196-200, for `import` and `replay` too, which do
not move the watermark and leave `missed` alone).

What is abstracted: an alert is a record of the fields the importer branches
on; regular expressions, dates, bodies and JSON are left out. The content hash
of Firefly is the triple of content, account and tags, and a 422 answer that
contains the word "duplicate" (client.go:118, 348) is taken to be the refusal of a
known hash: `SettledIsPosted` rests on that. A row has no times, so
`ByStatus` may return any rows within the limit. `key` in a ledger entry is a
history field: no action reads it. The two reads of `GetAccount` and the `Ping`
are one step. The mailbox is one mailbox with one UIDVALIDITY. A fetch is one
step that succeeds or fails, and sleeping has no time: both are the subject of
`Service`.

### Service and Fetch: one process in time

`Service` follows one polling process. `pc` is again the place in the code:
`launch` (arguments and settings), `verify`, `poll`, `fetch`, `next`, `find`,
`create`, `mark`, `sleep`; `failures` is the counter of `cmdRun`, `left` what is
left of `Verify`'s requests or of the batch, `pollAge` the age of
`last_poll_ok`. While `pc` is `fetch`, the variables of `Fetch` move: `talk` is
the place of the fetching goroutine (`dial`, the commands, `logout`, `return`
for the check of the context at fetch.go:154, `deferred` and `close` for the
deferred calls in their order), `watchdog` that of the watchdog, `closeOnce` the
`sync.Once`, which makes the second caller wait for the first.

Time is discrete and relative: timers hold the ticks that are left, and `Tick`
lets one pass. It may do so only while the process waits for somebody: asleep,
or for a server that does not answer within a tick (`mailUp`, `ledgerUp`).
Answers may come in any case (`Meets`); a server that is up answers before the
next tick, and so does the process itself. Waiting for a busy database takes no
time in this model. `calm` and `stopping` are history
variables that count ticks without trouble and since the signal. `Meets` holds the
troubles: statements that fail, panics, wrong or slow answers; `Signal` and
`Crash` may come at any time. Whether the settings or only the flag asks for a
dry run makes no difference here, so the flag stands for both. `line` is the
command line, until the process has read it: what a user types is some options,
perhaps a command word, and more options (`Typed`, `IsOption`), and a value may
look like anything, a command or a switch included. `SplitCommand` and `Parsed`
go through it argument by argument, as the code does.

`Sync` and `Service` share no state. They are two views of `Run` and `handle`:
`Sync` has what is read and written, `Service` when. `HandledLocally`, `Asks`,
`Settled` and `RequestFails` of `Service` are the ways `Sync`'s steps from `next` to
`finish` can end, as far as time and the failure count are concerned. Where the
select of the loop finds both the timer and the signal, `Service` takes either;
`Sync`'s `Wake` and `Shutdown` need not tell.

### Balance: verify

`pc` goes from `ping` over `fetch` and `page` to a verdict. `ReadPage` is one
request for a page and the summing up of it; the last page includes the
comparison. `Listed` is what Firefly returns for an account up to a date, newest
first, and `PageOf` cuts it in pages of whole groups, whose splits the client
flattens. Between two pages `Book` and `Delete` stand for everybody else; they
leave the list in the order Firefly keeps it in. Only `counted`, `start` and
`changes` are history.

Loops of the code over data are recursive functions of the position
(`f[i \in 0 .. n]`, as in `Total`, `Latest`, `Listed`, `SplitCommand`), not folds:
the prover can unfold them.

### Variants

Some definitions come with a variant that has a plausible bug (`ClaimReplaces`,
`ReleaseForgets`, `ReleaseOnly`, `LastPageFull`, ...). No action uses the variants;
put in place of the definition they belong to, they make a property fail, which
shows that the property looks at that code. Some properties have several:
`VerdictTrue` also fails with `LatestUndated`, `FormatMinorWholeSign` and
`TwoDigitsUnpadded`, and `OnlyReplayReopens` with `ByStatusAny`.

## What is checked

`tlc -config Overlap.cfg MCSync.tla`, and so on; `Service` and `Outage` with
`MCService.tla`, `Balance` with `MCBalance.tla`.

| configuration | instance | question |
| --- | --- | --- |
| `Overlap` | 2 processes, `once` and `import`; 2 alerts, one without Message-ID and reference; 2 configurations that differ in their tags; crash, lost answer, late request, panic, failing statement, missing body, 2 in all | `OneOwner`, `AtMostOnce`, `Ownership`, `NoGap`, `PromiseKept`: 1.7 million states |
| `Replay` | 1 process, `once`, `import`, `replay`; 3 alerts: one sent twice with the same reference, one with that reference on another account; 3 configurations: other tags, an account and a template fewer, dry run; 10 kinds of fault, 2 in all | `SettledIsPosted`, `OncePerReference`, `OnlyReplayReopens`, `SettledNotPosted`, `WatermarkForward`: 1.8 million states |
| `Live` | 1 process, `run`; 3 alerts with UIDs 1, 2 and 5 where 5 is the largest UID there is; 8 kinds of fault, 2 in all; fairness | `TypeOK`, `NoGap`, `OnlyReplayReopens`, `PendingResolved`, `AlertConsidered`: 28 thousand states |
| `Service` | 1 process, 320 command lines; dial 2, fetch 3, interval 2, cap 7, request 1 tick; batches of up to 2; 3 failures counted; both servers go down and up, and all troubles come, as often as they like; fairness | `TypeOK`, `NothingLeftOpen`, `EndReported`, `ShutdownPrompt`, `StaysHealthy`, `BacksOff`, `LaunchedAsMeant`, `PollsEnd`: 102 thousand states |
| `Balance` | pages of 2 groups; every ledger of up to 3 groups from 3 shapes and 2 days; every mailbox of up to 2 of 5 messages; up to 2 changes between pages | `TypeOK`, `VerdictTrue`, `DriftBounded`: 0.8 million states |

`NoGap` says which messages the watermark may hide: besides direct successors only
those in `missed`, the very messages whose claim failed in the store or that came
without their body, since a poll moves the watermark past these all the same.
Crashes, signals, panics and failed, lost or late requests excuse nothing, and
in `Live`, where claims and bodies never fail, nothing at all is excused.
`OnlyReplayReopens` says that outcomes are final, failed ones too, but for
`replay`; in `Live` they stand although the watermark wraps and all is fetched again.
A panic is not among the faults of `Live`: `PendingResolved` does not survive it,
which is a case of `StuckPending`. That a poll ends and the service goes on after one
is checked by `PollsEnd` and `BacksOff` in `Service`. `StaysHealthy` has the limits as its premise: the
healthcheck's limit must cover an interval and the slowest batch, two requests
per message.

Seven more configurations show where the code departs from what the repository
says of it; each has one property, and TLC finds its counterexample:

| configuration | property | what happens |
| --- | --- | --- |
| `Watermark` | `EveryAlertConsidered` | `setLastUID(UID + 1)` with a filter `uid > last_uid`: an alert with the very next UID is never considered unless it came in the same batch |
| `Forgotten` | `RecordKept` | `replay` deletes rows, its fetch fails, and the messages have no record any more |
| `PowerCut` | `InterruptedRetried` | a message interrupted by a crash is marked failed "replayed on startup", and is not tried again |
| `StuckPending` | `PendingResolved` | the write of an outcome fails, or the handling panics (either is enough), and the row stays pending while the service runs |
| `ReplayOverlap` | `AtMostOnce` | `replay` beside a poll: the row of the poll is released, deleted and claimed again, and with other tags both transactions are booked |
| `DryRun` | `DryRunWritesNothing` | a dry run records a good poll; that it releases pending rows first (sync.go:36) is in the model, but not in the counterexample |
| `Outage` | `OutageBacksOff` | while Firefly is out each message fails and each poll is good: no failure is counted and nothing backs off |

Two of these bound the passing properties: `NoGap` and `AlertConsidered` except
the alert that directly follows another one, and `AtMostOnce` and its kin hold
while nobody replays beside another process.

Smaller departures the models show without a run of their own:

- `README.md:184` "Each poll has a time limit of 90 seconds": the fetch has;
  every message of the batch may take two requests of 30 seconds more
  (`SlowestBatch`).
- `README.md:182` "A `SIGTERM` signal stops the tool after the current message.
  A second signal stops the tool immediately": the context of the requests is the
  cancelled one, so the message in flight is failed; and signals stay caught, so
  a second one does nothing (`Signal` needs `~cancelled`). `ShutdownPrompt` is what
  holds instead.
- `README.md:180` "The maximum wait is 30 minutes": with a `POLL_INTERVAL` above
  that, a service without failures waits the interval, and one with failures
  polls more often (`NextDelay`).
- `sync.go:122`: `import` is for messages that were skipped, but does nothing
  for a message that has a row (`AlreadyClaimed`).
- `main.go:477` "A difference means a transaction is missing from, or extra in,
  the ledger": or it changed between two pages (`DriftBounded` says by how much).
- `README.md:207` "the most recent balance notice": of several for one day the
  oldest mail is taken (`Latest`).

Bounds, and why they are enough. Two processes show every pairwise race on a
row; the guards never count processes. Two faults allow a fault and the failure
of the recovery from it. Two or three alerts cover: same and different key,
same and different reference, same and different account, adjacent and distant
UIDs. `UIDModulus` stands for 2^32; it is 6 in `Live`, so that the watermark
wraps, and out of reach elsewhere. `ReplayLimit` is 2 of 3 rows. `FindLimit` is
above the number of transactions: the duplicate check is complete, which
`OncePerReference` needs. In `Service` the fetch's limit is above the dial's, the
cap lies between the second and the third doubling of the interval, so that the
delay is cut at it, and a third failure changes nothing any more; the healthcheck's
limit is the interval and the slowest batch, exactly. In `Balance` a page is
filled, passed, and left with one group; a group of two splits fills a page by
splits and not by groups. The command lines are the options `-once`, `-dry-run`,
`-env once`, `-from run` and `-save -once` in every pair, `-once` or `-max-age=...`
alone, or none, with `run`, `once`, `status` or no command at every place: the
values are words that are commands themselves, or look like a switch.

Deadlock is checked except in `Balance`, where `verify` ends after its verdict.

Fairness. `Live`, `Forgotten`, `PowerCut`, `StuckPending` and `Watermark` use
`WF(Start(p))`: the unit has `Restart=always`, the container
`restart: unless-stopped`, the timer starts `once` again. `WF(Step(p))`: a
process that can go on does, since every wait of the code is bounded (90 seconds
per fetch, 30 seconds per request, 5 seconds for a busy database, 30 minutes
between polls). `WF(LateRequest)`: the server finishes what it holds. No trouble
is fair: it need not happen, and `MaxFaults` makes it end, without which no
service makes progress. `Start` and `Step` are fair per process and not per
command, message or outcome. `Service` uses `WF(Proceeds \/ Tick)`: something that
the process or a server that is up can do happens, or else time goes on. It is
one condition for all of them, so that no particular answer is promised, and the
end of a poll comes from the time limits alone.

## What is proved

`tlapm SyncProofs.tla`, and so on for the eight `...Proofs` modules. Every
invariant and action property that a passing run checks is stated by a theorem,
for any messages, configurations, processes, commands, faults, limits, ledgers,
command lines and bounds. The assumptions are named in the modules:

- UIDs are positive, fit their width and tell messages apart
  (`MessagesAssumption`, `StoreAssumption`); there is a configuration
  (`ConfigsAssumption`);
- the constants of `Sync` are of their types (`SyncAssumption`), and a page of the
  duplicate check holds something (`FireflyAssumption`);
- the limits and intervals of `Fetch` and `Service` are positive (`FetchAssumption`,
  `ServiceAssumption`), which `parseDuration` and `Validate` see to; a command line
  is options and a command word (`IntentsAssumption`);
- a page of `verify` has room (`BalanceAssumption`); Firefly keeps no group without a
  split, and no split from an account to itself (`ShapesAssumption`); a notice has
  an account, an amount and a day (`MailsAssumption`), which `ParseBalance` sees to.

### The importer

| theorem | states | argument |
| --- | --- | --- |
| `TypeCorrect` | `Spec => []TypeOK` (Sync) | inductive as it stands: `Sound` is the part that says what a process holds at each place |
| `SettledIsPostedAlways` | `Spec => []SettledIsPosted` | strengthened by `OutcomesBacked`: an outcome not yet written is true of the ledger too. It was concluded from the ledger, the ledger only grows (`LedgerGrows`, `BackedNext`), and no statement makes a settled row from anything else (`RowsStay`) |
| `OwnedAlways` | `NobodyReplays` implies `Spec => [](Ownership /\ OneOwner /\ AtMostOnce)` | `AtMostOnce` is not inductive: a second posting must be excluded before it happens. `Ownership` adds that keys once taken stay taken (`ClaimsStep`), that a process at work owns its key, and that before it sends a message nothing of it is in the ledger or on its way. A claim needs a free key, so two owners never meet (`WorkStep`); the one posting of an owner ends its right to post (`BooksStep`) |
| `PromiseKeptAlways` | `NobodyReplays` implies `Spec => PromiseKept` | refinement of `Once`, with `claimed` the recorded keys and `posted` the keys of the ledger: `ClaimWon` is `Claim`, `Create`, `CreateReplyLost` and `LateRequest` are `Post` or a stutter, everything else stutters |
| `OutcomesFinal` | `OneProcess` implies `Spec => OnlyReplayReopens` | invariant `Final`: the row of the message in hand is pending (`InHandPending`), and the rows `replay` has listed are failed or skipped until it deletes them (`ListedReopened`). With one process nobody can change them in between, so each statement touches the rows it should (`RowSteps`) |
| `SettledNotPostedAlways` | `OneProcess`, no late requests imply `Spec => SettledNotPosted` | from `Final`: what is posted is the message in hand, whose row is pending |
| `ReferencesOnce` | `OneProcess`, no late requests imply `Spec /\ []PageCovers => []OncePerReference` | invariant `Referenced`: nothing is on its way to the ledger (`OnTime`), and between the check and the posting the reference is not on the account (`CheckedMissing`). The check reads one page; `PageCovers` says that the transactions of the account around the day of an entry, with other references, are fewer than a page holds, so that the match cannot be off the page |
| `ReferencesOnceForFew` | the same, and `FewAlerts`, imply `Spec => []OncePerReference` | `PageCovers` follows from the constants alone: live transactions differ in their content (`ContentsDiffer`), so there are no more of them than entries that alerts and configurations can give |
| `NeverBack` | `OneProcess`, `NoWrap` imply `Spec => WatermarkForward` | `Ahead`: what a poll holds has UIDs of at least the watermark less one, and the message in hand is the oldest of it. One process moves the watermark, so what it read is still true when it writes |
| `NoGapAlways` | `NobodyReplays` implies `Spec => []NoGap` | `NothingHidden`: for each poll that claims, whatever of the window is below a message of its batch has been seen to (`Seen`: it has a record, was missed, or directly follows another) or is in the batch (`InOrder`). What arrives later has a higher UID (`GrowsStep`), so below the message in hand nothing else is left (`OldestIsNext`), and its UID plus one `Covers`. The steps that lose a message, a claim that fails and a fetch without a body, put that message in `missed` (`Fails`, `Reads`); no other step loses any. This holds of each poll by itself, so that polls may overlap, read an old watermark and even set it back |

### The service and the command line

| theorem | states | argument |
| --- | --- | --- |
| `ServiceTypeCorrect` | `Spec => []TypeOK` (Service) | inductive as it stands: a message is left while one is in hand, and the bound of the wait holds because `PollEnds` sets the failures and the timer together |
| `FetchSafe` | `Spec => []NothingLeftOpen /\ EndReported` | `FetchSound`: what `talk`, `conn`, `closeOnce` and `watchdog` say of each other; in particular the connection is closed before the return only by a watchdog that has seen the context end, and a context that has ended stays so until the fetch is over |
| `ShutsDown` | `Spec => []ShutdownPrompt` | `StopSound`: after the signal time passes only during a dial, and the ticks passed and the ticks left of the dial are at most `DialTimeout` together |
| `HealthKept` | `Spec => []StaysHealthy` | `HealthSound`: in calm, the age of the last good poll and the calm time are tied to the place of the process: what is left of a wait, of the batch and of the request at hand bounds how long until the next good poll |
| `Backoff` | `Spec => BacksOff` | from `TypeOK` and two facts about the loop of `NextDelay`: one more failure gives a wait no shorter (`DelayGrows`), and any failure twice the interval or the cap (`DelayAtLeast`) |
| `AsMeant` | `Spec => LaunchedAsMeant` | by induction over the options typed: `splitCommand` passes an option whole to the rest, whatever its value looks like, and is ready for a command after it (`SplitOptions`); the flag package reads it whole, and adds it to the switches given if it is one (`ParseOptions`). So the command word is found at whichever place it stands (`LaunchTyped`), and the process starts as the line says |

### Money and verify

| theorem | states | argument |
| --- | --- | --- |
| `ParsedIsWorth` | `ParseMinor(d) = Worth(d)` for every decimal | `Worth` divides the number all digits make; that the digits past the second do not count is shown by taking them off one at a time |
| `WrittenIsWorth` | `Worth(FormatMinor(n)) = n` for every integer | the sign is apart, the last two digits are the remainder by 100 |
| `RoundTrip` | `ParseMinor` of `FormatMinor(n)`, with any digits appended, is `n` | `TwoDigits` drops what Firefly appends |
| `BalanceTyped` | `Spec => []TypeOK` (Balance) | with `Numbered` and `Begun`: a page that is not the last had as many groups as fit, or splits to make up for them, and the ledger never has more groups than it began with and changes |
| `VerdictCorrect` | `Spec => []VerdictTrue` | `Newest`: the notice kept is one that no other is newer than. `SummedUp`: while nobody changes the ledger, the total is that of the first pages of the list, so at the end that of the whole list. The sum over the list is the balance of the definition, which has no pages and takes incoming and outgoing apart; amounts are worth what they say (`ParsedIsWorth`) |
| `DriftCorrect` | `Spec => []DriftBounded` | `DriftBounded` speaks of the end; `Drifting` says it of what has been counted *and* of what the next pages would count if nobody changed the ledger again (`Left`, `Rest`). A page moves groups from the second to the first; a group booked or deleted shifts the list by one place, which leaves out or repeats one group at most, and the groups are distinct (`Numbered`) |

The inductive invariant of `Balance` is `IInv`, the conjunction of `TypeOK` and the five
parts named. Induction over lists and digits is done on sets: the theorems of
the library that take a predicate are beyond the provers, but a set of
naturals has a least member, so a property that a set holds at 0 and hands on
holds everywhere (`NatSet`, `Along`, `AllSequences` of `MoneyProofs`); `Loops` and
`LoopAppend` say the same of a loop over a sequence.

### The premises

`NobodyReplays` says that `replay` is not among the commands and the database is
not lost; `OneProcess` that there are no two processes. Both are needed:
`ReplayOverlap` is the counterexample without them. `NoWrap` says that no UID is the
last of its width: `NextWatermark` wraps to 0 there, which `Live` has as an
instance. "No late requests" is that `late` is not among the faults: a request
that Firefly carries out after its sender gave up is seen by no check. `PageCovers`
is about the first page of 200 that `FindByExternalID` reads: when more than that
many transactions are around one day, a match may be off it.

### What is only model-checked

The liveness properties (`PendingResolved`, `AlertConsidered`, `PollsEnd`) and
everything else that rests on fairness or `ENABLED`, which the prover does not
treat. The seven departures are counterexamples and need no proof.

## What is not modelled, and the plan

Next, in this order: rows with times, to see whether `replay` starves old
failures (`ByStatus` newest first with a limit); a mailbox that is exchanged or
renumbered, to say what the stored UID hides then; `Template`: which template and
which haystack of `Parse` wins, as an operator over marked-up texts; and what of
`AtMostOnce` is left beside a `replay` when all processes have one configuration.

Left out for good: logging, notes and descriptions, the HTTP and IMAP wire
formats, HTML to text, the syntax of settings, UIDs and statuses, `status`,
`dump` and `usage`, which only print, the overflow of `int64` amounts (above
9.2 * 10^16 rupees), and the build files.
