---------------------------- MODULE FinalProofs ----------------------------
(***************************************************************************)
(* With one process at a time, an outcome is final: whatever the commands, *)
(* the configurations and the faults, only replay takes up a message that  *)
(* has one, and no message that is settled is posted again.  The argument: *)
(* the row of a message in hand stays pending until its outcome is         *)
(* written, and the rows that replay has listed stay as it found them      *)
(* until it deletes them.                                                  *)
(*                                                                         *)
(* Nor is a reference posted twice, as long as one page holds what the     *)
(* duplicate check asks for: once the check has found nothing, nobody else *)
(* posts, so that nothing with the reference is there when the request is  *)
(* carried out.                                                            *)
(***************************************************************************)
EXTENDS SyncProofs, FiniteSetTheorems

USE DEF storeVars, fireflyVars

OneProcess == \A p, q \in Procs : p = q

Reopened == {"failed", "skipped"}

(* The places of a process up to the deletion of what it has listed.        *)
Listing == {"verify", "ping", "list", "list more", "delete"}

InHandPending ==
    \A p \in Procs : Handling(p) => messages[Key(run[p].cur)].status = "pending"

ListedReopened ==
    \A p \in Procs : run[p].pc \in Listing =>
        /\ \A r \in run[p].picked : messages[r.key].status \in Reopened
        /\ run[p].pc \in {"list", "list more", "delete"} => run[p].cmd = "replay"

Final == InHandPending /\ ListedReopened

(* The steps of a process that change rows. *)
LEMMA RowSteps ==
  ASSUME TypeOK, NEW p \in Procs, Start(p) \/ Step(p) \/ Trouble(p), messages' # messages
  PROVE  VerifyRelease(p) \/ ClaimWon(p) \/ FinishMessage(p) \/ ReplayDelete(p)
  BY DEF Step, Trouble, Start, VerifyPing, VerifyFails, ReadWatermark,
       PollFetch, FetchFails, Interrupted, BatchDone, PollOK, MarkPollOK,
       Wake, Shutdown, Preview, AlreadyClaimed, Find, FindFails, Create, CreateFails,
       CreateReplyLost, CreateTimesOut, Advance, SetLastUID, ImportFetch, ReplayList,
       ReplayListMore, ReplayFetch, StoreFails, Crash, Panic, Signal

(* The steps that leave a process on its way to a deletion. *)
LEMMA ListSteps ==
  ASSUME TypeOK, NEW p \in Procs, Start(p) \/ Step(p) \/ Trouble(p), run'[p].pc \in Listing
  PROVE  \/ Start(p) \/ VerifyRelease(p) \/ VerifyPing(p)
         \/ ReplayList(p) \/ ReplayListMore(p) \/ Signal(p)
  <1>1. run[p] \in RunStates /\ \A r : Becomes(p, r) => run'[p] = r
    BY DEF TypeOK, Becomes
  <1>2. /\ \A m : Handled(p, m).pc \notin Listing
        /\ PollEnded(p).pc \notin Listing /\ Off.pc \notin Listing
        /\ ~Goto(p, "create") /\ ~Goto(p, "mark") /\ ~Goto(p, "poll") /\ ~Goto(p, "refetch")
        /\ \A status, id : ~Concludes(p, status, id)
    BY <1>1 DEF Handled, PollEnded, Off, Goto, Concludes, RunStates, Listing
  <1>3. ~VerifyFails(p)
    BY <1>1, <1>2 DEF VerifyFails
  <1>4. ~(ReadWatermark(p) \/ PollFetch(p) \/ FetchFails(p))
    BY <1>1, <1>2 DEF ReadWatermark, PollFetch, FetchFails, RunStates, Listing
  <1>5. ~(Interrupted(p) \/ BatchDone(p) \/ PollOK(p) \/ Wake(p) \/ Shutdown(p))
    BY <1>1, <1>2 DEF Interrupted, BatchDone, PollOK, Wake, Shutdown
  <1>6. ~(Preview(p) \/ AlreadyClaimed(p) \/ FinishMessage(p) \/ Advance(p))
    BY <1>1, <1>2 DEF Preview, Takes, At, AlreadyClaimed, FinishMessage, Advance, RunStates, Listing
  <1>7. ~ClaimWon(p)
    BY <1>1 DEF ClaimWon, Claimed, RunStates, Listing
  <1>8. ~(Find(p) \/ FindFails(p) \/ Create(p) \/ CreateFails(p) \/ CreateReplyLost(p)
          \/ CreateTimesOut(p))
    BY <1>2 DEF Find, FindFails, Create, CreateFails, CreateReplyLost, CreateTimesOut
  <1>9. ~(ImportFetch(p) \/ ReplayDelete(p) \/ ReplayFetch(p))
    <2>1. ASSUME NEW b, Becomes(p, [run[p] EXCEPT !.pc = "next", !.batch = b])
          PROVE  FALSE
      BY <1>1, <2>1 DEF RunStates, Listing
    <2>2. ~ImportFetch(p)
      BY <1>1, <1>2, <2>1 DEF ImportFetch
    <2>3. ~ReplayDelete(p)
      BY <1>2 DEF ReplayDelete
    <2>4. ASSUME NEW b, Becomes(p, [run[p] EXCEPT !.pc = "next", !.picked = {}, !.batch = b])
          PROVE  FALSE
      BY <1>1, <2>4 DEF RunStates, Listing
    <2>5. ~ReplayFetch(p)
      BY <2>4 DEF ReplayFetch
    <2> QED  BY <2>2, <2>3, <2>5
  <1>10. ~(StoreFails(p) \/ Crash(p) \/ Panic(p))
    BY <1>1, <1>2 DEF StoreFails, Crash, Panic
  <1> QED  BY <1>3, <1>4, <1>5, <1>6, <1>7, <1>8, <1>9, <1>10 DEF Step, Trouble

(* What a listing finds is failed or skipped, and so is what it adds to. *)
LEMMA ListedIsReopened ==
  ASSUME TypeOK, NEW p \in Procs, NEW status \in Reopened, NEW ks \in ByStatus(status),
         \A r \in run[p].picked : messages[r.key].status \in Reopened
  PROVE  \A r \in Listed(p, ks) : messages[r.key].status \in Reopened
  <1>1. \A k \in ks : messages[k].status = status
    BY DEF ByStatus
  <1> QED  BY <1>1 DEF Listed

(* A listing that goes on holds what it has found. *)
LEMMA ListMoves ==
  ASSUME TypeOK, NEW p \in Procs, NEW picked,
         \/ ListingDone(p, picked)
         \/ Becomes(p, [run[p] EXCEPT !.pc = "list more", !.picked = picked])
  PROVE  run'[p] = Off \/ (run'[p].picked = picked /\ run'[p].cmd = run[p].cmd)
  <1>1. run[p] \in RunStates /\ \A r : Becomes(p, r) => run'[p] = r
    BY DEF TypeOK, Becomes
  <1>2. \/ run'[p] = Off
        \/ \E pc : run'[p] = [run[p] EXCEPT !.pc = pc, !.picked = picked]
        \/ \E pc : run'[p] = [run[p] EXCEPT !.picked = picked, !.pc = pc]
    BY <1>1 DEF ListingDone
  <1> QED  BY <1>1, <1>2 DEF RunStates

(* The row of the message in hand stays pending: nobody else is there to    *)
(* release or delete it.                                                    *)
LEMMA InHandStays ==
  ASSUME TypeOK, Final, NEW p \in Procs, Start(p) \/ Step(p) \/ Trouble(p), Handling(p)'
  PROVE  messages'[Key(run'[p].cur)].status = "pending"
  <1>1. CASE ClaimWon(p)
    <2>1. PICK m \in run[p].batch : Claim(Key(m), m.uid) /\ Becomes(p, Claimed(p, m))
      BY <1>1 DEF ClaimWon
    <2>2. m \in Messages /\ Key(m) \in Keys
      BY KeyOK DEF TypeOK, RunStates
    <2>3. run'[p].cur = m
      BY <2>1, <2>2 DEF Becomes, Claimed, TypeOK, RunStates
    <2> QED  BY <2>1, <2>2, <2>3 DEF Claim, TypeOK
  <1>2. CASE ~ClaimWon(p)
    <2>1. /\ Handling(p) /\ run'[p].cur = run[p].cur
          /\ run'[p].pc # "finish" => run[p].pc # "finish"
      BY <1>2, WorkStep
    <2>2. ~FinishMessage(p)
      <3>1. \A m : Handled(p, m).pc \in {"advance", "next"}
        BY DEF Handled, TypeOK, RunStates
      <3> QED  BY <3>1 DEF FinishMessage, Becomes, Handling, TypeOK
    <2>3. ~VerifyRelease(p) /\ ~ReplayDelete(p)
      BY <2>1 DEF VerifyRelease, ReplayDelete, At, Handling
    <2> QED  BY <1>2, <2>1, <2>2, <2>3, RowSteps DEF Final, InHandPending
  <1> QED  BY <1>1, <1>2

(* What is listed stays failed or skipped until its deletion. *)
LEMMA ListedStays ==
  ASSUME TypeOK, Final, NEW p \in Procs, Start(p) \/ Step(p) \/ Trouble(p),
         run'[p].pc \in Listing
  PROVE  /\ \A r \in run'[p].picked : messages'[r.key].status \in Reopened
         /\ run'[p].pc \in {"list", "list more", "delete"} => run'[p].cmd = "replay"
  <1>1. run[p] \in RunStates /\ \A r : Becomes(p, r) => run'[p] = r
    BY DEF TypeOK, Becomes
  <1>2. CASE Start(p)
    BY <1>1, <1>2 DEF Start, Off
  <1>3. CASE VerifyRelease(p)
    <2>1. /\ run'[p].picked = run[p].picked /\ run'[p].cmd = run[p].cmd
          /\ run'[p].pc \in {"ping", FirstStep(p)}
      BY <1>1, <1>3 DEF VerifyRelease, Goto, RunStates
    <2>2. \A r \in run[p].picked : r.key \in Keys /\ messages[r.key].status \in Reopened
      BY <1>1, <1>3 DEF VerifyRelease, At, Final, ListedReopened, Listing, RunStates
    <2>3. \A k \in Keys : messages[k].status \in Reopened => messages'[k] = messages[k]
      BY <1>3 DEF VerifyRelease, ReleasePending, Reopened
    <2> QED  BY <2>1, <2>2, <2>3 DEF FirstStep
  <1>4. CASE VerifyPing(p)
    <2>1. /\ run'[p].picked = run[p].picked /\ run'[p].cmd = run[p].cmd
          /\ run'[p].pc = FirstStep(p) /\ messages' = messages
      BY <1>1, <1>4 DEF VerifyPing, Goto, RunStates
    <2> QED  BY <1>4, <2>1 DEF FirstStep, VerifyPing, At, Final, ListedReopened, Listing
  <1>5. CASE ReplayList(p) \/ ReplayListMore(p)
    <2>1. run[p].pc \in {"list", "list more"} /\ messages' = messages
      BY <1>5 DEF ReplayList, ReplayListMore, At
    <2>2. \A r \in run[p].picked : messages[r.key].status \in Reopened
      BY <2>1 DEF Final, ListedReopened, Listing
    <2>3. PICK status \in Reopened :
             \E ks \in ByStatus(status) :
                \/ ListingDone(p, Listed(p, ks))
                \/ Becomes(p, [run[p] EXCEPT !.pc = "list more", !.picked = Listed(p, ks)])
      BY <1>5 DEF ReplayList, ReplayListMore, Reopened
    <2>4. PICK ks \in ByStatus(status) :
             \/ ListingDone(p, Listed(p, ks))
             \/ Becomes(p, [run[p] EXCEPT !.pc = "list more", !.picked = Listed(p, ks)])
      BY <2>3
    <2>5. \A r \in Listed(p, ks) : messages[r.key].status \in Reopened
      BY <2>2, ListedIsReopened
    <2>6. \/ run'[p] = Off
          \/ run'[p].picked = Listed(p, ks) /\ run'[p].cmd = run[p].cmd
      BY <2>4, ListMoves
    <2>7. run[p].cmd = "replay"
      BY <2>1 DEF Final, ListedReopened, Listing
    <2>8. CASE run'[p] = Off
      BY <2>8 DEF Off
    <2>9. CASE run'[p].picked = Listed(p, ks) /\ run'[p].cmd = run[p].cmd
      BY <2>1, <2>5, <2>7, <2>9
    <2> QED  BY <2>6, <2>8, <2>9
  <1>6. CASE Signal(p)
    <2>1. /\ run'[p].picked = run[p].picked /\ run'[p].cmd = run[p].cmd
          /\ run'[p].pc = run[p].pc /\ messages' = messages
      BY <1>1, <1>6 DEF Signal, RunStates
    <2> QED  BY <2>1 DEF Final, ListedReopened
  <1> QED  BY <1>2, <1>3, <1>4, <1>5, <1>6, ListSteps

(* What the world does to rows: the user marks an imported one, or all are  *)
(* gone while nobody runs.                                                  *)
LEMMA WorldRows ==
  ASSUME TypeOK, World
  PROVE  \/ \A k \in Keys : \/ messages'[k] = messages[k]
                            \/ /\ messages[k].status = "imported"
                               /\ messages'[k] = [messages[k] EXCEPT !.status = "ignored"]
         \/ NewVolume
  BY DEF World, MailArrives, MailLeaves, LateRequest, CorrectByHand, MarkIgnored, NewVolume, TypeOK

(* Every step keeps both. *)
LEMMA FinalStays ==
  ASSUME OneProcess, TypeOK, [Next]_vars, Final
  PROVE  Final'
  <1>1. CASE UNCHANGED vars
    BY <1>1 DEF vars, Final, InHandPending, ListedReopened, Handling
  <1>2. CASE World
    <2>1. run' = run
      BY <1>2, WorldKeepsRun
    <2>2. CASE NewVolume
      BY <2>1, <2>2 DEF NewVolume, At, Final, InHandPending, ListedReopened, Handling, Listing
    <2>3. CASE \A k \in Keys : \/ messages'[k] = messages[k]
                               \/ messages[k].status = "imported"
      <3>1. InHandPending'
        BY <2>1, <2>3, CurOK DEF Final, InHandPending, Handling
      <3>2. \A p \in Procs : \A r \in run[p].picked : r.key \in Keys
        BY DEF TypeOK, RunStates
      <3>3. ListedReopened'
        BY <2>1, <2>3, <3>2 DEF Final, ListedReopened, Reopened
      <3> QED  BY <3>1, <3>3 DEF Final
    <2> QED  BY <1>2, <2>2, <2>3, WorldRows
  <1>3. ASSUME NEW p \in Procs, Start(p) \/ Step(p) \/ Trouble(p)
        PROVE  Final'
    <2>1. \A q \in Procs : q = p
      BY DEF OneProcess
    <2>2. InHandPending'
      BY <1>3, <2>1, InHandStays DEF InHandPending
    <2>3. ListedReopened'
      BY <1>3, <2>1, ListedStays DEF ListedReopened
    <2> QED  BY <2>2, <2>3 DEF Final
  <1> QED  BY <1>1, <1>2, <1>3 DEF Next

(* Hence in every state.                                                   *)
LEMMA FinalAlways == ASSUME OneProcess PROVE Spec => [](TypeOK /\ Final)
  <1>1. SyncInit => Final
    <2> SUFFICES ASSUME SyncInit PROVE Final
      OBVIOUS
    <2>1. \A p \in Procs : run[p].pc = "off"
      BY DEF SyncInit, Off
    <2> QED  BY <2>1 DEF Final, InHandPending, ListedReopened, Handling, Listing
  <1>2. OneProcess /\ TypeOK /\ [Next]_vars /\ Final => Final'
    BY FinalStays
  <1> QED  BY <1>1, <1>2, TypeCorrect, PTL DEF Spec

(* With one process at a time, a message that has an outcome is not taken   *)
(* up again by polls and imports; replay takes up failed and skipped ones.  *)
THEOREM OutcomesFinal == ASSUME OneProcess PROVE Spec => OnlyReplayReopens
  <1> DEFINE Keeps(k) ==
               Recorded(k) /\ messages[k].status # "pending" =>
                 \/ messages'[k] = messages[k]
                 \/ messages'[k] = [messages[k] EXCEPT !.status = "ignored"]
                 \/ /\ messages[k].status \in {"failed", "skipped"} /\ messages'[k] = Absent
                    /\ \E p \in Procs : run[p].cmd = "replay" /\ At(p, "delete")
                 \/ NewVolume
  <1>1. ASSUME TypeOK, Final, [Next]_vars, NEW k \in Keys
        PROVE  Keeps(k)
    <2>1. CASE messages' = messages
      BY <2>1
    <2>2. ASSUME World
          PROVE  Keeps(k)
      BY <1>1, <2>2, WorldRows
    <2>3. ASSUME NEW p \in Procs, Start(p) \/ Step(p) \/ Trouble(p), messages' # messages
          PROVE  Keeps(k)
      <3>1. CASE VerifyRelease(p)
        BY <3>1 DEF VerifyRelease, ReleasePending
      <3>2. CASE ClaimWon(p)
        BY <3>2 DEF ClaimWon, Claim, TypeOK
      <3>3. CASE FinishMessage(p)
        <4>1. messages[Key(run[p].cur)].status = "pending"
          BY <1>1, <3>3 DEF FinishMessage, At, Handling, Final, InHandPending
        <4> QED  BY <1>1, <3>3, <4>1 DEF FinishMessage, Finish, TypeOK
      <3>4. CASE ReplayDelete(p)
        <4>1. /\ run[p].cmd = "replay" /\ At(p, "delete")
              /\ \A r \in run[p].picked : messages[r.key].status \in {"failed", "skipped"}
          BY <1>1, <3>4 DEF ReplayDelete, At, Final, ListedReopened, Listing, Reopened
        <4>2. \/ messages'[k] = messages[k]
              \/ k \in {r.key : r \in run[p].picked} /\ messages'[k] = Absent
          BY <3>4 DEF ReplayDelete, Delete
        <4> QED  BY <4>1, <4>2
      <3> QED  BY <1>1, <2>3, <3>1, <3>2, <3>3, <3>4, RowSteps
    <2> QED  BY <1>1, <2>1, <2>2, <2>3 DEF Next, vars
  <1>2. TypeOK /\ Final /\ [Next]_vars =>
           [\A k \in Keys : Recorded(k) /\ messages[k].status # "pending" =>
                 \/ messages'[k] = messages[k]
                 \/ messages'[k] = [messages[k] EXCEPT !.status = "ignored"]
                 \/ /\ messages[k].status \in {"failed", "skipped"} /\ messages'[k] = Absent
                    /\ \E p \in Procs : run[p].cmd = "replay" /\ At(p, "delete")
                 \/ NewVolume]_vars
    BY <1>1
  <1> QED  BY <1>2, FinalAlways, PTL DEF Spec, OnlyReplayReopens

----------------------------------------------------------------------------
(* What is posted, and when. *)

OnTime == late = {}

(* What a process does to the ledger is to add its entry, if its content is *)
(* not there.                                                               *)
LEMMA Booked ==
  ASSUME TypeOK, OnTime, "late" \notin Faults, [Next]_vars
  PROVE  /\ OnTime'
         /\ \/ ledger' = ledger
            \/ \E p \in Procs :
                  /\ run[p].pc = "create" /\ run'[p].pc = "finish" /\ removed' = removed
                  /\ ledger' = Append(ledger, CurEntry(p)) /\ ~HashKnown(CurEntry(p))
         /\ removed \subseteq removed'
  <1>0. CASE UNCHANGED vars
    BY <1>0 DEF vars, OnTime
  <1>1. CASE World
    BY <1>1 DEF World, MailArrives, MailLeaves, LateRequest, CorrectByHand, Remove, NewVolume, OnTime
  <1>2. ASSUME NEW p \in Procs, Start(p) \/ Step(p) \/ Trouble(p)
        PROVE  /\ UNCHANGED <<removed, late>>
               /\ \/ ledger' = ledger
                  \/ /\ run[p].pc = "create" /\ run'[p].pc = "finish"
                     /\ ledger' = Append(ledger, CurEntry(p)) /\ ~HashKnown(CurEntry(p))
    <2>1. CASE Create(p) \/ CreateReplyLost(p)
      <3>1. /\ UNCHANGED <<removed, late>> /\ run[p].pc = "create"
            /\ ledger' = ledger \/ (ledger' = Append(ledger, CurEntry(p)) /\ ~HashKnown(CurEntry(p)))
        BY <2>1 DEF Create, CreateReplyLost, At, Post
      <3>2. \E status, id : Concludes(p, status, id)
        BY <2>1 DEF Create, CreateReplyLost
      <3>3. run'[p].pc = "finish"
        BY <3>2 DEF Concludes, Becomes, TypeOK, RunStates
      <3> QED  BY <3>1, <3>3
    <2>2. CASE ~(Create(p) \/ CreateReplyLost(p))
      <3>1. ~CreateTimesOut(p)
        BY <1>2 DEF CreateTimesOut
      <3> QED
        BY <1>2, <2>2, <3>1 DEF Step, Trouble, Start, VerifyRelease, VerifyPing, VerifyFails,
             ReadWatermark, PollFetch, FetchFails, Interrupted, BatchDone, PollOK,
             Wake, Shutdown, Preview, ClaimWon, AlreadyClaimed, Find, FindFails, CreateFails,
             FinishMessage, Advance, ImportFetch, ReplayList, ReplayListMore, ReplayDelete,
             ReplayFetch, StoreFails, Crash, Panic, Signal
    <2> QED  BY <2>1, <2>2
  <1> QED  BY <1>0, <1>1, <1>2 DEF Next, OnTime

(* With one process at a time, and no request carried out late, nothing is  *)
(* posted for a message whose row is settled.                               *)
THEOREM SettledNotPostedAlways ==
  ASSUME OneProcess, "late" \notin Faults
  PROVE  Spec => SettledNotPosted
  <1> DEFINE Fresh == \A k \in Keys : Settled(k) =>
                         \A i \in DOMAIN ledger' \ DOMAIN ledger : ledger'[i].key # k
  <1>1. ASSUME TypeOK, Final, OnTime, [Next]_vars
        PROVE  OnTime' /\ Fresh
    <2>1. CASE ledger' = ledger
      BY <1>1, <2>1, Booked
    <2>2. ASSUME NEW p \in Procs, run[p].pc = "create", ledger' = Append(ledger, CurEntry(p))
          PROVE  Fresh
      <3>1. CurEntry(p) \in Entries /\ CurEntry(p).key = Key(run[p].cur)
        BY <1>1, <2>2, CurOK DEF CurEntry, Entry
      <3>2. ~Settled(Key(run[p].cur))
        BY <1>1, <2>2 DEF Final, InHandPending, Handling, Settled
      <3>3. \A i \in DOMAIN ledger' \ DOMAIN ledger : ledger'[i] = CurEntry(p)
        BY <1>1, <2>2, <3>1 DEF TypeOK
      <3> QED  BY <3>1, <3>2, <3>3
    <2> QED  BY <1>1, <2>1, <2>2, Booked
  <1>2. SyncInit => OnTime
    BY DEF SyncInit, FireflyInit, OnTime
  <1>3. TypeOK /\ Final /\ OnTime /\ [Next]_vars =>
           [\A k \in Keys : Settled(k) =>
               \A i \in DOMAIN ledger' \ DOMAIN ledger : ledger'[i].key # k]_vars
    BY <1>1
  <1> QED  BY <1>1, <1>2, <1>3, FinalAlways, PTL DEF Spec, SettledNotPosted

----------------------------------------------------------------------------
(* References. *)

(* No page of the duplicate check is full of other references.              *)
PageCovers ==
    \A e \in Entries :
        Cardinality({i \in Window(e.account, e.day) : ledger[i].ext # e.ext}) < FindLimit

(* The entries that can share a page with e and have another reference.     *)
Others(e) ==
    {f \in Entries :
        /\ f.account = e.account /\ f.day \in (e.day - 1)..(e.day + 1)
        /\ f.ext # e.ext}

(* Fewer than FindLimit of them, for every entry.                           *)
FewAlerts == \A e \in Entries : IsFiniteSet(Others(e)) /\ Cardinality(Others(e)) < FindLimit

(* The entry e has no counterpart in the ledger that the check would find.  *)
Missing(e) == \A i \in Window(e.account, e.day) : ledger[i].ext # e.ext

(* Who is about to create a transaction is right that it is not there.      *)
CheckedMissing ==
    \A p \in Procs : At(p, "create") /\ AsksFirefly(p) => Missing(CurEntry(p))

Referenced == OnTime /\ CheckedMissing /\ OncePerReference

(* Two live transactions differ in their content. *)
ContentsDiffer == \A i, j \in Live : ledger[i].hash = ledger[j].hash => i = j

(* What an entry is made of. *)
LEMMA EntryFields == \A e \in Entries : e.day \in Int
  BY MessagesAssumption DEF Entries, Entry, MessageFields

(* The ledger is finite, and so is every part of it. *)
LEMMA LiveFinite ==
  ASSUME TypeOK
  PROVE  \A S \in SUBSET Live : IsFiniteSet(S)
  <1>1. DOMAIN ledger = 1..Len(ledger) /\ Len(ledger) \in Nat
    BY DEF TypeOK
  <1>2. IsFiniteSet(1..Len(ledger))
    BY <1>1, FS_Interval
  <1> QED  BY <1>1, <1>2, FS_Subset DEF Live

(* What else the window holds does not fill the page.                       *)
LEMMA PageNotFull ==
  ASSUME TypeOK, PageCovers, NEW e \in Entries
  PROVE  ~(Cardinality({i \in Window(e.account, e.day) : ledger[i].ext # e.ext}) >= FindLimit)
  <1> DEFINE others == {i \in Window(e.account, e.day) : ledger[i].ext # e.ext}
  <1>1. Cardinality(others) \in Nat
    BY LiveFinite, FS_CardinalityType DEF Window
  <1>2. Cardinality(others) < FindLimit
    BY Zenon DEF PageCovers
  <1> QED  BY <1>1, <1>2, FireflyAssumption

(* A check that finds nothing is right when one page covers its window.     *)
LEMMA FindIsRight ==
  ASSUME TypeOK, PageCovers, NEW e \in Entries, e.ext # "",
         NEW found \in FindByExternalID(e.account, e.day, e.ext), ~found
  PROVE  Missing(e)
  <1> DEFINE window  == Window(e.account, e.day)
             matches == {i \in window : ledger[i].ext = e.ext}
  <1>1. matches = {} \/ Cardinality(window \ matches) >= FindLimit
    BY DEF FindByExternalID
  <1>2. window \ matches = {i \in window : ledger[i].ext # e.ext}
    OBVIOUS
  <1>3. matches = {}
    BY <1>1, <1>2, PageNotFull, Zenon
  <1> QED  BY <1>3 DEF Missing

(* A process gets to creating from the check, or was there.                 *)
LEMMA ToCreate ==
  ASSUME TypeOK, NEW p \in Procs, Start(p) \/ Step(p) \/ Trouble(p), run'[p].pc = "create"
  PROVE  /\ run[p].pc \in {"find", "create"}
         /\ run'[p].cur = run[p].cur /\ run'[p].conf = run[p].conf
         /\ run[p].pc = "find" => Find(p)
  <1>1. run[p] \in RunStates /\ \A r : Becomes(p, r) => run'[p] = r
    BY DEF TypeOK, Becomes
  <1>2. CASE run'[p] = run[p]
    BY <1>2
  <1>3. CASE run'[p] # run[p]
    <2>1. \A status, id : ~Concludes(p, status, id)
      BY <1>1 DEF Concludes, RunStates
    <2>2. \A m : Claimed(p, m).pc # "create"
      BY <1>1 DEF Claimed, RunStates
    <2>3. Find(p) \/ Signal(p)
      BY <1>1, <1>3, <2>1, <2>2, ToWork
         DEF ClaimWon, FindFails, Create, CreateFails, CreateReplyLost, CreateTimesOut
    <2>4. CASE Find(p)
      <3>1. Goto(p, "create")
        BY <2>1, <2>4 DEF Find
      <3> QED  BY <1>1, <2>4, <3>1 DEF Goto, Find, At, RunStates
    <2>5. CASE Signal(p)
      BY <1>1, <2>5 DEF Signal, RunStates
    <2> QED  BY <2>3, <2>4, <2>5
  <1> QED  BY <1>2, <1>3

(* Firefly's window looks both ways: i is in the window of j when j is in   *)
(* that of i.                                                               *)
LEMMA DaysApart == \A a, b \in Int : a \in (b - 1)..(b + 1) => b \in (a - 1)..(a + 1)
  OBVIOUS

(* What an entry that is added at the end makes of the live transactions.   *)
LEMMA LiveGrows ==
  ASSUME TypeOK, NEW e \in Entries, ledger' = Append(ledger, e), removed' = removed
  PROVE  \A i \in Live' : \/ i \in Live /\ ledger'[i] = ledger[i]
                          \/ i = Len(ledger) + 1 /\ ledger'[i] = e
  BY DEF TypeOK, Live

(* The invariant is kept by every step while one page covers the window.    *)
LEMMA ReferencedStays ==
  ASSUME OneProcess, "late" \notin Faults, TypeOK, PageCovers, Referenced, [Next]_vars
  PROVE  Referenced'
  <1>1. OnTime'
    BY Booked DEF Referenced
  <1>2. \A p \in Procs : CurEntry(p)' = CurEntry(p) \/ run'[p] # run[p]
    BY DEF CurEntry
  <1>3. ASSUME ledger' = ledger
        PROVE  Live' \subseteq Live
    BY <1>3, Booked DEF Referenced, Live
  <1>4. ASSUME ledger' = ledger, NEW e, Missing(e)
        PROVE  Missing(e)'
    BY <1>3, <1>4 DEF Missing, Window
  <1>5. CheckedMissing'
    <2> SUFFICES ASSUME NEW p \in Procs, run'[p].pc = "create", (AsksFirefly(p))'
                 PROVE  (Missing(CurEntry(p)))'
      BY DEF CheckedMissing, At
    <2>1. CASE run' = run
      <3>1. ledger' = ledger
        BY <2>1, Booked DEF Referenced
      <3>2. AsksFirefly(p) /\ (Missing(CurEntry(p)) => (Missing(CurEntry(p)))')
        BY <1>4, <2>1, <3>1 DEF AsksFirefly, CurEntry
      <3> QED  BY <2>1, <3>2 DEF Referenced, CheckedMissing, At
    <2>2. ASSUME NEW q \in Procs, Start(q) \/ Step(q) \/ Trouble(q)
          PROVE  (Missing(CurEntry(p)))'
      <3>1. q = p
        BY DEF OneProcess
      <3>2. /\ run[p].pc \in {"find", "create"} /\ (run[p].pc = "find" => Find(p))
            /\ run'[p].cur = run[p].cur /\ run'[p].conf = run[p].conf
        BY <2>2, <3>1, ToCreate
      <3>3. ledger' = ledger
        BY <2>2, <3>1, BookStep
      <3>4. AsksFirefly(p) /\ CurEntry(p) \in Entries
        BY <3>2, CurOK DEF AsksFirefly, CurEntry
      <3>5. Missing(CurEntry(p))
        <4>1. CASE run[p].pc = "create"
          BY <3>4, <4>1 DEF Referenced, CheckedMissing, At
        <4>2. CASE run[p].pc = "find"
          <5>1. PICK found \in FindByExternalID(CurEntry(p).account, CurEntry(p).day, CurEntry(p).ext) :
                   IF found THEN Concludes(p, "duplicate", 0) ELSE Goto(p, "create")
            BY <3>2, <4>2 DEF Find
          <5>2. found \in BOOLEAN
            BY <5>1 DEF FindByExternalID
          <5>3. ~Concludes(p, "duplicate", 0)
            BY DEF Concludes, Becomes, TypeOK, RunStates
          <5>4. ~found
            BY <5>1, <5>2, <5>3
          <5>5. CurEntry(p).ext # ""
            BY <3>4 DEF AsksFirefly
          <5> QED  BY <3>4, <5>1, <5>4, <5>5, FindIsRight
        <4> QED  BY <3>2, <4>1, <4>2
      <3> QED  BY <1>4, <3>2, <3>3, <3>5 DEF CurEntry
    <2> QED  BY <2>1, <2>2, WorldKeepsRun DEF Next, vars
  <1>6. OncePerReference'
    <2>1. CASE ledger' = ledger
      BY <1>3, <2>1 DEF Referenced, OncePerReference
    <2>2. ASSUME NEW p \in Procs, run[p].pc = "create", removed' = removed,
                 ledger' = Append(ledger, CurEntry(p))
          PROVE  OncePerReference'
      <3> DEFINE e == CurEntry(p)
                 far(i) == e.ext # "" /\ ledger[i].ext = e.ext /\ ledger[i].account = e.account =>
                              ledger[i].day \notin (e.day - 1)..(e.day + 1)
                           /\ e.day \notin (ledger[i].day - 1)..(ledger[i].day + 1)
      <3>1. e \in Entries
        BY <2>2, CurOK
      <3>2. \A i \in Live : ledger[i] \in Entries
        BY DEF Live, TypeOK
      <3>3. \A i \in Live : far(i)
        <4> SUFFICES ASSUME NEW i \in Live, e.ext # "", ledger[i].ext = e.ext, ledger[i].account = e.account
                     PROVE  /\ ledger[i].day \notin (e.day - 1)..(e.day + 1)
                            /\ e.day \notin (ledger[i].day - 1)..(ledger[i].day + 1)
          OBVIOUS
        <4>1. Missing(e)
          BY <2>2 DEF Referenced, CheckedMissing, At, AsksFirefly
        <4>2. ledger[i].day \notin (e.day - 1)..(e.day + 1)
          BY <4>1 DEF Missing, Window
        <4>3. ledger[i].day \in Int /\ e.day \in Int
          BY <3>1, <3>2, EntryFields
        <4> QED  BY <4>2, <4>3, DaysApart
      <3>4. \A i \in Live' : \/ i \in Live /\ ledger'[i] = ledger[i]
                             \/ i = Len(ledger) + 1 /\ ledger'[i] = e
        BY <2>2, <3>1, LiveGrows
      <3>5. \A i, j \in Live :
               /\ i # j /\ ledger[i].ext # "" /\ ledger[i].ext = ledger[j].ext
               /\ ledger[i].account = ledger[j].account
               => ledger[i].day \notin (ledger[j].day - 1)..(ledger[j].day + 1)
        BY DEF Referenced, OncePerReference
      <3> SUFFICES ASSUME NEW i \in Live', NEW j \in Live', i # j, ledger'[i].ext # "",
                          ledger'[i].ext = ledger'[j].ext, ledger'[i].account = ledger'[j].account
                   PROVE  ledger'[i].day \notin (ledger'[j].day - 1)..(ledger'[j].day + 1)
        BY DEF OncePerReference
      <3> HIDE DEF e
      <3> QED  BY <3>3, <3>4, <3>5
    <2> QED  BY <2>1, <2>2, Booked DEF Referenced
  <1> QED  BY <1>1, <1>5, <1>6 DEF Referenced

(* As long as one page holds what the duplicate check asks for, no reference *)
(* is in the ledger twice on an account within the window of the check,     *)
(* whatever the alerts, the configurations, the commands and the faults but *)
(* a request that is carried out late.                                      *)
THEOREM ReferencesOnce ==
  ASSUME OneProcess, "late" \notin Faults
  PROVE  Spec /\ []PageCovers => []OncePerReference
  <1>1. SyncInit => Referenced
    <2> SUFFICES ASSUME SyncInit PROVE Referenced
      OBVIOUS
    <2>1. \A p \in Procs : run[p].pc = "off"
      BY DEF SyncInit, Off
    <2>2. Live = {} /\ late = {}
      BY DEF SyncInit, FireflyInit, Live
    <2> QED  BY <2>1, <2>2 DEF Referenced, OnTime, CheckedMissing, At, OncePerReference
  <1>2. TypeOK /\ PageCovers /\ Referenced /\ [Next]_vars => Referenced'
    BY ReferencedStays
  <1>3. Referenced => OncePerReference
    BY DEF Referenced
  <1> QED  BY <1>1, <1>2, <1>3, TypeCorrect, PTL DEF Spec

----------------------------------------------------------------------------
(* When a page covers the window: the server refuses a content it knows.    *)

(* What any step does to the transactions.                                  *)
LEMMA Posts ==
  ASSUME TypeOK, [Next]_vars
  PROVE  /\ removed \subseteq removed'
         /\ \/ ledger' = ledger
            \/ \E e \in Entries :
                  ledger' = Append(ledger, e) /\ removed' = removed /\ ~HashKnown(e)
  <1>0. CASE UNCHANGED vars
    BY <1>0 DEF vars
  <1>1. CASE World
    BY <1>1 DEF World, MailArrives, MailLeaves, LateRequest, PostLate, Post, CorrectByHand, Remove,
                NewVolume, TypeOK
  <1>2. ASSUME NEW p \in Procs, Start(p) \/ Step(p) \/ Trouble(p)
        PROVE  /\ removed' = removed
               /\ \/ ledger' = ledger
                  \/ \E e \in Entries : ledger' = Append(ledger, e) /\ ~HashKnown(e)
    <2>1. CASE Create(p) \/ CreateReplyLost(p)
      <3>1. removed' = removed /\ run[p].pc = "create" /\ Post(CurEntry(p))
        BY <2>1 DEF Create, CreateReplyLost, At
      <3>2. CurEntry(p) \in Entries
        BY <3>1, CurOK
      <3> QED  BY <3>1, <3>2 DEF Post
    <2>2. CASE ~(Create(p) \/ CreateReplyLost(p))
      BY <1>2, <2>2 DEF Step, Trouble, Start, VerifyRelease, VerifyPing, VerifyFails,
           ReadWatermark, PollFetch, FetchFails, Interrupted, BatchDone, PollOK,
           Wake, Shutdown, Preview, ClaimWon, AlreadyClaimed, Find, FindFails, CreateFails,
           CreateTimesOut, FinishMessage, Advance, ImportFetch, ReplayList, ReplayListMore,
           ReplayDelete, ReplayFetch, StoreFails, Crash, Panic, Signal
    <2> QED  BY <2>1, <2>2
  <1> QED  BY <1>0, <1>1, <1>2 DEF Next

(* Two live transactions always differ in their content.                    *)
LEMMA ContentsDifferAlways == Spec => []ContentsDiffer
  <1>1. SyncInit => ContentsDiffer
    BY DEF SyncInit, FireflyInit, Live, ContentsDiffer
  <1>2. ASSUME TypeOK, ContentsDiffer, [Next]_vars
        PROVE  ContentsDiffer'
    <2>1. CASE ledger' = ledger
      <3>1. Live' \subseteq Live
        BY <1>2, <2>1, Posts DEF Live
      <3> QED  BY <1>2, <2>1, <3>1 DEF ContentsDiffer
    <2>2. ASSUME NEW e \in Entries, ledger' = Append(ledger, e), removed' = removed, ~HashKnown(e)
          PROVE  ContentsDiffer'
      <3>1. \A i \in Live' : \/ i \in Live /\ ledger'[i] = ledger[i]
                             \/ i = Len(ledger) + 1 /\ ledger'[i] = e
        BY <1>2, <2>2, LiveGrows
      <3>2. \A i \in Live : ledger[i].hash # e.hash
        BY <2>2 DEF HashKnown
      <3> QED  BY <1>2, <3>1, <3>2 DEF ContentsDiffer
    <2> QED  BY <1>2, <2>1, <2>2, Posts
  <1> QED  BY <1>1, <1>2, TypeCorrect, PTL DEF Spec

(* Hence a window holds an entry at most once, and no more of them than     *)
(* there are alerts and configurations to make them.                        *)
LEMMA FewAlertsCover ==
  ASSUME TypeOK, ContentsDiffer, FewAlerts
  PROVE  PageCovers
  <1> SUFFICES ASSUME NEW e \in Entries
               PROVE  Cardinality({i \in Window(e.account, e.day) : ledger[i].ext # e.ext}) < FindLimit
    BY DEF PageCovers
  <1> DEFINE here  == {i \in Window(e.account, e.day) : ledger[i].ext # e.ext}
             entry == [i \in here |-> ledger[i]]
  <1>1. IsFiniteSet(Others(e)) /\ Cardinality(Others(e)) < FindLimit
    BY DEF FewAlerts
  <1>2. IsFiniteSet(here)
    BY LiveFinite DEF Window
  <1>3. \A i \in here : i \in Live /\ ledger[i] \in Others(e)
    BY DEF Window, Others, Live, TypeOK
  <1>4. entry \in [here -> Others(e)]
    BY <1>3
  <1>5. \A i, j \in here : i # j => entry[i] # entry[j]
    BY <1>3 DEF ContentsDiffer
  <1> HIDE DEF here, entry
  <1>6. ~(Cardinality(Others(e)) < Cardinality(here))
    BY <1>1, <1>2, <1>4, <1>5, FS_PigeonHole
  <1>7. Cardinality(Others(e)) \in Nat /\ Cardinality(here) \in Nat /\ FindLimit \in Nat
    BY <1>1, <1>2, FS_CardinalityType, FireflyAssumption
  <1>8. Cardinality(here) < FindLimit
    BY <1>1, <1>6, <1>7
  <1> QED  BY <1>8 DEF here

(* Whenever fewer than FindLimit transactions with another reference can be *)
(* made for an account within a day, from all alerts and configurations, no *)
(* reference is posted twice.                                               *)
THEOREM ReferencesOnceForFew ==
  ASSUME OneProcess, "late" \notin Faults, FewAlerts
  PROVE  Spec => []OncePerReference
  <1>1. TypeOK /\ ContentsDiffer => PageCovers
    BY FewAlertsCover
  <1>2. Spec => []PageCovers
    BY <1>1, TypeCorrect, ContentsDifferAlways, PTL
  <1>3. Spec /\ []PageCovers => []OncePerReference
    BY ReferencesOnce
  <1> QED  BY <1>2, <1>3, PTL
=============================================================================
