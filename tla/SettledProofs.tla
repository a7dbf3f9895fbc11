---------------------------- MODULE SettledProofs ----------------------------
(***************************************************************************)
(* SettledIsPosted holds with every command, fault and interleaving.  The  *)
(* argument: an outcome is backed by the ledger when it is concluded, the  *)
(* ledger only grows, and rows get their outcomes from nowhere else.       *)
(***************************************************************************)
EXTENDS SyncProofs

USE DEF storeVars, fireflyVars

(* What a ledger backs, a longer one backs. *)
LEMMA BackedStays ==
  ASSUME NEW L \in Seq(Entries), NEW e \in Entries, NEW k, NEW row, Backed(L, k, row)
  PROVE  Backed(Append(L, e), k, row)
  <1>1. /\ DOMAIN L \subseteq DOMAIN Append(L, e)
        /\ \A i \in DOMAIN L : Append(L, e)[i] = L[i]
    OBVIOUS
  <1>2. ASSUME row.status \in {"imported", "ignored"}
        PROVE  /\ row.fireflyID \in DOMAIN Append(L, e)
               /\ Append(L, e)[row.fireflyID].key = k
    BY <1>1, <1>2 DEF Backed
  <1>3. ASSUME row.status = "duplicate"
        PROVE  HasAnswer(Append(L, e), k)
    <2>1. PICK m \in Messages, c \in Configs :
             /\ Key(m) = k /\ Mapped(m, c)
             /\ \E i \in DOMAIN L : AnswersFor(L, i, m, c)
      BY <1>3 DEF Backed, HasAnswer
    <2>2. PICK i \in DOMAIN L : AnswersFor(L, i, m, c)
      BY <2>1
    <2>3. AnswersFor(Append(L, e), i, m, c)
      BY <1>1, <2>2 DEF AnswersFor
    <2> QED  BY <1>1, <2>1, <2>2, <2>3 DEF HasAnswer
  <1> QED  BY <1>2, <1>3 DEF Backed

(* A step leaves the ledger as it is or adds one entry. *)
LEMMA LedgerGrows ==
  ASSUME TypeOK, [Next]_vars
  PROVE  ledger' = ledger \/ \E e \in Entries : ledger' = Append(ledger, e)
  <1>1. CASE UNCHANGED vars
    BY <1>1 DEF vars
  <1>2. ASSUME NEW p \in Procs, Start(p) \/ Step(p) \/ Trouble(p)
        PROVE  ledger' = ledger \/ \E e \in Entries : ledger' = Append(ledger, e)
    <2>1. CASE Create(p) \/ CreateReplyLost(p)
      BY <2>1, CurOK DEF Create, CreateReplyLost, At, Post
    <2>2. CASE ~(Create(p) \/ CreateReplyLost(p))
      BY <1>2, <2>2 DEF Step, Trouble, Start, VerifyRelease, VerifyPing, VerifyFails, ReadWatermark,
           PollFetch, FetchFails, Interrupted, BatchDone, PollOK, Wake, Shutdown,
           Preview, ClaimWon, AlreadyClaimed, Find, FindFails, CreateFails, CreateTimesOut,
           FinishMessage, Advance, ImportFetch, ReplayList, ReplayListMore, ReplayDelete,
           ReplayFetch, StoreFails, Crash, Panic, Signal
    <2> QED  BY <2>1, <2>2
  <1>3. ASSUME World
        PROVE  ledger' = ledger \/ \E e \in Entries : ledger' = Append(ledger, e)
    BY <1>3 DEF World, MailArrives, MailLeaves, LateRequest, PostLate, Post, CorrectByHand, Remove,
         NewVolume, TypeOK
  <1> QED  BY <1>1, <1>2, <1>3 DEF Next

(* Hence what is backed stays backed. *)
LEMMA BackedNext ==
  ASSUME TypeOK, [Next]_vars
  PROVE  \A k, row : Backed(ledger, k, row) => Backed(ledger', k, row)
  BY LedgerGrows, BackedStays DEF TypeOK

(* The rows: every operation of the store writes what is backed. *)
LEMMA RowsStay ==
  ASSUME TypeOK, [Next]_vars, SettledIsPosted, OutcomesBacked
  PROVE  SettledIsPosted'
  <1> SUFFICES ASSUME NEW k \in Keys PROVE Backed(ledger', k, messages'[k])
    BY DEF SettledIsPosted
  <1> DEFINE row == messages[k]
  <1>1. Backed(ledger', k, row)
    BY BackedNext DEF SettledIsPosted
  <1>2. row \in Rows
    BY DEF TypeOK
  <1>3. ASSUME NEW r, r.status \in {"pending", "failed", "absent"} PROVE Backed(ledger', k, r)
    BY <1>3 DEF Backed
  <1>4. CASE messages' = messages
    BY <1>1, <1>4
  <1>5. ASSUME NEW p \in Procs, Start(p) \/ Step(p) \/ Trouble(p), messages' # messages
        PROVE  Backed(ledger', k, messages'[k])
    <2>1. VerifyRelease(p) \/ ClaimWon(p) \/ FinishMessage(p) \/ ReplayDelete(p)
      BY <1>5 DEF Step, Trouble, Start, VerifyPing, VerifyFails, ReadWatermark,
           PollFetch, FetchFails, Interrupted, BatchDone, PollOK, MarkPollOK,
           Wake, Shutdown, Preview, AlreadyClaimed, Find, FindFails, Create, CreateFails,
           CreateReplyLost, CreateTimesOut, Advance, SetLastUID, ImportFetch, ReplayList,
           ReplayListMore, ReplayFetch, StoreFails, Crash, Panic, Signal
    <2>2. CASE VerifyRelease(p)
      BY <1>1, <1>2, <1>3, <2>2 DEF VerifyRelease, ReleasePending, Rows
    <2>3. CASE ClaimWon(p)
      BY <1>1, <1>3, <2>3 DEF ClaimWon, Claim, TypeOK
    <2>4. CASE FinishMessage(p)
      <3> DEFINE o == run[p].outcome
      <3>1. Backed(ledger', Key(run[p].cur), o)
        BY <2>4, BackedNext DEF FinishMessage, OutcomesBacked
      <3>2. \/ messages'[k] = row
            \/ /\ k = Key(run[p].cur)
               /\ messages'[k] = [row EXCEPT !.status = o.status, !.fireflyID = o.fireflyID]
        BY <2>4 DEF FinishMessage, Finish, TypeOK
      <3> QED  BY <1>1, <1>2, <3>1, <3>2 DEF Backed, Rows
    <2>5. CASE ReplayDelete(p)
      BY <1>1, <1>3, <2>5 DEF ReplayDelete, Delete, Absent
    <2> QED  BY <2>1, <2>2, <2>3, <2>4, <2>5
  <1>6. ASSUME World, messages' # messages
        PROVE  Backed(ledger', k, messages'[k])
    <2>1. CorrectByHand \/ NewVolume
      BY <1>6 DEF World, MailArrives, MailLeaves, LateRequest
    <2>2. CASE CorrectByHand
      <3>1. \/ messages'[k] = row
            \/ row.status = "imported" /\ messages'[k] = [row EXCEPT !.status = "ignored"]
        BY <2>2 DEF CorrectByHand, MarkIgnored, TypeOK
      <3> QED  BY <1>1, <1>2, <3>1 DEF Backed, Rows
    <2>3. CASE NewVolume
      BY <1>3, <2>3 DEF NewVolume, LoseStore, Absent
    <2> QED  BY <2>1, <2>2, <2>3
  <1> QED  BY <1>4, <1>5, <1>6 DEF Next, vars

(* An answer of the duplicate check, and a refusal by hash, are backed. *)
LEMMA AnswerBacked ==
  ASSUME TypeOK, NEW p \in Procs, run[p].pc \in {"find", "create"},
         NEW i \in Live, AnswersFor(ledger, i, run[p].cur, run[p].conf)
  PROVE  HasAnswer(ledger, Key(run[p].cur))
  <1>1. run[p].cur \in Messages /\ run[p].conf \in Configs /\ Mapped(run[p].cur, run[p].conf)
    BY DEF TypeOK, Sound, RunStates
  <1>2. i \in DOMAIN ledger
    BY DEF Live
  <1> QED  BY <1>1, <1>2 DEF HasAnswer

(* The outcomes about to be written: each is concluded from the ledger. *)
LEMMA OutcomesStay ==
  ASSUME TypeOK, TypeOK', [Next]_vars, OutcomesBacked
  PROVE  OutcomesBacked'
  <1> SUFFICES ASSUME NEW q \in Procs, run'[q].pc = "finish"
               PROVE  Backed(ledger', Key(run'[q].cur), run'[q].outcome)
    BY DEF OutcomesBacked, At
  <1>1. ASSUME run[q].pc = "finish", run'[q].cur = run[q].cur, run'[q].outcome = run[q].outcome
        PROVE  Backed(ledger', Key(run'[q].cur), run'[q].outcome)
    BY <1>1, BackedNext DEF OutcomesBacked, At
  <1>2. ASSUME run'[q].outcome.status \in {"skipped", "failed"}
        PROVE  Backed(ledger', Key(run'[q].cur), run'[q].outcome)
    BY <1>2 DEF Backed
  <1>3. CASE run'[q] = run[q]
    BY <1>1, <1>3
  <1>4. ASSUME NEW p \in Procs, Start(p) \/ Step(p) \/ Trouble(p), run'[q] # run[q]
        PROVE  Backed(ledger', Key(run'[q].cur), run'[q].outcome)
    <2>1. run[q] \in RunStates /\ run \in [Procs -> RunStates]
      BY DEF TypeOK
    <2>2. \/ ClaimWon(q) \/ Find(q) \/ FindFails(q) \/ Create(q) \/ CreateFails(q)
          \/ CreateReplyLost(q) \/ CreateTimesOut(q) \/ Signal(q)
      BY <1>4, OneMoves, ToWork
    <2>3. CASE ClaimWon(q)
      <3>1. PICK m \in run[q].batch : Becomes(q, Claimed(q, m))
        BY <2>3 DEF ClaimWon
      <3>2. run'[q] = Claimed(q, m)
        BY <2>1, <3>1 DEF Becomes
      <3>3. Triage(m, run[q].conf) \in {"skipped", "failed"}
        BY <2>1, <3>2 DEF Claimed, Triage, RunStates
      <3>4. run'[q].outcome.status = Triage(m, run[q].conf)
        BY <2>1, <3>2, <3>3 DEF Claimed, RunStates
      <3> QED  BY <1>2, <3>3, <3>4
    <2>4. CASE FindFails(q) \/ CreateFails(q) \/ CreateReplyLost(q) \/ CreateTimesOut(q)
      <3>1. Concludes(q, "failed", 0)
        BY <2>4 DEF FindFails, CreateFails, CreateReplyLost, CreateTimesOut
      <3>2. run'[q].outcome.status = "failed"
        BY <2>1, <3>1 DEF Concludes, Becomes, RunStates
      <3> QED  BY <1>2, <3>2
    <2>5. CASE Find(q)
      <3>1. PICK found \in FindByExternalID(CurEntry(q).account, CurEntry(q).day, CurEntry(q).ext) :
               IF found THEN Concludes(q, "duplicate", 0) ELSE Goto(q, "create")
        BY <2>5 DEF Find
      <3>2. found /\ Concludes(q, "duplicate", 0)
        BY <2>1, <3>1 DEF Goto, Becomes, RunStates
      <3>3. PICK i \in Live : AnswersFor(ledger, i, run[q].cur, run[q].conf)
        BY <3>1, <3>2 DEF FindByExternalID, Window, AnswersFor, CurEntry
      <3>4. HasAnswer(ledger, Key(run[q].cur))
        BY <2>5, <3>3, AnswerBacked DEF Find, At
      <3>5. Backed(ledger, Key(run[q].cur), [status |-> "duplicate", fireflyID |-> 0])
        BY <3>4 DEF Backed
      <3> QED  BY <2>1, <3>2, <3>5, BackedNext DEF Concludes, Becomes, RunStates
    <2>6. CASE Create(q) /\ HashKnown(CurEntry(q))
      <3>1. PICK i \in Live : AnswersFor(ledger, i, run[q].cur, run[q].conf)
        BY <2>6 DEF HashKnown, AnswersFor, CurEntry
      <3>2. HasAnswer(ledger, Key(run[q].cur))
        BY <2>6, <3>1, AnswerBacked DEF Create, At
      <3>3. Backed(ledger, Key(run[q].cur), [status |-> "duplicate", fireflyID |-> 0])
        BY <3>2 DEF Backed
      <3>4. Concludes(q, "duplicate", 0)
        BY <2>6 DEF Create
      <3> QED  BY <2>1, <3>3, <3>4, BackedNext DEF Concludes, Becomes, RunStates
    <2>7. CASE Create(q) /\ ~HashKnown(CurEntry(q))
      <3>1. ledger' = Append(ledger, CurEntry(q)) /\ Concludes(q, "imported", Len(ledger) + 1)
        BY <2>7 DEF Create, Post
      <3>2. run'[q].cur = run[q].cur /\ run'[q].outcome = [status |-> "imported", fireflyID |-> Len(ledger) + 1]
        BY <2>1, <3>1 DEF Concludes, Becomes, RunStates
      <3>3. CurEntry(q) \in Entries /\ CurEntry(q).key = Key(run[q].cur)
        BY <2>7, CurOK DEF Create, At, CurEntry, Entry
      <3>4. Len(ledger) + 1 \in DOMAIN ledger' /\ ledger'[Len(ledger) + 1] = CurEntry(q)
        BY <3>1, <3>3 DEF TypeOK
      <3> QED  BY <3>2, <3>3, <3>4 DEF Backed
    <2>8. CASE Signal(q)
      BY <1>1, <2>1, <2>8 DEF Signal, Becomes, RunStates
    <2> QED  BY <2>2, <2>3, <2>4, <2>5, <2>6, <2>7, <2>8
  <1>5. World => run' = run
    BY DEF World, MailArrives, MailLeaves, LateRequest, CorrectByHand, NewVolume
  <1> QED  BY <1>3, <1>4, <1>5 DEF Next, vars

(* In every state, a row that says imported (or ignored) names a            *)
(* transaction made from its own message, and one that says duplicate has   *)
(* a transaction with its reference or content to show for it.              *)
THEOREM SettledIsPostedAlways == Spec => []SettledIsPosted
  <1> DEFINE Inv == SettledIsPosted /\ OutcomesBacked
  <1>1. SyncInit => Inv
    BY DEF SyncInit, StoreInit, SettledIsPosted, OutcomesBacked, Backed, Absent, Off, At
  <1>2. TypeOK /\ TypeOK' /\ [Next]_vars /\ Inv => Inv'
    BY RowsStay, OutcomesStay
  <1> QED  BY <1>1, <1>2, TypeCorrect, PTL DEF Spec
=============================================================================
