----------------------------- MODULE SyncProofs -----------------------------
(***************************************************************************)
(* Proofs about Sync for any set of alerts, configurations and processes.  *)
(***************************************************************************)
EXTENDS SyncProperties, TLAPS

USE DEF Mapped, storeVars, fireflyVars

(* A process that is off is in a proper state. *)
LEMMA OffOK == Off \in RunStates /\ Sound(Off)
  <1>1. AnyConfig \in Configs
    BY ConfigsAssumption DEF AnyConfig
  <1> QED  BY <1>1 DEF Off, RunStates, Sound, PCs, NoOutcome

(* So is one that has ended a poll. *)
LEMMA PollEndedOK ==
  ASSUME NEW p \in Procs, run[p] \in RunStates
  PROVE  PollEnded(p) \in RunStates /\ Sound(PollEnded(p))
  BY OffOK DEF PollEnded, RunStates, Sound, PCs, AllCommands, Off, NoOutcome

(* And one that has done with a message. *)
LEMMA HandledOK ==
  ASSUME NEW p \in Procs, run[p] \in RunStates, NEW m \in Messages
  PROVE  Handled(p, m) \in RunStates /\ Sound(Handled(p, m))
  BY DEF Handled, RunStates, Sound, PCs, NoOutcome

(* The entry of a mapped message is an entry. *)
LEMMA EntryOK ==
  ASSUME NEW m \in Messages, NEW c \in Configs, Mapped(m, c)
  PROVE  Entry(m, c) \in Entries
  BY DEF Entries

(* Key maps messages to keys. *)
LEMMA KeyOK == \A m \in Messages : Key(m) \in Keys
  BY DEF Keys

(* A process may go anywhere where nothing has to be held. *)
LEMMA PlaceOK ==
  ASSUME NEW r \in RunStates, NEW pc \in PCs \ {"find", "create", "finish", "advance"}
  PROVE  [r EXCEPT !.pc = pc] \in RunStates /\ Sound([r EXCEPT !.pc = pc])
  BY DEF RunStates, Sound

(* What a process may become keeps the type of run. *)
LEMMA BecomesOK ==
  ASSUME NEW p \in Procs, NEW r, r \in RunStates, Sound(r), Becomes(p, r),
         run \in [Procs -> RunStates], \A q \in Procs : Sound(run[q])
  PROVE  run' \in [Procs -> RunStates] /\ \A q \in Procs : Sound(run'[q])
  BY DEF Becomes

(* Trouble stays within its budget, and costs polls nothing but messages. *)
TroublesOK == faults \in 0..MaxFaults /\ missed \subseteq Messages

LEMMA FaultOK ==
  ASSUME TypeOK, NEW kind, Fault(kind)
  PROVE  TroublesOK'
  BY SyncAssumption DEF Fault, Trips, TypeOK, TroublesOK

LEMMA FaultWithOK ==
  ASSUME TypeOK, NEW p \in Procs, NEW m \in Messages, NEW kind, FaultWith(p, m, kind)
  PROVE  TroublesOK'
  BY SyncAssumption DEF FaultWith, Trips, TypeOK, TroublesOK

LEMMA NoTroubleOK ==
  ASSUME TypeOK, UNCHANGED troubleVars
  PROVE  TroublesOK'
  BY DEF troubleVars, TypeOK, TroublesOK

LEMMA RequestFailsOK ==
  ASSUME TypeOK, NEW p \in Procs, NEW kind, RequestFails(p, kind)
  PROVE  TroublesOK'
  BY FaultOK, NoTroubleOK DEF RequestFails

(* So it is with what a fetch returns. *)
LEMMA ReceivedOK ==
  ASSUME TypeOK, NEW p \in Procs, NEW asked \in SUBSET Messages, NEW got, Received(p, asked, got)
  PROVE  TroublesOK'
  BY FaultWithOK, NoTroubleOK DEF Received

(* A process that moves to a proper state while the shared state keeps its  *)
(* type keeps the type of everything.                                       *)
LEMMA StepOK ==
  ASSUME TypeOK, NEW p \in Procs, NEW r, Becomes(p, r), r \in RunStates, Sound(r),
         messages' \in [Keys -> Rows], lastUID' \in 0..(UIDModulus - 1), lastPollOK' \in BOOLEAN,
         ledger' \in Seq(Entries), UNCHANGED <<mailbox, removed>>, late' \subseteq Entries,
         TroublesOK'
  PROVE  TypeOK'
  BY BecomesOK DEF TypeOK, TroublesOK

(* A process that only changes its own state. *)
LEMMA LocalOK ==
  ASSUME TypeOK, NEW p \in Procs, NEW r, Becomes(p, r), r \in RunStates, Sound(r),
         UNCHANGED <<storeVars, mailbox, fireflyVars>>, TroublesOK'
  PROVE  TypeOK'
  BY StepOK DEF TypeOK

(* A process that goes elsewhere, or is done. *)
LEMMA GoOK ==
  ASSUME TypeOK, NEW p \in Procs,
         \/ Becomes(p, Off) \/ Becomes(p, PollEnded(p))
         \/ \E pc \in PCs \ {"find", "create", "finish", "advance"} : Goto(p, pc),
         UNCHANGED <<storeVars, mailbox, fireflyVars>>, TroublesOK'
  PROVE  TypeOK'
  <1>1. run[p] \in RunStates
    BY DEF TypeOK
  <1>2. CASE Becomes(p, Off)
    BY <1>2, OffOK, LocalOK
  <1>3. CASE Becomes(p, PollEnded(p))
    BY <1>1, <1>3, PollEndedOK, LocalOK
  <1>4. CASE \E pc \in PCs \ {"find", "create", "finish", "advance"} : Goto(p, pc)
    BY <1>1, <1>4, PlaceOK, LocalOK DEF Goto
  <1> QED  BY <1>2, <1>3, <1>4

(* A process that has concluded what to record. *)
LEMMA ConcludesOK ==
  ASSUME NEW p \in Procs, run[p] \in RunStates, Sound(run[p]), run[p].pc \in {"find", "create"},
         NEW status \in {"imported", "duplicate", "failed"}, NEW id \in Nat,
         NEW r, r = [run[p] EXCEPT !.pc = "finish", !.outcome = [status |-> status, fireflyID |-> id]]
  PROVE  r \in RunStates /\ Sound(r)
  BY DEF RunStates, Sound, PCs

(* A process at work has a message and, until it concludes, an entry. *)
LEMMA CurOK ==
  ASSUME TypeOK, NEW p \in Procs
  PROVE  /\ run[p].pc \in {"find", "create", "finish", "advance"} =>
               run[p].cur \in Messages /\ Key(run[p].cur) \in Keys
         /\ run[p].pc \in {"find", "create"} => CurEntry(p) \in Entries
  BY KeyOK, EntryOK DEF TypeOK, Sound, RunStates, CurEntry

(* The operations of the store keep the type of its table. *)
LEMMA ClaimOK ==
  ASSUME TypeOK, NEW k \in Keys, NEW uid \in Nat, Claim(k, uid)
  PROVE  messages' \in [Keys -> Rows]
  BY DEF Claim, TypeOK, Rows, Statuses

LEMMA FinishOK ==
  ASSUME TypeOK, NEW k \in Keys, NEW o, o.status \in Statuses, o.fireflyID \in Nat, Finish(k, o)
  PROVE  messages' \in [Keys -> Rows]
  BY DEF Finish, TypeOK, Rows, Statuses

LEMMA ReleaseOK ==
  ASSUME TypeOK, ReleasePending
  PROVE  messages' \in [Keys -> Rows]
  <1>1. ASSUME NEW k \in Keys
        PROVE  messages[k] \in Rows /\ [messages[k] EXCEPT !.status = "failed"] \in Rows
    BY DEF TypeOK, Rows, Statuses
  <1> QED  BY <1>1 DEF ReleasePending

LEMMA DeleteOK ==
  ASSUME TypeOK, NEW ks, Delete(ks)
  PROVE  messages' \in [Keys -> Rows]
  BY DEF Delete, TypeOK, Rows, Statuses, Absent

(* So does the one operation of the server. *)
LEMMA PostOK ==
  ASSUME TypeOK, NEW e \in Entries, Post(e)
  PROVE  ledger' \in Seq(Entries)
  BY DEF Post, TypeOK

(* Every step keeps every variable in its type. *)
LEMMA TypeStep == TypeOK /\ [Next]_vars => TypeOK'
  <1> SUFFICES ASSUME TypeOK, [Next]_vars PROVE TypeOK'
    OBVIOUS
  <1> USE SyncAssumption
  <1>1. CASE UNCHANGED vars
    BY <1>1 DEF vars, troubleVars, TypeOK
  <1>2. ASSUME NEW p \in Procs, Start(p) \/ Step(p) \/ Trouble(p) PROVE TypeOK'
    <2> DEFINE r == run[p]
    <2>r. r \in RunStates /\ Sound(r)
      BY DEF TypeOK
    <2>f. UNCHANGED troubleVars => TroublesOK'
      BY NoTroubleOK
    <2>1. CASE Start(p)
      <3>1. PICK command \in Commands, c \in Configs :
               Becomes(p, [Off EXCEPT !.pc = "verify", !.cmd = command, !.conf = c])
        BY <2>1 DEF Start
      <3>2. [Off EXCEPT !.pc = "verify", !.cmd = command, !.conf = c] \in RunStates
        BY OffOK DEF RunStates, PCs, Off
      <3>3. Sound([Off EXCEPT !.pc = "verify", !.cmd = command, !.conf = c])
        BY DEF Sound, Off
      <3> QED  BY <3>1, <3>2, <3>3, <2>1, <2>f, LocalOK DEF Start
    <2>2. CASE VerifyRelease(p)
      <3>1. PICK pc \in {FirstStep(p), "ping"} : Goto(p, pc)
        BY <2>2 DEF VerifyRelease
      <3>2. pc \in PCs \ {"find", "create", "finish", "advance"}
        BY DEF FirstStep, PCs
      <3>3. [r EXCEPT !.pc = pc] \in RunStates /\ Sound([r EXCEPT !.pc = pc])
        BY <2>r, <3>2, PlaceOK
      <3>4. messages' \in [Keys -> Rows]
        BY <2>2, ReleaseOK DEF VerifyRelease
      <3> QED  BY <3>1, <3>3, <3>4, <2>2, <2>f, StepOK DEF VerifyRelease, ReleasePending, Goto, TypeOK
    <2>3. CASE VerifyPing(p) \/ VerifyFails(p)
      <3>1. FirstStep(p) \in PCs \ {"find", "create", "finish", "advance"}
        BY DEF FirstStep, PCs
      <3> QED  BY <2>3, <2>f, <3>1, GoOK, RequestFailsOK DEF VerifyPing, VerifyFails
    <2>4. CASE ReadWatermark(p)
      <3>0. lastUID \in Nat
        BY StoreAssumption DEF TypeOK
      <3>1. [r EXCEPT !.pc = "fetch", !.after = lastUID] \in RunStates
        BY <2>r, <3>0 DEF RunStates, PCs
      <3>2. Sound([r EXCEPT !.pc = "fetch", !.after = lastUID])
        BY <2>r DEF RunStates, Sound
      <3> QED  BY <2>4, <2>f, <3>1, <3>2, LocalOK DEF ReadWatermark
    <2>5. CASE PollFetch(p)
      <3>1. PICK batch \in SUBSET Messages :
               Becomes(p, [r EXCEPT !.pc = "next", !.after = 0, !.batch = batch])
        BY <2>5 DEF PollFetch, Fetch
      <3>2. [r EXCEPT !.pc = "next", !.after = 0, !.batch = batch] \in RunStates
        BY <2>r DEF RunStates, PCs
      <3>3. Sound([r EXCEPT !.pc = "next", !.after = 0, !.batch = batch])
        BY <2>r DEF RunStates, Sound
      <3>4. TroublesOK'
        BY <2>5, ReceivedOK DEF PollFetch, Fetch
      <3> QED  BY <2>5, <3>1, <3>2, <3>3, <3>4, LocalOK DEF PollFetch
    <2>6. CASE FetchFails(p)
      BY <2>6, GoOK, RequestFailsOK DEF FetchFails
    <2>7. CASE Interrupted(p) \/ BatchDone(p) \/ Wake(p) \/ Shutdown(p)
      BY <2>7, <2>f, GoOK DEF Interrupted, BatchDone, Wake, Shutdown, PCs
    <2>8. CASE PollOK(p)
      BY <2>8, <2>r, <2>f, PollEndedOK, StepOK DEF PollOK, MarkPollOK, TypeOK
    <2>9. CASE Preview(p)
      <3>1. PICK m \in r.batch : Takes(p, m) /\ Becomes(p, [r EXCEPT !.batch = @ \ {m}])
        BY <2>9 DEF Preview
      <3>2. [r EXCEPT !.batch = @ \ {m}] \in RunStates /\ Sound([r EXCEPT !.batch = @ \ {m}])
        BY <2>r, <3>1 DEF RunStates, Sound, Takes, At
      <3> QED  BY <2>9, <2>f, <3>1, <3>2, LocalOK DEF Preview
    <2>10. CASE ClaimWon(p)
      <3>1. PICK m \in r.batch : Takes(p, m) /\ Claim(Key(m), m.uid) /\ Becomes(p, Claimed(p, m))
        BY <2>10 DEF ClaimWon
      <3>2. m \in Messages /\ m.uid \in Nat
        BY <2>r, MessagesAssumption DEF RunStates, MessageFields
      <3>3. Claimed(p, m) \in RunStates
        BY <2>r, <3>2 DEF RunStates, Claimed, Triage, PCs, NoOutcome
      <3>4. Sound(Claimed(p, m))
        BY <2>r, <3>2 DEF RunStates, Sound, Claimed, Triage
      <3>5. messages' \in [Keys -> Rows]
        BY <3>1, <3>2, ClaimOK, KeyOK
      <3> QED  BY <2>10, <2>f, <3>1, <3>3, <3>4, <3>5, StepOK DEF ClaimWon, Claim, TypeOK
    <2>11. CASE AlreadyClaimed(p)
      <3>1. PICK m \in r.batch : Becomes(p, Handled(p, m))
        BY <2>11 DEF AlreadyClaimed
      <3>2. m \in Messages
        BY <2>r DEF RunStates
      <3> QED  BY <2>r, <2>11, <2>f, <3>1, <3>2, HandledOK, LocalOK DEF AlreadyClaimed
    <2>12. CASE Find(p)
      <3>1. PICK found \in BOOLEAN :
               IF found THEN Concludes(p, "duplicate", 0) ELSE Goto(p, "create")
        BY <2>12 DEF Find, FindByExternalID
      <3>2. CASE found
        BY <2>r, <2>f, <2>12, <3>1, <3>2, ConcludesOK, LocalOK DEF Find, At, Concludes
      <3>3. CASE ~found
        <4>1. [r EXCEPT !.pc = "create"] \in RunStates /\ Sound([r EXCEPT !.pc = "create"])
          BY <2>r, <2>12 DEF RunStates, Sound, PCs, Find, At
        <4> QED  BY <2>f, <2>12, <3>1, <3>3, <4>1, LocalOK DEF Find, Goto
      <3> QED  BY <3>2, <3>3
    <2>13. CASE FindFails(p)
      BY <2>r, <2>13, RequestFailsOK, ConcludesOK, LocalOK DEF FindFails, At, Concludes
    <2>14. CASE Create(p)
      <3>1. ledger' \in Seq(Entries)
        BY <2>14, CurOK, PostOK DEF Create, At
      <3>2. Len(ledger) + 1 \in Nat
        BY DEF TypeOK
      <3>3. PICK status \in {"imported", "duplicate", "failed"}, id \in Nat : Concludes(p, status, id)
        BY <2>14, <3>2 DEF Create
      <3> QED  BY <2>r, <2>f, <2>14, <3>1, <3>3, ConcludesOK, StepOK
               DEF Create, At, Concludes, TypeOK
    <2>15. CASE CreateFails(p)
      BY <2>r, <2>15, RequestFailsOK, ConcludesOK, LocalOK DEF CreateFails, At, Concludes
    <2>16. CASE CreateReplyLost(p)
      <3>1. ledger' \in Seq(Entries)
        BY <2>16, CurOK, PostOK DEF CreateReplyLost, At
      <3> QED  BY <2>r, <2>16, <3>1, RequestFailsOK, ConcludesOK, StepOK
               DEF CreateReplyLost, At, Concludes, TypeOK
    <2>17. CASE CreateTimesOut(p)
      <3>1. late' \subseteq Entries
        BY <2>17, CurOK DEF CreateTimesOut, At, TypeOK
      <3> QED  BY <2>r, <2>17, <3>1, RequestFailsOK, ConcludesOK, StepOK
               DEF CreateTimesOut, At, Concludes, TypeOK
    <2>18. CASE FinishMessage(p)
      <3>1. r.cur \in Messages /\ Key(r.cur) \in Keys
        BY <2>18, CurOK DEF FinishMessage, At
      <3>2. r.outcome.status \in Statuses /\ r.outcome.fireflyID \in Nat
        BY <2>r, <2>18 DEF RunStates, Sound, Statuses, FinishMessage, At
      <3>3. messages' \in [Keys -> Rows]
        BY <2>18, <3>1, <3>2, FinishOK DEF FinishMessage
      <3> QED  BY <2>r, <2>f, <2>18, <3>1, <3>3, HandledOK, StepOK DEF FinishMessage, Finish, TypeOK
    <2>19. CASE Advance(p)
      <3>1. r.cur \in Messages /\ r.cur.uid \in Nat
        BY <2>19, CurOK, MessagesAssumption DEF Advance, At, MessageFields
      <3>2. lastUID' \in 0..(UIDModulus - 1)
        BY <2>19, <3>1, StoreAssumption DEF Advance, SetLastUID, NextWatermark
      <3>3. [r EXCEPT !.pc = "next", !.cur = NoMessage] \in RunStates
        BY <2>r DEF RunStates, PCs
      <3>4. Sound([r EXCEPT !.pc = "next", !.cur = NoMessage])
        BY <2>r DEF RunStates, Sound
      <3> QED  BY <2>f, <2>19, <3>2, <3>3, <3>4, StepOK DEF Advance, SetLastUID, TypeOK
    <2>20. CASE ImportFetch(p)
      <3>1. PICK batch \in SUBSET Messages :
               Becomes(p, IF batch = {} THEN Off ELSE [r EXCEPT !.pc = "next", !.batch = batch])
        BY <2>20 DEF ImportFetch, FetchUIDs
      <3>2. [r EXCEPT !.pc = "next", !.batch = batch] \in RunStates
        BY <2>r DEF RunStates, PCs
      <3>3. Sound([r EXCEPT !.pc = "next", !.batch = batch])
        BY <2>r DEF RunStates, Sound
      <3>4. TroublesOK'
        BY <2>20, ReceivedOK DEF ImportFetch, FetchUIDs
      <3> QED  BY <2>20, <3>1, <3>2, <3>3, <3>4, OffOK, LocalOK DEF ImportFetch
    <2>21. CASE ReplayList(p) \/ ReplayListMore(p)
      <3>1. PICK ks \in SUBSET Keys :
               \/ ListingDone(p, Listed(p, ks))
               \/ Becomes(p, [r EXCEPT !.pc = "list more", !.picked = Listed(p, ks)])
        BY <2>21 DEF ReplayList, ReplayListMore, ByStatus
      <3>2. Listed(p, ks) \in SUBSET [key: Keys, uid: Nat]
        BY <2>r DEF Listed, RunStates, TypeOK, Rows
      <3>3. ASSUME NEW pc \in {"list more", "refetch", "delete"}
            PROVE  /\ [r EXCEPT !.picked = Listed(p, ks), !.pc = pc] \in RunStates
                   /\ Sound([r EXCEPT !.picked = Listed(p, ks), !.pc = pc])
        BY <2>r, <3>2 DEF RunStates, Sound, PCs
      <3>4. \/ Becomes(p, Off)
            \/ \E pc \in {"list more", "refetch", "delete"} :
                  Becomes(p, [r EXCEPT !.picked = Listed(p, ks), !.pc = pc])
        BY <3>1 DEF ListingDone
      <3> QED  BY <2>21, <2>f, <3>3, <3>4, OffOK, LocalOK DEF ReplayList, ReplayListMore
    <2>22. CASE ReplayDelete(p)
      <3>1. messages' \in [Keys -> Rows]
        BY <2>22, DeleteOK DEF ReplayDelete
      <3>2. "refetch" \in PCs \ {"find", "create", "finish", "advance"}
        BY DEF PCs
      <3> QED  BY <2>r, <2>f, <2>22, <3>1, <3>2, PlaceOK, StepOK
               DEF ReplayDelete, Delete, Goto, TypeOK
    <2>23. CASE ReplayFetch(p)
      <3>1. PICK batch \in SUBSET Messages :
               Becomes(p, [r EXCEPT !.pc = "next", !.picked = {}, !.batch = batch])
        BY <2>23 DEF ReplayFetch, FetchUIDs
      <3>2. [r EXCEPT !.pc = "next", !.picked = {}, !.batch = batch] \in RunStates
        BY <2>r DEF RunStates, PCs
      <3>3. Sound([r EXCEPT !.pc = "next", !.picked = {}, !.batch = batch])
        BY <2>r DEF RunStates, Sound
      <3>4. TroublesOK'
        BY <2>23, ReceivedOK DEF ReplayFetch, FetchUIDs
      <3> QED  BY <2>23, <3>1, <3>2, <3>3, <3>4, LocalOK DEF ReplayFetch
    <2>24. CASE StoreFails(p)
      <3>1. r.batch \in SUBSET Messages /\ (r.pc = "finish" => r.cur \in Messages)
        BY <2>r DEF RunStates, Sound
      <3>2. TroublesOK'
        BY <2>24, <3>1, FaultOK, FaultWithOK DEF StoreFails
      <3>3. CASE \E m \in Messages : Becomes(p, Handled(p, m))
        BY <2>r, <2>24, <3>2, <3>3, HandledOK, LocalOK DEF StoreFails
      <3>4. CASE Becomes(p, Off) \/ Becomes(p, PollEnded(p))
        BY <2>24, <3>2, <3>4, GoOK DEF StoreFails
      <3> QED  BY <2>24, <3>1, <3>3, <3>4 DEF StoreFails, At
    <2>25. CASE Crash(p) \/ Panic(p)
      BY <2>25, GoOK, FaultOK DEF Crash, Panic
    <2>26. CASE Signal(p)
      <3>1. [r EXCEPT !.cancelled = TRUE] \in RunStates /\ Sound([r EXCEPT !.cancelled = TRUE])
        BY <2>r DEF RunStates, Sound
      <3> QED  BY <2>26, <3>1, LocalOK, FaultOK DEF Signal
    <2> QED  BY <1>2, <2>1, <2>2, <2>3, <2>4, <2>5, <2>6, <2>7, <2>8, <2>9, <2>10, <2>11, <2>12,
                <2>13, <2>14, <2>15, <2>16, <2>17, <2>18, <2>19, <2>20, <2>21, <2>22, <2>23,
                <2>24, <2>25, <2>26 DEF Step, Trouble
  <1>3. ASSUME World PROVE TypeOK'
    <2>1. CASE MailArrives
      BY <2>1 DEF MailArrives, Deliver, TypeOK, troubleVars
    <2>2. CASE MailLeaves
      <3>1. TroublesOK'
        BY <2>2, FaultOK DEF MailLeaves
      <3> QED  BY <2>2, <3>1 DEF MailLeaves, Age, Expunge, TypeOK, TroublesOK
    <2>3. CASE LateRequest
      <3>1. PICK e \in late : PostLate(e)
        BY <2>3 DEF LateRequest
      <3>2. ledger' \in Seq(Entries) /\ late' \subseteq Entries
        BY <3>1, PostOK DEF PostLate, TypeOK
      <3> QED  BY <2>3, <3>1, <3>2 DEF LateRequest, PostLate, TypeOK, troubleVars
    <2>4. CASE CorrectByHand
      <3>1. PICK k \in Keys : Remove(messages[k].fireflyID) /\ MarkIgnored(k)
        BY <2>4 DEF CorrectByHand
      <3>2. messages' \in [Keys -> Rows]
        BY <3>1 DEF MarkIgnored, TypeOK, Rows, Statuses
      <3>3. removed' \subseteq Nat
        BY <3>1 DEF Remove, TypeOK, Rows
      <3>4. TroublesOK'
        BY <2>4, FaultOK DEF CorrectByHand
      <3> QED  BY <2>4, <3>1, <3>2, <3>3, <3>4 DEF CorrectByHand, Remove, MarkIgnored, TypeOK, TroublesOK
    <2>5. CASE NewVolume
      <3>1. messages' \in [Keys -> Rows] /\ lastUID' \in 0..(UIDModulus - 1)
        BY <2>5, StoreAssumption DEF NewVolume, LoseStore, Rows, Absent
      <3>2. TroublesOK'
        BY <2>5, FaultOK DEF NewVolume
      <3> QED  BY <2>5, <3>1, <3>2 DEF NewVolume, LoseStore, TypeOK, TroublesOK
    <2> QED  BY <1>3, <2>1, <2>2, <2>3, <2>4, <2>5 DEF World
  <1> QED  BY <1>1, <1>2, <1>3 DEF Next

(* TypeOK holds in every state of the importer, whatever the alerts, the    *)
(* configurations, the processes, the commands and the faults.              *)
THEOREM TypeCorrect == Spec => []TypeOK
  <1>1. SyncInit => TypeOK
    <2> SUFFICES ASSUME SyncInit PROVE TypeOK
      OBVIOUS
    <2>0. Absent \in Rows
      BY DEF Rows, Absent
    <2>1. messages \in [Keys -> Rows]
      BY <2>0 DEF SyncInit, StoreInit
    <2>6. lastUID \in 0..(UIDModulus - 1)
      BY StoreAssumption DEF SyncInit, StoreInit
    <2>7. lastPollOK \in BOOLEAN
      BY DEF SyncInit, StoreInit
    <2>2. ledger \in Seq(Entries) /\ removed \subseteq Nat /\ late \subseteq Entries
      BY DEF SyncInit, FireflyInit
    <2>3. mailbox \in [Messages -> {"unsent", "recent", "old", "expunged"}]
      BY DEF SyncInit, MailboxInit
    <2>4. run \in [Procs -> RunStates] /\ \A p \in Procs : Sound(run[p])
      BY OffOK DEF SyncInit
    <2>5. faults \in 0..MaxFaults /\ missed \subseteq Messages
      BY SyncAssumption DEF SyncInit
    <2> QED  BY <2>1, <2>2, <2>3, <2>4, <2>5, <2>6, <2>7 DEF TypeOK
  <1> QED  BY <1>1, TypeStep, PTL DEF Spec

(* A step of a process changes that process and no other one. *)
LEMMA OneMoves ==
  ASSUME TypeOK, NEW p \in Procs, Start(p) \/ Step(p) \/ Trouble(p)
  PROVE  \A q \in Procs : q # p => run'[q] = run[q]
  <1>1. \E r : Becomes(p, r)
    BY DEF Step, Trouble, Start, VerifyRelease, VerifyPing, VerifyFails, ReadWatermark,
         PollFetch, FetchFails, Interrupted, BatchDone, PollOK,
         Wake, Shutdown, Preview, ClaimWon, AlreadyClaimed, Find, FindFails, Create, CreateFails,
         CreateReplyLost, CreateTimesOut, FinishMessage, Advance, ImportFetch, ReplayList,
         ReplayListMore, ReplayDelete, ReplayFetch, StoreFails, Crash, Panic, Signal,
         Goto, Concludes, ListingDone
  <1> QED  BY <1>1 DEF Becomes, TypeOK

(* The world changes no process. *)
LEMMA WorldKeepsRun == World => run' = run
  BY DEF World, MailArrives, MailLeaves, LateRequest, CorrectByHand, NewVolume

(* The steps that leave a process at work on a message. *)
LEMMA ToWork ==
  ASSUME TypeOK, NEW p \in Procs, Start(p) \/ Step(p) \/ Trouble(p),
         run'[p].pc \in {"find", "create", "finish"}, run'[p] # run[p]
  PROVE  \/ ClaimWon(p) \/ Find(p) \/ FindFails(p) \/ Create(p) \/ CreateFails(p)
         \/ CreateReplyLost(p) \/ CreateTimesOut(p) \/ Signal(p)
  <1>1. run[p] \in RunStates /\ \A r : Becomes(p, r) => run'[p] = r
    BY DEF TypeOK, Becomes
  <1>2. /\ \A m : Handled(p, m).pc \notin {"find", "create", "finish"}
        /\ PollEnded(p).pc \in {"off", "idle"} /\ Off.pc = "off"
        /\ \A pc : Goto(p, pc) => pc \in {"find", "create", "finish"}
    BY <1>1 DEF Handled, PollEnded, Off, Goto, RunStates
  <1>3. \A picked : ~ListingDone(p, picked)
    BY <1>1, <1>2 DEF ListingDone, RunStates
  <1>4. ~(VerifyRelease(p) \/ VerifyPing(p) \/ VerifyFails(p))
    <2>1. FirstStep(p) \in {"import", "list", "poll"}
      BY DEF FirstStep
    <2> QED  BY <1>1, <1>2, <2>1 DEF VerifyRelease, VerifyPing, VerifyFails
  <1>11. ~(Start(p) \/ ReadWatermark(p))
    <2>1. ASSUME NEW command, NEW c,
                 Becomes(p, [Off EXCEPT !.pc = "verify", !.cmd = command, !.conf = c])
          PROVE  FALSE
      BY <1>1, <2>1 DEF Off
    <2>2. ~ReadWatermark(p)
      BY <1>1 DEF ReadWatermark, RunStates
    <2> QED  BY <2>1, <2>2 DEF Start
  <1>5. ~(PollFetch(p) \/ FetchFails(p))
    BY <1>1, <1>2 DEF PollFetch, FetchFails, RunStates
  <1>6. ~(Interrupted(p) \/ BatchDone(p) \/ PollOK(p) \/ Wake(p) \/ Shutdown(p))
    BY <1>1, <1>2 DEF Interrupted, BatchDone, PollOK, Wake, Shutdown
  <1>7. ~(Preview(p) \/ AlreadyClaimed(p) \/ FinishMessage(p) \/ Advance(p))
    BY <1>1, <1>2 DEF Preview, Takes, At, AlreadyClaimed, FinishMessage, Advance, RunStates
  <1>8. ~(ImportFetch(p) \/ ReplayDelete(p) \/ ReplayFetch(p))
    <2>1. ASSUME NEW b, Becomes(p, [run[p] EXCEPT !.pc = "next", !.batch = b])
          PROVE  FALSE
      BY <1>1, <2>1 DEF RunStates
    <2>2. ~ImportFetch(p)
      BY <1>1, <1>2, <2>1 DEF ImportFetch
    <2>3. ~ReplayDelete(p)
      BY <1>2 DEF ReplayDelete
    <2>4. ASSUME NEW b, Becomes(p, [run[p] EXCEPT !.pc = "next", !.picked = {}, !.batch = b])
          PROVE  FALSE
      BY <1>1, <2>4 DEF RunStates
    <2>5. ~ReplayFetch(p)
      BY <2>4 DEF ReplayFetch
    <2> QED  BY <2>2, <2>3, <2>5
  <1>9. ~(ReplayList(p) \/ ReplayListMore(p))
    BY <1>1, <1>3 DEF ReplayList, ReplayListMore, RunStates
  <1>10. ~(StoreFails(p) \/ Crash(p) \/ Panic(p))
    BY <1>1, <1>2 DEF StoreFails, Crash, Panic
  <1> QED  BY <1>4, <1>5, <1>6, <1>7, <1>8, <1>9, <1>10, <1>11 DEF Step, Trouble

(* The steps that change the ledger or the requests on their way: a process *)
(* sends the entry of its message, and has only the outcome left to write.  *)
LEMMA BookStep ==
  ASSUME TypeOK, NEW p \in Procs, Start(p) \/ Step(p) \/ Trouble(p)
  PROVE  \/ UNCHANGED <<ledger, late>>
         \/ /\ run[p].pc = "create" /\ run'[p].pc = "finish" /\ run'[p].cur = run[p].cur
            /\ \/ ledger' = Append(ledger, CurEntry(p)) /\ late' = late
               \/ ledger' = ledger /\ late' = late \cup {CurEntry(p)}
  <1>1. CASE Create(p) \/ CreateReplyLost(p) \/ CreateTimesOut(p)
    <2>1. \E status, id : Concludes(p, status, id)
      BY <1>1 DEF Create, CreateReplyLost, CreateTimesOut
    <2>2. run'[p].pc = "finish" /\ run'[p].cur = run[p].cur
      BY <2>1 DEF Concludes, Becomes, TypeOK, RunStates
    <2> QED  BY <1>1, <2>2 DEF Create, CreateReplyLost, CreateTimesOut, Post, At
  <1>2. CASE ~(Create(p) \/ CreateReplyLost(p) \/ CreateTimesOut(p))
    BY <1>2 DEF Step, Trouble, Start, VerifyRelease, VerifyPing, VerifyFails, ReadWatermark,
         PollFetch, FetchFails, Interrupted, BatchDone, PollOK, Wake, Shutdown,
         Preview, ClaimWon, AlreadyClaimed, Find, FindFails, CreateFails,
         FinishMessage, Advance, ImportFetch, ReplayList, ReplayListMore, ReplayDelete,
         ReplayFetch, StoreFails, Crash, Panic, Signal
  <1> QED  BY <1>1, <1>2

(* A process at work has just claimed its message, or was at work on it     *)
(* before; from the writing of the outcome it does not go back to it.       *)
LEMMA WorkStep ==
  ASSUME TypeOK, NEW p \in Procs, Start(p) \/ Step(p) \/ Trouble(p), Handling(p)'
  PROVE  \/ ClaimWon(p)
         \/ /\ Handling(p) /\ run'[p].cur = run[p].cur
            /\ run'[p].pc # "finish" => run[p].pc # "finish"
  <1>1. run'[p].pc \in {"find", "create", "finish"}
    BY DEF Handling
  <1>2. CASE run'[p] = run[p]
    BY <1>1, <1>2 DEF Handling
  <1>3. CASE Signal(p)
    <2>1. run'[p].pc = run[p].pc /\ run'[p].cur = run[p].cur
      BY <1>3 DEF Signal, Becomes, TypeOK, RunStates
    <2> QED  BY <1>1, <1>3, <2>1 DEF Handling, Signal
  <1>4. CASE FindFails(p) \/ Create(p) \/ CreateFails(p) \/ CreateReplyLost(p) \/ CreateTimesOut(p)
    <2>1. \E status, id : Concludes(p, status, id)
      BY <1>4 DEF FindFails, Create, CreateFails, CreateReplyLost, CreateTimesOut
    <2>2. run'[p].pc = "finish" /\ run'[p].cur = run[p].cur
      BY <2>1 DEF Concludes, Becomes, TypeOK, RunStates
    <2> QED
      BY <1>4, <2>2 DEF FindFails, Create, CreateFails, CreateReplyLost, CreateTimesOut, At, Handling
  <1>5. CASE Find(p)
    <2>1. Concludes(p, "duplicate", 0) \/ Goto(p, "create")
      BY <1>5 DEF Find
    <2>2. run'[p].cur = run[p].cur
      BY <2>1 DEF Concludes, Goto, Becomes, TypeOK, RunStates
    <2> QED  BY <1>5, <2>2 DEF Find, At, Handling
  <1> QED  BY <1>1, <1>2, <1>3, <1>4, <1>5, ToWork
=============================================================================
