---------------------------- MODULE WatermarkProofs ----------------------------
(***************************************************************************)
(* The watermark.  With one process at a time it never moves back; with    *)
(* any number of polls and imports at once it hides nothing that has no    *)
(* record, save a message that directly follows another one and those a    *)
(* poll has missed.  The argument for the second: the batch of a poll is   *)
(* an initial segment of what a poll has left to look at.  Below any       *)
(* message of it, everything in the window has been seen to or is in the   *)
(* batch, and what arrives later has a higher UID; so below the message a  *)
(* poll has just dealt with there is nothing left, and its UID plus one is *)
(* a watermark that covers no gap.                                         *)
(***************************************************************************)
EXTENDS OwnershipProofs, FinalProofs

USE DEF storeVars, fireflyVars

Arrived == {m \in Messages : mailbox[m] # "unsent"}
Recent  == {m \in Messages : mailbox[m] = "recent"}

(* What is recorded, was missed, or directly follows another message. *)
Seen ==
    {m \in Messages :
        Recorded(Key(m)) \/ m \in missed \/ \E n \in Arrived : n.uid + 1 = m.uid}

(* A watermark below which everything has been seen to, now and later. *)
Covers(w) ==
    /\ w = 0 \/ \E n \in Arrived : w = n.uid + 1
    /\ \A m \in Recent : m.uid < w => m \in Seen

Busy == {"find", "create", "finish", "advance"}

(* A poll that claims what it finds; a dry run leaves messages aside. *)
Importing(p) == Polling(p) /\ ~run[p].conf.dryRun

(* The places that polls alone reach, and those they never do. *)
InRole(p) ==
    /\ run[p].pc = "advance" => Polling(p)
    /\ run[p].pc \in {"import", "list", "list more", "delete", "refetch"} => ~Polling(p)

(* What a process knows of the mailbox at each place. *)
InOrder(p) ==
    /\ run[p].pc = "fetch" => Covers(run[p].after)
    /\ run[p].pc \in Busy => ~run[p].conf.dryRun
    /\ Polling(p) => run[p].batch \subseteq Arrived
    /\ Importing(p) =>
          \A b \in run[p].batch, m \in Recent : m.uid < b.uid => m \in Seen \cup run[p].batch
    /\ Polling(p) /\ run[p].pc \in Busy =>
          /\ run[p].cur \in Arrived \cap Seen
          /\ \A m \in Recent : m.uid < run[p].cur.uid => m \in Seen

NothingHidden == Covers(lastUID) /\ \A p \in Procs : InRole(p) /\ InOrder(p)

(* With one process, everything it will move the watermark to is ahead.     *)
AheadOf(p) ==
    /\ run[p].pc = "fetch" => run[p].after = lastUID
    /\ Polling(p) => \A m \in run[p].batch : m.uid + 1 >= lastUID
    /\ Polling(p) /\ run[p].pc \in Busy =>
          /\ run[p].cur.uid + 1 >= lastUID
          /\ \A m \in run[p].batch : run[p].cur.uid <= m.uid

Ahead == \A p \in Procs : InRole(p) /\ AheadOf(p)

----------------------------------------------------------------------------
(* The steps by which a process gets a batch, or leaves a message of it. *)
Notable(p) ==
    \/ ReadWatermark(p) \/ PollFetch(p)
    \/ ImportFetch(p) \/ ReplayFetch(p)
    \/ Preview(p) \/ ClaimWon(p) \/ AlreadyClaimed(p) \/ FinishMessage(p)
    \/ Advance(p) \/ StoreFails(p)

(* A process keeps what it holds, and goes on to a place that needs no more. *)
Same(p) ==
    /\ run'[p].cmd = run[p].cmd /\ run'[p].conf = run[p].conf
    /\ run'[p].batch = run[p].batch /\ run'[p].cur = run[p].cur
    /\ run'[p].after = run[p].after
    /\ \/ run'[p].pc = run[p].pc
       \/ run'[p].pc \in {"ping", "poll", "mark"}
       \/ run[p].pc \in {"find", "create"} /\ run'[p].pc \in {"create", "finish"}
       \/ run'[p].pc \in {"import", "list"} /\ ~Polling(p)
       \/ /\ run[p].pc \in {"list", "list more", "delete"}
          /\ run'[p].pc \in {"list more", "delete", "refetch"}

(* A process holds nothing. *)
Empty(p) == run[p].pc \in {"off", "idle", "verify"} /\ run[p].batch = {}

LEMMA OtherSteps ==
  ASSUME TypeOK, NEW p \in Procs, Start(p) \/ Step(p) \/ Trouble(p), ~Notable(p)
  PROVE  Same(p) \/ Empty(p)'
  <1>1. run[p] \in RunStates /\ \A r : Becomes(p, r) => run'[p] = r
    BY DEF TypeOK, Becomes
  <1>2. Becomes(p, Off) \/ Becomes(p, PollEnded(p)) => Empty(p)'
    <2>1. Off.pc = "off" /\ Off.batch = {}
      BY DEF Off
    <2>2. PollEnded(p).pc \in {"off", "idle"} /\ PollEnded(p).batch = {}
      BY DEF Off, PollEnded
    <2> QED  BY <1>1, <2>1, <2>2 DEF Empty
  <1>3. \A pc : Goto(p, pc) =>
           /\ run'[p].cmd = run[p].cmd /\ run'[p].conf = run[p].conf
           /\ run'[p].batch = run[p].batch /\ run'[p].cur = run[p].cur
           /\ run'[p].after = run[p].after /\ run'[p].pc = pc
    BY <1>1 DEF Goto, RunStates
  <1>4. CASE Start(p)
    BY <1>1, <1>4 DEF Start, Off, Empty
  <1>5. CASE VerifyRelease(p) \/ VerifyPing(p)
    <2>1. \/ FirstStep(p) = "poll"
          \/ FirstStep(p) \in {"import", "list"} /\ ~Polling(p)
      BY DEF FirstStep, Polling
    <2> QED  BY <1>3, <1>5, <2>1 DEF VerifyRelease, VerifyPing, Same
  <1>6. CASE VerifyFails(p) \/ FetchFails(p) \/ Interrupted(p) \/ PollOK(p) \/ Shutdown(p)
             \/ Crash(p) \/ Panic(p)
    BY <1>2, <1>6 DEF VerifyFails, FetchFails, Interrupted, PollOK, Shutdown, Crash, Panic
  <1>7. CASE BatchDone(p) \/ Wake(p)
    BY <1>2, <1>3, <1>7 DEF BatchDone, Wake, Same
  <1>8. CASE Find(p) \/ FindFails(p) \/ Create(p) \/ CreateFails(p) \/ CreateReplyLost(p)
             \/ CreateTimesOut(p)
    <2>1. run[p].pc \in {"find", "create"}
      BY <1>8 DEF Find, FindFails, Create, CreateFails, CreateReplyLost, CreateTimesOut, At
    <2>2. (\E status, id : Concludes(p, status, id)) \/ Goto(p, "create")
      BY <1>8 DEF Find, FindFails, Create, CreateFails, CreateReplyLost, CreateTimesOut
    <2>3. ASSUME NEW status, NEW id, Concludes(p, status, id)
          PROVE  Same(p)
      BY <1>1, <2>1, <2>3 DEF Concludes, Same, RunStates
    <2> QED  BY <1>3, <2>1, <2>2, <2>3 DEF Same
  <1>9. CASE ReplayList(p) \/ ReplayListMore(p)
    <2>1. run[p].pc \in {"list", "list more"}
      BY <1>9 DEF ReplayList, ReplayListMore, At
    <2>2. \/ Becomes(p, Off)
          \/ \E picked :
                \/ Becomes(p, [run[p] EXCEPT !.pc = "list more", !.picked = picked])
                \/ Becomes(p, [run[p] EXCEPT !.picked = picked, !.pc = "delete"])
                \/ Becomes(p, [run[p] EXCEPT !.picked = picked, !.pc = "refetch"])
      BY <1>9 DEF ReplayList, ReplayListMore, ListingDone
    <2> QED  BY <1>1, <1>2, <2>1, <2>2 DEF Same, RunStates
  <1>10. CASE ReplayDelete(p)
    BY <1>3, <1>10 DEF ReplayDelete, At, Same
  <1>11. CASE Signal(p)
    BY <1>1, <1>11 DEF Signal, Same, RunStates
  <1> QED  BY <1>4, <1>5, <1>6, <1>7, <1>8, <1>9, <1>10, <1>11 DEF Step, Trouble, Notable

(* What the notable steps do to a process.                                  *)
LEMMA Reads ==
  ASSUME TypeOK, NEW p \in Procs
  PROVE  /\ ReadWatermark(p) =>
               /\ run[p].pc = "poll" /\ run'[p].pc = "fetch" /\ run'[p].after = lastUID
               /\ run'[p].batch = run[p].batch
         /\ PollFetch(p) =>
               /\ run[p].pc = "fetch" /\ run'[p].pc = "next"
               /\ run'[p].batch \subseteq Fetch(run[p].after)
               /\ Importing(p) => Fetch(run[p].after) \subseteq run'[p].batch \cup missed'
         /\ ImportFetch(p) \/ ReplayFetch(p) =>
               run[p].pc \in {"import", "refetch"} /\ (run'[p].pc = "next" \/ Empty(p)')
         /\ (ReadWatermark(p) \/ PollFetch(p)
             \/ ImportFetch(p) \/ ReplayFetch(p)) /\ ~Empty(p)' =>
               run'[p].cmd = run[p].cmd /\ run'[p].conf = run[p].conf
  <1>1. run[p] \in RunStates /\ \A r : Becomes(p, r) => run'[p] = r
    BY DEF TypeOK, Becomes
  <1>2. CASE ReadWatermark(p)
    <2>1. run'[p] = [run[p] EXCEPT !.pc = "fetch", !.after = lastUID] /\ run[p].pc = "poll"
      BY <1>1, <1>2 DEF ReadWatermark, At
    <2>2. ~(PollFetch(p) \/ ImportFetch(p) \/ ReplayFetch(p))
      BY <2>1 DEF PollFetch, ImportFetch, ReplayFetch, At
    <2> QED  BY <1>1, <2>1, <2>2 DEF RunStates
  <1>3. CASE PollFetch(p)
    <2>1. PICK got \in SUBSET Fetch(run[p].after) :
             /\ Received(p, Fetch(run[p].after), got)
             /\ run'[p] = [run[p] EXCEPT !.pc = "next", !.after = 0, !.batch = got]
      BY <1>1, <1>3 DEF PollFetch
    <2>4. Importing(p) => Fetch(run[p].after) \subseteq got \cup missed'
      BY <2>1 DEF Received, FaultWith, Importing
    <2>2. run[p].pc = "fetch"
      BY <1>3 DEF PollFetch, At
    <2>3. ~(ReadWatermark(p) \/ ImportFetch(p) \/ ReplayFetch(p))
      BY <2>2 DEF ReadWatermark, ImportFetch, ReplayFetch, At
    <2> QED  BY <1>1, <2>1, <2>2, <2>3, <2>4 DEF RunStates
  <1>4. CASE ImportFetch(p) \/ ReplayFetch(p)
    <2>1. run[p].pc \in {"import", "refetch"}
      BY <1>4 DEF ImportFetch, ReplayFetch, At
    <2>2. ~(ReadWatermark(p) \/ PollFetch(p))
      BY <2>1 DEF ReadWatermark, PollFetch, At
    <2>3. \/ run'[p] = Off
          \/ \E b : run'[p] = [run[p] EXCEPT !.pc = "next", !.batch = b]
          \/ \E b : run'[p] = [run[p] EXCEPT !.pc = "next", !.picked = {}, !.batch = b]
      BY <1>1, <1>4 DEF ImportFetch, ReplayFetch
    <2>4. run'[p] = Off => Empty(p)'
      BY DEF Off, Empty
    <2> QED  BY <1>1, <2>1, <2>2, <2>3, <2>4 DEF RunStates
  <1> QED  BY <1>2, <1>3, <1>4

(* A process that leaves a message of its batch: dealt with, claimed, or    *)
(* put aside by a dry run.                                                  *)
LEMMA Leaves ==
  ASSUME TypeOK, NEW p \in Procs
  PROVE  /\ Preview(p) => /\ run[p].conf.dryRun /\ run'[p].pc = "next"
                          /\ run'[p].batch \subseteq run[p].batch
                          /\ run'[p].cmd = run[p].cmd /\ run'[p].conf = run[p].conf
         /\ ClaimWon(p) \/ AlreadyClaimed(p) =>
               \E m \in Oldest(run[p].batch) :
                  /\ ~run[p].conf.dryRun /\ m \in Messages
                  /\ run'[p].cmd = run[p].cmd /\ run'[p].conf = run[p].conf
                  /\ run'[p].batch = run[p].batch \ {m}
                  /\ ClaimWon(p) => run'[p].pc \in {"find", "finish"}
                  /\ AlreadyClaimed(p) =>
                        run'[p].pc = IF Polling(p) THEN "advance" ELSE "next"
                  /\ Polling(p) \/ ClaimWon(p) => run'[p].cur = m
                  /\ AlreadyClaimed(p) => Recorded(Key(m))
  <1>1. run[p] \in RunStates /\ \A r : Becomes(p, r) => run'[p] = r
    BY DEF TypeOK, Becomes
  <1>2. CASE Preview(p)
    <2>1. PICK m \in run[p].batch :
             Takes(p, m) /\ run'[p] = [run[p] EXCEPT !.batch = @ \ {m}]
      BY <1>1, <1>2 DEF Preview
    <2>2. run[p].conf.dryRun /\ run[p].pc = "next" /\ ~ClaimWon(p) /\ ~AlreadyClaimed(p)
      BY <1>2, <2>1 DEF Preview, Takes, At, ClaimWon, AlreadyClaimed
    <2> QED  BY <1>1, <2>1, <2>2 DEF RunStates
  <1>3. CASE ClaimWon(p)
    <2>1. PICK m \in run[p].batch :
             Takes(p, m) /\ Claim(Key(m), m.uid) /\ run'[p] = Claimed(p, m)
      BY <1>1, <1>3 DEF ClaimWon
    <2>2. ~run[p].conf.dryRun /\ m \in Oldest(run[p].batch) /\ m \in Messages
      BY <1>1, <1>3, <2>1 DEF ClaimWon, Takes, RunStates
    <2>3. ~Preview(p) /\ ~AlreadyClaimed(p)
      <3>1. Key(m) \in Keys /\ messages'[Key(m)] # messages[Key(m)]
        BY <2>1, <2>2, KeyOK DEF Claim, Recorded, Absent, TypeOK
      <3> QED  BY <2>2, <3>1 DEF Preview, AlreadyClaimed
    <2>4. /\ run'[p].cmd = run[p].cmd /\ run'[p].conf = run[p].conf
          /\ run'[p].batch = run[p].batch \ {m}
          /\ run'[p].pc \in {"find", "finish"} /\ run'[p].cur = m
      BY <1>1, <2>1 DEF Claimed, RunStates
    <2> QED  BY <2>2, <2>3, <2>4
  <1>4. CASE AlreadyClaimed(p)
    <2>1. PICK m \in run[p].batch :
             Takes(p, m) /\ Recorded(Key(m)) /\ run'[p] = Handled(p, m)
      BY <1>1, <1>4 DEF AlreadyClaimed
    <2>2. ~run[p].conf.dryRun /\ m \in Oldest(run[p].batch) /\ m \in Messages
      BY <1>1, <1>4, <2>1 DEF AlreadyClaimed, Takes, RunStates
    <2>3. ~Preview(p) /\ ~ClaimWon(p)
      <3>1. ~Preview(p)
        BY <2>2 DEF Preview
      <3>2. ASSUME ClaimWon(p) PROVE FALSE
        <4>1. PICK n \in run[p].batch : ~Recorded(Key(n)) /\ Claim(Key(n), n.uid)
          BY <3>2 DEF ClaimWon, Claim
        <4>2. Key(n) \in Keys
          BY <1>1, <4>1, KeyOK DEF RunStates
        <4>3. messages'[Key(n)] # messages[Key(n)]
          BY <4>1, <4>2 DEF Claim, Recorded, Absent, TypeOK
        <4> QED  BY <1>4, <4>3 DEF AlreadyClaimed
      <3> QED  BY <3>1, <3>2
    <2>4. /\ run'[p].cmd = run[p].cmd /\ run'[p].conf = run[p].conf
          /\ run'[p].batch = run[p].batch \ {m}
          /\ run'[p].pc = (IF Polling(p) THEN "advance" ELSE "next")
          /\ Polling(p) => run'[p].cur = m
      BY <1>1, <2>1 DEF Handled, RunStates
    <2> QED  BY <2>1, <2>2, <2>3, <2>4
  <1> QED  BY <1>2, <1>3, <1>4

(* A process that has an outcome written, or moves the watermark. *)
LEMMA Ends ==
  ASSUME TypeOK, NEW p \in Procs
  PROVE  /\ FinishMessage(p) =>
               /\ run[p].pc = "finish"
               /\ run'[p].cmd = run[p].cmd /\ run'[p].conf = run[p].conf
               /\ run'[p].pc = IF Polling(p) THEN "advance" ELSE "next"
               /\ Polling(p) => run'[p].cur = run[p].cur
               /\ run'[p].batch \subseteq run[p].batch /\ run[p].batch \subseteq run'[p].batch \cup {run[p].cur}
         /\ Advance(p) =>
               /\ run[p].pc = "advance" /\ run'[p].pc = "next"
               /\ run'[p].cmd = run[p].cmd /\ run'[p].conf = run[p].conf
               /\ run'[p].batch = run[p].batch
               /\ lastUID' = NextWatermark(run[p].cur.uid)
  <1>1. run[p] \in RunStates /\ \A r : Becomes(p, r) => run'[p] = r
    BY DEF TypeOK, Becomes
  <1>2. CASE FinishMessage(p)
    <2>1. run'[p] = Handled(p, run[p].cur) /\ run[p].pc = "finish" /\ ~Advance(p)
      BY <1>1, <1>2 DEF FinishMessage, Advance, At
    <2> QED  BY <1>1, <2>1 DEF Handled, RunStates
  <1>3. CASE Advance(p)
    <2>1. /\ run'[p] = [run[p] EXCEPT !.pc = "next", !.cur = NoMessage]
          /\ run[p].pc = "advance" /\ ~FinishMessage(p)
      BY <1>1, <1>3 DEF FinishMessage, Advance, At
    <2> QED  BY <1>1, <1>3, <2>1 DEF RunStates, Advance, SetLastUID
  <1> QED  BY <1>2, <1>3

(* A process goes on as if it had dealt with a message ... *)
DealtWith(p, m) ==
    /\ run'[p].cmd = run[p].cmd /\ run'[p].conf = run[p].conf
    /\ run'[p].batch = run[p].batch \ {m}
    /\ run'[p].pc = IF Polling(p) THEN "advance" ELSE "next"
    /\ Polling(p) => run'[p].cur = m

(* ... that it could not even claim. *)
Abandons(p, m) ==
    /\ m \in Oldest(run[p].batch) /\ ~run[p].conf.dryRun /\ DealtWith(p, m)
    /\ Polling(p) => m \in missed'

(* A statement that fails ends what the process does, or leaves a message   *)
(* as if it were dealt with.                                                *)
LEMMA Fails ==
  ASSUME TypeOK, NEW p \in Procs, StoreFails(p)
  PROVE  \/ Empty(p)'
         \/ run[p].pc = "finish" /\ run[p].cur \in Messages /\ DealtWith(p, run[p].cur)
         \/ \E m \in Messages : Abandons(p, m)
  <1>1. run[p] \in RunStates /\ \A r : Becomes(p, r) => run'[p] = r
    BY DEF TypeOK, Becomes
  <1>2. Becomes(p, Off) \/ Becomes(p, PollEnded(p)) => Empty(p)'
    <2>1. Off.pc = "off" /\ Off.batch = {}
      BY DEF Off
    <2>2. PollEnded(p).pc \in {"off", "idle"} /\ PollEnded(p).batch = {}
      BY DEF Off, PollEnded
    <2> QED  BY <1>1, <2>1, <2>2 DEF Empty
  <1>3. ASSUME NEW m \in Messages, Becomes(p, Handled(p, m))
        PROVE  DealtWith(p, m)
    BY <1>1, <1>3 DEF Handled, RunStates, DealtWith
  <1>4. CASE At(p, "finish") /\ Becomes(p, Handled(p, run[p].cur))
    BY <1>3, <1>4, CurOK DEF At
  <1>5. CASE /\ ~run[p].conf.dryRun
             /\ \E m \in run[p].batch :
                   Takes(p, m) /\ Becomes(p, Handled(p, m)) /\ FaultWith(p, m, "store")
    <2>1. PICK m \in run[p].batch :
             Takes(p, m) /\ Becomes(p, Handled(p, m)) /\ FaultWith(p, m, "store")
      BY <1>5
    <2>2. m \in Messages /\ m \in Oldest(run[p].batch)
      BY <1>1, <2>1 DEF Takes, RunStates
    <2>3. Polling(p) => m \in missed'
      BY <1>5, <2>1 DEF FaultWith
    <2> QED  BY <1>3, <1>5, <2>1, <2>2, <2>3 DEF Abandons
  <1> QED  BY <1>2, <1>4, <1>5 DEF StoreFails

(* Only Advance moves the watermark, and a new volume. *)
LEMMA WatermarkSteps ==
  /\ \A p \in Procs : Start(p) \/ Step(p) \/ Trouble(p) => Advance(p) \/ lastUID' = lastUID
  /\ World => NewVolume \/ lastUID' = lastUID
  BY DEF World, Step, Trouble, Start, VerifyRelease, ReleasePending, VerifyPing,
       VerifyFails, ReadWatermark, PollFetch, FetchFails, Interrupted,
       BatchDone, PollOK, MarkPollOK, Wake, Shutdown, Preview, ClaimWon, Claim,
       AlreadyClaimed, Find, FindFails, Create, CreateFails, CreateReplyLost,
       CreateTimesOut, FinishMessage, Finish, ImportFetch, ReplayList, ReplayListMore,
       ReplayDelete, Delete, ReplayFetch, StoreFails, Crash, Panic, Signal, MailArrives,
       MailLeaves, LateRequest, CorrectByHand, MarkIgnored

----------------------------------------------------------------------------
(* Every UID has a successor within the width of a UID. *)
NoWrap == \A m \in Messages : m.uid + 1 < UIDModulus

(* The roles are kept whatever happens. *)
LEMMA RolesStay ==
  ASSUME TypeOK, NEW p \in Procs, Start(p) \/ Step(p) \/ Trouble(p), InRole(p)
  PROVE  InRole(p)'
  <1>1. CASE Empty(p)'
    BY <1>1 DEF Empty, InRole
  <1>2. CASE Same(p)
    BY <1>2 DEF Same, InRole, Polling
  <1>3. CASE (ReadWatermark(p) \/ PollFetch(p) \/ ImportFetch(p)
              \/ ReplayFetch(p)) /\ ~Empty(p)'
    <2>1. run'[p].pc \in {"fetch", "next"}
      BY <1>3, Reads
    <2> QED  BY <2>1 DEF InRole
  <1>4. CASE Preview(p) \/ ClaimWon(p) \/ AlreadyClaimed(p)
    BY <1>4, Leaves DEF InRole, Polling
  <1>5. CASE FinishMessage(p) \/ Advance(p)
    BY <1>5, Ends DEF InRole, Polling
  <1>6. CASE StoreFails(p) /\ ~Empty(p)'
    BY <1>6, Fails DEF InRole, Polling, Abandons, DealtWith
  <1> QED  BY <1>1, <1>2, <1>3, <1>4, <1>5, <1>6, OtherSteps DEF Notable

(* What a process will move the watermark to stays ahead of it, and the     *)
(* move itself goes forward.                                                *)
LEMMA AheadStep ==
  ASSUME NoWrap, TypeOK, TypeOK', NEW p \in Procs, Start(p) \/ Step(p) \/ Trouble(p),
         InRole(p), AheadOf(p)
  PROVE  AheadOf(p)' /\ lastUID' >= lastUID
  <1>1. run[p] \in RunStates /\ run'[p] \in RunStates /\ lastUID \in Nat
    BY StoreAssumption DEF TypeOK
  <1>2. \A m \in Messages : m.uid \in Nat
    BY MessagesAssumption DEF MessageFields
  <1>3. CASE Advance(p)
    <2>1. run[p].cur \in Messages /\ run[p].pc = "advance" /\ Polling(p)
      BY <1>3, CurOK, Ends DEF InRole
    <2>2. lastUID' = run[p].cur.uid + 1
      BY <1>2, <1>3, <2>1, Ends, StoreAssumption DEF NextWatermark, NoWrap
    <2>3. /\ run[p].cur.uid + 1 >= lastUID
          /\ \A m \in run[p].batch : run[p].cur.uid <= m.uid
      BY <2>1 DEF AheadOf, Busy
    <2>4. \A m \in run'[p].batch : m.uid + 1 >= lastUID'
      BY <1>1, <1>2, <1>3, <2>1, <2>2, <2>3, Ends DEF RunStates
    <2> QED  BY <1>2, <1>1, <2>1, <1>3, <2>2, <2>3, <2>4, Ends DEF AheadOf, Busy
  <1>4. lastUID' >= lastUID
    BY <1>1, <1>3, WatermarkSteps
  <1>5. ASSUME ~Advance(p), Polling(p)', NEW m \in Messages,
               m \in Oldest(run[p].batch), run'[p].cmd = run[p].cmd, run'[p].cur = m,
               run'[p].batch = run[p].batch \ {m}, run'[p].pc # "fetch"
        PROVE  AheadOf(p)'
    <2>1. Polling(p) /\ lastUID' = lastUID
      BY <1>5, WatermarkSteps DEF Polling
    <2>2. m \in run[p].batch /\ \A n \in run[p].batch : m.uid <= n.uid
      BY <1>5 DEF Oldest
    <2> QED  BY <1>5, <2>1, <2>2 DEF AheadOf
  <1>6. ASSUME ~Advance(p), Polling(p)', run[p].pc = "finish", run'[p].cmd = run[p].cmd,
               run'[p].cur = run[p].cur, run'[p].batch \subseteq run[p].batch,
               run'[p].pc # "fetch"
        PROVE  AheadOf(p)'
    <2>1. Polling(p) /\ lastUID' = lastUID
      BY <1>6, WatermarkSteps DEF Polling
    <2> QED  BY <1>6, <2>1 DEF AheadOf, Busy
  <1>7. ASSUME ~Advance(p)
        PROVE  AheadOf(p)'
    <2>0. lastUID' = lastUID
      BY <1>7, WatermarkSteps
    <2>1. CASE Empty(p)'
      BY <2>1 DEF Empty, AheadOf, Busy
    <2>2. CASE Same(p)
      BY <2>0, <2>2 DEF Same, AheadOf, Busy, Polling
    <2>3. CASE ReadWatermark(p)
      BY <2>0, <2>3, Reads DEF AheadOf, Busy, Polling, Empty
    <2>4. CASE PollFetch(p) /\ ~Empty(p)'
      <3>1. \A m \in run'[p].batch : m \in Messages /\ m.uid > lastUID
        BY <2>4, Reads DEF AheadOf, Fetch
      <3>2. \A m \in run'[p].batch : m.uid + 1 >= lastUID'
        BY <1>1, <1>2, <2>0, <3>1
      <3> QED  BY <2>4, <3>2, Reads DEF AheadOf, Busy
    <2>5. CASE (ImportFetch(p) \/ ReplayFetch(p)) /\ ~Empty(p)'
      <3>1. ~Polling(p)'
        BY <2>5, Reads DEF InRole, Polling
      <3> QED  BY <2>5, <3>1, Reads DEF AheadOf
    <2>6. CASE Preview(p)
      BY <2>0, <2>6, Leaves DEF AheadOf, Busy, Polling
    <2>7. CASE ClaimWon(p) \/ AlreadyClaimed(p)
      <3>1. CASE ~Polling(p)'
        <4>1. run'[p].pc # "fetch"
          BY <2>7, Leaves
        <4> QED  BY <3>1, <4>1 DEF AheadOf
      <3>2. CASE Polling(p)'
        <4>1. PICK m \in Oldest(run[p].batch) :
                 /\ m \in Messages /\ run'[p].cmd = run[p].cmd
                 /\ run'[p].batch = run[p].batch \ {m}
                 /\ Polling(p) \/ ClaimWon(p) => run'[p].cur = m
                 /\ run'[p].pc # "fetch"
          BY <2>7, Leaves
        <4> QED  BY <1>5, <1>7, <3>2, <4>1 DEF Polling
      <3> QED  BY <3>1, <3>2
    <2>8. CASE FinishMessage(p)
      <3>1. CASE ~Polling(p)'
        <4>1. run'[p].pc # "fetch"
          BY <2>8, Ends
        <4> QED  BY <3>1, <4>1 DEF AheadOf
      <3>2. CASE Polling(p)'
        <4>1. Polling(p) /\ run'[p].pc # "fetch"
          BY <2>8, <3>2, Ends DEF Polling
        <4> QED  BY <1>6, <1>7, <2>8, <3>2, <4>1, Ends
      <3> QED  BY <3>1, <3>2
    <2>9. CASE StoreFails(p) /\ ~Empty(p)'
      <3>1. PICK m \in Messages :
               /\ \/ run[p].pc = "finish" /\ m = run[p].cur
                  \/ m \in Oldest(run[p].batch)
               /\ run'[p].cmd = run[p].cmd /\ run'[p].batch = run[p].batch \ {m}
               /\ run'[p].pc = IF Polling(p) THEN "advance" ELSE "next"
               /\ Polling(p) => run'[p].cur = m
        BY <2>9, Fails DEF Abandons, DealtWith
      <3>2. run'[p].pc # "fetch" /\ (Polling(p)' => Polling(p))
        BY <3>1 DEF Polling
      <3>3. CASE ~Polling(p)'
        BY <3>2, <3>3 DEF AheadOf
      <3>4. CASE Polling(p)' /\ run[p].pc = "finish" /\ m = run[p].cur
        BY <1>6, <1>7, <3>1, <3>2, <3>4
      <3>5. CASE Polling(p)' /\ m \in Oldest(run[p].batch)
        BY <1>5, <1>7, <3>1, <3>2, <3>5
      <3> QED  BY <3>1, <3>3, <3>4, <3>5
    <2> QED  BY <1>7, <2>1, <2>2, <2>3, <2>4, <2>5, <2>6, <2>7, <2>8, <2>9, OtherSteps DEF Notable
  <1> QED  BY <1>3, <1>4, <1>7

(* So it is with the one process there is, and with none. *)
LEMMA AheadStays ==
  ASSUME OneProcess, NoWrap, TypeOK, TypeOK', [Next]_vars, Ahead
  PROVE  Ahead' /\ (lastUID' >= lastUID \/ NewVolume)
  <1>1. lastUID \in Nat
    BY StoreAssumption DEF TypeOK
  <1>0. ASSUME run' = run, lastUID' = lastUID
        PROVE  Ahead' /\ lastUID' >= lastUID
    <2>1. ASSUME NEW p \in Procs
          PROVE  InRole(p)' /\ AheadOf(p)'
      BY <1>0 DEF Ahead, AheadOf, InRole, Polling
    <2> QED  BY <1>0, <1>1, <2>1 DEF Ahead
  <1>2. CASE UNCHANGED vars
    BY <1>0, <1>2 DEF vars
  <1>3. CASE World
    <2>1. run' = run
      BY <1>3, WorldKeepsRun
    <2>2. CASE lastUID' = lastUID
      BY <1>0, <2>1, <2>2
    <2>3. CASE NewVolume
      <3>1. \A p \in Procs : run'[p].pc = "off" /\ lastUID' = 0
        BY <2>1, <2>3 DEF NewVolume, LoseStore, At
      <3>2. ASSUME NEW p \in Procs, NEW m \in run'[p].batch
            PROVE  m.uid + 1 >= lastUID'
        BY <3>1, <3>2, MessagesAssumption DEF TypeOK, RunStates, MessageFields
      <3> QED  BY <2>3, <3>1, <3>2 DEF Ahead, AheadOf, InRole, Busy
    <2> QED  BY <1>3, <2>2, <2>3, WatermarkSteps
  <1>4. ASSUME NEW p \in Procs, Start(p) \/ Step(p) \/ Trouble(p)
        PROVE  Ahead' /\ lastUID' >= lastUID
    <2>1. \A q \in Procs : q = p
      BY DEF OneProcess
    <2>2. InRole(p)' /\ AheadOf(p)' /\ lastUID' >= lastUID
      BY <1>4, RolesStay, AheadStep DEF Ahead
    <2> QED  BY <2>1, <2>2 DEF Ahead
  <1> QED  BY <1>2, <1>3, <1>4 DEF Next

(* With one process at a time, and UIDs below the last of their width, the  *)
(* watermark never moves back, whatever the commands, configurations and    *)
(* faults, short of a new volume.                                           *)
THEOREM NeverBack == ASSUME OneProcess, NoWrap PROVE Spec => WatermarkForward
  <1>1. SyncInit => Ahead
    <2> SUFFICES ASSUME SyncInit PROVE Ahead
      OBVIOUS
    <2>1. \A p \in Procs : run[p].pc = "off" /\ ~Polling(p)
      BY DEF SyncInit, Off, Polling
    <2> QED  BY <2>1 DEF Ahead, AheadOf, InRole, Busy
  <1>2. TypeOK /\ TypeOK' /\ [Next]_vars /\ Ahead => Ahead'
    BY AheadStays
  <1>3. TypeOK /\ TypeOK' /\ [Next]_vars /\ Ahead => [lastUID' >= lastUID \/ NewVolume]_vars
    BY AheadStays
  <1> QED  BY <1>1, <1>2, <1>3, TypeCorrect, PTL DEF Spec, WatermarkForward

----------------------------------------------------------------------------
(* The mailbox and the records only grow; what arrives comes last. *)
Grows ==
    /\ Arrived \subseteq Arrived' /\ Seen \subseteq Seen'
    /\ \A m \in Recent' : m \in Recent \/ \A n \in Arrived : n.uid < m.uid

(* What was missed stays so. *)
LEMMA MissedGrows ==
  ASSUME [Next]_vars
  PROVE  missed \subseteq missed'
  <1>1. \A kind, p : Fault(kind) \/ RequestFails(p, kind) => missed' = missed
    BY DEF Fault, RequestFails, troubleVars
  <1>2. \A p, m, kind : FaultWith(p, m, kind) => missed \subseteq missed'
    BY DEF FaultWith
  <1>3. \A p, asked, got : Received(p, asked, got) => missed \subseteq missed'
    BY <1>2 DEF Received, troubleVars
  <1>4. ASSUME NEW p \in Procs, Start(p) \/ Step(p) \/ Trouble(p)
        PROVE  missed \subseteq missed'
    BY <1>1, <1>2, <1>3, <1>4 DEF Start, Step, Trouble, VerifyRelease, VerifyPing, VerifyFails,
         ReadWatermark, PollFetch, FetchFails, Interrupted, BatchDone, PollOK, Wake,
         Shutdown, Preview, ClaimWon, AlreadyClaimed, Find, FindFails, Create, CreateFails,
         CreateReplyLost, CreateTimesOut, FinishMessage, Advance, ImportFetch, ReplayList,
         ReplayListMore, ReplayDelete, ReplayFetch, StoreFails, Crash, Panic, Signal, troubleVars
  <1>5. World => missed \subseteq missed'
    BY <1>1 DEF World, MailArrives, MailLeaves, LateRequest, CorrectByHand, NewVolume, troubleVars
  <1> QED  BY <1>4, <1>5 DEF Next, vars, troubleVars

LEMMA GrowsStep ==
  ASSUME NobodyReplays, NoReplay, TypeOK, [Next]_vars
  PROVE  Grows
  <1>1. \/ mailbox' = mailbox
        \/ \E m \in Messages : Deliver(m) \/ Age(m) \/ Expunge(m)
    BY DEF Next, vars, World, Step, Trouble, Start, VerifyRelease, VerifyPing,
         VerifyFails, ReadWatermark, PollFetch, FetchFails, Interrupted,
         BatchDone, PollOK, Wake, Shutdown, Preview, ClaimWon, AlreadyClaimed, Find,
         FindFails, Create, CreateFails, CreateReplyLost, CreateTimesOut, FinishMessage,
         Advance, ImportFetch, ReplayList, ReplayListMore, ReplayDelete, ReplayFetch,
         StoreFails, Crash, Panic, Signal, MailArrives, MailLeaves, LateRequest,
         CorrectByHand, NewVolume
  <1>2. Arrived \subseteq Arrived'
    BY <1>1 DEF Deliver, Age, Expunge, Arrived, TypeOK
  <1>3. \A m \in Recent' : m \in Recent \/ \A n \in Arrived : n.uid < m.uid
    BY <1>1 DEF Deliver, Age, Expunge, Arrived, Recent, TypeOK
  <1>4. \A k \in Keys : Recorded(k) => Recorded(k)'
    BY ClaimsStep, ClaimWonStep
  <1>5. Seen \subseteq Seen'
    BY <1>2, <1>4, KeyOK, MissedGrows DEF Seen
  <1> QED  BY <1>2, <1>3, <1>5 DEF Grows

(* A watermark that covers goes on to do so. *)
LEMMA CoversStays ==
  ASSUME Grows, NEW w \in Nat, Covers(w)
  PROVE  Covers(w)'
  <1>1. \A m \in Messages : m.uid \in Nat
    BY MessagesAssumption DEF MessageFields
  <1>2. w = 0 \/ \E n \in Arrived' : w = n.uid + 1
    BY DEF Grows, Covers
  <1>3. ASSUME NEW m \in Recent', m.uid < w
        PROVE  m \in Seen'
    <2>1. m \in Recent
      BY <1>1, <1>3 DEF Grows, Covers, Recent, Arrived
    <2> QED  BY <1>3, <2>1 DEF Grows, Covers
  <1> QED  BY <1>2, <1>3 DEF Covers

(* What a process knows of the mailbox stays true while it rests. *)
LEMMA OrderRests ==
  ASSUME Grows, TypeOK, NEW p \in Procs, InOrder(p), Same(p) \/ run'[p] = run[p]
  PROVE  InOrder(p)'
  <1>1. run[p] \in RunStates /\ \A m \in Messages : m.uid \in Nat
    BY MessagesAssumption DEF TypeOK, RunStates, MessageFields
  <1>2. /\ run'[p].cmd = run[p].cmd /\ run'[p].conf = run[p].conf
        /\ run'[p].batch = run[p].batch /\ run'[p].cur = run[p].cur
        /\ run'[p].after = run[p].after
        /\ run'[p].pc = "fetch" => run[p].pc = "fetch"
        /\ run'[p].pc \in Busy => run[p].pc \in Busy
    BY DEF Same, Busy
  <1>3. Polling(p)' = Polling(p) /\ Importing(p)' = Importing(p)
    BY <1>2 DEF Polling, Importing
  <1>4. (run[p].pc = "fetch" => Covers(run[p].after))'
    <2>1. \A w \in Nat : Covers(w) => Covers(w)'
      BY CoversStays
    <2> QED  BY <1>1, <1>2, <2>1 DEF InOrder, Covers, RunStates
  <1>5. Polling(p)' => run'[p].batch \subseteq Arrived'
    BY <1>2, <1>3 DEF InOrder, Grows
  <1>6. ASSUME Importing(p)', NEW b \in run'[p].batch, NEW m \in Recent', m.uid < b.uid
        PROVE  m \in Seen' \cup run'[p].batch
    <2>1. b \in Arrived /\ Importing(p)
      BY <1>2, <1>3, <1>6 DEF InOrder, Importing
    <2>2. m \in Recent
      BY <1>1, <1>6, <2>1 DEF Grows, Arrived, Recent
    <2> QED  BY <1>2, <1>6, <2>1, <2>2 DEF InOrder, Grows
  <1>7. ASSUME Polling(p)', run'[p].pc \in Busy
        PROVE  /\ run'[p].cur \in Arrived' \cap Seen'
               /\ \A m \in Recent' : m.uid < run'[p].cur.uid => m \in Seen'
    <2>1. /\ run[p].cur \in Arrived \cap Seen
          /\ \A m \in Recent : m.uid < run[p].cur.uid => m \in Seen
      BY <1>2, <1>3, <1>7 DEF InOrder
    <2>2. ASSUME NEW m \in Recent', m.uid < run[p].cur.uid
          PROVE  m \in Seen'
      <3>1. m \in Recent
        BY <1>1, <2>1, <2>2 DEF Grows, Arrived, Recent
      <3> QED  BY <2>1, <2>2, <3>1 DEF Grows
    <2> QED  BY <1>2, <2>1, <2>2 DEF Grows
  <1> QED  BY <1>2, <1>3, <1>4, <1>5, <1>6, <1>7 DEF InOrder

(* So does what it knows of a batch from which it takes what is seen to. *)
LEMMA BatchRests ==
  ASSUME Grows, TypeOK, NEW p \in Procs, InOrder(p),
         run'[p].cmd = run[p].cmd, run'[p].conf = run[p].conf,
         run'[p].batch \subseteq run[p].batch,
         Importing(p) => run[p].batch \subseteq run'[p].batch \cup Seen'
  PROVE  /\ Polling(p)' => run'[p].batch \subseteq Arrived'
         /\ Importing(p)' =>
               \A b \in run'[p].batch, m \in Recent' :
                  m.uid < b.uid => m \in Seen' \cup run'[p].batch
  <1>1. run[p] \in RunStates /\ \A m \in Messages : m.uid \in Nat
    BY MessagesAssumption DEF TypeOK, RunStates, MessageFields
  <1>2. Polling(p)' = Polling(p) /\ Importing(p)' = Importing(p)
    BY DEF Polling, Importing
  <1>3. Polling(p)' => run'[p].batch \subseteq Arrived'
    BY <1>2 DEF InOrder, Grows
  <1>4. ASSUME Importing(p)', NEW b \in run'[p].batch, NEW m \in Recent', m.uid < b.uid
        PROVE  m \in Seen' \cup run'[p].batch
    <2>1. b \in Arrived /\ b \in run[p].batch /\ Importing(p)
      BY <1>2, <1>4 DEF InOrder, Importing
    <2>2. m \in Recent
      BY <1>1, <1>4, <2>1 DEF Grows, Arrived, Recent
    <2>3. m \in Seen \cup run[p].batch
      BY <1>4, <2>1, <2>2 DEF InOrder
    <2> QED  BY <2>1, <2>3 DEF Grows
  <1> QED  BY <1>3, <1>4

(* Below the oldest message of a batch everything has been seen to. *)
LEMMA OldestIsNext ==
  ASSUME Grows, TypeOK, NEW p \in Procs, InOrder(p), Importing(p),
         NEW m \in Oldest(run[p].batch), m \in Seen'
  PROVE  m \in Arrived' \cap Seen' /\ \A n \in Recent' : n.uid < m.uid => n \in Seen'
  <1>1. run[p] \in RunStates /\ \A n \in Messages : n.uid \in Nat
    BY MessagesAssumption DEF TypeOK, RunStates, MessageFields
  <1>2. m \in run[p].batch /\ \A n \in run[p].batch : m.uid <= n.uid
    BY DEF Oldest
  <1>3. m \in Arrived
    BY <1>2 DEF InOrder, Importing
  <1>4. ASSUME NEW n \in Recent', n.uid < m.uid
        PROVE  n \in Seen'
    <2>1. n \in Recent
      BY <1>1, <1>3, <1>4 DEF Grows, Arrived, Recent
    <2>2. n \in Seen \cup run[p].batch
      BY <1>2, <1>4, <2>1 DEF InOrder
    <2>3. n \notin run[p].batch
      BY <1>1, <1>2, <1>4, <2>1 DEF Recent, RunStates
    <2> QED  BY <2>2, <2>3 DEF Grows
  <1> QED  BY <1>3, <1>4 DEF Grows

(* A step of a process keeps what it knows, and moves the watermark past    *)
(* nothing that has not been seen to.                                       *)
LEMMA OrderStep ==
  ASSUME Grows, TypeOK, NEW p \in Procs, Start(p) \/ Step(p) \/ Trouble(p),
         Covers(lastUID), InRole(p), InOrder(p)
  PROVE  InOrder(p)'
  <1>1. run[p] \in RunStates /\ lastUID \in Nat /\ \A m \in Messages : m.uid \in Nat
    BY MessagesAssumption, StoreAssumption DEF TypeOK, RunStates, MessageFields
  <1>2. CASE Empty(p)'
    BY <1>2 DEF Empty, InOrder, Busy
  <1>3. CASE Same(p)
    BY <1>3, OrderRests
  <1>4. CASE ReadWatermark(p) /\ ~Empty(p)'
    <2>1. /\ run'[p].cmd = run[p].cmd /\ run'[p].conf = run[p].conf
          /\ run'[p].batch = run[p].batch
          /\ run'[p].pc = "fetch" /\ run'[p].after = lastUID
      BY <1>4, Reads
    <2>2. (Covers(run[p].after))'
      <3>1. \A w \in Nat : Covers(w) => Covers(w)'
        BY CoversStays
      <3> QED  BY <1>1, <2>1, <3>1 DEF Covers
    <2> QED  BY <2>1, <2>2, BatchRests DEF InOrder, Busy
  <1>5. CASE PollFetch(p) /\ ~Empty(p)'
    <2>1. /\ run'[p].cmd = run[p].cmd /\ run'[p].conf = run[p].conf
          /\ run'[p].batch \subseteq Fetch(run[p].after)
          /\ Importing(p) => Fetch(run[p].after) \subseteq run'[p].batch \cup missed'
          /\ run[p].pc = "fetch" /\ run'[p].pc = "next"
      BY <1>5, Reads
    <2>2. Covers(run[p].after) /\ run[p].after \in Nat
      BY <1>1, <2>1 DEF InOrder, RunStates
    <2>3. run'[p].batch \subseteq Recent /\ run'[p].batch \subseteq Arrived
      BY <2>1 DEF Fetch, Recent, Arrived
    <2>4. ASSUME Importing(p)', NEW b \in run'[p].batch, NEW m \in Recent', m.uid < b.uid
          PROVE  m \in Seen' \cup run'[p].batch
      <3>1. m \in Recent
        BY <1>1, <2>3, <2>4 DEF Grows, Arrived, Recent
      <3>2. CASE m.uid > run[p].after
        <4>1. Importing(p)
          BY <2>1, <2>4 DEF Importing, Polling
        <4> QED  BY <2>1, <3>1, <3>2, <4>1 DEF Fetch, Recent, Seen
      <3>3. CASE m.uid < run[p].after
        BY <2>2, <3>1, <3>3 DEF Covers, Grows
      <3>4. CASE m.uid = run[p].after
        <4>1. m \in Messages /\ m.uid # 0
          BY <3>1, MessagesAssumption DEF Recent, MessageFields
        <4> QED  BY <2>2, <3>4, <4>1 DEF Covers, Grows, Seen
      <3> QED  BY <1>1, <2>2, <3>1, <3>2, <3>3, <3>4 DEF Recent
    <2> QED  BY <2>1, <2>3, <2>4 DEF InOrder, Busy, Grows
  <1>6. ASSUME run[p].pc = "finish", run'[p].cmd = run[p].cmd, run'[p].conf = run[p].conf,
               run'[p].pc # "fetch", Polling(p) => run'[p].cur = run[p].cur,
               run'[p].batch \subseteq run[p].batch,
               run[p].batch \subseteq run'[p].batch \cup {run[p].cur}
        PROVE  InOrder(p)'
    <2>1. /\ ~run[p].conf.dryRun
          /\ Polling(p) => /\ run[p].cur \in Arrived \cap Seen
                           /\ \A m \in Recent : m.uid < run[p].cur.uid => m \in Seen
      BY <1>6 DEF InOrder, Busy
    <2>2. /\ Polling(p)' => run'[p].batch \subseteq Arrived'
          /\ Importing(p)' =>
                \A b \in run'[p].batch, n \in Recent' :
                   n.uid < b.uid => n \in Seen' \cup run'[p].batch
      <3>1. Importing(p) => run[p].batch \subseteq run'[p].batch \cup Seen'
        BY <1>6, <2>1 DEF Importing, Grows
      <3> QED  BY <1>6, <3>1, BatchRests
    <2>3. ASSUME Polling(p)'
          PROVE  /\ run'[p].cur \in Arrived' \cap Seen'
                 /\ \A m \in Recent' : m.uid < run'[p].cur.uid => m \in Seen'
      <3>1. Polling(p) /\ run'[p].cur = run[p].cur
        BY <1>6, <2>3 DEF Polling
      <3>2. ASSUME NEW m \in Recent', m.uid < run[p].cur.uid
            PROVE  m \in Seen'
        <4>1. m \in Recent
          BY <1>1, <2>1, <3>1, <3>2 DEF Grows, Arrived, Recent
        <4> QED  BY <2>1, <3>1, <3>2, <4>1 DEF Grows
      <3> QED  BY <2>1, <3>1, <3>2 DEF Grows
    <2> QED  BY <1>6, <2>1, <2>2, <2>3 DEF InOrder
  <1>7. CASE (ImportFetch(p) \/ ReplayFetch(p)) /\ ~Empty(p)'
    <2>1. ~Polling(p)' /\ run'[p].pc = "next"
      BY <1>7, Reads DEF InRole, Polling
    <2> QED  BY <2>1 DEF InOrder, Busy, Importing
  <1>8. CASE Preview(p)
    <2>1. /\ run'[p].cmd = run[p].cmd /\ run'[p].conf = run[p].conf
          /\ run'[p].batch \subseteq run[p].batch /\ ~Importing(p)
          /\ run'[p].pc = "next"
      BY <1>8, Leaves DEF Importing
    <2> QED  BY <2>1, BatchRests DEF InOrder, Busy
  <1>9. ASSUME NEW m \in Oldest(run[p].batch), ~run[p].conf.dryRun, m \in Seen',
               run'[p].cmd = run[p].cmd, run'[p].conf = run[p].conf,
               run'[p].batch = run[p].batch \ {m}, run'[p].pc # "fetch",
               Polling(p) => run'[p].cur = m
        PROVE  InOrder(p)'
    <2>1. /\ Polling(p)' => run'[p].batch \subseteq Arrived'
          /\ Importing(p)' =>
                \A b \in run'[p].batch, n \in Recent' :
                   n.uid < b.uid => n \in Seen' \cup run'[p].batch
      BY <1>9, BatchRests
    <2>2. ASSUME Polling(p)'
          PROVE  /\ run'[p].cur \in Arrived' \cap Seen'
                 /\ \A n \in Recent' : n.uid < run'[p].cur.uid => n \in Seen'
      <3>1. Importing(p) /\ run'[p].cur = m
        BY <1>9, <2>2 DEF Importing, Polling
      <3> QED  BY <1>9, <3>1, OldestIsNext
    <2> QED  BY <1>9, <2>1, <2>2 DEF InOrder
  <1>10. CASE ClaimWon(p) \/ AlreadyClaimed(p)
    <2>1. PICK m \in Oldest(run[p].batch) :
             /\ ~run[p].conf.dryRun /\ m \in Messages
             /\ run'[p].cmd = run[p].cmd /\ run'[p].conf = run[p].conf
             /\ run'[p].batch = run[p].batch \ {m}
             /\ run'[p].pc # "fetch"
             /\ Polling(p) \/ ClaimWon(p) => run'[p].cur = m
             /\ AlreadyClaimed(p) => Recorded(Key(m))
      BY <1>10, Leaves
    <2>2. m \in Seen'
      <3>1. CASE AlreadyClaimed(p)
        BY <2>1, <3>1 DEF Seen, Grows
      <3>2. CASE ClaimWon(p)
        <4>1. Recorded(Key(m))'
          BY <2>1, <3>2, ClaimWonStep, KeyOK
        <4> QED  BY <2>1, <4>1 DEF Seen
      <3> QED  BY <1>10, <3>1, <3>2
    <2> QED  BY <1>9, <2>1, <2>2
  <1>11. CASE FinishMessage(p)
    BY <1>6, <1>11, Ends
  <1>12. CASE StoreFails(p) /\ ~Empty(p)'
    <2>1. CASE run[p].pc = "finish" /\ DealtWith(p, run[p].cur)
      BY <1>6, <2>1 DEF DealtWith
    <2>2. ASSUME NEW m \in Messages, Abandons(p, m)
          PROVE  InOrder(p)'
      <3>1. CASE Polling(p)
        <4>1. m \in Seen'
          BY <2>2, <3>1 DEF Abandons, Seen
        <4> QED  BY <1>9, <2>2, <4>1 DEF Abandons, DealtWith
      <3>2. CASE ~Polling(p)
        BY <2>2, <3>2 DEF Abandons, DealtWith, InOrder, Busy, Importing, Polling
      <3> QED  BY <3>1, <3>2
    <2> QED  BY <1>12, <2>1, <2>2, Fails
  <1>13. CASE Advance(p)
    BY <1>13, Ends, BatchRests DEF InOrder, Busy
  <1> QED  BY <1>2, <1>3, <1>4, <1>5, <1>7, <1>8, <1>10, <1>11,
              <1>12, <1>13, OtherSteps DEF Notable

(* The watermark goes on to cover what it hides. *)
LEMMA CoverStep ==
  ASSUME Grows, TypeOK, NEW p \in Procs, Advance(p), InRole(p), InOrder(p)
  PROVE  Covers(lastUID)'
  <1>1. /\ run[p].cur \in Messages /\ run[p].cur.uid \in Nat
        /\ run[p].cur \in Arrived \cap Seen
        /\ \A m \in Recent : m.uid < run[p].cur.uid => m \in Seen
    BY CurOK, Ends, MessagesAssumption DEF InRole, InOrder, Busy, MessageFields
  <1>2. lastUID' = 0 \/ lastUID' = run[p].cur.uid + 1
    BY <1>1, Ends, StoreAssumption DEF NextWatermark
  <1>3. ASSUME NEW m \in Recent', m.uid < lastUID'
        PROVE  m \in Seen'
    <2>1. m \in Messages /\ m.uid \in Nat
      BY <1>3, MessagesAssumption DEF Recent, MessageFields
    <2>2. m.uid <= run[p].cur.uid
      BY <1>1, <1>2, <1>3, <2>1
    <2>3. m \in Recent
      BY <1>1, <1>3, <2>1, <2>2 DEF Grows
    <2>4. CASE m.uid = run[p].cur.uid
      BY <1>1, <2>1, <2>4, MessagesAssumption DEF Grows
    <2>5. CASE m.uid < run[p].cur.uid
      BY <1>1, <2>3, <2>5 DEF Grows
    <2> QED  BY <1>1, <2>1, <2>2, <2>4, <2>5
  <1> QED  BY <1>1, <1>2, <1>3 DEF Covers, Grows

LEMMA NothingHiddenStays ==
  ASSUME NobodyReplays, NoReplay, TypeOK, [Next]_vars, NothingHidden
  PROVE  NothingHidden'
  <1>1. Grows
    BY GrowsStep
  <1>2. ASSUME lastUID' = lastUID
        PROVE  Covers(lastUID)'
    <2>1. \A w \in Nat : Covers(w) => Covers(w)'
      BY <1>1, CoversStays
    <2>2. lastUID \in Nat
      BY StoreAssumption DEF TypeOK
    <2> QED  BY <1>2, <2>1, <2>2 DEF NothingHidden, Covers
  <1>3. ASSUME NEW q \in Procs, run'[q] = run[q]
        PROVE  InRole(q)' /\ InOrder(q)'
    <2>1. InRole(q)'
      BY <1>3 DEF NothingHidden, InRole, Polling
    <2> QED  BY <1>1, <1>3, <2>1, OrderRests DEF NothingHidden
  <1>4. CASE run' = run /\ lastUID' = lastUID
    BY <1>2, <1>3, <1>4 DEF NothingHidden
  <1>5. World => run' = run /\ lastUID' = lastUID
    <2>1. ~NewVolume
      BY DEF NewVolume, Fault, Trips, NobodyReplays
    <2> QED  BY <2>1, WorldKeepsRun, WatermarkSteps
  <1>6. ASSUME NEW p \in Procs, Start(p) \/ Step(p) \/ Trouble(p)
        PROVE  NothingHidden'
    <2>1. InRole(p)' /\ InOrder(p)'
      BY <1>1, <1>6, RolesStay, OrderStep DEF NothingHidden
    <2>2. \A q \in Procs : InRole(q)' /\ InOrder(q)'
      BY <1>3, <1>6, <2>1, OneMoves
    <2>3. Covers(lastUID)'
      BY <1>1, <1>2, <1>6, WatermarkSteps, CoverStep DEF NothingHidden
    <2> QED  BY <2>2, <2>3 DEF NothingHidden
  <1> QED  BY <1>4, <1>5, <1>6 DEF Next, vars

(* With any number of polls and imports at once, and any configurations and *)
(* troubles, every message that the watermark hides without a record        *)
(* directly follows another one, or was missed by a poll: its claim failed  *)
(* or its body did not come.  Crashes, signals, panics and failed requests  *)
(* hide nothing, as long as nobody replays and the database is not lost.    *)
THEOREM NoGapAlways == ASSUME NobodyReplays PROVE Spec => []NoGap
  <1>1. SyncInit => NoReplay /\ NothingHidden
    <2> SUFFICES ASSUME SyncInit PROVE NoReplay /\ NothingHidden
      OBVIOUS
    <2>1. \A p \in Procs : run[p].pc = "off" /\ run[p].cmd = "none" /\ ~Polling(p)
      BY DEF SyncInit, Off, Polling
    <2>2. lastUID = 0 /\ Recent = {}
      BY DEF SyncInit, StoreInit, MailboxInit, Recent
    <2> QED  BY <2>1, <2>2 DEF NoReplay, NothingHidden, Covers, InRole, InOrder, Importing, Busy
  <1>2. TypeOK /\ [Next]_vars /\ NoReplay => NoReplay'
    BY NoReplayStays
  <1>3. TypeOK /\ [Next]_vars /\ NoReplay /\ NothingHidden => NothingHidden'
    BY NothingHiddenStays
  <1>4. NothingHidden => NoGap
    BY DEF NothingHidden, Covers, Hidden, Recent, Seen, Arrived, NoGap
  <1> QED  BY <1>1, <1>2, <1>3, <1>4, TypeCorrect, PTL DEF Spec
=============================================================================
