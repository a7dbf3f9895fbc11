---------------------------- MODULE OwnershipProofs ----------------------------
(***************************************************************************)
(* No message is posted twice, whatever processes poll and import at once, *)
(* while nobody replays and the database is not lost.  The argument: a     *)
(* claim is for ever; a process works only on a message it has claimed,    *)
(* hence alone; and it sends a message once, after which it only writes    *)
(* the outcome.                                                            *)
(***************************************************************************)
EXTENDS SyncProofs

USE DEF storeVars, fireflyVars

NobodyReplays == "replay" \notin Commands /\ "store_lost" \notin Faults

AtWork == {"find", "create"}

(* No process replays, and none is at a place of replay. *)
NoReplay ==
    \A p \in Procs : /\ run[p].cmd # "replay"
                     /\ run[p].pc \notin {"list", "list more", "delete", "refetch"}

LEMMA NoReplayStays ==
  ASSUME TypeOK, NobodyReplays, NoReplay, [Next]_vars
  PROVE  NoReplay'
  <1> DEFINE Fine(r) == r.cmd # "replay" /\ r.pc \notin {"list", "list more", "delete", "refetch"}
  <1>1. ASSUME NEW p \in Procs, Start(p) \/ Step(p) \/ Trouble(p)
        PROVE  Fine(run'[p])
    <2>1. run[p] \in RunStates /\ Fine(run[p]) /\ \A r : Becomes(p, r) => run'[p] = r
      BY DEF TypeOK, NoReplay, Becomes
    <2>2. /\ Fine(Off) /\ Fine(PollEnded(p)) /\ \A m : Fine(Handled(p, m))
          /\ \A m : Fine(Claimed(p, m)) /\ FirstStep(p) \in {"import", "poll"}
      BY <2>1 DEF Off, PollEnded, Handled, Claimed, FirstStep, RunStates
    <2>3. \A pc : Goto(p, pc) /\ pc \notin {"list", "list more", "delete", "refetch"} => Fine(run'[p])
      BY <2>1 DEF Goto, RunStates
    <2>4. \A status, id : Concludes(p, status, id) => Fine(run'[p])
      BY <2>1 DEF Concludes, RunStates
    <2>5. CASE Start(p)
      BY <2>1, <2>5 DEF Start, Off, NobodyReplays
    <2>6. CASE VerifyRelease(p) \/ VerifyPing(p) \/ VerifyFails(p)
      BY <2>1, <2>2, <2>3, <2>6 DEF VerifyRelease, VerifyPing, VerifyFails
    <2>7. CASE ReadWatermark(p) \/ PollFetch(p) \/ FetchFails(p)
      BY <2>1, <2>2, <2>7 DEF ReadWatermark, PollFetch, FetchFails, RunStates
    <2>8. CASE Interrupted(p) \/ BatchDone(p) \/ PollOK(p) \/ Wake(p) \/ Shutdown(p)
      BY <2>1, <2>2, <2>3, <2>8 DEF Interrupted, BatchDone, PollOK, Wake, Shutdown
    <2>9. CASE ClaimWon(p) \/ AlreadyClaimed(p)
      BY <2>1, <2>2, <2>9 DEF ClaimWon, AlreadyClaimed
    <2>14. CASE Preview(p)
      <3>1. PICK m : Becomes(p, [run[p] EXCEPT !.batch = @ \ {m}])
        BY <2>14 DEF Preview
      <3>2. run'[p] = [run[p] EXCEPT !.batch = @ \ {m}]
        BY <2>1, <3>1
      <3> QED  BY <2>1, <3>2 DEF RunStates
    <2>10. CASE Find(p) \/ FindFails(p) \/ Create(p) \/ CreateFails(p) \/ CreateReplyLost(p)
                \/ CreateTimesOut(p)
      BY <2>3, <2>4, <2>10 DEF Find, FindFails, Create, CreateFails, CreateReplyLost, CreateTimesOut
    <2>11. CASE FinishMessage(p)
      BY <2>1, <2>2, <2>11 DEF FinishMessage
    <2>15. CASE Advance(p)
      BY <2>1, <2>15 DEF Advance, RunStates
    <2>16. CASE ImportFetch(p)
      <3>1. \/ Becomes(p, Off)
            \/ \E b : Becomes(p, [run[p] EXCEPT !.pc = "next", !.batch = b])
        BY <2>16 DEF ImportFetch
      <3>2. ASSUME NEW b, Becomes(p, [run[p] EXCEPT !.pc = "next", !.batch = b])
            PROVE  Fine(run'[p])
        <4>1. run'[p] = [run[p] EXCEPT !.pc = "next", !.batch = b]
          BY <2>1, <3>2
        <4> QED  BY <2>1, <4>1 DEF RunStates
      <3> QED  BY <2>1, <2>2, <3>1, <3>2
    <2>12. ~(ReplayList(p) \/ ReplayListMore(p) \/ ReplayDelete(p) \/ ReplayFetch(p))
      BY <2>1 DEF ReplayList, ReplayListMore, ReplayDelete, ReplayFetch, At
    <2>13. CASE StoreFails(p)
      BY <2>1, <2>2, <2>13 DEF StoreFails
    <2>17. CASE Crash(p) \/ Panic(p)
      BY <2>1, <2>2, <2>17 DEF Crash, Panic
    <2>18. CASE Signal(p)
      BY <2>1, <2>18 DEF Signal, RunStates
    <2> QED  BY <1>1, <2>5, <2>6, <2>7, <2>8, <2>9, <2>10, <2>11, <2>12, <2>13,
              <2>14, <2>15, <2>16, <2>17, <2>18 DEF Step, Trouble
  <1>2. CASE run' = run
    BY <1>2 DEF NoReplay
  <1> QED  BY <1>1, <1>2, OneMoves, WorldKeepsRun DEF Next, vars, NoReplay

(* A claim takes a key that was free. *)
LEMMA ClaimWonStep ==
  ASSUME TypeOK, NEW p \in Procs, ClaimWon(p)
  PROVE  /\ run'[p].cur \in Messages /\ ~Recorded(Key(run'[p].cur))
         /\ UNCHANGED fireflyVars
         /\ \A k \in Keys : Recorded(k)' <=> Recorded(k) \/ k = Key(run'[p].cur)
  <1>1. PICK m \in run[p].batch : Claim(Key(m), m.uid) /\ Becomes(p, Claimed(p, m))
    BY DEF ClaimWon
  <1>2. m \in Messages /\ run[p] \in RunStates
    BY DEF TypeOK, RunStates
  <1>3. run'[p].cur = m
    BY <1>1, <1>2 DEF Becomes, Claimed, TypeOK, RunStates
  <1>4. \A k \in Keys : Recorded(k)' <=> Recorded(k) \/ k = Key(m)
    BY <1>1, <1>2, KeyOK DEF Claim, Recorded, Absent, TypeOK
  <1> QED  BY <1>1, <1>2, <1>3, <1>4 DEF ClaimWon, Claim

(* No other step changes which keys are taken. *)
LEMMA ClaimsStep ==
  ASSUME TypeOK, NobodyReplays, NoReplay, [Next]_vars
  PROVE  \/ \A k \in Keys : Recorded(k)' <=> Recorded(k)
         \/ \E p \in Procs : ClaimWon(p)
  <1> DEFINE Same == \A k \in Keys : Recorded(k)' <=> Recorded(k)
  <1>1. CASE UNCHANGED messages
    BY <1>1 DEF Recorded
  <1>3. ASSUME NEW p \in Procs, VerifyRelease(p)
        PROVE  Same
    BY <1>3 DEF VerifyRelease, ReleasePending, Recorded, Absent, TypeOK, Rows
  <1>4. ASSUME NEW p \in Procs, FinishMessage(p)
        PROVE  Same
    <2>1. run[p].outcome.status # "absent"
      BY DEF TypeOK, RunStates
    <2> QED  BY <1>4, <2>1 DEF FinishMessage, Finish, Recorded, Absent, TypeOK, Rows
  <1>5. ASSUME CorrectByHand
        PROVE  Same
    BY <1>5 DEF CorrectByHand, MarkIgnored, Recorded, Absent, TypeOK, Rows
  <1>6. ASSUME NEW p \in Procs, Start(p) \/ Step(p) \/ Trouble(p), messages' # messages
        PROVE  VerifyRelease(p) \/ ClaimWon(p) \/ FinishMessage(p)
    <2>1. ~ReplayDelete(p)
      BY DEF ReplayDelete, At, NoReplay
    <2> QED
      BY <1>6, <2>1 DEF Step, Trouble, Start, VerifyPing, VerifyFails, ReadWatermark,
           PollFetch, FetchFails, Interrupted, BatchDone, PollOK, MarkPollOK,
           Wake, Shutdown, Preview, AlreadyClaimed, Find, FindFails, Create, CreateFails,
           CreateReplyLost, CreateTimesOut, Advance, SetLastUID, ImportFetch, ReplayList,
           ReplayListMore, ReplayFetch, StoreFails, Crash, Panic, Signal
  <1>7. ASSUME World, messages' # messages
        PROVE  CorrectByHand
    BY <1>7 DEF World, MailArrives, MailLeaves, LateRequest, NewVolume, Fault, Trips, NobodyReplays
  <1> QED  BY <1>1, <1>3, <1>4, <1>5, <1>6, <1>7 DEF Next, vars

Owned == Ownership /\ OneOwner /\ AtMostOnce

(* What a step does to the ledger and the requests on their way, whoever    *)
(* takes it: a process sends its entry, or the server carries out a request *)
(* that was on its way.                                                     *)
LEMMA BooksStep ==
  ASSUME TypeOK, [Next]_vars
  PROVE  \/ UNCHANGED <<ledger, late>>
         \/ \E p \in Procs :
               /\ run[p].pc = "create" /\ run'[p].pc = "finish" /\ run'[p].cur = run[p].cur
               /\ \A q \in Procs : q # p => run'[q] = run[q]
               /\ \/ ledger' = Append(ledger, CurEntry(p)) /\ late' = late
                  \/ ledger' = ledger /\ late' = late \cup {CurEntry(p)}
         \/ /\ run' = run
            /\ \E e \in late : /\ late' = late \ {e}
                               /\ ledger' = ledger \/ ledger' = Append(ledger, e)
  <1>1. ASSUME NEW p \in Procs, Start(p) \/ Step(p) \/ Trouble(p)
        PROVE  \/ UNCHANGED <<ledger, late>>
               \/ /\ run[p].pc = "create" /\ run'[p].pc = "finish" /\ run'[p].cur = run[p].cur
                  /\ \A q \in Procs : q # p => run'[q] = run[q]
                  /\ \/ ledger' = Append(ledger, CurEntry(p)) /\ late' = late
                     \/ ledger' = ledger /\ late' = late \cup {CurEntry(p)}
    BY <1>1, BookStep, OneMoves
  <1>2. CASE LateRequest
    BY <1>2 DEF LateRequest, PostLate, Post
  <1>3. CASE MailArrives \/ MailLeaves \/ CorrectByHand \/ NewVolume
    BY <1>3 DEF MailArrives, MailLeaves, CorrectByHand, Remove, NewVolume
  <1> QED  BY <1>1, <1>2, <1>3 DEF Next, World, vars

(* What is in the ledger, or on its way, of one message more. *)
LEMMA PostedAfter ==
  ASSUME TypeOK, NEW e \in Entries, NEW k,
         \/ ledger' = Append(ledger, e) /\ late' \subseteq late
         \/ ledger' = ledger /\ late' \subseteq late \cup {e},
         PostedOrLate(k)'
  PROVE  PostedOrLate(k) \/ k = e.key
  <1>1. CASE ledger' = ledger
    BY <1>1 DEF PostedOrLate
  <1>2. CASE ledger' = Append(ledger, e) /\ late' \subseteq late
    <2>1. \A i \in DOMAIN ledger' : (i \in DOMAIN ledger /\ ledger'[i] = ledger[i]) \/ ledger'[i] = e
      BY <1>2 DEF TypeOK
    <2> QED  BY <1>2, <2>1 DEF PostedOrLate
  <1> QED  BY <1>1, <1>2

(* A transaction of a key the ledger does not have yet keeps it without     *)
(* repetition.                                                              *)
LEMMA AppendOnce ==
  ASSUME TypeOK, NEW e \in Entries, ledger' = Append(ledger, e), AtMostOnce,
         \A i \in DOMAIN ledger : ledger[i].key # e.key
  PROVE  AtMostOnce'
  <1>1. /\ DOMAIN ledger' = DOMAIN ledger \cup {Len(ledger) + 1}
        /\ \A i \in DOMAIN ledger : ledger'[i] = ledger[i]
        /\ ledger'[Len(ledger) + 1] = e
    BY DEF TypeOK
  <1> QED  BY <1>1 DEF AtMostOnce

(* Every step keeps it all. *)
LEMMA OwnedStays ==
  ASSUME TypeOK, TypeOK', NobodyReplays, Owned, [Next]_vars
  PROVE  Owned'
  <1>1. NoReplay /\ NoReplay'
    BY NoReplayStays DEF Owned, Ownership, NoReplay
  <1>2. \A k \in Keys : Recorded(k) => Recorded(k)'
    BY <1>1, ClaimsStep, ClaimWonStep
  <1>3. /\ \A q \in Procs : Handling(q) => Key(run[q].cur) \in Keys
        /\ \A q \in Procs : Handling(q)' => Key(run'[q].cur) \in Keys
    BY KeyOK DEF TypeOK, Sound, Handling
  (* Who works on a message has just claimed it, or worked on it before. *)
  <1> DEFINE Goes(q) == /\ Handling(q) /\ run'[q].cur = run[q].cur
                        /\ run'[q].pc # "finish" => run[q].pc # "finish"
             Claims(q) == ClaimWon(q) /\ \A r \in Procs : r # q => run'[r] = run[r]
  <1>4. ASSUME NEW q \in Procs, Handling(q)'
        PROVE  Claims(q) \/ Goes(q)
    <2>1. CASE run'[q] = run[q]
      BY <1>4, <2>1 DEF Handling
    <2>2. CASE Start(q) \/ Step(q) \/ Trouble(q)
      BY <1>4, <2>2, WorkStep, OneMoves
    <2> QED  BY <2>1, <2>2, OneMoves, WorldKeepsRun DEF Next, vars
  <1>5. \A q \in Procs : Handling(q)' => Recorded(Key(run[q].cur))'
    BY <1>2, <1>3, <1>4, ClaimWonStep DEF Owned, Ownership
  <1>6. OneOwner'
    <2> SUFFICES ASSUME NEW p \in Procs, NEW q \in Procs, p # q, Handling(p)', Handling(q)',
                        Key(run'[p].cur) = Key(run'[q].cur)
                 PROVE  FALSE
      BY DEF OneOwner
    <2>1. ASSUME NEW a \in Procs, NEW b \in Procs, a # b, Claims(a), Handling(b)'
          PROVE  Key(run'[a].cur) # Key(run'[b].cur)
      BY <2>1, ClaimWonStep DEF Owned, Ownership, Handling
    <2>2. ~Claims(p) /\ ~Claims(q)
      BY <2>1
    <2> QED  BY <1>4, <2>2 DEF Owned, OneOwner
  (* What the step sends, if anything, and why it was not sent before. *)
  <1>7. CASE UNCHANGED <<ledger, late>>
    <2>1. \A k : PostedOrLate(k)' <=> PostedOrLate(k)
      BY <1>7 DEF PostedOrLate
    <2>2. \A q \in Procs : run'[q].pc \in {"find", "create"} => ~PostedOrLate(Key(run'[q].cur))
      <3> SUFFICES ASSUME NEW q \in Procs, run'[q].pc \in {"find", "create"}
                   PROVE  ~PostedOrLate(Key(run'[q].cur))
        OBVIOUS
      <3>1. CASE Claims(q)
        BY <3>1, <1>3, ClaimWonStep, KeyOK DEF Owned, Ownership
      <3>2. CASE Goes(q)
        BY <3>2 DEF Owned, Ownership, Handling
      <3> QED  BY <1>4, <3>1, <3>2 DEF Handling
    <2> QED  BY <1>1, <1>2, <1>5, <1>6, <1>7, <2>1, <2>2
             DEF Owned, Ownership, AtMostOnce, NoReplay
  <1>8. ASSUME NEW p \in Procs, run[p].pc = "create", run'[p].pc = "finish",
               \A q \in Procs : q # p => run'[q] = run[q],
               \/ ledger' = Append(ledger, CurEntry(p)) /\ late' = late
               \/ ledger' = ledger /\ late' = late \cup {CurEntry(p)}
        PROVE  Owned'
    <2> DEFINE e == CurEntry(p)
    <2>1. e \in Entries /\ e.key = Key(run[p].cur) /\ e.key \in Keys
      BY <1>8, CurOK DEF CurEntry, Entry
    <2>2. Recorded(e.key) /\ ~PostedOrLate(e.key)
      BY <1>8, <2>1 DEF Owned, Ownership, Handling
    <2>3. \A k : PostedOrLate(k)' => PostedOrLate(k) \/ k = e.key
      BY <1>8, <2>1, PostedAfter
    <2>4. \A k \in Keys : PostedOrLate(k)' => Recorded(k)'
      BY <1>2, <2>2, <2>3 DEF Owned, Ownership
    <2>5. ASSUME NEW q \in Procs, run'[q].pc \in {"find", "create"}
          PROVE  ~PostedOrLate(Key(run[q].cur))'
      <3>1. q # p /\ run'[q] = run[q]
        BY <1>8, <2>5
      <3>2. Key(run[q].cur) # e.key /\ ~PostedOrLate(Key(run[q].cur))
        BY <1>8, <2>1, <2>5, <3>1 DEF Owned, Ownership, OneOwner, Handling
      <3> QED  BY <2>3, <3>1, <3>2
    <2>6. /\ \A i \in DOMAIN ledger : ledger[i].key # e.key
          /\ \A f \in late : f.key # e.key
      BY <2>2 DEF PostedOrLate
    <2>7. AtMostOnce'
      BY <1>8, <2>1, <2>6, AppendOnce DEF Owned, AtMostOnce
    <2>8. \A f \in late' : /\ \A i \in DOMAIN ledger' : ledger'[i].key # f.key
                           /\ \A g \in late' : g.key = f.key => f = g
      <3>1. CASE ledger' = Append(ledger, e) /\ late' = late
        <4>1. \A i \in DOMAIN ledger' : (i \in DOMAIN ledger /\ ledger'[i] = ledger[i]) \/ ledger'[i] = e
          BY <3>1, <2>1 DEF TypeOK
        <4> QED  BY <2>6, <3>1, <4>1 DEF Owned, Ownership
      <3>2. CASE ledger' = ledger /\ late' = late \cup {e}
        BY <2>6, <3>2 DEF Owned, Ownership
      <3> QED  BY <1>8, <3>1, <3>2
    <2> QED  BY <1>1, <1>5, <1>6, <2>4, <2>5, <2>7, <2>8 DEF Owned, Ownership, NoReplay
  <1>9. ASSUME run' = run, NEW e \in late, late' = late \ {e},
               ledger' = ledger \/ ledger' = Append(ledger, e)
        PROVE  Owned'
    <2>1. e \in Entries /\ PostedOrLate(e.key)
      BY DEF TypeOK, PostedOrLate
    <2>2. \A k : PostedOrLate(k)' => PostedOrLate(k)
      BY <1>9, <2>1, PostedAfter
    <2>3. /\ \A i \in DOMAIN ledger : ledger[i].key # e.key
          /\ \A f \in late' : f.key # e.key
      BY <1>9 DEF Owned, Ownership
    <2>4. AtMostOnce'
      BY <1>9, <2>1, <2>3, AppendOnce DEF Owned, AtMostOnce
    <2>5. \A f \in late' : \A i \in DOMAIN ledger' : ledger'[i].key # f.key
      <3>1. \A i \in DOMAIN ledger' : (i \in DOMAIN ledger /\ ledger'[i] = ledger[i]) \/ ledger'[i] = e
        <4>1. CASE ledger' = ledger
          BY <4>1
        <4>2. CASE ledger' = Append(ledger, e)
          BY <2>1, <4>2 DEF TypeOK
        <4> QED  BY <1>9, <4>1, <4>2
      <3> QED  BY <1>9, <2>3, <3>1 DEF Owned, Ownership
    <2> QED  BY <1>1, <1>2, <1>5, <1>6, <1>9, <2>2, <2>4, <2>5 DEF Owned, Ownership, NoReplay
  <1> QED  BY <1>7, <1>8, <1>9, BooksStep

(* While nobody replays and the database is not lost, in every state the    *)
(* claims, the processes, the ledger and the requests on their way fit      *)
(* together as Ownership says; hence no two processes work on one message   *)
(* and no message is posted twice.                                          *)
THEOREM OwnedAlways ==
  ASSUME NobodyReplays
  PROVE  Spec => [](Ownership /\ OneOwner /\ AtMostOnce)
  <1>1. SyncInit => Owned
    <2> SUFFICES ASSUME SyncInit PROVE Owned
      OBVIOUS
    <2>1. \A p \in Procs : run[p].cmd = "none" /\ run[p].pc = "off"
      BY DEF SyncInit, Off
    <2>2. DOMAIN ledger = {} /\ late = {}
      BY DEF SyncInit, FireflyInit
    <2> QED  BY <2>1, <2>2 DEF Owned, Ownership, OneOwner, AtMostOnce, Handling, PostedOrLate
  <1>2. TypeOK /\ TypeOK' /\ [Next]_vars /\ Owned => Owned'
    BY OwnedStays
  <1> QED  BY <1>1, <1>2, TypeCorrect, PTL DEF Spec, Owned

----------------------------------------------------------------------------
(* The importer implements Once. *)

(* One more entry is one more key at the end. *)
LEMMA KeysAppended ==
  ASSUME TypeOK, NEW e \in Entries, ledger' = Append(ledger, e)
  PROVE  PostedKeys' = Append(PostedKeys, e.key)
  <1>1. /\ Len(ledger) \in Nat /\ DOMAIN ledger = 1..Len(ledger)
        /\ DOMAIN ledger' = 1..(Len(ledger) + 1)
        /\ \A i \in DOMAIN ledger : ledger'[i] = ledger[i]
        /\ ledger'[Len(ledger) + 1] = e
    BY DEF TypeOK
  <1>2. PostedKeys \in Seq({ledger[i].key : i \in DOMAIN ledger}) /\ Len(PostedKeys) = Len(ledger)
    BY <1>1 DEF PostedKeys
  <1>3. /\ DOMAIN Append(PostedKeys, e.key) = 1..(Len(ledger) + 1)
        /\ \A i \in DOMAIN ledger : Append(PostedKeys, e.key)[i] = ledger[i].key
        /\ Append(PostedKeys, e.key)[Len(ledger) + 1] = e.key
    BY <1>1, <1>2 DEF PostedKeys
  <1> QED  BY <1>1, <1>3 DEF PostedKeys

(* The keys taken, and the keys of the ledger, as a step leaves them. *)
LEMMA PromiseStep ==
  ASSUME TypeOK, NobodyReplays, Owned, [Next]_vars
  PROVE  [Promise!Next]_Promise!vars
  <1> DEFINE taken == {k \in Keys : Recorded(k)}
  <1>1. NoReplay
    BY DEF Owned, Ownership, NoReplay
  <1>2. ASSUME NEW p \in Procs, ClaimWon(p)
        PROVE  Promise!Next
    <2> DEFINE a == Key(run'[p].cur)
    <2>1. a \in Keys \ taken /\ taken' = taken \cup {a} /\ UNCHANGED ledger
      BY <1>2, ClaimWonStep, KeyOK
    <2>2. PostedKeys' = PostedKeys
      BY <2>1 DEF PostedKeys
    <2>3. Promise!Claim(a)
      BY <2>1, <2>2 DEF Promise!Claim
    <2> QED  BY <2>1, <2>3 DEF Promise!Next
  <1>3. ASSUME \A k \in Keys : Recorded(k)' <=> Recorded(k)
        PROVE  [Promise!Next]_Promise!vars
    <2>1. taken' = taken
      BY <1>3
    <2>2. CASE ledger' = ledger
      <3>1. PostedKeys' = PostedKeys
        BY <2>2 DEF PostedKeys
      <3> QED  BY <2>1, <3>1 DEF Promise!vars
    <2>3. ASSUME NEW e \in Entries, ledger' = Append(ledger, e),
                 e.key \in Keys, Recorded(e.key), \A i \in DOMAIN ledger : ledger[i].key # e.key
          PROVE  Promise!Next
      <3>1. PostedKeys' = Append(PostedKeys, e.key)
        BY <2>3, KeysAppended
      <3>2. \A i \in DOMAIN PostedKeys : PostedKeys[i] # e.key
        BY <2>3 DEF PostedKeys
      <3>3. Promise!Post(e.key)
        BY <2>1, <2>3, <3>1, <3>2 DEF Promise!Post
      <3> QED  BY <2>3, <3>3 DEF Promise!Next
    <2>4. ASSUME ledger' # ledger
          PROVE  \E e \in Entries :
                    /\ ledger' = Append(ledger, e) /\ e.key \in Keys /\ Recorded(e.key)
                    /\ \A i \in DOMAIN ledger : ledger[i].key # e.key
      <3>1. ASSUME NEW p \in Procs, run[p].pc = "create", ledger' = Append(ledger, CurEntry(p))
            PROVE  /\ CurEntry(p) \in Entries /\ CurEntry(p).key \in Keys
                   /\ Recorded(CurEntry(p).key)
                   /\ \A i \in DOMAIN ledger : ledger[i].key # CurEntry(p).key
        <4>1. CurEntry(p) \in Entries /\ CurEntry(p).key = Key(run[p].cur) /\ Key(run[p].cur) \in Keys
          BY <3>1, CurOK DEF CurEntry, Entry
        <4> QED  BY <3>1, <4>1 DEF Owned, Ownership, Handling, PostedOrLate
      <3>2. ASSUME NEW e \in late, ledger' = Append(ledger, e)
            PROVE  /\ e \in Entries /\ e.key \in Keys /\ Recorded(e.key)
                   /\ \A i \in DOMAIN ledger : ledger[i].key # e.key
        <4>1. e \in Entries
          BY DEF TypeOK
        <4>2. e.key \in Keys
          BY <4>1, KeyOK DEF Entries, Entry
        <4> QED  BY <4>1, <4>2 DEF Owned, Ownership, PostedOrLate
      <3> QED  BY <2>4, <3>1, <3>2, BooksStep DEF TypeOK
    <2> QED  BY <2>2, <2>3, <2>4
  <1> QED  BY <1>1, <1>2, <1>3, ClaimsStep

(* While nobody replays and the database is not lost, the importer          *)
(* implements Once: every step takes one free alert, adds one taken alert   *)
(* to the ledger that is not in it yet, or changes neither.                 *)
THEOREM PromiseKeptAlways ==
  ASSUME NobodyReplays
  PROVE  Spec => PromiseKept
  <1>1. SyncInit => Promise!Init
    <2> SUFFICES ASSUME SyncInit PROVE Promise!Init
      OBVIOUS
    <2>1. {k \in Keys : Recorded(k)} = {}
      BY DEF SyncInit, StoreInit, Recorded
    <2>2. ledger = <<>>
      BY DEF SyncInit, FireflyInit
    <2>3. PostedKeys = <<>>
      BY <2>2 DEF PostedKeys
    <2> QED  BY <2>1, <2>3 DEF Promise!Init
  <1>2. TypeOK /\ Owned /\ [Next]_vars => [Promise!Next]_Promise!vars
    BY PromiseStep
  <1>3. Spec => []Owned
    BY OwnedAlways DEF Owned
  <1> QED  BY <1>1, <1>2, <1>3, TypeCorrect, PTL DEF Spec, PromiseKept, Promise!Spec
=============================================================================
