-------------------------- MODULE ShareRecordProofs --------------------------
(***************************************************************************)
(* More proofs about ShareService: what the audit log says of the rows,    *)
(* what the rows say of each other, and what a client may rely on.  Again  *)
(* for every set of requests and of values, and every combination of       *)
(* faults unless the theorem says otherwise.                               *)
(***************************************************************************)
EXTENDS ShareServiceProofs

-----------------------------------------------------------------------------
(* A request that was answered has an event that no fault takes away.      *)

OnRecord(r) == \E i \in 1..kept : trail[i].by = r /\ trail[i].what \notin Denied

Answering == {"notify", "respond", "ok"}

RecordOf(r) ==
  /\ pc[r] = "confirm" => \E i \in 1..Len(trail) : trail[i] = entry[r]
  /\ pc[r] \in Answering /\ r \notin View => OnRecord(r)

RecordInv == TypeInv /\ \A r \in Request : RecordOf(r)

\* What all steps but three do: nothing to the log, and nobody comes to await the
\* confirmation or to have it.
NoAnswer(r) ==
  /\ pc'[r] = "confirm" => pc[r] = "confirm" /\ entry'[r] = entry[r]
  /\ pc'[r] \in Answering /\ r \notin View => pc[r] \in Answering

LEMMA NoAnswerKeepsRecord ==
  ASSUME RecordInv, TypeInv', UNCHANGED log, \A r \in Request : NoAnswer(r)
  PROVE  RecordInv'
BY DEF RecordInv, RecordOf, OnRecord, NoAnswer, log

LEMMA FailNoAnswer ==
  ASSUME TypeInv, NEW r \in Request, Fail(r)
  PROVE  \A q \in Request : NoAnswer(q)
BY DEF Fail, NoAnswer, Answering, TypeInv, TypeOK

\* Every handler's way from LockStore to the audit log.
LEMMA WorkNoAnswer ==
  ASSUME TypeInv, NEW r \in Request,
         \/ LockStore(r) \/ UseVendor(r) \/ WriteBlob(r) \/ InsertPrint(r) \/ InsertShare(r)
         \/ Lookup(r) \/ ConsumeSlot(r) \/ NoSlot(r) \/ ReadPrint(r)
         \/ Revoke(r) \/ OpenAudit(r) \/ ViewAudit(r) \/ Notify(r) \/ Respond(r)
  PROVE  UNCHANGED log /\ \A q \in Request : NoAnswer(q)
<1> USE DEF NoAnswer, Answering, Goto, ToAudit, TypeInv, TypeOK
<1>1. CASE LockStore(r)
  BY <1>1 DEF LockStore, FirstStep
<1>2. CASE UseVendor(r) \/ WriteBlob(r) \/ InsertPrint(r) \/ InsertShare(r)
  BY <1>2 DEF UseVendor, WriteBlob, InsertPrint, InsertShare
<1>3. CASE Lookup(r) \/ ConsumeSlot(r) \/ NoSlot(r)
  BY <1>3 DEF Lookup, ConsumeSlot, NoSlot
<1>4. CASE ReadPrint(r)
  BY <1>4, FailNoAnswer DEF ReadPrint, Abort
<1>5. CASE Revoke(r) \/ OpenAudit(r)
  BY <1>5 DEF Revoke, OpenAudit
<1>6. CASE ViewAudit(r)
  BY <1>6 DEF ViewAudit, PlaceOf
<1>7. CASE Notify(r) \/ Respond(r)
  BY <1>7 DEF Notify, Respond, Succeed
<1> QED
  BY <1>1, <1>2, <1>3, <1>4, <1>5, <1>6, <1>7

LEMMA EarlyEndNoAnswer ==
  ASSUME TypeInv, NEW r \in Request,
         StoreIsPoisoned(r) \/ NothingToRevoke(r) \/ AuditIsPoisoned(r) \/ Fault(r)
  PROVE  UNCHANGED log /\ \A q \in Request : NoAnswer(q)
<1>1. Fail(r) /\ UNCHANGED log
  BY DEF StoreIsPoisoned, NothingToRevoke, AuditIsPoisoned, Fault, Fails, InsertPrintFails,
         ExpiryOverflows, ShortTokenPanics, HangUp, Abort
<1> QED
  BY <1>1, FailNoAnswer

LEMMA WriteEventRecords ==
  ASSUME RecordInv, TypeInv', NEW r \in Request, WriteEvent(r)
  PROVE  RecordInv'
<1>1. /\ trail' = Append(trail, entry[r]) /\ kept' = kept
      /\ trail \in Seq(Entry) /\ kept \in 0..Len(trail) /\ entry[r] \in Entry
      /\ pc' = [pc EXCEPT ![r] = "confirm"] /\ entry' = entry
  BY DEF WriteEvent, Goto, Trail!Write, RecordInv, TypeInv, TypeOK, PlaceOf, Auditing
<1>2. /\ Len(trail') = Len(trail) + 1 /\ trail'[Len(trail) + 1] = entry[r]
      /\ \A i \in 1..Len(trail) : trail'[i] = trail[i]
  BY <1>1
<1>3. ASSUME NEW q \in Request
      PROVE  RecordOf(q)'
  <2>1. CASE q = r
    BY <1>1, <1>2, <2>1 DEF RecordOf, Answering, RecordInv, TypeInv, TypeOK
  <2>2. CASE q # r
    BY <1>1, <1>2, <2>2 DEF RecordOf, OnRecord, RecordInv, TypeInv, TypeOK
  <2> QED
    BY <2>1, <2>2
<1> QED
  BY <1>3 DEF RecordInv

LEMMA ConfirmRecords ==
  ASSUME RecordInv, TypeInv', NEW r \in Request, Confirm(r)
  PROVE  RecordInv'
<1>1. trail' = trail /\ kept' = Len(trail) /\ kept \in 0..Len(trail)
  BY DEF Confirm, Trail!Confirm, RecordInv, TypeInv, TypeOK
<1>2. PICK i \in 1..Len(trail) : trail[i] = entry[r]
  BY DEF Confirm, RecordInv, RecordOf
<1>3. entry[r].by = r
  BY DEF Confirm, RecordInv, TypeInv, PlaceOf, Auditing
<1>4. ASSUME NEW q \in Request
      PROVE  RecordOf(q)'
  <2>1. CASE q # r
    BY <1>1, <2>1 DEF Confirm, Fail, Goto, RecordOf, OnRecord, RecordInv, TypeInv, TypeOK
  <2>2. CASE q = r /\ entry[r].what \in Denied
    BY <2>2 DEF Confirm, Fail, RecordOf, Answering, RecordInv, TypeInv, TypeOK
  <2>3. CASE q = r /\ entry[r].what \notin Denied
    <3>1. pc'[r] # "confirm"
      BY <2>3 DEF Confirm, Goto, RecordInv, TypeInv, TypeOK
    <3>2. OnRecord(r)'
      BY <1>1, <1>2, <1>3, <2>3 DEF OnRecord
    <3> QED
      BY <2>3, <3>1, <3>2 DEF RecordOf
  <2> QED
    BY <2>1, <2>2, <2>3
<1> QED
  BY <1>4 DEF RecordInv

LEMMA DownNoAnswer ==
  ASSUME TypeInv, Down
  PROVE  \A q \in Request : NoAnswer(q)
BY DEF Down, InHand, NoAnswer, Answering, TypeInv, TypeOK

LEMMA PowerLossRecords ==
  ASSUME RecordInv, TypeInv', PowerLoss
  PROVE  RecordInv'
<1>1. PICK n \in kept..Len(trail) : trail' = SubSeq(trail, 1, n) /\ kept' = kept
  BY DEF PowerLoss, Trail!Lose
<1>2. /\ kept \in 0..Len(trail) /\ trail \in Seq(Entry)
      /\ \A i \in 1..kept : trail'[i] = trail[i]
  BY <1>1 DEF RecordInv, TypeInv, TypeOK
<1>3. \A q \in Request : NoAnswer(q) /\ pc'[q] # "confirm"
  BY DownNoAnswer, DownType DEF PowerLoss, RecordInv
<1> QED
  BY <1>1, <1>2, <1>3 DEF RecordInv, RecordOf, OnRecord, NoAnswer

LEMMA NextRecord == RecordInv /\ [Next]_vars => RecordInv'
<1> SUFFICES ASSUME RecordInv, [Next]_vars
             PROVE  RecordInv'
  OBVIOUS
<1>1. TypeInv /\ TypeInv'
  BY NextType DEF RecordInv
<1>2. ASSUME NEW r \in Request, Step(r) \/ Fault(r)
      PROVE  RecordInv'
  <2>1. CASE WriteEvent(r) \/ Confirm(r)
    BY <1>1, <2>1, WriteEventRecords, ConfirmRecords
  <2>2. CASE StoreIsPoisoned(r) \/ NothingToRevoke(r) \/ AuditIsPoisoned(r) \/ Fault(r)
    BY <1>1, <2>2, EarlyEndNoAnswer, NoAnswerKeepsRecord
  <2> QED
    BY <1>1, <1>2, <2>1, <2>2, WorkNoAnswer, NoAnswerKeepsRecord DEF Step
<1>3. CASE Kill
  BY <1>1, <1>3, DownNoAnswer, NoAnswerKeepsRecord DEF Kill
<1>4. CASE PowerLoss
  BY <1>1, <1>4, PowerLossRecords
<1>5. CASE Restart \/ Checkpoint \/ Tick \/ AllAnswered \/ UNCHANGED vars
  <2>1. UNCHANGED log /\ \A q \in Request : NoAnswer(q)
    BY <1>5 DEF Restart, Checkpoint, Tick, AllAnswered, vars, procs, NoAnswer
  <2> QED
    BY <1>1, <2>1, NoAnswerKeepsRecord
<1> QED
  BY <1>2, <1>3, <1>4, <1>5 DEF Next

\* Nobody is told that something was done before the synced part of the audit log has
\* an event about it, whatever fails and whatever a loss of power takes.
THEOREM AnswersAreOnRecord == Spec => []AnsweredIsOnRecord
<1>1. Init => RecordInv
  BY InitType DEF Init, RecordInv, RecordOf, Answering
<1>2. RecordInv => AnsweredIsOnRecord
  BY DEF RecordInv, RecordOf, OnRecord, Answering, AnsweredIsOnRecord
<1> QED
  BY <1>1, <1>2, NextRecord, PTL DEF Spec

-----------------------------------------------------------------------------
(* No two vendors with one address: not in the database, and not in any    *)
(* state that a loss of power may take it back to.                         *)

Unique(rows) == \A u, v \in Upload : rows[u] = rows[v] /\ rows[u] # None => u = v

AddressInv ==
  /\ TypeInv
  /\ Unique(vendor)
  /\ \A d \in survivors : Unique(d.vendor)

LEMMA CommitKeepsUnique ==
  ASSUME AddressInv, TypeInv', Unique(vendor)', Commit(vendor', print', share')
  PROVE  AddressInv'
BY DEF AddressInv, Commit, State, Unique

LEMMA UseVendorUnique ==
  ASSUME AddressInv, TypeInv', NEW u \in Request, UseVendor(u)
  PROVE  AddressInv'
<1>1. PICK e \in Email :
        \/ UNCHANGED <<vendor, survivors>>
        \/ /\ \A v \in Upload : vendor[v] # e
           /\ vendor' = [vendor EXCEPT ![u] = e]
           /\ Commit(vendor', print, share)
  BY DEF UseVendor
<1>2. CASE UNCHANGED <<vendor, survivors>>
  BY <1>2 DEF AddressInv, Unique
<1>3. CASE /\ \A v \in Upload : vendor[v] # e
           /\ vendor' = [vendor EXCEPT ![u] = e]
           /\ Commit(vendor', print, share)
  <2>1. u \in Upload /\ vendor \in [Upload -> Email \cup {None}]
    BY DEF UseVendor, AddressInv, TypeInv, TypeOK, PlaceOf, Uploading
  <2>2. Unique(vendor)'
    BY <1>3, <2>1 DEF AddressInv, Unique
  <2>3. print' = print /\ share' = share
    BY DEF UseVendor
  <2> QED
    BY <1>3, <2>2, <2>3, CommitKeepsUnique
<1> QED
  BY <1>1, <1>2, <1>3

LEMMA NextUnique == AddressInv /\ [Next]_vars => AddressInv'
<1> SUFFICES ASSUME AddressInv, [Next]_vars
             PROVE  AddressInv'
  OBVIOUS
<1>1. TypeInv'
  BY NextType DEF AddressInv
<1>2. ASSUME UNCHANGED <<vendor, survivors>>
      PROVE  AddressInv'
  BY <1>1, <1>2 DEF AddressInv, Unique
<1>3. ASSUME NEW r \in Request, Step(r) \/ Fault(r)
      PROVE  AddressInv'
  <2>1. CASE UseVendor(r)
    BY <1>1, <2>1, UseVendorUnique
  <2>2. CASE InsertPrint(r) \/ InsertShare(r) \/ ConsumeSlot(r) \/ Revoke(r)
    <3>1. vendor' = vendor /\ Commit(vendor', print', share')
      BY <2>2 DEF InsertPrint, InsertShare, ConsumeSlot, Revoke
    <3> QED
      BY <1>1, <3>1, CommitKeepsUnique DEF AddressInv, Unique
  <2>3. CASE \/ LockStore(r) \/ StoreIsPoisoned(r) \/ WriteBlob(r) \/ Lookup(r) \/ NoSlot(r)
             \/ ReadPrint(r) \/ NothingToRevoke(r) \/ WriteEvent(r) \/ Confirm(r)
             \/ OpenAudit(r) \/ ViewAudit(r) \/ AuditIsPoisoned(r) \/ Notify(r) \/ Respond(r)
    BY <1>2, <2>3
       DEF LockStore, StoreIsPoisoned, WriteBlob, Lookup, NoSlot, ReadPrint, NothingToRevoke,
           WriteEvent, Confirm, OpenAudit, ViewAudit, AuditIsPoisoned, Notify, Respond, db
  <2>4. CASE Fault(r)
    BY <1>2, <2>4
       DEF Fault, Fails, InsertPrintFails, ExpiryOverflows, ShortTokenPanics, HangUp, db
  <2> QED
    BY <1>3, <2>1, <2>2, <2>3, <2>4 DEF Step
<1>4. CASE PowerLoss
  BY <1>1, <1>4 DEF PowerLoss, AddressInv, Unique
<1>5. CASE Checkpoint
  BY <1>1, <1>5 DEF Checkpoint, State, AddressInv, Unique
<1>6. CASE Kill \/ Restart \/ Tick \/ AllAnswered \/ UNCHANGED vars
  BY <1>2, <1>6 DEF Kill, Restart, Tick, AllAnswered, vars, db
<1> QED
  BY <1>3, <1>4, <1>5, <1>6 DEF Next

\* However many uploads to new addresses race, and whatever a loss of power undoes,
\* no address ever has two vendors, although the schema would admit them.
THEOREM AddressesStayUnique == Spec => []OneVendorPerAddress
<1>1. Init => AddressInv
  BY InitType, NoneAssumption DEF Init, AddressInv, Unique, State
<1>2. AddressInv => OneVendorPerAddress
  BY DEF AddressInv, Unique, OneVendorPerAddress
<1> QED
  BY <1>1, <1>2, NextUnique, PTL DEF Spec

-----------------------------------------------------------------------------
(* While the machine keeps its power, a row of shares stays, and only its  *)
(* count and its revocation change, in one direction.                      *)

Forward(s) ==
  share[s] # None =>
    /\ share'[s] # None
    /\ share'[s].vendor = share[s].vendor
    /\ share'[s].count >= share[s].count
    /\ share[s].revoked => share'[s].revoked

LEMMA RowsGoForward ==
  ASSUME "power" \notin Faults, BudgetInv, [Next]_vars, NEW s \in Upload
  PROVE  Forward(s)
<1> USE DEF Forward
<1>1. share \in [Upload -> Share \cup {None}] /\ None \notin Share
  BY NoneAssumption DEF BudgetInv, TypeInv, TypeOK
<1>2. share[s] # None => share[s] \in Share /\ share[s].count \in Nat
  BY <1>1 DEF Share
<1>3. CASE UNCHANGED share
  BY <1>2, <1>3
<1>4. ASSUME NEW r \in Request, Step(r) \/ Fault(r)
      PROVE  Forward(s)
  <2>1. CASE InsertShare(r)
    <3>1. r \in Upload /\ share[r] = None
      BY <2>1 DEF InsertShare, BudgetInv, TypeInv, PlaceOf, Uploading, NotYet
    <3>2. s # r => share'[s] = share[s]
      BY <1>1, <2>1 DEF InsertShare
    <3> QED
      BY <1>2, <3>1, <3>2
  <2>2. CASE ConsumeSlot(r)
    <3>1. target[r] \in Upload /\ share[target[r]] # None
          /\ share' = [share EXCEPT ![target[r]].count = @ + 1]
      BY <2>2 DEF ConsumeSlot, BudgetInv, TypeInv, PlaceOf, Redeeming
    <3>2. s # target[r] => share'[s] = share[s]
      BY <1>1, <3>1
    <3>3. s = target[r] => share'[s] = [share[s] EXCEPT !.count = @ + 1]
      BY <1>1, <3>1
    <3>4. [share[s] EXCEPT !.count = @ + 1] \in Share \/ share[s] = None
      BY <1>2 DEF Share
    <3> QED
      BY <1>1, <1>2, <3>2, <3>3, <3>4 DEF Share
  <2>3. CASE Revoke(r)
    <3>1. PICK t \in Upload : share[t] # None /\ share' = [share EXCEPT ![t].revoked = TRUE]
      BY <2>3 DEF Revoke
    <3>2. s # t => share'[s] = share[s]
      BY <1>1, <3>1
    <3>3. s = t => share'[s] = [share[s] EXCEPT !.revoked = TRUE]
      BY <1>1, <3>1
    <3>4. [share[s] EXCEPT !.revoked = TRUE] \in Share \/ share[s] = None
      BY <1>2 DEF Share
    <3> QED
      BY <1>1, <1>2, <3>2, <3>3, <3>4 DEF Share
  <2>4. CASE \/ LockStore(r) \/ StoreIsPoisoned(r) \/ UseVendor(r) \/ WriteBlob(r)
             \/ InsertPrint(r) \/ Lookup(r) \/ NoSlot(r) \/ ReadPrint(r)
             \/ NothingToRevoke(r) \/ WriteEvent(r) \/ Confirm(r) \/ OpenAudit(r)
             \/ ViewAudit(r) \/ AuditIsPoisoned(r) \/ Notify(r) \/ Respond(r)
    BY <1>3, <2>4
       DEF LockStore, StoreIsPoisoned, UseVendor, WriteBlob, InsertPrint, Lookup, NoSlot,
           ReadPrint, NothingToRevoke, WriteEvent, Confirm, OpenAudit, ViewAudit,
           AuditIsPoisoned, Notify, Respond, db
  <2>5. CASE Fault(r)
    BY <1>3, <2>5
       DEF Fault, Fails, InsertPrintFails, ExpiryOverflows, ShortTokenPanics, HangUp, db
  <2> QED
    BY <1>4, <2>1, <2>2, <2>3, <2>4, <2>5 DEF Step
<1>5. CASE Kill \/ Restart \/ Checkpoint \/ Tick \/ AllAnswered \/ UNCHANGED vars
  BY <1>3, <1>5 DEF Kill, Restart, Checkpoint, Tick, AllAnswered, vars, db
<1>6. ~PowerLoss
  BY DEF PowerLoss
<1> QED
  BY <1>4, <1>5, <1>6 DEF Next

-----------------------------------------------------------------------------
(* A share whose revocation was answered stays revoked.                    *)

Revoking == {"audit", "confirm", "respond", "ok"}

RevokedBy(v) ==
  pc[v] \in Revoking =>
    target[v] \in Upload /\ share[target[v]] # None /\ share[target[v]].revoked

RevokeInv == BudgetInv /\ \A v \in Revocation : RevokedBy(v)

\* Nobody but Revoke makes a revocation go on to the log.
NoRevocation(v) ==
  pc'[v] \in Revoking => pc[v] \in Revoking /\ target'[v] = target[v]

LEMMA FailNoRevocation ==
  ASSUME TypeInv, NEW r \in Request, Fail(r), NEW v \in Revocation
  PROVE  NoRevocation(v)
BY DEF Fail, NoRevocation, Revoking, TypeInv, TypeOK, Request

LEMMA StepNoRevocation ==
  ASSUME BudgetInv, NEW r \in Request, Step(r), ~Revoke(r), NEW v \in Revocation
  PROVE  NoRevocation(v)
<1> USE DEF NoRevocation, Revoking, BudgetInv, TypeInv, TypeOK, Request, Goto, ToAudit
<1>1. v \notin Upload /\ v \notin Redemption /\ v \notin View
  BY KindsAssumption
<1>2. CASE LockStore(r)
  BY <1>2 DEF LockStore, FirstStep
<1>3. CASE StoreIsPoisoned(r) \/ NothingToRevoke(r) \/ AuditIsPoisoned(r)
  BY <1>3, FailNoRevocation DEF StoreIsPoisoned, NothingToRevoke, AuditIsPoisoned, Abort
<1>4. CASE UseVendor(r) \/ WriteBlob(r) \/ InsertPrint(r) \/ InsertShare(r) \/ Notify(r)
  <2>1. r # v /\ r \in Upload
    BY <1>1, <1>4 DEF UseVendor, WriteBlob, InsertPrint, InsertShare, Notify, PlaceOf, Uploading
  <2>2. pc'[v] = pc[v] /\ target'[v] = target[v]
    BY <1>4, <2>1 DEF UseVendor, WriteBlob, InsertPrint, InsertShare, Notify
  <2> QED
    BY <2>2
<1>5. CASE Lookup(r) \/ ConsumeSlot(r) \/ NoSlot(r) \/ ReadPrint(r)
  <2>1. r # v /\ r \in Redemption
    BY <1>1, <1>5 DEF Lookup, ConsumeSlot, NoSlot, ReadPrint, PlaceOf, Redeeming
  <2>2. pc'[v] = pc[v] /\ target'[v] = target[v]
    BY <1>5, <2>1 DEF Lookup, ConsumeSlot, NoSlot, ReadPrint, Abort, Fail
  <2> QED
    BY <2>2
<1>6. CASE WriteEvent(r)
  BY <1>6 DEF WriteEvent
<1>7. CASE Confirm(r)
  BY <1>7 DEF Confirm, Fail
<1>8. CASE OpenAudit(r) \/ ViewAudit(r)
  <2>1. r # v
    BY <1>1, <1>8 DEF OpenAudit, ViewAudit, PlaceOf
  <2> QED
    BY <1>8, <2>1 DEF OpenAudit, ViewAudit
<1>9. CASE Respond(r)
  BY <1>9 DEF Respond, Succeed
<1> QED
  BY <1>2, <1>3, <1>4, <1>5, <1>6, <1>7, <1>8, <1>9 DEF Step

LEMMA RevokeRevokes ==
  ASSUME BudgetInv, NEW r \in Request, Revoke(r), NEW v \in Revocation
  PROVE  IF v = r THEN RevokedBy(v)' ELSE pc'[v] = pc[v] /\ target'[v] = target[v]
<1>1. PICK s \in Upload :
        /\ share[s] # None
        /\ share' = [share EXCEPT ![s].revoked = TRUE]
        /\ target' = [target EXCEPT ![r] = s]
        /\ ToAudit(r, "revoked", s)
  BY DEF Revoke
<1>2. share[s] \in Share /\ share \in [Upload -> Share \cup {None}]
  BY <1>1 DEF BudgetInv, TypeInv, TypeOK
<1>3. share'[s] = [share[s] EXCEPT !.revoked = TRUE] /\ share'[s] \in Share
  BY <1>1, <1>2 DEF Share
<1>4. share'[s] # None /\ share'[s].revoked
  BY <1>2, <1>3, NoneAssumption DEF Share
<1> QED
  BY <1>1, <1>4 DEF RevokedBy, ToAudit, Goto, BudgetInv, TypeInv, TypeOK, Request

LEMMA NextRevoke ==
  ASSUME "power" \notin Faults, RevokeInv, [Next]_vars
  PROVE  RevokeInv'
<1>1. BudgetInv /\ BudgetInv'
  BY NextBudget DEF RevokeInv
<1>2. \A s \in Upload : Forward(s)
  BY <1>1, RowsGoForward
<1>3. ASSUME NEW v \in Revocation, NoRevocation(v)
      PROVE  RevokedBy(v)'
  BY <1>2, <1>3 DEF NoRevocation, RevokeInv, RevokedBy, Forward
<1>4. ASSUME NEW v \in Revocation
      PROVE  RevokedBy(v)'
  <2>1. ASSUME NEW r \in Request, Step(r), ~Revoke(r)
        PROVE  RevokedBy(v)'
    BY <1>1, <1>3, <2>1, StepNoRevocation
  <2>2. ASSUME NEW r \in Request, Revoke(r)
        PROVE  RevokedBy(v)'
    <3>1. CASE v = r
      BY <1>1, <2>2, <3>1, RevokeRevokes
    <3>2. CASE v # r
      BY <1>1, <1>3, <2>2, <3>2, RevokeRevokes DEF NoRevocation
    <3> QED
      BY <3>1, <3>2
  <2>3. ASSUME NEW r \in Request, Fault(r)
        PROVE  RevokedBy(v)'
    <3>1. Fail(r)
      BY <2>3 DEF Fault, Fails, InsertPrintFails, ExpiryOverflows, ShortTokenPanics, HangUp, Abort
    <3> QED
      BY <1>1, <1>3, <3>1, FailNoRevocation DEF BudgetInv
  <2>4. CASE Kill
    BY <1>1, <1>3, <2>4
       DEF Kill, Down, InHand, NoRevocation, Revoking, BudgetInv, TypeInv, TypeOK, Request
  <2>5. CASE Restart \/ Checkpoint \/ Tick \/ AllAnswered \/ UNCHANGED vars
    BY <1>3, <2>5 DEF Restart, Checkpoint, Tick, AllAnswered, vars, procs, NoRevocation
  <2>6. ~PowerLoss
    BY DEF PowerLoss
  <2> QED
    BY <2>1, <2>2, <2>3, <2>4, <2>5, <2>6 DEF Next
<1> QED
  BY <1>1, <1>4 DEF RevokeInv

\* As long as the machine keeps its power a revocation that was answered stays, whatever
\* redemptions and further revocations race with it, fail or are killed.
THEOREM RevocationsStay ==
  "power" \notin Faults => (Spec => []RevokedForGood)
<1> SUFFICES ASSUME "power" \notin Faults
             PROVE  Spec => []RevokedForGood
  OBVIOUS
<1>1. Init => RevokeInv
  BY InitBudget DEF Init, RevokeInv, RevokedBy, Revoking, Request
<1>2. RevokeInv /\ [Next]_vars => RevokeInv'
  BY NextRevoke
<1>3. RevokeInv => RevokedForGood
  BY DEF RevokeInv, RevokedBy, Revoking, RevokedForGood
<1> QED
  BY <1>1, <1>2, <1>3, PTL DEF Spec

-----------------------------------------------------------------------------
(* Rows refer to rows that are there, and to a file that is there whole.   *)

Backed(u) ==
  /\ pc[u] \in {"row", "share"} => u \in blob
  /\ pc[u] = "share" => u \in print
  /\ pc[u] \in {"blob", "row", "share"} => vendor[target[u]] # None
  /\ share[u] # None => u \in blob /\ u \in print /\ vendor[share[u].vendor] # None

BackedInv == BudgetInv /\ \A u \in Upload : Backed(u)

\* What all steps but those of create_share do.
LEMMA UntouchedKeepsBacked ==
  ASSUME BackedInv, BudgetInv', \A s \in Upload : Forward(s),
         \A s \in Upload : share[s] = None => share'[s] = None,
         UNCHANGED <<vendor, print, blob>>,
         \A u \in Upload : pc'[u] \in {"blob", "row", "share"} =>
                             pc'[u] = pc[u] /\ target'[u] = target[u]
  PROVE  BackedInv'
BY DEF BackedInv, Backed, Forward

LEMMA UseVendorBacked ==
  ASSUME BackedInv, BudgetInv', NEW u \in Request, UseVendor(u)
  PROVE  BackedInv'
<1>1. /\ u \in Upload /\ vendor \in [Upload -> Email \cup {None}]
      /\ target \in [Request -> Upload \cup {None}] /\ pc \in [Request -> Steps]
      /\ \A q \in Request : pc[q] \in {"blob", "row", "share"} => target[q] \in Upload
      /\ \A s \in Upload : share[s] # None => share[s].vendor \in Upload
      /\ None \notin Email
  BY NoneAssumption
     DEF UseVendor, BackedInv, BudgetInv, TypeInv, TypeOK, PlaceOf, Uploading, Share
<1>2. /\ pc' = [pc EXCEPT ![u] = "blob"] /\ pc[u] = "vendor"
      /\ print' = print /\ share' = share /\ blob' = blob
  BY DEF UseVendor, Goto
<1>3. PICK e \in Email :
       \/ \E v \in Upload : /\ vendor[v] = e
                            /\ target' = [target EXCEPT ![u] = v]
                            /\ UNCHANGED vendor
       \/ /\ target' = [target EXCEPT ![u] = u]
          /\ vendor' = [vendor EXCEPT ![u] = e]
  BY DEF UseVendor
<1>4. \A v \in Upload : vendor[v] # None => vendor'[v] # None
  BY <1>1, <1>3
<1>5. \A q \in Upload \ {u} : target'[q] = target[q] /\ pc'[q] = pc[q]
  BY <1>1, <1>2, <1>3 DEF Request
<1>6. vendor'[target'[u]] # None /\ pc'[u] = "blob"
  BY <1>1, <1>2, <1>3 DEF Request
<1>7. \A q \in Upload : Backed(q)'
  BY <1>1, <1>2, <1>4, <1>5, <1>6 DEF BackedInv, Backed, Request
<1> QED
  BY <1>7 DEF BackedInv

LEMMA StorePrintBacked ==
  ASSUME BackedInv, BudgetInv', NEW u \in Request,
         WriteBlob(u) \/ InsertPrint(u) \/ InsertPrintFails(u)
  PROVE  BackedInv'
<1>1. u \in Upload /\ share[u] = None /\ pc \in [Request -> Steps]
      /\ target \in [Request -> Upload \cup {None}]
  BY DEF WriteBlob, InsertPrint, InsertPrintFails, BackedInv, BudgetInv, TypeInv, TypeOK,
         PlaceOf, Uploading, NotYet
<1>2. vendor' = vendor /\ share' = share
  BY DEF WriteBlob, InsertPrint, InsertPrintFails, db
<1>3. CASE WriteBlob(u)
  BY <1>1, <1>2, <1>3 DEF WriteBlob, Goto, BackedInv, Backed, Request, db
<1>4. CASE InsertPrint(u)
  BY <1>1, <1>2, <1>4 DEF InsertPrint, Goto, BackedInv, Backed, Request
<1>5. CASE InsertPrintFails(u)
  BY <1>1, <1>2, <1>5 DEF InsertPrintFails, Abort, Fail, BackedInv, Backed, Request, db
<1> QED
  BY <1>3, <1>4, <1>5

LEMMA InsertShareBacked ==
  ASSUME BackedInv, BudgetInv', NEW u \in Request, InsertShare(u)
  PROVE  BackedInv'
<1>1. /\ u \in Upload /\ share \in [Upload -> Share \cup {None}] /\ pc \in [Request -> Steps]
      /\ u \in blob /\ u \in print /\ vendor[target[u]] # None
  BY DEF InsertShare, BackedInv, Backed, BudgetInv, TypeInv, TypeOK, PlaceOf, Uploading
<1>2. PICK max \in Limit, life \in Lifetime :
        share' = [share EXCEPT ![u] =
                   [vendor |-> target[u], expires |-> now + life, max |-> max,
                    count |-> 0, revoked |-> FALSE]]
  BY DEF InsertShare
<1>3. share'[u].vendor = target[u]
  BY <1>1, <1>2
<1>4. \A q \in Upload \ {u} : share'[q] = share[q] /\ pc'[q] = pc[q]
  BY <1>1, <1>2 DEF InsertShare, ToAudit, Goto, Request
<1>5. /\ pc'[u] = "audit" /\ target' = target /\ vendor' = vendor /\ print' = print
      /\ blob' = blob
  BY <1>1 DEF InsertShare, ToAudit, Goto, Request
<1> QED
  BY <1>1, <1>3, <1>4, <1>5 DEF BackedInv, Backed

LEMMA NextBacked ==
  ASSUME "power" \notin Faults, BackedInv, [Next]_vars
  PROVE  BackedInv'
<1> DEFINE Storing == {"blob", "row", "share"}
           Elsewhere(u) == pc'[u] \in Storing => pc'[u] = pc[u] /\ target'[u] = target[u]
<1>1. /\ BudgetInv /\ BudgetInv' /\ \A s \in Upload : Forward(s)
  BY NextBudget, RowsGoForward DEF BackedInv
<1>2. ASSUME \A s \in Upload : share[s] = None => share'[s] = None,
             UNCHANGED <<vendor, print, blob>>, \A u \in Upload : Elsewhere(u)
      PROVE  BackedInv'
  BY <1>1, <1>2, UntouchedKeepsBacked
<1> USE DEF BudgetInv, TypeInv, TypeOK, Request, Goto, ToAudit
<1>3. ASSUME NEW r \in Request, Fail(r), UNCHANGED <<vendor, print, share, blob>>
      PROVE  BackedInv'
  <2>1. \A u \in Upload : Elsewhere(u)
    BY <1>1, <1>3 DEF Fail
  <2> QED
    BY <1>2, <1>3, <2>1
<1>4. ASSUME NEW r \in Request, Step(r)
      PROVE  BackedInv'
  <2>1. CASE UseVendor(r) \/ WriteBlob(r) \/ InsertPrint(r) \/ InsertShare(r)
    BY <1>1, <2>1, UseVendorBacked, StorePrintBacked, InsertShareBacked
  <2>2. CASE StoreIsPoisoned(r) \/ NothingToRevoke(r) \/ AuditIsPoisoned(r)
             \/ (ReadPrint(r) /\ ~Stored(target[r]))
    BY <1>3, <2>2 DEF StoreIsPoisoned, NothingToRevoke, AuditIsPoisoned, ReadPrint, Abort, db
  <2>3. CASE \/ LockStore(r) \/ WriteEvent(r) \/ OpenAudit(r) \/ ViewAudit(r)
             \/ Notify(r) \/ Respond(r)
    <3>1. \A u \in Upload : Elsewhere(u)
      BY <1>1, <2>3
         DEF LockStore, FirstStep, WriteEvent, OpenAudit, ViewAudit, Notify, Respond, Succeed
    <3>2. UNCHANGED <<vendor, print, share, blob>>
      BY <2>3 DEF LockStore, WriteEvent, OpenAudit, ViewAudit, Notify, Respond, db
    <3> QED
      BY <1>2, <3>1, <3>2
  <2>4. CASE Confirm(r)
    <3>1. \A u \in Upload : Elsewhere(u)
      BY <1>1, <2>4 DEF Confirm, Fail
    <3> QED
      BY <1>2, <2>4, <3>1 DEF Confirm, db
  <2>5. CASE Lookup(r) \/ ConsumeSlot(r) \/ NoSlot(r) \/ (ReadPrint(r) /\ Stored(target[r]))
    <3>1. r \notin Upload
      BY <1>1, <2>5, KindsAssumption
         DEF Lookup, ConsumeSlot, NoSlot, ReadPrint, PlaceOf, Redeeming
    <3>2. \A u \in Upload : Elsewhere(u)
      BY <1>1, <2>5, <3>1 DEF Lookup, ConsumeSlot, NoSlot, ReadPrint
    <3>3. UNCHANGED <<vendor, print, blob>>
      BY <2>5 DEF Lookup, ConsumeSlot, NoSlot, ReadPrint, db
    <3>4. \A s \in Upload : share[s] = None => share'[s] = None
      BY <1>1, <2>5 DEF Lookup, ConsumeSlot, NoSlot, ReadPrint, db, PlaceOf, Redeeming
    <3> QED
      BY <1>2, <3>2, <3>3, <3>4
  <2>6. CASE Revoke(r)
    <3>1. r \notin Upload
      BY <1>1, <2>6, KindsAssumption DEF Revoke, PlaceOf
    <3>2. \A u \in Upload : Elsewhere(u)
      BY <1>1, <2>6, <3>1 DEF Revoke
    <3>3. \A s \in Upload : share[s] = None => share'[s] = None
      BY <1>1, <2>6 DEF Revoke
    <3> QED
      BY <1>2, <2>6, <3>2, <3>3 DEF Revoke
  <2> QED
    BY <1>4, <2>1, <2>2, <2>3, <2>4, <2>5, <2>6 DEF Step
<1>5. ASSUME NEW r \in Request, Fault(r)
      PROVE  BackedInv'
  <2>1. CASE InsertPrintFails(r)
    BY <1>1, <2>1, StorePrintBacked
  <2>2. CASE Fails(r) \/ ExpiryOverflows(r) \/ ShortTokenPanics(r) \/ HangUp(r)
    BY <1>3, <2>2 DEF Fails, ExpiryOverflows, ShortTokenPanics, HangUp, Abort, db
  <2> QED
    BY <1>5, <2>1, <2>2 DEF Fault
<1>6. CASE Kill
  <2>1. \A u \in Upload : Elsewhere(u)
    BY <1>1, <1>6 DEF Kill, Down, InHand
  <2> QED
    BY <1>2, <1>6, <2>1 DEF Kill, db
<1>7. CASE Restart \/ Checkpoint \/ Tick \/ AllAnswered \/ UNCHANGED vars
  BY <1>2, <1>7 DEF Restart, Checkpoint, Tick, AllAnswered, vars, procs, db
<1>8. ~PowerLoss
  BY DEF PowerLoss
<1> QED
  BY <1>4, <1>5, <1>6, <1>7, <1>8 DEF Next

\* As long as the machine keeps its power every share has a vendor, a print and the
\* whole file, wherever create_share failed, panicked or was killed on its way.
THEOREM SharesAreBacked ==
  "power" \notin Faults => (Spec => []NothingDangles)
<1> SUFFICES ASSUME "power" \notin Faults
             PROVE  Spec => []NothingDangles
  OBVIOUS
<1>1. Init => BackedInv
  BY InitBudget DEF Init, BackedInv, Backed, Request
<1>2. BackedInv /\ [Next]_vars => BackedInv'
  BY NextBacked
<1>3. BackedInv => NothingDangles
  BY DEF BackedInv, Backed, NothingDangles, Stored
<1> QED
  BY <1>1, <1>2, <1>3, PTL DEF Spec
=============================================================================
