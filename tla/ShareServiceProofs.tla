-------------------------- MODULE ShareServiceProofs --------------------------
(***************************************************************************)
(* Proofs about ShareService, for every set of requests and of values and, *)
(* unless the theorem says otherwise, every combination of faults.         *)
(***************************************************************************)
EXTENDS ShareService, FiniteSetTheorems, TLAPS

Uploading == {"vendor", "blob", "row", "share", "notify"}
Redeeming == {"lookup", "consume", "read"}
Auditing == {"audit", "confirm"}

\* Each request is at a step of its own handler, and has at hand what the step uses.
PlaceOf(r) ==
  /\ pc[r] \in Uploading => r \in Upload
  /\ pc[r] \in Redeeming => r \in Redemption
  /\ pc[r] = "revoke" => r \in Revocation
  /\ pc[r] = "view" => r \in View
  /\ pc[r] \in {"blob", "row", "share"} => target[r] \in Upload
  /\ pc[r] \in {"consume", "read"} => target[r] \in Upload /\ share[target[r]] # None
  /\ pc[r] \in Auditing => entry[r] # None /\ entry[r].by = r

TypeInv == TypeOK /\ \A r \in Request : PlaceOf(r)

LEMMA InitType == Init => TypeInv
<1> SUFFICES ASSUME Init
             PROVE  TypeInv
  OBVIOUS
<1>1. TypeOK
  <2>1. vendor \in [Upload -> Email \cup {None}] /\ print \in SUBSET Upload
        /\ share \in [Upload -> Share \cup {None}]
    BY DEF Init
  <2>2. survivors \in SUBSET [vendor : [Upload -> Email \cup {None}], print : SUBSET Upload,
                             share : [Upload -> Share \cup {None}]]
    BY <2>1 DEF Init, State
  <2>3. trail \in Seq(Entry) /\ kept \in 0..Len(trail)
    BY DEF Init, Trail!Init
  <2>4. pc \in [Request -> Steps]
    BY DEF Init, Steps
  <2> QED
    BY <2>1, <2>2, <2>3, <2>4 DEF Init, TypeOK
<1>2. \A r \in Request : PlaceOf(r)
  BY DEF Init, PlaceOf, Uploading, Redeeming, Auditing
<1> QED
  BY <1>1, <1>2 DEF TypeInv

LEMMA CommitType ==
  ASSUME TypeInv,
         vendor' \in [Upload -> Email \cup {None}],
         print' \in SUBSET Upload,
         share' \in [Upload -> Share \cup {None}],
         Commit(vendor', print', share')
  PROVE  survivors' \in SUBSET [vendor : [Upload -> Email \cup {None}], print : SUBSET Upload,
                               share : [Upload -> Share \cup {None}]]
BY DEF TypeInv, TypeOK, Commit, State

LEMMA LockStoreType ==
  ASSUME TypeInv, NEW r \in Request, LockStore(r)
  PROVE  TypeInv'
BY KindsAssumption
   DEF TypeInv, TypeOK, PlaceOf, Uploading, Redeeming, Auditing, LockStore,
       Goto, FirstStep, Steps, db, log, Request

LEMMA AbortType ==
  ASSUME TypeInv, NEW r \in Request, Abort(r),
         UNCHANGED <<up, now, db, mailed, log>>, blob' \in SUBSET Upload
  PROVE  TypeInv'
BY DEF TypeInv, TypeOK, PlaceOf, Uploading, Redeeming, Auditing, Abort, Fail,
       Unlock, Steps, db, log

LEMMA UseVendorType ==
  ASSUME TypeInv, NEW u \in Request, UseVendor(u)
  PROVE  TypeInv'
BY DEF TypeInv, TypeOK, PlaceOf, Uploading, Redeeming, Auditing, UseVendor,
       Goto, Steps, Commit, State, locks, db, log

LEMMA ToAuditType ==
  ASSUME TypeInv, NEW r \in Request, NEW what \in What, NEW s \in Upload \cup {None},
         ToAudit(r, what, s)
  PROVE  /\ pc' \in [Request -> Steps]
         /\ pc'[r] = "audit"
         /\ entry' \in [Request -> Entry \cup {None}]
         /\ entry'[r] # None /\ entry'[r].by = r
         /\ \A q \in Request : q # r => pc'[q] = pc[q] /\ entry'[q] = entry[q]
<1>1. [what |-> what, share |-> s, by |-> r] \in Entry
  BY DEF Entry
<1> QED
  BY <1>1, NoneAssumption DEF ToAudit, Goto, TypeInv, TypeOK, Steps

\* Rows of shares are added and changed, but do not go away.
SharesStay == \A s \in Upload : share[s] # None => share'[s] # None

LEMMA InsertShareType ==
  ASSUME TypeInv, NEW u \in Request, InsertShare(u)
  PROVE  TypeInv' /\ SharesStay
<1>1. u \in Upload /\ target[u] \in Upload
  BY DEF InsertShare, TypeInv, PlaceOf, Uploading
<1>2. PICK max \in Limit, life \in Lifetime :
        share' = [share EXCEPT ![u] =
                   [vendor |-> target[u], expires |-> now + life, max |-> max,
                    count |-> 0, revoked |-> FALSE]]
  BY DEF InsertShare
<1>3. [vendor |-> target[u], expires |-> now + life, max |-> max,
       count |-> 0, revoked |-> FALSE] \in Share
  BY <1>1, NumbersAssumption DEF TypeInv, TypeOK, Share
<1>4. share' \in [Upload -> Share \cup {None}] /\ SharesStay
  BY <1>1, <1>2, <1>3, NoneAssumption DEF TypeInv, TypeOK, SharesStay
<1>5. ToAudit(u, "created", u) /\ "created" \in What
  BY DEF InsertShare, What
<1>6. /\ pc' \in [Request -> Steps]
      /\ pc'[u] = "audit"
      /\ entry' \in [Request -> Entry \cup {None}]
      /\ entry'[u] # None /\ entry'[u].by = u
      /\ \A q \in Request : q # u => pc'[q] = pc[q] /\ entry'[q] = entry[q]
  BY <1>1, <1>5, ToAuditType
<1>7. TypeOK'
  <2>1. /\ vendor' = vendor /\ print' = print
        /\ Commit(vendor', print', share')
    BY DEF InsertShare
  <2>2. survivors' \in SUBSET [vendor : [Upload -> Email \cup {None}], print : SUBSET Upload,
                              share : [Upload -> Share \cup {None}]]
    BY <1>4, <2>1, CommitType DEF TypeInv, TypeOK
  <2> QED
    BY <1>4, <1>6, <2>2 DEF InsertShare, TypeInv, TypeOK, locks, log
<1>8. \A q \in Request : PlaceOf(q)'
  BY <1>4, <1>6
     DEF InsertShare, TypeInv, TypeOK, PlaceOf, SharesStay, Uploading, Redeeming, Auditing
<1> QED
  BY <1>4, <1>7, <1>8 DEF TypeInv

LEMMA LookupType ==
  ASSUME TypeInv, NEW r \in Request, Lookup(r)
  PROVE  TypeInv'
<1>1. r \in Redemption /\ Released \subseteq Upload
  BY DEF Lookup, TypeInv, TypeOK, PlaceOf, Redeeming, Released
<1>2. {"unknown_token", "bad_access_code"} \subseteq What
  BY DEF What
<1>3. CASE ToAudit(r, "unknown_token", None) /\ UNCHANGED target
  BY <1>1, <1>2, <1>3, ToAuditType
     DEF Lookup, TypeInv, TypeOK, PlaceOf, Uploading, Redeeming, Auditing, locks, db, log
<1>4. ASSUME NEW s \in Released, share[s] # None,
             target' = [target EXCEPT ![r] = s],
             ToAudit(r, "bad_access_code", s)
      PROVE  TypeInv'
  <2>1. /\ pc' \in [Request -> Steps]
        /\ pc'[r] = "audit"
        /\ entry' \in [Request -> Entry \cup {None}]
        /\ entry'[r] # None /\ entry'[r].by = r
        /\ \A q \in Request : q # r => pc'[q] = pc[q] /\ entry'[q] = entry[q]
    BY <1>1, <1>2, <1>4, ToAuditType
  <2>2. TypeOK'
    BY <1>1, <1>4, <2>1 DEF Lookup, TypeInv, TypeOK, locks, db, log
  <2>3. \A q \in Request : PlaceOf(q)'
    BY <1>4, <2>1 DEF Lookup, TypeInv, TypeOK, PlaceOf, Uploading, Redeeming, Auditing, db
  <2> QED
    BY <2>2, <2>3 DEF TypeInv
<1>5. ASSUME NEW s \in Released, share[s] # None,
             target' = [target EXCEPT ![r] = s],
             Goto(r, "consume"), UNCHANGED entry
      PROVE  TypeInv'
  BY <1>1, <1>5
     DEF Lookup, TypeInv, TypeOK, PlaceOf, Uploading, Redeeming, Auditing, Goto, Steps,
         locks, db, log
<1> QED
  BY <1>3, <1>4, <1>5 DEF Lookup

LEMMA ConsumeSlotType ==
  ASSUME TypeInv, NEW r \in Request, ConsumeSlot(r)
  PROVE  TypeInv'
BY NoneAssumption DEF TypeInv, TypeOK, PlaceOf, Uploading, Redeeming, Auditing, ConsumeSlot,
       Goto, Steps, locks, db, log, Share, Commit, State

LEMMA RevokeType ==
  ASSUME TypeInv, NEW v \in Request, Revoke(v)
  PROVE  TypeInv' /\ SharesStay
<1>1. PICK s \in Upload :
        /\ share[s] # None
        /\ share' = [share EXCEPT ![s].revoked = TRUE]
        /\ target' = [target EXCEPT ![v] = s]
        /\ ToAudit(v, "revoked", s)
  BY DEF Revoke
<1>2. share' \in [Upload -> Share \cup {None}] /\ SharesStay
  <2>1. [share[s] EXCEPT !.revoked = TRUE] \in Share
    BY <1>1 DEF TypeInv, TypeOK, Share
  <2>2. /\ share' = [t \in Upload |-> IF t = s THEN [share[s] EXCEPT !.revoked = TRUE]
                                                ELSE share[t]]
        /\ \A t \in Upload : share[t] \in Share \cup {None}
    BY <1>1 DEF TypeInv, TypeOK
  <2>3. None \notin Share
    BY NoneAssumption
  <2>4. share' \in [Upload -> Share \cup {None}]
    BY <2>1, <2>2
  <2>5. SharesStay
    BY <2>1, <2>2, <2>3 DEF SharesStay
  <2> QED
    BY <2>4, <2>5
<1>3. /\ pc' \in [Request -> Steps]
      /\ pc'[v] = "audit"
      /\ entry' \in [Request -> Entry \cup {None}]
      /\ entry'[v] # None /\ entry'[v].by = v
      /\ \A q \in Request : q # v => pc'[q] = pc[q] /\ entry'[q] = entry[q]
  BY <1>1, ToAuditType DEF What
<1>4. TypeOK'
  <2>1. /\ vendor' = vendor /\ print' = print
        /\ Commit(vendor', print', share')
    BY DEF Revoke
  <2>2. survivors' \in SUBSET [vendor : [Upload -> Email \cup {None}], print : SUBSET Upload,
                              share : [Upload -> Share \cup {None}]]
    BY <1>2, <2>1, CommitType DEF TypeInv, TypeOK
  <2> QED
    BY <1>1, <1>2, <1>3, <2>2 DEF Revoke, TypeInv, TypeOK, locks, log
<1>5. \A q \in Request : PlaceOf(q)'
  BY <1>1, <1>2, <1>3
     DEF TypeInv, TypeOK, PlaceOf, SharesStay, Uploading, Redeeming, Auditing
<1> QED
  BY <1>2, <1>4, <1>5 DEF TypeInv

LEMMA WriteEventType ==
  ASSUME TypeInv, NEW r \in Request, WriteEvent(r)
  PROVE  TypeInv'
BY DEF TypeInv, TypeOK, PlaceOf, Uploading, Redeeming, Auditing, WriteEvent,
       Goto, Steps, db, Trail!Write

LEMMA ConfirmType ==
  ASSUME TypeInv, NEW r \in Request, Confirm(r)
  PROVE  TypeInv'
BY DEF TypeInv, TypeOK, PlaceOf, Uploading, Redeeming, Auditing, Confirm, Fail, Unlock,
       Goto, Steps, db, Trail!Confirm

LEMMA DownType ==
  ASSUME TypeInv, Down
  PROVE  /\ up' = FALSE /\ now' = now /\ mailed' = mailed
         /\ pc' \in [Request -> Steps]
         /\ target' \in [Request -> Upload \cup {None}]
         /\ entry' \in [Request -> Entry \cup {None}]
         /\ storeLock' = None /\ auditLock' = None
         /\ storePoisoned' = FALSE /\ auditPoisoned' = FALSE
         /\ \A r \in Request : pc'[r] \in {"wait", "ok", "failed"}
BY DEF Down, InHand, TypeInv, TypeOK, Steps

LEMMA KillType ==
  ASSUME TypeInv, Kill
  PROVE  TypeInv'
BY DownType DEF Kill, TypeInv, TypeOK, PlaceOf, Uploading, Redeeming, Auditing, db, log

LEMMA PowerLossType ==
  ASSUME TypeInv, PowerLoss
  PROVE  TypeInv'
<1>1. PICK d \in survivors :
        vendor' = d.vendor /\ print' = d.print /\ share' = d.share /\ survivors' = {d}
  BY DEF PowerLoss
<1>2. trail' \in Seq(Entry) /\ kept' \in 0..Len(trail')
  BY DEF PowerLoss, Trail!Lose, TypeInv, TypeOK
<1>3. blob' \in SUBSET Upload
  BY DEF PowerLoss, TypeInv, TypeOK
<1>4. Down
  BY DEF PowerLoss
<1>5. TypeOK'
  BY <1>1, <1>2, <1>3, <1>4, DownType DEF TypeInv, TypeOK
<1>6. \A r \in Request : PlaceOf(r)'
  BY <1>4, DownType DEF PlaceOf, Uploading, Redeeming, Auditing
<1> QED
  BY <1>5, <1>6 DEF TypeInv

\* The steps that leave the rows and the events alone.
LEMMA SmallStepType ==
  ASSUME TypeInv, NEW r \in Request,
         \/ WriteBlob(r) \/ Notify(r) \/ Respond(r) \/ HangUp(r)
         \/ OpenAudit(r) \/ ViewAudit(r) \/ ExpiryOverflows(r) \/ ShortTokenPanics(r)
  PROVE  TypeInv'
<1> USE DEF TypeInv, TypeOK, PlaceOf, Uploading, Redeeming, Auditing, Steps, Goto, locks, db, log
<1>1. CASE WriteBlob(r)
  BY <1>1 DEF WriteBlob
<1>2. CASE Notify(r)
  BY <1>2 DEF Notify
<1>3. CASE Respond(r)
  BY <1>3 DEF Respond, Succeed
<1>4. CASE HangUp(r)
  BY <1>4 DEF HangUp, Fail
<1>5. CASE OpenAudit(r)
  BY <1>5 DEF OpenAudit
<1>6. CASE ViewAudit(r)
  BY <1>6 DEF ViewAudit, Unlock
<1>7. CASE ExpiryOverflows(r)
  BY <1>7 DEF ExpiryOverflows, Fail
<1>8. CASE ShortTokenPanics(r)
  BY <1>8 DEF ShortTokenPanics, Fail
<1> QED
  BY <1>1, <1>2, <1>3, <1>4, <1>5, <1>6, <1>7, <1>8

LEMMA InsertPrintType ==
  ASSUME TypeInv, NEW u \in Request, InsertPrint(u)
  PROVE  TypeInv'
<1>1. u \in Upload
  BY DEF InsertPrint, TypeInv, PlaceOf, Uploading
<1>2. /\ vendor' = vendor /\ share' = share /\ print' = print \cup {u}
      /\ Commit(vendor', print', share')
  BY DEF InsertPrint
<1>3. survivors' \in SUBSET [vendor : [Upload -> Email \cup {None}], print : SUBSET Upload,
                            share : [Upload -> Share \cup {None}]]
  BY <1>1, <1>2, CommitType DEF TypeInv, TypeOK
<1>4. TypeOK'
  BY <1>1, <1>2, <1>3 DEF InsertPrint, TypeInv, TypeOK, Goto, Steps, locks, log
<1>5. \A q \in Request : PlaceOf(q)'
  BY DEF InsertPrint, TypeInv, TypeOK, PlaceOf, Uploading, Redeeming, Auditing, Goto, log
<1> QED
  BY <1>4, <1>5 DEF TypeInv

LEMMA NoSlotType ==
  ASSUME TypeInv, NEW r \in Request, NoSlot(r)
  PROVE  TypeInv'
<1>1. r \in Redemption /\ target[r] \in Upload
  BY DEF NoSlot, TypeInv, PlaceOf, Redeeming
<1>2. /\ pc' \in [Request -> Steps]
      /\ pc'[r] = "audit"
      /\ entry' \in [Request -> Entry \cup {None}]
      /\ entry'[r] # None /\ entry'[r].by = r
      /\ \A q \in Request : q # r => pc'[q] = pc[q] /\ entry'[q] = entry[q]
  BY <1>1, ToAuditType DEF NoSlot, What
<1> QED
  BY <1>2 DEF NoSlot, TypeInv, TypeOK, PlaceOf, Uploading, Redeeming, Auditing, locks, db, log

LEMMA ReadPrintType ==
  ASSUME TypeInv, NEW r \in Request, ReadPrint(r)
  PROVE  TypeInv'
<1>1. r \in Redemption /\ target[r] \in Upload
  BY DEF ReadPrint, TypeInv, PlaceOf, Redeeming
<1>2. CASE ToAudit(r, "redeemed", target[r]) /\ UNCHANGED <<target, locks>>
  <2>1. /\ pc' \in [Request -> Steps]
        /\ pc'[r] = "audit"
        /\ entry' \in [Request -> Entry \cup {None}]
        /\ entry'[r] # None /\ entry'[r].by = r
        /\ \A q \in Request : q # r => pc'[q] = pc[q] /\ entry'[q] = entry[q]
    BY <1>1, <1>2, ToAuditType DEF What
  <2> QED
    BY <1>2, <2>1
       DEF ReadPrint, TypeInv, TypeOK, PlaceOf, Uploading, Redeeming, Auditing, locks, db, log
<1>3. CASE Abort(r)
  BY <1>3, AbortType DEF ReadPrint, TypeInv, TypeOK
<1> QED
  BY <1>2, <1>3 DEF ReadPrint

LEMMA EarlyEndType ==
  ASSUME TypeInv, NEW r \in Request,
         \/ StoreIsPoisoned(r) \/ NothingToRevoke(r) \/ AuditIsPoisoned(r)
         \/ Fails(r) \/ InsertPrintFails(r)
  PROVE  TypeInv'
<1>1. Abort(r) /\ UNCHANGED <<up, now, db, mailed, log>>
  BY DEF StoreIsPoisoned, NothingToRevoke, AuditIsPoisoned, Fails, InsertPrintFails
<1>2. blob' \in SUBSET Upload
  BY DEF StoreIsPoisoned, NothingToRevoke, AuditIsPoisoned, Fails, InsertPrintFails, TypeInv, TypeOK
<1> QED
  BY <1>1, <1>2, AbortType

LEMMA OtherStepType ==
  ASSUME TypeInv, Restart \/ Checkpoint \/ Tick \/ UNCHANGED vars
  PROVE  TypeInv'
<1>1. CASE Restart
  BY <1>1 DEF Restart, TypeInv, TypeOK, PlaceOf, procs, locks, db, log
<1>2. CASE Checkpoint
  BY <1>2 DEF Checkpoint, State, TypeInv, TypeOK, PlaceOf, procs, locks, log
<1>3. CASE Tick
  BY <1>3 DEF Tick, TypeInv, TypeOK, PlaceOf, procs, locks, db, log
<1>4. CASE UNCHANGED vars
  BY <1>4 DEF vars, TypeInv, TypeOK, PlaceOf, procs, locks, db, log
<1> QED
  BY <1>1, <1>2, <1>3, <1>4

LEMMA NextType == TypeInv /\ [Next]_vars => TypeInv'
<1> SUFFICES ASSUME TypeInv, [Next]_vars
             PROVE  TypeInv'
  OBVIOUS
<1>1. ASSUME NEW r \in Request, Step(r)
      PROVE  TypeInv'
  BY <1>1, LockStoreType, EarlyEndType, UseVendorType, SmallStepType, InsertPrintType,
     InsertShareType, LookupType, ConsumeSlotType, NoSlotType, ReadPrintType, RevokeType,
     WriteEventType, ConfirmType
     DEF Step
<1>2. ASSUME NEW r \in Request, Fault(r)
      PROVE  TypeInv'
  BY <1>2, EarlyEndType, SmallStepType DEF Fault
<1>3. CASE Kill
  BY <1>3, KillType
<1>4. CASE PowerLoss
  BY <1>4, PowerLossType
<1>5. CASE Restart \/ Checkpoint \/ Tick \/ AllAnswered \/ UNCHANGED vars
  BY <1>5, OtherStepType DEF AllAnswered
<1> QED
  BY <1>1, <1>2, <1>3, <1>4, <1>5 DEF Next

\* The state stays well formed, and every request at a step of its own handler.
THEOREM TypeInvHolds == Spec => []TypeInv
<1>1. Init => TypeInv
  BY InitType
<1>2. TypeInv /\ [Next]_vars => TypeInv'
  BY NextType
<1> QED
  BY <1>1, <1>2, PTL DEF Spec

\* Whatever fails, the variables of the service keep their types: no handler
\* leaves a row, an event or a database state it should not have made.
THEOREM TypeCorrect == Spec => []TypeOK
<1>1. TypeInv => TypeOK
  BY DEF TypeInv
<1> QED
  BY <1>1, TypeInvHolds, PTL

-----------------------------------------------------------------------------
(* However many redemptions race, a share is downloaded no more often than *)
(* its row allows.  What is counted by download_count is more than the     *)
(* downloads: every redemption that has taken a slot, whether or not it    *)
(* ends well.  Only ConsumeSlot makes that set larger, and it counts.      *)

HasSlot(r) ==
  \/ pc[r] \in {"read", "respond", "ok"}
  \/ pc[r] \in Auditing /\ entry[r].what = "redeemed"

Spent(s) == {r \in Redemption : HasSlot(r) /\ target[r] = s}

\* A redemption reports a download or why there was none.
OwnEvent(r) == pc[r] \in Auditing => entry[r].what \in Denied \cup {"redeemed"}

\* There is no row before InsertShare.
NotYet(u) == pc[u] \in {"wait", "vendor", "blob", "row", "share"} => share[u] = None

RowCounts(s) ==
  /\ share[s] = None => Spent(s) = {}
  /\ share[s] # None => Cardinality(Spent(s)) <= share[s].count /\ share[s].count <= share[s].max

BudgetInv ==
  /\ TypeInv
  /\ \A r \in Redemption : OwnEvent(r)
  /\ \A u \in Upload : NotYet(u)
  /\ \A s \in Upload : RowCounts(s)

\* What all steps but two do to the rows and to those who have a slot.
SameRow(s) ==
  /\ share[s] = None => share'[s] = None
  /\ share[s] # None => /\ share'[s] # None
                       /\ share'[s].count = share[s].count
                       /\ share'[s].max = share[s].max

NoNewSlot(r) == HasSlot(r)' => HasSlot(r) /\ target'[r] = target[r]

Quiet ==
  /\ \A r \in Redemption : OwnEvent(r)' /\ NoNewSlot(r)
  /\ \A s \in Upload : NotYet(s)' /\ SameRow(s)

LEMMA SpentIsFinite ==
  ASSUME NEW s \in Upload
  PROVE  IsFiniteSet(Spent(s))
BY RequestsAssumption, FS_Subset DEF Spent

LEMMA QuietKeepsBudget ==
  ASSUME BudgetInv, TypeInv', Quiet
  PROVE  BudgetInv'
<1>1. ASSUME NEW s \in Upload
      PROVE  RowCounts(s)'
  <2>1. Spent(s)' \subseteq Spent(s)
    BY DEF Spent, Quiet, NoNewSlot
  <2>2. /\ IsFiniteSet(Spent(s)')
        /\ Cardinality(Spent(s)') <= Cardinality(Spent(s))
        /\ Cardinality(Spent(s)') \in Nat /\ Cardinality(Spent(s)) \in Nat
    BY <2>1, SpentIsFinite, FS_Subset, FS_CardinalityType
  <2>3. CASE share[s] = None
    BY <2>1, <2>3 DEF RowCounts, BudgetInv, Quiet, SameRow
  <2>4. CASE share[s] # None
    <3>1. share[s] \in Share
      BY <2>4 DEF BudgetInv, TypeInv, TypeOK
    <3>2. /\ share[s].count \in Nat
          /\ Cardinality(Spent(s)) <= share[s].count
          /\ share[s].count <= share[s].max
      BY <2>4, <3>1 DEF Share, BudgetInv, RowCounts
    <3>3. /\ share'[s] # None
          /\ share'[s].count = share[s].count
          /\ share'[s].max = share[s].max
      BY <2>4 DEF Quiet, SameRow
    <3>4. Cardinality(Spent(s)') <= share[s].count
      BY <2>2, <3>2
    <3> QED
      BY <3>2, <3>3, <3>4 DEF RowCounts
  <2> QED
    BY <2>3, <2>4
<1> QED
  BY <1>1 DEF BudgetInv, Quiet

LEMMA InsertShareCounts ==
  ASSUME BudgetInv, TypeInv', NEW u \in Request, InsertShare(u)
  PROVE  BudgetInv'
<1>1. u \in Upload /\ u \notin Redemption /\ share[u] = None
  BY KindsAssumption DEF InsertShare, BudgetInv, TypeInv, PlaceOf, Uploading, NotYet
<1>2. PICK max \in Limit, life \in Lifetime :
        share' = [share EXCEPT ![u] =
                   [vendor |-> target[u], expires |-> now + life, max |-> max,
                    count |-> 0, revoked |-> FALSE]]
  BY DEF InsertShare
<1>3. \A r \in Redemption : pc'[r] = pc[r] /\ entry'[r] = entry[r] /\ target'[r] = target[r]
  BY <1>1 DEF InsertShare, ToAudit, Goto, BudgetInv, TypeInv, TypeOK, Request
<1>4. \A s \in Upload : Spent(s)' = Spent(s)
  BY <1>3 DEF Spent, HasSlot
<1>5. \A r \in Redemption : OwnEvent(r)'
  BY <1>3 DEF OwnEvent, BudgetInv
<1>6. \A s \in Upload : NotYet(s)'
  BY <1>1, <1>2 DEF InsertShare, ToAudit, Goto, NotYet, BudgetInv, TypeInv, TypeOK, Request
<1>7. ASSUME NEW s \in Upload
      PROVE  RowCounts(s)'
  <2>1. CASE s = u
    <3>1. Spent(u)' = {}
      BY <1>1, <1>4 DEF BudgetInv, RowCounts
    <3>2. share'[u].count = 0 /\ share'[u].max = max
      BY <1>1, <1>2 DEF BudgetInv, TypeInv, TypeOK
    <3> QED
      BY <2>1, <3>1, <3>2, FS_EmptySet, NumbersAssumption DEF RowCounts
  <2>2. CASE s # u
    BY <1>2, <1>4, <2>2 DEF BudgetInv, RowCounts, TypeInv, TypeOK
  <2> QED
    BY <2>1, <2>2
<1> QED
  BY <1>5, <1>6, <1>7 DEF BudgetInv

LEMMA ConsumeSlotCounts ==
  ASSUME BudgetInv, TypeInv', NEW r \in Request, ConsumeSlot(r)
  PROVE  BudgetInv'
<1> DEFINE t == target[r]
<1>1. r \in Redemption /\ t \in Upload /\ share[t] \in Share /\ share[t] # None
  BY DEF ConsumeSlot, BudgetInv, TypeInv, TypeOK, PlaceOf, Redeeming
<1>2. share' = [share EXCEPT ![t].count = @ + 1] /\ share[t].count < share[t].max
  BY DEF ConsumeSlot, Consumable
<1>3. /\ pc' = [pc EXCEPT ![r] = "read"] /\ pc[r] = "consume"
      /\ target' = target /\ entry' = entry
  BY DEF ConsumeSlot, Goto
<1>4. \A q \in Redemption : OwnEvent(q)'
  BY <1>3 DEF OwnEvent, Auditing, BudgetInv, TypeInv, TypeOK, Request
<1>5. \A s \in Upload : NotYet(s)'
  BY <1>1, <1>2, <1>3, KindsAssumption DEF NotYet, BudgetInv, TypeInv, TypeOK, Request
<1>6. ASSUME NEW s \in Upload
      PROVE  RowCounts(s)'
  <2>1. CASE s = t
    <3>1. Spent(s)' = Spent(s) \cup {r} /\ r \notin Spent(s)
      BY <1>1, <1>3, <2>1 DEF Spent, HasSlot, Auditing, BudgetInv, TypeInv, TypeOK, Request
    <3>2. Cardinality(Spent(s)') = Cardinality(Spent(s)) + 1 /\ Cardinality(Spent(s)) \in Nat
      BY <3>1, SpentIsFinite, FS_AddElement, FS_CardinalityType
    <3>3. /\ share'[s].count = share[s].count + 1 /\ share'[s].max = share[s].max
          /\ share[s].count \in Nat /\ share[s].max \in Nat
      BY <1>1, <1>2, <2>1, NumbersAssumption DEF BudgetInv, TypeInv, TypeOK, Share
    <3>4. Cardinality(Spent(s)) <= share[s].count /\ share[s].count < share[s].max
      BY <1>1, <1>2, <2>1 DEF BudgetInv, RowCounts
    <3>5. share'[s] # None
      BY <1>1, <1>2, <2>1, NoneAssumption DEF BudgetInv, TypeInv, TypeOK, Share
    <3>6. Cardinality(Spent(s)') <= share'[s].count /\ share'[s].count <= share'[s].max
      BY <3>2, <3>3, <3>4
    <3> QED
      BY <3>5, <3>6 DEF RowCounts
  <2>2. CASE s # t
    <3>1. Spent(s)' = Spent(s)
      BY <1>1, <1>3, <2>2 DEF Spent, HasSlot, Auditing, BudgetInv, TypeInv, TypeOK, Request
    <3>2. share'[s] = share[s]
      BY <1>2, <2>2 DEF BudgetInv, TypeInv, TypeOK
    <3> QED
      BY <3>1, <3>2 DEF BudgetInv, RowCounts
  <2> QED
    BY <2>1, <2>2
<1> QED
  BY <1>4, <1>5, <1>6 DEF BudgetInv

\* What a request does when it goes on to the audit log, seen by this argument.
LEMMA AuditQuiet ==
  ASSUME BudgetInv, NEW r \in Request, NEW what \in What, NEW s \in Upload \cup {None},
         ToAudit(r, what, s),
         r \in Redemption => what \in Denied \/ (what = "redeemed" /\ HasSlot(r) /\ target' = target),
         r \notin Upload,
         \A q \in Request : q # r => target'[q] = target[q],
         \A t \in Upload : SameRow(t)
  PROVE  Quiet
<1>1. /\ pc' \in [Request -> Steps]
      /\ pc'[r] = "audit"
      /\ entry'[r] # None /\ entry'[r].by = r
      /\ \A q \in Request : q # r => pc'[q] = pc[q] /\ entry'[q] = entry[q]
  BY ToAuditType DEF BudgetInv
<1>2. entry'[r].what = what
  BY DEF ToAudit, BudgetInv, TypeInv, TypeOK
<1>3. ASSUME NEW q \in Redemption
      PROVE  OwnEvent(q)' /\ NoNewSlot(q)
  <2>1. CASE q # r
    BY <1>1, <1>3, <2>1 DEF OwnEvent, NoNewSlot, HasSlot, BudgetInv, Request
  <2>2. CASE q = r
    BY <1>1, <1>2, <1>3, <2>2 DEF OwnEvent, NoNewSlot, HasSlot, Denied, Auditing
  <2> QED
    BY <2>1, <2>2
<1>4. \A u \in Upload : NotYet(u)'
  BY <1>1 DEF NotYet, BudgetInv, SameRow, Request
<1> QED
  BY <1>3, <1>4 DEF Quiet

LEMMA RedeemQuiet ==
  ASSUME BudgetInv, NEW r \in Request,
         Lookup(r) \/ NoSlot(r) \/ (ReadPrint(r) /\ Stored(target[r]))
  PROVE  Quiet
<1>1. r \in Redemption /\ r \notin Upload /\ Released \subseteq Upload
  BY KindsAssumption
     DEF Lookup, NoSlot, ReadPrint, BudgetInv, TypeInv, TypeOK, PlaceOf, Redeeming, Released
<1>2. \A t \in Upload : SameRow(t)
  BY DEF Lookup, NoSlot, ReadPrint, SameRow, db
<1>3. {"unknown_token", "bad_access_code", "unavailable", "redeemed"} \subseteq What
      /\ {"unknown_token", "bad_access_code", "unavailable"} \subseteq Denied
  BY DEF What, Denied
<1>4. CASE Lookup(r)
  <2>1. CASE ToAudit(r, "unknown_token", None) /\ UNCHANGED target
    BY <1>1, <1>2, <1>3, <2>1, AuditQuiet
  <2>2. ASSUME NEW s \in Released, target' = [target EXCEPT ![r] = s],
               ToAudit(r, "bad_access_code", s)
        PROVE  Quiet
    <3>1. \A q \in Request : q # r => target'[q] = target[q]
      BY <2>2 DEF BudgetInv, TypeInv, TypeOK
    <3> QED
      BY <1>1, <1>2, <1>3, <2>2, <3>1, AuditQuiet
  <2>3. ASSUME NEW s \in Released, target' = [target EXCEPT ![r] = s],
               Goto(r, "consume"), UNCHANGED entry
        PROVE  Quiet
    <3>1. pc[r] = "lookup"
      BY <1>4 DEF Lookup
    <3>2. \A q \in Redemption : OwnEvent(q)' /\ NoNewSlot(q)
      BY <1>1, <2>3, <3>1
         DEF OwnEvent, NoNewSlot, HasSlot, Auditing, Goto, BudgetInv, TypeInv, TypeOK, Request
    <3>3. \A u \in Upload : NotYet(u)'
      BY <1>1, <1>2, <2>3, <3>1 DEF NotYet, SameRow, Goto, BudgetInv, TypeInv, TypeOK, Request
    <3> QED
      BY <1>2, <3>2, <3>3 DEF Quiet
  <2> QED
    BY <1>4, <2>1, <2>2, <2>3 DEF Lookup
<1>5. CASE NoSlot(r)
  <2>1. target[r] \in Upload
    BY <1>5 DEF NoSlot, BudgetInv, TypeInv, PlaceOf
  <2> QED
    BY <1>1, <1>2, <1>3, <1>5, <2>1, AuditQuiet DEF NoSlot
<1>6. CASE ReadPrint(r) /\ Stored(target[r])
  <2>1. target[r] \in Upload /\ HasSlot(r)
    BY <1>6 DEF ReadPrint, BudgetInv, TypeInv, PlaceOf, HasSlot
  <2>2. ToAudit(r, "redeemed", target[r]) /\ target' = target
    BY <1>6 DEF ReadPrint
  <2> QED
    BY <1>1, <1>2, <1>3, <2>1, <2>2, AuditQuiet
<1> QED
  BY <1>4, <1>5, <1>6

LEMMA RevokeQuiet ==
  ASSUME BudgetInv, NEW v \in Request, Revoke(v)
  PROVE  Quiet
<1>1. v \in Revocation /\ v \notin Redemption /\ v \notin Upload
  BY KindsAssumption DEF Revoke, BudgetInv, TypeInv, PlaceOf
<1>2. PICK s \in Upload :
        /\ share[s] # None
        /\ share' = [share EXCEPT ![s].revoked = TRUE]
        /\ target' = [target EXCEPT ![v] = s]
        /\ ToAudit(v, "revoked", s)
  BY DEF Revoke
<1>3. \A t \in Upload : SameRow(t)
  BY <1>2, NoneAssumption DEF SameRow, BudgetInv, TypeInv, TypeOK, Share
<1>4. \A q \in Request : q # v => target'[q] = target[q]
  BY <1>2 DEF BudgetInv, TypeInv, TypeOK
<1>5. "revoked" \in What
  BY DEF What
<1> QED
  BY <1>1, <1>2, <1>3, <1>4, <1>5, AuditQuiet

\* A request that ends early, with or without its mutexes, gives its slot up.
LEMMA FailQuiet ==
  ASSUME BudgetInv, NEW r \in Request, Fail(r), UNCHANGED share
  PROVE  Quiet
BY DEF Fail, Quiet, OwnEvent, NoNewSlot, HasSlot, Auditing, NotYet, SameRow,
       BudgetInv, TypeInv, TypeOK, Request

LEMMA ConfirmQuiet ==
  ASSUME BudgetInv, NEW r \in Request, Confirm(r)
  PROVE  Quiet
<1>1. CASE Fail(r)
  BY <1>1, FailQuiet DEF Confirm, db
<1>2. ASSUME entry[r].what \notin Denied, NEW next \in {"notify", "respond"}, Goto(r, next),
             UNCHANGED <<target, entry>>
      PROVE  Quiet
  <2>1. pc[r] = "confirm" /\ share' = share
    BY DEF Confirm, db
  <2>2. r \in Redemption => HasSlot(r)
    BY <1>2, <2>1 DEF HasSlot, Auditing, OwnEvent, BudgetInv
  <2> QED
    BY <1>2, <2>1, <2>2
       DEF Goto, Quiet, OwnEvent, NoNewSlot, HasSlot, Auditing, NotYet, SameRow,
           BudgetInv, TypeInv, TypeOK, Request
<1> QED
  BY <1>1, <1>2 DEF Confirm

LEMMA SmallStepQuiet ==
  ASSUME BudgetInv, NEW r \in Request,
         \/ LockStore(r) \/ UseVendor(r) \/ WriteBlob(r) \/ InsertPrint(r)
         \/ WriteEvent(r) \/ OpenAudit(r) \/ ViewAudit(r) \/ Notify(r) \/ Respond(r)
  PROVE  Quiet
<1> USE DEF Quiet, OwnEvent, NoNewSlot, HasSlot, Auditing, NotYet, SameRow,
            BudgetInv, TypeInv, TypeOK, Request, Goto, db
<1>1. CASE LockStore(r)
  BY <1>1, KindsAssumption DEF LockStore, FirstStep
<1>2. CASE UseVendor(r)
  <2>1. r \in Upload /\ r \notin Redemption
    BY <1>2, KindsAssumption DEF UseVendor, PlaceOf, Uploading
  <2>2. /\ pc' = [pc EXCEPT ![r] = "blob"] /\ pc[r] = "vendor"
        /\ share' = share /\ entry' = entry
        /\ \A q \in Redemption : target'[q] = target[q]
    BY <1>2, <2>1 DEF UseVendor
  <2> QED
    BY <2>1, <2>2
<1>3. CASE WriteBlob(r)
  BY <1>3 DEF WriteBlob
<1>4. CASE InsertPrint(r)
  BY <1>4 DEF InsertPrint
<1>5. CASE WriteEvent(r)
  BY <1>5 DEF WriteEvent
<1>6. CASE OpenAudit(r)
  BY <1>6, KindsAssumption DEF OpenAudit
<1>7. CASE ViewAudit(r)
  <2>1. r \notin Redemption
    BY <1>7, KindsAssumption DEF ViewAudit, PlaceOf
  <2> QED
    BY <1>7, <2>1 DEF ViewAudit
<1>8. CASE Notify(r)
  <2>1. r \notin Redemption
    BY <1>8, KindsAssumption DEF Notify, PlaceOf, Uploading
  <2> QED
    BY <1>8, <2>1 DEF Notify
<1>9. CASE Respond(r)
  BY <1>9 DEF Respond, Succeed
<1> QED
  BY <1>1, <1>2, <1>3, <1>4, <1>5, <1>6, <1>7, <1>8, <1>9

LEMMA KillQuiet ==
  ASSUME BudgetInv, Kill
  PROVE  Quiet
BY DEF Kill, Down, InHand, Quiet, OwnEvent, NoNewSlot, HasSlot, Auditing, NotYet, SameRow,
       BudgetInv, TypeInv, TypeOK, Request, db

LEMMA StillQuiet ==
  ASSUME BudgetInv, UNCHANGED <<procs, share>>
  PROVE  Quiet
BY DEF procs, Quiet, OwnEvent, NoNewSlot, HasSlot, NotYet, SameRow, BudgetInv

LEMMA InitBudget == Init => BudgetInv
<1> SUFFICES ASSUME Init
             PROVE  BudgetInv
  OBVIOUS
<1>1. \A r \in Redemption : OwnEvent(r)
  BY DEF Init, OwnEvent, Auditing, Request
<1>2. \A u \in Upload : NotYet(u)
  BY DEF Init, NotYet
<1>3. \A s \in Upload : RowCounts(s)
  BY DEF Init, RowCounts, Spent, HasSlot, Auditing, Request
<1> QED
  BY <1>1, <1>2, <1>3, InitType DEF BudgetInv

LEMMA NextBudget ==
  ASSUME "power" \notin Faults, BudgetInv, [Next]_vars
  PROVE  BudgetInv'
<1>1. TypeInv'
  BY NextType DEF BudgetInv
<1>2. ASSUME NEW r \in Request, Step(r)
      PROVE  BudgetInv'
  <2>1. CASE InsertShare(r)
    BY <1>1, <2>1, InsertShareCounts
  <2>2. CASE ConsumeSlot(r)
    BY <1>1, <2>2, ConsumeSlotCounts
  <2>3. CASE StoreIsPoisoned(r) \/ NothingToRevoke(r) \/ AuditIsPoisoned(r)
             \/ (ReadPrint(r) /\ ~Stored(target[r]))
    BY <1>1, <2>3, FailQuiet, QuietKeepsBudget
       DEF StoreIsPoisoned, NothingToRevoke, AuditIsPoisoned, ReadPrint, Abort, db
  <2>4. CASE Lookup(r) \/ NoSlot(r) \/ (ReadPrint(r) /\ Stored(target[r]))
    BY <1>1, <2>4, RedeemQuiet, QuietKeepsBudget
  <2>5. CASE Revoke(r) \/ Confirm(r)
    BY <1>1, <2>5, RevokeQuiet, ConfirmQuiet, QuietKeepsBudget
  <2>6. CASE \/ LockStore(r) \/ UseVendor(r) \/ WriteBlob(r) \/ InsertPrint(r)
             \/ WriteEvent(r) \/ OpenAudit(r) \/ ViewAudit(r) \/ Notify(r) \/ Respond(r)
    BY <1>1, <2>6, SmallStepQuiet, QuietKeepsBudget
  <2> QED
    BY <1>2, <2>1, <2>2, <2>3, <2>4, <2>5, <2>6 DEF Step
<1>3. ASSUME NEW r \in Request, Fault(r)
      PROVE  BudgetInv'
  <2>1. Fail(r) /\ UNCHANGED share
    BY <1>3 DEF Fault, Fails, InsertPrintFails, ExpiryOverflows, ShortTokenPanics, HangUp, Abort, db
  <2> QED
    BY <1>1, <2>1, FailQuiet, QuietKeepsBudget
<1>4. CASE Kill
  BY <1>1, <1>4, KillQuiet, QuietKeepsBudget
<1>5. CASE Restart \/ Checkpoint \/ Tick \/ AllAnswered \/ UNCHANGED vars
  <2>1. UNCHANGED <<procs, share>>
    BY <1>5 DEF Restart, Checkpoint, Tick, AllAnswered, vars, db
  <2> QED
    BY <1>1, <2>1, StillQuiet, QuietKeepsBudget
<1>6. ~PowerLoss
  BY DEF PowerLoss
<1> QED
  BY <1>2, <1>3, <1>4, <1>5, <1>6 DEF Next

\* As long as the machine keeps its power, a share is downloaded at most as often
\* as its download_count says and its max_downloads allows: whatever redemptions
\* race, and whether requests fail, threads panic, clients hang up or the
\* process is killed and started again.
THEOREM NeverAboveTheLimit ==
  "power" \notin Faults => (Spec => []DownloadBudget)
<1> SUFFICES ASSUME "power" \notin Faults
             PROVE  Spec => []DownloadBudget
  OBVIOUS
<1>1. BudgetInv /\ [Next]_vars => BudgetInv'
  BY NextBudget
<1>2. BudgetInv => DownloadBudget
  <2> SUFFICES ASSUME BudgetInv, NEW s \in Upload, share[s] # None
               PROVE  /\ Cardinality(Downloads(s)) <= share[s].count
                      /\ share[s].count <= share[s].max
    BY DEF DownloadBudget
  <2>1. Downloads(s) \subseteq Spent(s)
    BY DEF Downloads, Spent, HasSlot
  <2>2. /\ Cardinality(Downloads(s)) <= Cardinality(Spent(s))
        /\ Cardinality(Downloads(s)) \in Nat /\ Cardinality(Spent(s)) \in Nat
    BY <2>1, SpentIsFinite, FS_Subset, FS_CardinalityType
  <2>3. /\ Cardinality(Spent(s)) <= share[s].count /\ share[s].count <= share[s].max
        /\ share[s].count \in Nat
    BY DEF BudgetInv, RowCounts, TypeInv, TypeOK, Share
  <2> QED
    BY <2>2, <2>3
<1> QED
  BY InitBudget, <1>1, <1>2, PTL DEF Spec
=============================================================================
