--------------------------- MODULE ShareLogProofs ---------------------------
(***************************************************************************)
(* More proofs about ShareService, for as long as the machine keeps its    *)
(* power: the audit log tells the life of each share in its order, and     *)
(* nothing that the rows do not show; and every step of a handler is a     *)
(* step of SharePromise or none.                                           *)
(***************************************************************************)
EXTENDS ShareRecordProofs, ShareServicePromise

-----------------------------------------------------------------------------
(* The store mutex                                                         *)

Holding == {"vendor", "blob", "row", "share", "lookup", "consume", "read", "revoke",
            "audit", "confirm"}

\* From its first statement to the confirmed event a handler has the mutex for itself.
Alone == \A r \in Request : pc[r] \in Holding => storeLock = r

\* What a step of r does that neither takes the mutex nor gives it back.
LEMMA KeepsAlone ==
  ASSUME TypeInv, Alone, storeLock' = storeLock,
         \A q \in Request : pc'[q] \in Holding => pc[q] \in Holding
  PROVE  Alone'
BY DEF Alone

\* What one does that ends r's turn.
LEMMA EndKeepsAlone ==
  ASSUME TypeInv, Alone, NEW r \in Request, pc'[r] \notin Holding,
         \A q \in Request \ {r} : pc'[q] = pc[q],
         storeLock' = storeLock \/ storeLock = r
  PROVE  Alone'
BY DEF Alone

LEMMA StepAlone ==
  ASSUME TypeInv, Alone, NEW r \in Request, Step(r)
  PROVE  Alone'
<1> USE DEF TypeInv, TypeOK, Goto, ToAudit, Holding
<1>1. CASE LockStore(r)
  <2>1. \A q \in Request \ {r} : pc'[q] = pc[q] /\ pc[q] \notin Holding
    BY <1>1, NoneAssumption DEF LockStore, Alone
  <2> QED
    BY <1>1, <2>1 DEF LockStore, Alone
<1>2. CASE StoreIsPoisoned(r) \/ NothingToRevoke(r) \/ AuditIsPoisoned(r)
           \/ (ReadPrint(r) /\ ~Stored(target[r]))
  <2>1. Abort(r)
    BY <1>2 DEF StoreIsPoisoned, NothingToRevoke, AuditIsPoisoned, ReadPrint
  <2> QED
    BY <2>1, EndKeepsAlone DEF Abort, Fail, Unlock
<1>3. CASE UseVendor(r) \/ WriteBlob(r) \/ InsertPrint(r) \/ InsertShare(r)
  BY <1>3, KeepsAlone DEF UseVendor, WriteBlob, InsertPrint, InsertShare, locks
<1>4. CASE Lookup(r) \/ ConsumeSlot(r) \/ NoSlot(r) \/ (ReadPrint(r) /\ Stored(target[r]))
  BY <1>4, KeepsAlone DEF Lookup, ConsumeSlot, NoSlot, ReadPrint, locks
<1>5. CASE Revoke(r) \/ WriteEvent(r)
  BY <1>5, KeepsAlone DEF Revoke, WriteEvent, locks
<1>6. CASE Confirm(r) \/ ViewAudit(r)
  <2>1. pc'[r] \notin Holding /\ \A q \in Request \ {r} : pc'[q] = pc[q]
    BY <1>6 DEF Confirm, Fail, ViewAudit
  <2>2. storeLock' = storeLock \/ storeLock = r
    BY <1>6 DEF Confirm, ViewAudit, Unlock
  <2> QED
    BY <2>1, <2>2, EndKeepsAlone
<1>7. CASE OpenAudit(r) \/ Notify(r) \/ Respond(r)
  BY <1>7, KeepsAlone DEF OpenAudit, Notify, Respond, Succeed, locks
<1> QED
  BY <1>1, <1>2, <1>3, <1>4, <1>5, <1>6, <1>7 DEF Step

LEMMA NextAlone ==
  ASSUME TypeInv, Alone, [Next]_vars
  PROVE  Alone'
<1> USE DEF TypeInv, TypeOK, Holding
<1>1. ASSUME NEW r \in Request, Fault(r)
      PROVE  Alone'
  <2>1. Fail(r)
    BY <1>1 DEF Fault, Fails, InsertPrintFails, ExpiryOverflows, ShortTokenPanics, HangUp, Abort
  <2>2. storeLock' = storeLock \/ storeLock = r
    BY <1>1 DEF Fault, Fails, InsertPrintFails, ExpiryOverflows, ShortTokenPanics, HangUp,
                Abort, Unlock, locks, Alone
  <2> QED
    BY <2>1, <2>2, EndKeepsAlone DEF Fail
<1>2. CASE Kill \/ PowerLoss
  BY <1>2 DEF Kill, PowerLoss, Down, InHand, Alone
<1>3. CASE Restart \/ Checkpoint \/ Tick \/ AllAnswered \/ UNCHANGED vars
  BY <1>3 DEF Restart, Checkpoint, Tick, AllAnswered, vars, procs, locks, Alone
<1> QED
  BY <1>1, <1>2, <1>3, StepAlone DEF Next

-----------------------------------------------------------------------------
(* What the log has, and what the handler at work will tell it             *)

Created(s) == Events("created", s) # {}

\* It has taken a slot, and not yet said so.
Pending(r) == pc[r] = "read" \/ (pc[r] = "audit" /\ entry[r].what = "redeemed")

PlanOf(r) ==
  /\ pc[r] = "audit" =>
       \/ r \in Redemption /\ entry[r].what \in Denied
       \/ r \in Upload /\ entry[r].what = "created" /\ entry[r].share = r
            /\ share[r] # None /\ ~share[r].revoked
       \/ r \in Redemption /\ entry[r].what = "redeemed" /\ entry[r].share = target[r]
       \/ r \in Revocation /\ entry[r].what = "revoked" /\ entry[r].share = target[r]
  /\ pc[r] = "consume" => target[r] \in Upload /\ Created(target[r])
  /\ Pending(r) =>
       /\ target[r] \in Upload /\ share[target[r]] # None /\ ~share[target[r]].revoked
       /\ Created(target[r])
       /\ Cardinality(Events("redeemed", target[r])) < share[target[r]].count

\* A link is out only when its share is on record.
Known(u) ==
  u \in mailed \/ pc[u] \in {"confirm", "notify", "respond", "ok"} => Created(u)

\* The events about one share, and its row.
Tale(s) ==
  /\ Created(s) => share[s] # None
  /\ \A i \in Events("redeemed", s) : \E j \in Events("created", s) : j < i
  /\ \A i \in Events("revoked", s) :
       /\ share[s] # None /\ share[s].revoked
       /\ \A j \in Events("created", s) \cup Events("redeemed", s) : j < i
  /\ share[s] # None => Cardinality(Events("redeemed", s)) <= share[s].count

About == \A i \in 1..Len(trail) : trail[i].what \notin Denied => trail[i].share \in Upload

TaleInv ==
  /\ RevokeInv
  /\ Alone
  /\ \A r \in Request : PlanOf(r)
  /\ \A u \in Upload : Known(u)
  /\ \A s \in Upload : Tale(s)
  /\ About

LEMMA EventsAreCounted ==
  ASSUME TypeInv, NEW s
  PROVE  Cardinality(Events("redeemed", s)) \in Nat
<1>1. IsFiniteSet(1..Len(trail))
  BY FS_Interval DEF TypeInv, TypeOK
<1> QED
  BY <1>1, FS_Subset, FS_CardinalityType DEF Events

-----------------------------------------------------------------------------
(* Steps that write nothing to the log                                     *)

LEMMA QuietTale ==
  ASSUME "power" \notin Faults, TaleInv, [Next]_vars, trail' = trail
  PROVE  (\A s \in Upload : Tale(s)') /\ About'
<1>1. /\ TypeInv /\ TypeInv' /\ BudgetInv /\ \A s \in Upload : Forward(s)
  BY NextType, RowsGoForward DEF TaleInv, RevokeInv, BudgetInv
<1>2. ASSUME NEW s \in Upload
      PROVE  Tale(s)'
  <2>1. Tale(s) /\ Forward(s)
    BY <1>1 DEF TaleInv
  <2>2. \A what : Events(what, s)' = Events(what, s)
    BY DEF Events
  <2>3. share[s] = None => Events("redeemed", s) = {}
    BY <2>1 DEF Tale, Created
  <2>4. share[s] # None => share[s].count \in Nat
    BY <1>1 DEF TypeInv, TypeOK, Share
  <2>5. share'[s] # None => share'[s].count \in Nat
    BY <1>1 DEF TypeInv, TypeOK, Share
  <2>6. Cardinality({}) = 0
    BY FS_EmptySet
  <2>7. Cardinality(Events("redeemed", s)) \in Nat
    BY <1>1, EventsAreCounted
  <2>8. share'[s] # None => Cardinality(Events("redeemed", s)) <= share'[s].count
    <3>1. CASE share[s] = None
      BY <2>3, <2>5, <2>6, <3>1
    <3>2. CASE share[s] # None
      BY <2>1, <2>4, <2>5, <2>7, <3>2 DEF Tale, Forward
    <3> QED
      BY <3>1, <3>2
  <2> QED
    BY <2>1, <2>2, <2>8 DEF Tale, Created, Forward
<1>3. About'
  BY DEF About, TaleInv
<1> QED
  BY <1>2, <1>3

LEMMA QuietKnown ==
  ASSUME TaleInv, trail' = trail,
         mailed' \subseteq mailed \cup {u \in Upload : pc[u] = "notify"},
         \A u \in Upload : pc'[u] \in {"confirm", "notify", "respond", "ok"} =>
                             pc[u] \in {"confirm", "notify", "respond", "ok"}
  PROVE  \A u \in Upload : Known(u)'
BY DEF TaleInv, Known, Created, Events

\* None of the three steps that PlanOf speaks of, or nothing that it says of them, is new.
SamePlan(q) ==
  pc'[q] \in {"consume", "read", "audit"} =>
    pc'[q] = pc[q] /\ target'[q] = target[q] /\ entry'[q] = entry[q]

LEMMA QuietPlans ==
  ASSUME TaleInv, UNCHANGED <<trail, share>>, \A q \in Request : SamePlan(q)
  PROVE  \A q \in Request : PlanOf(q)'
BY DEF TaleInv, PlanOf, Pending, SamePlan, Created, Events

LEMMA FailPlans ==
  ASSUME TaleInv, NEW r \in Request, Fail(r), UNCHANGED <<trail, share, mailed>>
  PROVE  (\A q \in Request : PlanOf(q)') /\ (\A u \in Upload : Known(u)')
<1> USE DEF TaleInv, RevokeInv, BudgetInv, TypeInv, TypeOK, Request
<1>1. \A q \in Request : SamePlan(q)
  BY DEF Fail, SamePlan
<1>2. \A u \in Upload : pc'[u] \in {"confirm", "notify", "respond", "ok"} => pc'[u] = pc[u]
  BY DEF Fail
<1> QED
  BY <1>1, <1>2, QuietPlans, QuietKnown

\* Whoever works on the rows, nobody else has a plan.
LEMMA OthersHaveNoPlan ==
  ASSUME TaleInv, NEW r \in Request, pc[r] \in Holding,
         \A q \in Request \ {r} : pc'[q] = pc[q]
  PROVE  \A q \in Request \ {r} : PlanOf(q)'
<1>1. \A q \in Request \ {r} : pc[q] \notin Holding
  BY DEF TaleInv, Alone
<1> QED
  BY <1>1 DEF Holding, PlanOf, Pending

LEMMA InsertSharePlans ==
  ASSUME TaleInv, TypeInv', NEW u \in Request, InsertShare(u)
  PROVE  \A q \in Request : PlanOf(q)'
<1> USE DEF TaleInv, RevokeInv, BudgetInv, TypeInv, TypeOK
<1>1. /\ u \in Upload /\ pc[u] \in Holding
      /\ \A q \in Request \ {u} : pc'[q] = pc[q]
      /\ pc'[u] = "audit" /\ entry'[u] = [what |-> "created", share |-> u, by |-> u]
  BY DEF InsertShare, ToAudit, Goto, Holding, PlaceOf, Uploading
<1>2. share'[u] # None /\ ~share'[u].revoked
  <2>1. PICK max \in Limit, life \in Lifetime :
          share' = [share EXCEPT ![u] =
                     [vendor |-> target[u], expires |-> now + life, max |-> max,
                      count |-> 0, revoked |-> FALSE]]
    BY DEF InsertShare
  <2>2. target[u] \in Upload
    BY DEF InsertShare, PlaceOf
  <2>3. share'[u] \in Share
    BY <1>1, <2>1, <2>2, NumbersAssumption DEF Share
  <2>4. share'[u].revoked = FALSE
    <3>1. share'[u] = [vendor |-> target[u], expires |-> now + life, max |-> max,
                       count |-> 0, revoked |-> FALSE]
      BY <1>1, <2>1
    <3> QED
      BY <3>1
  <2> QED
    BY <2>3, <2>4, NoneAssumption
<1>3. /\ entry'[u].what = "created" /\ entry'[u].share = u
      /\ pc'[u] = "audit"
  BY <1>1
<1>4. PlanOf(u)'
  BY <1>1, <1>2, <1>3 DEF PlanOf, Pending
<1>5. \A q \in Request \ {u} : PlanOf(q)'
  BY <1>1, OthersHaveNoPlan
<1> QED
  BY <1>4, <1>5

LEMMA LookupPlans ==
  ASSUME TaleInv, NEW r \in Request, Lookup(r)
  PROVE  \A q \in Request : PlanOf(q)'
<1> USE DEF TaleInv, RevokeInv, BudgetInv, TypeInv, TypeOK
<1>1. /\ r \in Redemption /\ pc[r] \in Holding
      /\ \A q \in Request \ {r} : pc'[q] = pc[q]
  BY DEF Lookup, ToAudit, Goto, Holding, PlaceOf, Redeeming
<1>2. CASE pc'[r] = "consume"
  <2>1. PICK s \in Released : target' = [target EXCEPT ![r] = s]
    BY <1>2 DEF Lookup, ToAudit, Goto
  <2>2. s \in Upload /\ Created(s)
    BY <2>1 DEF Released, Known
  <2>3. Created(s)' /\ target'[r] = s
    BY <2>1, <2>2 DEF Lookup, Created, Events, log
  <2> QED
    BY <1>1, <1>2, <2>2, <2>3, OthersHaveNoPlan DEF PlanOf, Pending
<1>3. CASE pc'[r] # "consume"
  <2>1. pc'[r] = "audit" /\ entry'[r].what \in {"unknown_token", "bad_access_code"}
    BY <1>3 DEF Lookup, ToAudit, Goto
  <2> QED
    BY <1>1, <2>1, OthersHaveNoPlan DEF PlanOf, Pending, Denied
<1> QED
  BY <1>2, <1>3

LEMMA ConsumeSlotPlans ==
  ASSUME TaleInv, TypeInv', NEW r \in Request, ConsumeSlot(r)
  PROVE  \A q \in Request : PlanOf(q)'
<1> DEFINE s == target[r]
<1>1. /\ r \in Redemption /\ pc[r] \in Holding
      /\ \A q \in Request \ {r} : pc'[q] = pc[q]
      /\ pc'[r] = "read" /\ target' = target /\ trail' = trail
      /\ s \in Upload /\ share[s] # None /\ Created(s) /\ Consumable(share[s])
      /\ share' = [share EXCEPT ![s].count = @ + 1]
      /\ share \in [Upload -> Share \cup {None}]
  BY DEF ConsumeSlot, Goto, Holding, PlaceOf, Redeeming, log, PlanOf,
         TaleInv, RevokeInv, BudgetInv, TypeInv, TypeOK
<1>2. share[s] \in Share
  BY <1>1
<1>3. /\ share'[s] = [share[s] EXCEPT !.count = @ + 1]
      /\ share'[s].count = share[s].count + 1 /\ share'[s].revoked = share[s].revoked
      /\ share'[s] \in Share /\ share[s].count \in Nat
  BY <1>1, <1>2 DEF Share
<1>4. share'[s] # None /\ ~share'[s].revoked
  BY <1>1, <1>3, NoneAssumption DEF Consumable
<1>5. \A what : Events(what, s)' = Events(what, s)
  BY <1>1 DEF Events
<1>6. Cardinality(Events("redeemed", s)) < share'[s].count
  <2>1. Cardinality(Events("redeemed", s)) <= share[s].count
    BY <1>1 DEF TaleInv, Tale
  <2>2. Cardinality(Events("redeemed", s)) \in Nat
    BY EventsAreCounted DEF TaleInv, RevokeInv, BudgetInv
  <2> QED
    BY <1>3, <2>1, <2>2
<1>7. PlanOf(r)'
  BY <1>1, <1>4, <1>5, <1>6 DEF PlanOf, Pending, Created
<1> QED
  BY <1>1, <1>7, OthersHaveNoPlan

LEMMA ReadPrintPlans ==
  ASSUME TaleInv, NEW r \in Request, ReadPrint(r), Stored(target[r])
  PROVE  \A q \in Request : PlanOf(q)'
<1> USE DEF TaleInv, RevokeInv, BudgetInv, TypeInv, TypeOK
<1>1. /\ r \in Redemption /\ pc[r] \in Holding
      /\ \A q \in Request \ {r} : pc'[q] = pc[q]
      /\ pc'[r] = "audit" /\ entry'[r] = [what |-> "redeemed", share |-> target[r], by |-> r]
      /\ UNCHANGED <<target, share, trail>> /\ Pending(r)
  BY DEF ReadPrint, ToAudit, Goto, Holding, PlaceOf, Redeeming, Pending, db, log
<1>2. PlanOf(r)'
  <2>1. /\ target[r] \in Upload /\ share[target[r]] # None /\ ~share[target[r]].revoked
        /\ Created(target[r])
        /\ Cardinality(Events("redeemed", target[r])) < share[target[r]].count
    BY <1>1 DEF PlanOf
  <2>2. \A what : Events(what, target[r])' = Events(what, target[r])
    BY <1>1 DEF Events
  <2> QED
    BY <1>1, <2>1, <2>2 DEF PlanOf, Pending, Created
<1> QED
  BY <1>1, <1>2, OthersHaveNoPlan

LEMMA DecidedPlans ==
  ASSUME TaleInv, NEW r \in Request, NoSlot(r) \/ Revoke(r)
  PROVE  \A q \in Request : PlanOf(q)'
<1> USE DEF TaleInv, RevokeInv, BudgetInv, TypeInv, TypeOK
<1>1. /\ pc[r] \in Holding /\ \A q \in Request \ {r} : pc'[q] = pc[q]
      /\ pc'[r] = "audit"
  BY DEF NoSlot, Revoke, ToAudit, Goto, Holding
<1>2. CASE NoSlot(r)
  <2>1. r \in Redemption /\ entry'[r].what = "unavailable"
    BY <1>2 DEF NoSlot, ToAudit, PlaceOf, Redeeming
  <2> QED
    BY <1>1, <2>1, OthersHaveNoPlan DEF PlanOf, Pending, Denied
<1>3. CASE Revoke(r)
  <2>1. r \in Revocation /\ entry'[r].what = "revoked" /\ entry'[r].share = target'[r]
    BY <1>3 DEF Revoke, ToAudit, PlaceOf
  <2> QED
    BY <1>1, <2>1, OthersHaveNoPlan DEF PlanOf, Pending
<1> QED
  BY <1>2, <1>3

LEMMA PlansAndKnown ==
  ASSUME TaleInv, TypeInv', [Next]_vars, "power" \notin Faults,
         \A r \in Request : ~WriteEvent(r)
  PROVE  (\A q \in Request : PlanOf(q)') /\ (\A u \in Upload : Known(u)') /\ trail' = trail
<1> DEFINE Late == {"confirm", "notify", "respond", "ok"}
<1>0. TypeInv
  BY DEF TaleInv, RevokeInv, BudgetInv
<1>1. ASSUME NEW r \in Request, Fault(r)
      PROVE  (\A q \in Request : PlanOf(q)') /\ (\A u \in Upload : Known(u)') /\ trail' = trail
  <2>1. Fail(r) /\ UNCHANGED <<trail, share, mailed>>
    BY <1>1 DEF Fault, Fails, InsertPrintFails, ExpiryOverflows, ShortTokenPanics, HangUp, Abort,
                db, log
  <2> QED
    BY <2>1, FailPlans
<1> USE DEF TypeInv, TypeOK, Request
<1>2. ASSUME NEW r \in Request, Step(r)
      PROVE  (\A q \in Request : PlanOf(q)') /\ (\A u \in Upload : Known(u)') /\ trail' = trail
  <2>1. CASE StoreIsPoisoned(r) \/ NothingToRevoke(r) \/ AuditIsPoisoned(r)
             \/ (ReadPrint(r) /\ ~Stored(target[r]))
    <3>1. Fail(r) /\ UNCHANGED <<trail, share, mailed>>
      BY <2>1 DEF StoreIsPoisoned, NothingToRevoke, AuditIsPoisoned, ReadPrint, Abort, db, log
    <3> QED
      BY <3>1, FailPlans
  <2>2. CASE InsertShare(r) \/ Lookup(r) \/ ConsumeSlot(r) \/ NoSlot(r) \/ Revoke(r)
             \/ (ReadPrint(r) /\ Stored(target[r]))
    <3>1. \A q \in Request : PlanOf(q)'
      BY <2>2, InsertSharePlans, LookupPlans, ConsumeSlotPlans, ReadPrintPlans, DecidedPlans
    <3>2. /\ trail' = trail /\ mailed' = mailed
          /\ \A u \in Upload : pc'[u] \in Late => pc[u] \in Late
      BY <1>0, <2>2
         DEF InsertShare, Lookup, ConsumeSlot, NoSlot, Revoke, ReadPrint, Goto, ToAudit, log
    <3> QED
      BY <3>1, <3>2, QuietKnown
  <2>3. CASE LockStore(r) \/ UseVendor(r) \/ WriteBlob(r) \/ InsertPrint(r)
    <3>1. \A q \in Request : SamePlan(q) /\ (pc'[q] \in Late => pc[q] \in Late)
      BY <1>0, <2>3 DEF LockStore, FirstStep, UseVendor, WriteBlob, InsertPrint, Goto, SamePlan
    <3>2. UNCHANGED <<trail, share, mailed>>
      BY <2>3 DEF LockStore, UseVendor, WriteBlob, InsertPrint, db, log
    <3> QED
      BY <3>1, <3>2, QuietPlans, QuietKnown
  <2>4. CASE Confirm(r)
    <3>1. \A q \in Request : SamePlan(q) /\ (pc'[q] \in Late => pc[q] \in Late)
      BY <1>0, <2>4 DEF Confirm, Fail, Goto, SamePlan
    <3>2. UNCHANGED <<trail, share, mailed>>
      BY <2>4 DEF Confirm, Trail!Confirm, db
    <3> QED
      BY <3>1, <3>2, QuietPlans, QuietKnown
  <2>5. CASE OpenAudit(r) \/ ViewAudit(r)
    <3>1. r \notin Upload
      BY <1>0, <2>5, KindsAssumption DEF OpenAudit, ViewAudit, PlaceOf
    <3>2. /\ \A q \in Request : SamePlan(q)
          /\ \A u \in Upload : pc'[u] \in Late => pc[u] \in Late
      BY <1>0, <2>5, <3>1 DEF OpenAudit, ViewAudit, Goto, SamePlan
    <3>3. UNCHANGED <<trail, share, mailed>>
      BY <2>5 DEF OpenAudit, ViewAudit, db, log
    <3> QED
      BY <3>2, <3>3, QuietPlans, QuietKnown
  <2>6. CASE Notify(r) \/ Respond(r)
    <3>1. \A q \in Request : SamePlan(q) /\ (pc'[q] \in Late => pc[q] \in Late)
      BY <1>0, <2>6 DEF Notify, Respond, Succeed, Goto, SamePlan
    <3>2. /\ UNCHANGED <<trail, share>>
          /\ mailed' \subseteq mailed \cup {u \in Upload : pc[u] = "notify"}
      BY <1>0, <2>6 DEF Notify, Respond, db, log, PlaceOf, Uploading
    <3> QED
      BY <3>1, <3>2, QuietPlans, QuietKnown
  <2> QED
    BY <1>2, <2>1, <2>2, <2>3, <2>4, <2>5, <2>6 DEF Step
<1>3. CASE Kill
  <2>1. /\ UNCHANGED <<trail, share, mailed>>
        /\ \A q \in Request : SamePlan(q) /\ (pc'[q] \in Late => pc[q] \in Late)
    BY <1>0, <1>3 DEF Kill, Down, InHand, SamePlan, db, log
  <2> QED
    BY <2>1, QuietPlans, QuietKnown
<1>4. CASE Restart \/ Checkpoint \/ Tick \/ AllAnswered \/ UNCHANGED vars
  <2>1. UNCHANGED <<trail, share, mailed, pc, target, entry>>
    BY <1>4 DEF Restart, Checkpoint, Tick, AllAnswered, vars, procs, db, log
  <2> QED
    BY <2>1, QuietPlans, QuietKnown DEF SamePlan
<1>5. ~PowerLoss
  BY DEF PowerLoss
<1> QED
  BY <1>1, <1>2, <1>3, <1>4, <1>5 DEF Next

-----------------------------------------------------------------------------
(* The step that writes to the log                                         *)

LEMMA NewEvent ==
  ASSUME TypeInv, NEW e \in Entry, trail' = Append(trail, e), NEW what, NEW s
  PROVE  /\ Events(what, s)' = IF e.what = what /\ e.share = s
                                 THEN Events(what, s) \cup {Len(trail) + 1}
                                 ELSE Events(what, s)
         /\ \A i \in Events(what, s) : i \in 1..Len(trail)
<1>1. trail \in Seq(Entry) /\ Len(trail) \in Nat
  BY DEF TypeInv, TypeOK
<1>2. /\ Len(trail') = Len(trail) + 1 /\ trail'[Len(trail) + 1] = e
      /\ \A i \in 1..Len(trail) : trail'[i] = trail[i]
  BY <1>1
<1> QED
  BY <1>1, <1>2 DEF Events

LEMMA OneMoreRedeemed ==
  ASSUME TypeInv, NEW s
  PROVE  Cardinality(Events("redeemed", s) \cup {Len(trail) + 1})
           = Cardinality(Events("redeemed", s)) + 1
<1>1. IsFiniteSet(1..Len(trail)) /\ Len(trail) \in Nat
  BY FS_Interval DEF TypeInv, TypeOK
<1>2. IsFiniteSet(Events("redeemed", s))
  BY <1>1, FS_Subset DEF Events
<1>3. Len(trail) + 1 \notin Events("redeemed", s)
  BY <1>1 DEF Events
<1> QED
  BY <1>2, <1>3, FS_AddElement

LEMMA WriteEventTells ==
  ASSUME TaleInv, NEW r \in Request, WriteEvent(r)
  PROVE  /\ \A q \in Request : PlanOf(q)'
         /\ \A u \in Upload : Known(u)'
         /\ \A s \in Upload : Tale(s)'
         /\ About'
<1> DEFINE e == entry[r]
           n == Len(trail) + 1
<1>0. TypeInv /\ BudgetInv
  BY DEF TaleInv, RevokeInv, BudgetInv
<1>1. /\ pc[r] = "audit" /\ pc' = [pc EXCEPT ![r] = "confirm"] /\ pc \in [Request -> Steps]
      /\ trail' = Append(trail, e) /\ UNCHANGED <<target, entry, share, mailed>>
      /\ e \in Entry /\ e # None /\ trail \in Seq(Entry) /\ n \in Nat
      /\ share \in [Upload -> Share \cup {None}]
  BY <1>0 DEF WriteEvent, Trail!Write, Goto, db, TypeInv, TypeOK, PlaceOf, Auditing
<1>2. \A q \in Request : PlanOf(q)'
  <2>1. \A q \in Request \ {r} : PlanOf(q)'
    BY <1>1, OthersHaveNoPlan DEF Holding
  <2> QED
    BY <1>1, <2>1 DEF PlanOf, Pending
<1>3. PlanOf(r)
  BY DEF TaleInv
<1>4. \A what, s : /\ Events(what, s)' = IF e.what = what /\ e.share = s
                                          THEN Events(what, s) \cup {n} ELSE Events(what, s)
                   /\ \A i \in Events(what, s) : i \in 1..Len(trail) /\ i < n
  BY <1>0, <1>1, NewEvent
<1>5. \A s : Created(s) => Created(s)'
  BY <1>4 DEF Created
<1>6. \A u \in Upload : Known(u)'
  <2>1. r \in Upload => e.what = "created" /\ e.share = r
    BY <1>1, <1>3, KindsAssumption DEF PlanOf
  <2>2. r \in Upload => Created(r)'
    BY <1>4, <2>1 DEF Created
  <2> QED
    BY <1>1, <1>5, <2>2 DEF Known, TaleInv, Request
<1>7. e.what \notin Denied => e.share \in Upload
  <2>1. r \in Revocation => target[r] \in Upload
    BY <1>1 DEF TaleInv, RevokeInv, RevokedBy, Revoking
  <2> QED
    BY <1>1, <1>3, <2>1 DEF PlanOf, Pending
<1>8. About'
  <2>1. /\ Len(trail') = n /\ trail'[n] = e /\ \A i \in 1..Len(trail) : trail'[i] = trail[i]
    BY <1>1
  <2> QED
    BY <1>1, <1>7, <2>1 DEF About, TaleInv
<1>9. ASSUME NEW s \in Upload
      PROVE  Tale(s)'
  <2>0. Tale(s)
    BY DEF TaleInv
  <2>1. CASE e.what \in Denied \/ e.share # s
    <3>1. \A what \in {"created", "redeemed", "revoked"} : Events(what, s)' = Events(what, s)
      BY <1>4, <2>1 DEF Denied
    <3> QED
      BY <1>1, <2>0, <3>1 DEF Tale, Created
  <2>2. CASE e.share = s /\ e.what = "created"
    <3>1. share[s] # None /\ ~share[s].revoked
      BY <1>1, <1>3, <2>2 DEF PlanOf, Denied
    <3>3. Events("revoked", s) = {}
      BY <2>0, <3>1 DEF Tale
    <3>2. /\ Events("created", s)' = Events("created", s) \cup {n}
          /\ Events("redeemed", s)' = Events("redeemed", s)
          /\ Events("revoked", s)' = Events("revoked", s)
      BY <1>4, <2>2
    <3> QED
      BY <1>1, <1>4, <2>0, <3>1, <3>2, <3>3 DEF Tale, Created
  <2>3. CASE e.share = s /\ e.what = "redeemed"
    <3>1. /\ target[r] = s /\ share[s] # None /\ ~share[s].revoked /\ Created(s)
          /\ Cardinality(Events("redeemed", s)) < share[s].count
      BY <1>1, <1>3, <2>3 DEF PlanOf, Pending, Denied
    <3>2. /\ Events("created", s)' = Events("created", s)
          /\ Events("redeemed", s)' = Events("redeemed", s) \cup {n}
          /\ Events("revoked", s)' = Events("revoked", s)
      BY <1>4, <2>3
    <3>3. Events("revoked", s) = {}
      BY <2>0, <3>1 DEF Tale
    <3>4. \A i \in Events("redeemed", s)' : \E j \in Events("created", s) : j < i
      BY <1>4, <2>0, <3>1, <3>2 DEF Tale, Created
    <3>5. Cardinality(Events("redeemed", s)') <= share[s].count
      <4>1. Cardinality(Events("redeemed", s)') = Cardinality(Events("redeemed", s)) + 1
        BY <1>0, <3>2, OneMoreRedeemed
      <4>2. Cardinality(Events("redeemed", s)) \in Nat /\ share[s].count \in Nat
        BY <1>0, <1>1, <3>1, EventsAreCounted DEF Share
      <4> QED
        BY <3>1, <4>1, <4>2
    <3> QED
      BY <1>1, <2>0, <3>1, <3>2, <3>3, <3>4, <3>5 DEF Tale, Created
  <2>4. CASE e.share = s /\ e.what = "revoked"
    <3>1. target[r] = s /\ share[s] # None /\ share[s].revoked
      BY <1>1, <1>3, <2>4 DEF PlanOf, Denied, TaleInv, RevokeInv, RevokedBy, Revoking
    <3>2. /\ Events("created", s)' = Events("created", s)
          /\ Events("redeemed", s)' = Events("redeemed", s)
          /\ Events("revoked", s)' = Events("revoked", s) \cup {n}
      BY <1>4, <2>4
    <3>3. \A j \in Events("created", s) \cup Events("redeemed", s) : j < n
      BY <1>4
    <3>4. \A i \in Events("revoked", s)' :
            \A j \in Events("created", s) \cup Events("redeemed", s) : j < i
      BY <2>0, <3>2, <3>3 DEF Tale
    <3> QED
      BY <1>1, <1>4, <2>0, <3>1, <3>2, <3>3, <3>4 DEF Tale, Created
  <2>5. e.what \in Denied \cup {"created", "redeemed", "revoked"}
    BY <1>1, <1>3 DEF PlanOf
  <2> QED
    BY <2>1, <2>2, <2>3, <2>4, <2>5
<1> QED
  BY <1>2, <1>6, <1>8, <1>9

-----------------------------------------------------------------------------
LEMMA InitTale == Init => TaleInv
<1> SUFFICES ASSUME Init
             PROVE  TaleInv
  OBVIOUS
<1>1. RevokeInv
  BY InitBudget DEF Init, RevokeInv, RevokedBy, Revoking, Request
<1>2. \A r \in Request : pc[r] = "wait"
  BY DEF Init
<1>3. trail = <<>> /\ Len(trail) = 0 /\ mailed = {} /\ \A s \in Upload : share[s] = None
  BY DEF Init, Trail!Init
<1>4. \A what, s : Events(what, s) = {}
  BY <1>3 DEF Events
<1> QED
  BY <1>1, <1>2, <1>3, <1>4
     DEF TaleInv, Alone, Holding, PlanOf, Pending, Known, Tale, About, Created, Request

LEMMA NextTale ==
  ASSUME "power" \notin Faults, TaleInv, [Next]_vars
  PROVE  TaleInv'
<1>1. RevokeInv' /\ Alone' /\ TypeInv'
  BY NextRevoke, NextAlone, NextType DEF TaleInv, RevokeInv, BudgetInv
<1>2. CASE \E r \in Request : WriteEvent(r)
  BY <1>1, <1>2, WriteEventTells DEF TaleInv
<1>3. CASE \A r \in Request : ~WriteEvent(r)
  BY <1>1, <1>3, PlansAndKnown, QuietTale DEF TaleInv
<1> QED
  BY <1>2, <1>3

\* As long as the machine keeps its power, the log shows a share created before it is
\* redeemed, and neither created nor redeemed after it is revoked, however requests
\* interleave.
THEOREM TheLogIsInOrder ==
  "power" \notin Faults => (Spec => []LogInOrder)
<1> SUFFICES ASSUME "power" \notin Faults
             PROVE  Spec => []LogInOrder
  OBVIOUS
<1>1. TaleInv /\ [Next]_vars => TaleInv'
  BY NextTale
<1>2. ASSUME TaleInv
      PROVE  LogInOrder
  <2>1. ASSUME NEW i \in 1..Len(trail), trail[i].what \in {"redeemed", "revoked"}
        PROVE  trail[i].share \in Upload /\ i \in Events(trail[i].what, trail[i].share)
    BY <1>2, <2>1 DEF TaleInv, About, Denied, Events
  <2> QED
    BY <1>2, <2>1 DEF TaleInv, Tale, LogInOrder
<1> QED
  BY <1>1, <1>2, InitTale, PTL DEF Spec

\* As long as the machine keeps its power, the rows bear out what the log claims: a share
\* that was created, its revocation, and no more downloads than were counted.
THEOREM WhatIsRecordedWasDone ==
  "power" \notin Faults => (Spec => []RecordedIsDone)
<1> SUFFICES ASSUME "power" \notin Faults
             PROVE  Spec => []RecordedIsDone
  OBVIOUS
<1>1. TaleInv /\ [Next]_vars => TaleInv'
  BY NextTale
<1>2. TaleInv => RecordedIsDone
  BY DEF TaleInv, Tale, Created, RecordedIsDone
<1> QED
  BY <1>1, <1>2, InitTale, PTL DEF Spec

-----------------------------------------------------------------------------
(* The service implements its promise                                      *)

\* What a step does to a request that neither takes effect nor is recorded or answered.
Idle(q) ==
  \/ PhaseOf(q)' = PhaseOf(q) /\ SubjectOf(q)' = SubjectOf(q)
  \/ PhaseOf(q) # "answered" /\ PhaseOf(q)' = "failed"

LEMMA SameIsIdle ==
  ASSUME NEW q, pc'[q] = pc[q], entry'[q] = entry[q], target'[q] = target[q]
  PROVE  PhaseOf(q)' = PhaseOf(q) /\ SubjectOf(q)' = SubjectOf(q)
BY DEF PhaseOf, SubjectOf, Done, Recorded

LEMMA PhasesAre == \A q : PhaseOf(q) \in Promise!Phase /\ PhaseOf(q)' \in Promise!Phase
BY DEF PhaseOf, Promise!Phase

LEMMA RowsStand ==
  ASSUME UNCHANGED <<share, now>>
  PROVE  UNCHANGED <<Made, Left, Withdrawn, Over>>
BY DEF Made, Left, Withdrawn, Over

LEMMA IdleStep ==
  ASSUME UNCHANGED <<share, now, Recalled>>, \A q \in Client : Idle(q)
  PROVE  Promise!Next
<1>1. /\ Phases' \in [Client -> Promise!Phase]
      /\ \A q \in Client : Phases'[q] # Phases[q] => Phases[q] # "answered" /\ Phases'[q] = "failed"
  BY PhasesAre DEF Phases, Idle
<1>2. Subjects' = [q \in Client |-> IF Phases'[q] = "failed" THEN None ELSE Subjects[q]]
  BY DEF Phases, Subjects, Idle, SubjectOf
<1>3. Promise!Client = Client
  BY DEF Promise!Client, Client
<1> QED
  BY <1>1, <1>2, <1>3, RowsStand DEF Promise!Next, Promise!GiveUp

LEMMA FailStep ==
  ASSUME TypeInv, NEW r \in Request, Fail(r), pc[r] # "ok", UNCHANGED <<share, now, trail>>
  PROVE  Promise!Next
<1>1. ASSUME NEW q \in Client
      PROVE  Idle(q)
  <2>1. q \in Request
    BY DEF Client, Request
  <2>2. CASE q = r
    BY <2>1, <2>2 DEF Fail, Idle, PhaseOf, Done, Recorded, TypeInv, TypeOK
  <2>3. CASE q # r
    BY <2>1, <2>3, SameIsIdle DEF Fail, Idle, TypeInv, TypeOK
  <2> QED
    BY <2>2, <2>3
<1> QED
  BY <1>1, IdleStep DEF Recalled

-----------------------------------------------------------------------------
(* The three steps that have an effect                                     *)

\* Whoever is about to change a row is alone with it.
LEMMA EffectStep ==
  ASSUME TaleInv, NEW r \in Client, NEW s,
         pc[r] \in {"share", "consume", "revoke"}, trail' = trail,
         \A q \in Request \ {r} :
           pc'[q] = pc[q] /\ entry'[q] = entry[q] /\ (q \notin Upload => target'[q] = target[q]),
         PhaseOf(r)' = "done", SubjectOf(r)' = s
  PROVE  Promise!Effect(r, s)
<1>1. PhaseOf(r) = "asked"
  BY DEF PhaseOf, Done, Recorded
<1>2. ASSUME NEW q \in Client
      PROVE  PhaseOf(q) # "done"
  <2>1. q # r => pc[q] \notin Holding
    BY DEF TaleInv, Alone, Holding, Client, Request
  <2> QED
    BY <1>1, <2>1 DEF PhaseOf, Done, Holding
<1>3. ASSUME NEW q \in Client \ {r}
      PROVE  PhaseOf(q)' = PhaseOf(q) /\ SubjectOf(q)' = SubjectOf(q)
  BY DEF PhaseOf, SubjectOf, Done, Recorded, Client, Request
<1>4. /\ Phases' = [Phases EXCEPT ![r] = "done"]
      /\ Subjects' = [Subjects EXCEPT ![r] = s]
  BY <1>3 DEF Phases, Subjects
<1>5. Recalled' = Recalled
  BY DEF Recalled
<1>6. Promise!Client = Client
  BY DEF Promise!Client, Client
<1> QED
  BY <1>1, <1>2, <1>4, <1>5, <1>6 DEF Promise!Effect, Phases

LEMMA InsertShareStep ==
  ASSUME TaleInv, NEW u \in Request, InsertShare(u)
  PROVE  Promise!Next
<1>0. TypeInv
  BY DEF TaleInv, RevokeInv, BudgetInv
<1> USE DEF TypeInv, TypeOK
<1>1. /\ u \in Upload /\ u \in Client /\ share[u] = None /\ pc[u] = "share"
      /\ target[u] \in Upload /\ target' = target /\ now' = now /\ trail' = trail
      /\ share \in [Upload -> Share \cup {None}] /\ now \in Nat
  BY <1>0 DEF InsertShare, PlaceOf, Uploading, NotYet, TaleInv, RevokeInv, BudgetInv, Client, log
<1>2. /\ pc'[u] = "audit" /\ entry'[u] = [what |-> "created", share |-> u, by |-> u]
      /\ \A q \in Request \ {u} : pc'[q] = pc[q] /\ entry'[q] = entry[q]
  BY <1>0 DEF InsertShare, ToAudit, Goto
<1>3. PhaseOf(u)' = "done" /\ SubjectOf(u)' = u
  BY <1>1, <1>2 DEF PhaseOf, SubjectOf, Done, Recorded, Denied
<1>4. Promise!Effect(u, u)
  BY <1>1, <1>2, <1>3, EffectStep
<1>5. PICK max \in Limit, life \in Lifetime :
        share' = [share EXCEPT ![u] =
                   [vendor |-> target[u], expires |-> now + life, max |-> max,
                    count |-> 0, revoked |-> FALSE]]
  BY DEF InsertShare
<1>6. /\ share'[u].max = max /\ share'[u].count = 0 /\ ~share'[u].revoked
      /\ share'[u] \in Share
      /\ \A s \in Upload \ {u} : share'[s] = share[s]
  BY <1>1, <1>5, NumbersAssumption DEF Share
<1>7. share'[u] # None /\ max \in Nat
  BY <1>6, NoneAssumption, NumbersAssumption
<1>8. u \notin Made /\ Made' = Made \cup {u}
  BY <1>1, <1>6, <1>7 DEF Made
<1>9. Left' = [Left EXCEPT ![u] = max]
  <2>1. \A t \in Upload \ {u} :
          (t \in Made' <=> t \in Made) /\ share'[t].max = share[t].max /\ share'[t].count = share[t].count
    BY <1>6, <1>8
  <2>2. u \in Made' /\ share'[u].max - share'[u].count = max
    BY <1>6, <1>7, <1>8
  <2> QED
    BY <1>1, <2>1, <2>2 DEF Left
<1>10. Withdrawn' = Withdrawn
  BY <1>6, <1>8 DEF Withdrawn, Made
<1>11. Over' \in {Over, Over \cup {u}}
  BY <1>1, <1>6, <1>8 DEF Over, Made
<1> QED
  BY <1>1, <1>4, <1>8, <1>9, <1>10, <1>11 DEF Promise!Next, Promise!Offer

LEMMA ConsumeSlotStep ==
  ASSUME TaleInv, NEW r \in Request, ConsumeSlot(r)
  PROVE  Promise!Next
<1> DEFINE s == target[r]
<1>0. TypeInv
  BY DEF TaleInv, RevokeInv, BudgetInv
<1>1. /\ r \in Redemption /\ r \in Client /\ r \notin Upload /\ pc[r] = "consume"
      /\ s \in Upload /\ share[s] # None /\ Consumable(share[s]) /\ Created(s)
      /\ share' = [share EXCEPT ![s].count = @ + 1]
      /\ share \in [Upload -> Share \cup {None}]
      /\ UNCHANGED <<target, entry, now, trail>>
      /\ pc'[r] = "read" /\ \A q \in Request \ {r} : pc'[q] = pc[q]
  BY <1>0, KindsAssumption
     DEF ConsumeSlot, Goto, PlaceOf, Redeeming, Client, log, PlanOf, TaleInv, TypeInv, TypeOK
<1>2. PhaseOf(r)' = "done" /\ SubjectOf(r)' = s
  BY <1>1 DEF PhaseOf, SubjectOf, Done, Recorded
<1>3. Promise!Effect(r, s)
  BY <1>1, <1>2, EffectStep
<1>4. /\ share[s] \in Share /\ share[s].count \in Nat /\ share[s].max \in Nat
      /\ share[s].count < share[s].max /\ ~share[s].revoked /\ share[s].expires > now
      /\ share[s].expires \in Nat /\ now \in Nat
  BY <1>0, <1>1, NumbersAssumption DEF Share, Consumable, TypeInv, TypeOK
<1>5. /\ share'[s] = [share[s] EXCEPT !.count = @ + 1]
      /\ \A t \in Upload \ {s} : share'[t] = share[t]
  BY <1>1
<1>6. /\ share'[s].count = share[s].count + 1 /\ share'[s].max = share[s].max
      /\ share'[s].revoked = share[s].revoked /\ share'[s].expires = share[s].expires
      /\ share'[s] \in Share
  BY <1>4, <1>5 DEF Share
<1>7. s \in Made /\ Made' = Made
  BY <1>1, <1>5, <1>6, NoneAssumption DEF Made
<1>8. Left[s] > 0 /\ Left' = [Left EXCEPT ![s] = @ - 1]
  BY <1>1, <1>4, <1>5, <1>6, <1>7 DEF Left
<1>9. Withdrawn' = Withdrawn /\ Over' = Over
  BY <1>1, <1>5, <1>6, <1>7 DEF Withdrawn, Over, Made
<1>10. s \notin Withdrawn \cup Over
  BY <1>4 DEF Withdrawn, Over
<1>11. \E line \in Recalled : line.what = "created" /\ line.share = s
  BY <1>1 DEF Created, Events, Recalled, Denied
<1> QED
  BY <1>1, <1>3, <1>7, <1>8, <1>9, <1>10, <1>11 DEF Promise!Next, Promise!Take

LEMMA RevokeStep ==
  ASSUME TaleInv, NEW v \in Request, Revoke(v)
  PROVE  Promise!Next
<1>0. TypeInv
  BY DEF TaleInv, RevokeInv, BudgetInv
<1>1. PICK s \in Upload :
        /\ share[s] # None /\ ~share[s].revoked
        /\ share' = [share EXCEPT ![s].revoked = TRUE]
        /\ target' = [target EXCEPT ![v] = s]
        /\ ToAudit(v, "revoked", s)
  BY DEF Revoke
<1>2. /\ v \in Revocation /\ v \in Client /\ v \notin Upload /\ pc[v] = "revoke"
      /\ UNCHANGED <<now, trail>> /\ target'[v] = s
      /\ pc'[v] = "audit" /\ entry'[v] = [what |-> "revoked", share |-> s, by |-> v]
      /\ \A q \in Request \ {v} :
           pc'[q] = pc[q] /\ entry'[q] = entry[q] /\ target'[q] = target[q]
      /\ share \in [Upload -> Share \cup {None}] /\ share[s] \in Share
  BY <1>0, <1>1, KindsAssumption
     DEF Revoke, ToAudit, Goto, PlaceOf, Client, log, TypeInv, TypeOK
<1>3. PhaseOf(v)' = "done" /\ SubjectOf(v)' = s
  BY <1>2 DEF PhaseOf, SubjectOf, Done, Recorded, Denied
<1>4. Promise!Effect(v, s)
  BY <1>2, <1>3, EffectStep
<1>5. /\ share'[s] = [share[s] EXCEPT !.revoked = TRUE]
      /\ \A t \in Upload \ {s} : share'[t] = share[t]
  BY <1>1, <1>2
<1>6. /\ share'[s].count = share[s].count /\ share'[s].max = share[s].max
      /\ share'[s].revoked /\ share'[s].expires = share[s].expires
      /\ share'[s] \in Share
  BY <1>2, <1>5 DEF Share
<1>7. s \in Made /\ Made' = Made
  <2>1. share'[s] # None /\ s \in Made
    BY <1>1, <1>6, NoneAssumption DEF Made
  <2>2. \A t \in Upload : share[t] # None <=> share'[t] # None
    BY <1>1, <1>5, <2>1
  <2> QED
    BY <2>1, <2>2 DEF Made
<1>8. Left' = Left /\ Over' = Over
  <2>1. \A t \in Upload : /\ share'[t].count = share[t].count /\ share'[t].max = share[t].max
                          /\ share'[t].expires = share[t].expires
    BY <1>5, <1>6
  <2>2. Left' = Left
    BY <1>7, <2>1 DEF Left
  <2>3. Over' = Over
    BY <1>2, <1>7, <2>1 DEF Over, Made
  <2> QED
    BY <2>2, <2>3
<1>9. s \notin Withdrawn /\ Withdrawn' = Withdrawn \cup {s}
  BY <1>1, <1>5, <1>6, <1>7 DEF Withdrawn, Made
<1> QED
  BY <1>2, <1>4, <1>7, <1>8, <1>9 DEF Promise!Next, Promise!Withdraw

-----------------------------------------------------------------------------
(* The other steps                                                         *)

LEMMA WriteEventStep ==
  ASSUME TaleInv, NEW r \in Request, WriteEvent(r)
  PROVE  Promise!Next
<1> DEFINE e == entry[r]
<1>0. TypeInv
  BY DEF TaleInv, RevokeInv, BudgetInv
<1>1. /\ pc[r] = "audit" /\ pc' = [pc EXCEPT ![r] = "confirm"] /\ pc \in [Request -> Steps]
      /\ trail' = Append(trail, e) /\ UNCHANGED <<target, entry, share, now>>
      /\ trail \in Seq(Entry) /\ e \in Entry /\ e.by = r
  BY <1>0 DEF WriteEvent, Trail!Write, Goto, db, TypeInv, TypeOK, PlaceOf, Auditing
<1>2. Recalled' = IF e.what \in Denied THEN Recalled ELSE Recalled \cup {e}
  <2>1. /\ Len(trail) \in Nat /\ Len(trail') = Len(trail) + 1 /\ trail'[Len(trail) + 1] = e
        /\ \A i \in 1..Len(trail) : trail'[i] = trail[i]
    BY <1>1
  <2> QED
    BY <2>1 DEF Recalled
<1>3. \A q \in Client \ {r} : PhaseOf(q)' = PhaseOf(q) /\ SubjectOf(q)' = SubjectOf(q)
  BY <1>1, SameIsIdle DEF Client, Request
<1>4. CASE e.what \in Denied
  <2>1. PhaseOf(r)' = PhaseOf(r) /\ SubjectOf(r)' = SubjectOf(r)
    BY <1>1, <1>4 DEF PhaseOf, SubjectOf, Done, Recorded
  <2> QED
    BY <1>1, <1>2, <1>3, <1>4, <2>1, IdleStep DEF Idle
<1>5. CASE e.what \notin Denied
  <2>1. /\ r \in Client /\ e.share = SubjectOf(r) /\ e.what = Promise!Deed(r)
        /\ PhaseOf(r) = "done" /\ PhaseOf(r)' = "recorded" /\ SubjectOf(r)' = SubjectOf(r)
    <3>1. PhaseOf(r) = "done" /\ PhaseOf(r)' = "recorded"
      BY <1>1, <1>5 DEF PhaseOf, Done, Recorded
    <3>2. SubjectOf(r) = (IF r \in Upload THEN r ELSE target[r]) /\ SubjectOf(r)' = SubjectOf(r)
      BY <1>1, <3>1 DEF SubjectOf
    <3>3. PlanOf(r)
      BY DEF TaleInv
    <3> QED
      BY <1>1, <1>5, <3>1, <3>2, <3>3, KindsAssumption DEF PlanOf, Client, Promise!Deed
  <2>2. e = Promise!Line(r, Subjects[r])
    BY <1>1, <2>1 DEF Promise!Line, Subjects, Entry
  <2>3. /\ Phases[r] = "done" /\ Phases' = [Phases EXCEPT ![r] = "recorded"]
        /\ Subjects' = Subjects
    BY <1>3, <2>1 DEF Phases, Subjects
  <2>4. Promise!Client = Client
    BY DEF Promise!Client, Client
  <2> QED
    BY <1>1, <1>2, <1>5, <2>1, <2>2, <2>3, <2>4, RowsStand DEF Promise!Next, Promise!Record
<1> QED
  BY <1>4, <1>5

LEMMA RespondStep ==
  ASSUME TypeInv, NEW r \in Request, Respond(r)
  PROVE  Promise!Next
<1>1. /\ pc[r] = "respond" /\ pc'[r] = "ok" /\ UNCHANGED <<target, share, now, trail>>
      /\ \A q \in Request \ {r} : pc'[q] = pc[q] /\ entry'[q] = entry[q]
  BY DEF Respond, Succeed, TypeInv, TypeOK, db, log
<1>2. \A q \in Client \ {r} : PhaseOf(q)' = PhaseOf(q) /\ SubjectOf(q)' = SubjectOf(q)
  BY <1>1, SameIsIdle DEF Client, Request
<1>3. UNCHANGED Recalled
  BY <1>1 DEF Recalled
<1>4. CASE r \notin Client
  BY <1>1, <1>2, <1>3, <1>4, IdleStep DEF Idle
<1>5. CASE r \in Client
  <2>1. PhaseOf(r) = "recorded" /\ PhaseOf(r)' = "answered"
    BY <1>1 DEF PhaseOf, Done, Recorded
  <2>2. SubjectOf(r)' = SubjectOf(r)
    BY <1>1, <2>1 DEF SubjectOf
  <2>3. /\ Phases[r] = "recorded" /\ Phases' = [Phases EXCEPT ![r] = "answered"]
        /\ Subjects' = Subjects
    BY <1>2, <1>5, <2>1, <2>2 DEF Phases, Subjects
  <2>4. Promise!Client = Client
    BY DEF Promise!Client, Client
  <2> QED
    BY <1>1, <1>3, <1>5, <2>3, <2>4, RowsStand DEF Promise!Next, Promise!Answer
<1> QED
  BY <1>4, <1>5

\* Steps before the effect, or behind the back of whoever asked.
LEMMA SmallStep ==
  ASSUME TaleInv, NEW r \in Request,
         \/ LockStore(r) \/ UseVendor(r) \/ WriteBlob(r) \/ InsertPrint(r) \/ Lookup(r)
         \/ NoSlot(r) \/ (ReadPrint(r) /\ Stored(target[r])) \/ Confirm(r)
         \/ OpenAudit(r) \/ ViewAudit(r) \/ Notify(r)
  PROVE  Promise!Next
<1>0. TypeInv
  BY DEF TaleInv, RevokeInv, BudgetInv
<1> USE DEF TypeInv, TypeOK, Goto, ToAudit
<1>1. UNCHANGED <<share, now, trail>>
  BY DEF LockStore, UseVendor, WriteBlob, InsertPrint, Lookup, NoSlot, ReadPrint, Confirm,
         Trail!Confirm, OpenAudit, ViewAudit, Notify, db, log
<1>2. ASSUME NEW q \in Client \ {r}
      PROVE  Idle(q)
  <2>1. q \in Request
    BY DEF Client, Request
  <2>2. pc'[q] = pc[q] /\ entry'[q] = entry[q] /\ target'[q] = target[q]
    BY <1>0, <2>1 DEF LockStore, UseVendor, WriteBlob, InsertPrint, Lookup, NoSlot, ReadPrint,
                      Confirm, Fail, OpenAudit, ViewAudit, Notify
  <2> QED
    BY <2>2, SameIsIdle DEF Idle
<1>3. ASSUME r \in Client
      PROVE  Idle(r)
  <2>1. r \notin View
    BY <1>3, KindsAssumption DEF Client
  <2>2. CASE LockStore(r) \/ UseVendor(r) \/ WriteBlob(r) \/ InsertPrint(r) \/ Lookup(r) \/ NoSlot(r)
    <3>1. PhaseOf(r) = "asked"
      BY <2>2 DEF LockStore, UseVendor, WriteBlob, InsertPrint, Lookup, NoSlot,
                  PhaseOf, Done, Recorded
    <3>2. PhaseOf(r)' = "asked"
      BY <1>0, <2>2 DEF LockStore, FirstStep, UseVendor, WriteBlob, InsertPrint, Lookup, NoSlot,
                        PhaseOf, Done, Recorded, Denied
    <3> QED
      BY <3>1, <3>2 DEF Idle, SubjectOf
  <2>3. CASE ReadPrint(r) /\ Stored(target[r])
    <3>1. PhaseOf(r) = "done" /\ PhaseOf(r)' = "done" /\ target' = target
      BY <1>0, <2>3 DEF ReadPrint, PhaseOf, Done, Recorded, Denied
    <3> QED
      BY <3>1 DEF Idle, SubjectOf
  <2>4. CASE Confirm(r)
    <3>1. CASE entry[r].what \in Denied
      BY <1>0, <2>4, <3>1 DEF Confirm, Fail, Idle, PhaseOf, Done, Recorded
    <3>2. CASE entry[r].what \notin Denied
      <4>1. PhaseOf(r) = "recorded" /\ PhaseOf(r)' = "recorded" /\ target' = target
        BY <1>0, <2>4, <3>2 DEF Confirm, PhaseOf, Done, Recorded
      <4> QED
        BY <4>1 DEF Idle, SubjectOf
    <3> QED
      BY <3>1, <3>2
  <2>5. CASE Notify(r)
    <3>1. PhaseOf(r) = "recorded" /\ PhaseOf(r)' = "recorded" /\ target' = target
      BY <1>0, <2>5 DEF Notify, PhaseOf, Done, Recorded
    <3> QED
      BY <3>1 DEF Idle, SubjectOf
  <2>6. ~OpenAudit(r) /\ ~ViewAudit(r)
    BY <1>0, <2>1 DEF OpenAudit, ViewAudit, PlaceOf
  <2> QED
    BY <2>2, <2>3, <2>4, <2>5, <2>6
<1> QED
  BY <1>1, <1>2, <1>3, IdleStep DEF Recalled

LEMMA TickStep ==
  ASSUME TypeInv, Tick
  PROVE  Promise!Next
<1>1. /\ now' = now + 1 /\ now \in Nat /\ UNCHANGED <<pc, target, entry, share, trail>>
      /\ share \in [Upload -> Share \cup {None}]
  BY DEF Tick, TypeInv, TypeOK, procs, db, log
<1>2. UNCHANGED <<Made, Left, Withdrawn, Recalled>>
  BY <1>1 DEF Made, Left, Withdrawn, Recalled
<1>3. UNCHANGED <<Phases, Subjects>>
  BY <1>1, SameIsIdle DEF Phases, Subjects
<1>4. Over \subseteq Over' /\ Over' \subseteq Made
  BY <1>1 DEF Over, Made, Share
<1> QED
  BY <1>2, <1>3, <1>4 DEF Promise!Next, Promise!Expire

LEMMA NextPromise ==
  ASSUME "power" \notin Faults, TaleInv, [Next]_vars
  PROVE  Promise!Next
<1>0. TypeInv
  BY DEF TaleInv, RevokeInv, BudgetInv
<1>1. ASSUME NEW r \in Request, Fault(r)
      PROVE  Promise!Next
  <2>1. Fail(r) /\ pc[r] # "ok" /\ UNCHANGED <<share, now, trail>>
    BY <1>1 DEF Fault, Fails, Working, InsertPrintFails, ExpiryOverflows, ShortTokenPanics,
                HangUp, Abort, db, log
  <2> QED
    BY <1>0, <2>1, FailStep
<1>2. ASSUME NEW r \in Request, Step(r)
      PROVE  Promise!Next
  <2>1. CASE StoreIsPoisoned(r) \/ NothingToRevoke(r) \/ AuditIsPoisoned(r)
             \/ (ReadPrint(r) /\ ~Stored(target[r]))
    <3>1. Fail(r) /\ pc[r] # "ok" /\ UNCHANGED <<share, now, trail>>
      BY <2>1 DEF StoreIsPoisoned, NothingToRevoke, AuditIsPoisoned, ReadPrint, Abort, db, log
    <3> QED
      BY <1>0, <3>1, FailStep
  <2>2. CASE InsertShare(r) \/ ConsumeSlot(r) \/ Revoke(r) \/ WriteEvent(r) \/ Respond(r)
    BY <1>0, <2>2, InsertShareStep, ConsumeSlotStep, RevokeStep, WriteEventStep, RespondStep
  <2> QED
    BY <1>2, <2>1, <2>2, SmallStep DEF Step
<1>3. CASE Kill
  <2>1. ASSUME NEW q \in Client
        PROVE  Idle(q)
    <3>1. q \in Request
      BY DEF Client, Request
    <3>2. CASE InHand(q)
      BY <1>3, <3>1, <3>2 DEF Kill, Down, InHand, Idle, PhaseOf, Done, Recorded
    <3>3. CASE ~InHand(q)
      <4>1. pc[q] \in {"wait", "ok", "failed"} /\ pc'[q] = pc[q] /\ target'[q] = target[q]
        BY <1>3, <3>1, <3>3 DEF Kill, Down, InHand
      <4> QED
        BY <4>1 DEF Idle, PhaseOf, SubjectOf, Done, Recorded
    <3> QED
      BY <3>2, <3>3
  <2>2. UNCHANGED <<share, now, trail>>
    BY <1>3 DEF Kill, Down, db, log
  <2> QED
    BY <2>1, <2>2, IdleStep DEF Recalled
<1>4. CASE Restart \/ Checkpoint \/ AllAnswered \/ UNCHANGED vars
  <2>1. UNCHANGED <<share, now, trail, pc, target, entry>>
    BY <1>4 DEF Restart, Checkpoint, AllAnswered, vars, procs, db, log
  <2> QED
    BY <2>1, SameIsIdle, IdleStep DEF Recalled, Idle
<1>5. ~PowerLoss
  BY DEF PowerLoss
<1> QED
  BY <1>0, <1>1, <1>2, <1>3, <1>4, <1>5, TickStep DEF Next

LEMMA InitPromise == Init => Promise!Init
<1> SUFFICES ASSUME Init
             PROVE  Promise!Init
  OBVIOUS
<1>1. \A q \in Client : PhaseOf(q) = "asked" /\ SubjectOf(q) = None
  BY DEF Init, Client, Request, PhaseOf, SubjectOf, Done, Recorded
<1>2. Made = {} /\ Recalled = {}
  BY DEF Init, Trail!Init, Made, Recalled
<1>3. Promise!Client = Client
  BY DEF Promise!Client, Client
<1> QED
  BY <1>1, <1>2, <1>3 DEF Promise!Init, Left, Withdrawn, Over, Phases, Subjects

\* As long as the machine keeps its power, to those who use shares the service is one in
\* which each request takes effect and is recorded in one piece, on a share that then
\* allows it, or fails.
THEOREM ServiceKeepsItsPromise ==
  "power" \notin Faults => (Spec => ImplementsSharePromise)
<1> SUFFICES ASSUME "power" \notin Faults
             PROVE  Spec => ImplementsSharePromise
  OBVIOUS
<1>1. TaleInv /\ [Next]_vars => TaleInv'
  BY NextTale
<1>2. TaleInv /\ [Next]_vars => [Promise!Next]_(Promise!vars)
  BY NextPromise
<1> QED
  BY <1>1, <1>2, InitTale, InitPromise, PTL DEF Spec, ImplementsSharePromise, Promise!Spec
=============================================================================
