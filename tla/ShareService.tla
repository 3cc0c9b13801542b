----------------------------- MODULE ShareService -----------------------------
(***************************************************************************)
(* The life of a share: crates/service (create_share, redeem_share,        *)
(* revoke_share, list_audit_events) over crates/storage and crates/audit.  *)
(*                                                                         *)
(* Every request runs in a thread of its own.  One mutex guards the store, *)
(* another one the audit log, and a handler that needs both takes them in  *)
(* this order.  Under the store mutex each statement commits by itself, so *)
(* an error, a panic or the end of the process after any of them leaves    *)
(* what was committed.                                                     *)
(*                                                                         *)
(* A request is answered once.  The vendor, the print and the share that   *)
(* an upload creates carry the name of the upload: at most one of each.    *)
(* Of the audit log it uses what AuditTrail promises.                      *)
(***************************************************************************)
EXTENDS Naturals, Sequences, FiniteSets

CONSTANTS
  Upload,       \* requests that create a share
  Redemption,   \* requests that redeem one
  Revocation,   \* requests that revoke one
  View,         \* requests for the audit page
  Email,        \* addresses of vendors
  Limit,        \* values of max_downloads
  Lifetime,     \* values of expires_in_hours
  MaxTime,      \* bound: the clock stops here
  Faults,       \* the kinds of fault that may strike
  None

Request == Upload \cup Redemption \cup Revocation \cup View

Share == [vendor : Upload, expires : Nat, max : Limit, count : Nat, revoked : BOOLEAN]

ASSUME KindsAssumption ==
  /\ Upload \cap Redemption = {} /\ Upload \cap Revocation = {}
  /\ Redemption \cap Revocation = {}
  /\ View \cap (Upload \cup Redemption \cup Revocation) = {}
ASSUME NumbersAssumption == Limit \subseteq Nat /\ Lifetime \subseteq Nat /\ MaxTime \in Nat
ASSUME FaultsAssumption == Faults \subseteq {"io", "panic", "hangup", "kill", "power"}
ASSUME RequestsAssumption == IsFiniteSet(Redemption)

VARIABLES
  up,              \* the service is running
  now,             \* the clock
  pc,              \* what each request does next; at the end "ok" or "failed"
  target,          \* the share a request is about; of an upload, the vendor
  entry,           \* the audit event a request is about to write
  storeLock,       \* holder of App.store's mutex, or None
  auditLock,       \* holder of App.audit's mutex, or None
  storePoisoned,   \* a thread panicked while it held the mutex
  auditPoisoned,
  vendor,          \* rows of vendors: the address, or None for no row
  print,           \* rows of prints
  share,           \* rows of shares, or None for no row
  survivors,       \* the database states a loss of power may go back to
  blob,            \* encrypted files that are on disk whole
  mailed,          \* shares whose link was sent to the vendor
  trail, kept      \* the audit log, see AuditTrail

procs == <<pc, target, entry>>
locks == <<storeLock, auditLock, storePoisoned, auditPoisoned>>
db == <<vendor, print, share, survivors>>
log == <<trail, kept>>
vars == <<up, now, procs, locks, db, blob, mailed, log>>

What == {"created", "redeemed", "unknown_token", "bad_access_code", "unavailable", "revoked"}
Denied == {"unknown_token", "bad_access_code", "unavailable"}
Entry == [what : What, share : Upload \cup {None}, by : Request]

ASSUME NoneAssumption == None \notin Request \cup Email \cup Share \cup Entry

Trail == INSTANCE AuditTrail WITH Event <- Entry

-----------------------------------------------------------------------------
(* Steps that the handlers have in common.                                 *)

Goto(r, step) == pc' = [pc EXCEPT ![r] = step]

\* The client has its answer; what it was about is remembered as history.
Succeed(r) ==
  /\ pc' = [pc EXCEPT ![r] = "ok"]
  /\ entry' = [entry EXCEPT ![r] = None]
  /\ UNCHANGED target

\* Mutant of Fail: the handler starts over instead of giving up.
FailRetries(r) ==
  /\ pc' = [pc EXCEPT ![r] = "wait"]
  /\ entry' = [entry EXCEPT ![r] = None]
  /\ target' = [target EXCEPT ![r] = None]

\* The client has an error for an answer, or none at all.
Fail(r) ==
  /\ pc' = [pc EXCEPT ![r] = "failed"]
  /\ entry' = [entry EXCEPT ![r] = None]
  /\ target' = [target EXCEPT ![r] = None]

\* The closure of spawn_blocking is left: its mutex guards are dropped.
Unlock(r) ==
  /\ storeLock' = IF storeLock = r THEN None ELSE storeLock
  /\ auditLock' = IF auditLock = r THEN None ELSE auditLock
  /\ UNCHANGED <<storePoisoned, auditPoisoned>>

\* The closure returns an error with ?.  What was committed stays committed.
Abort(r) == Fail(r) /\ Unlock(r)

\* The request goes on to tell the audit log what happened.
ToAudit(r, what, s) ==
  /\ Goto(r, "audit")
  /\ entry' = [entry EXCEPT ![r] = [what |-> what, share |-> s, by |-> r]]

\* A statement has been committed.  The journal is synced at checkpoints only
\* (synchronous = NORMAL in WAL mode), so until then it may be undone.
State(v, p, s) == [vendor |-> v, print |-> p, share |-> s]
Commit(v, p, s) ==
  survivors' = IF "power" \in Faults THEN survivors \cup {State(v, p, s)} ELSE survivors

FirstStep(r) ==
  IF r \in Upload THEN "vendor" ELSE IF r \in Redemption THEN "lookup" ELSE "revoke"

LockStore(r) ==
  /\ up
  /\ pc[r] = "wait" /\ r \notin View
  /\ storeLock = None /\ ~storePoisoned
  /\ storeLock' = r
  /\ Goto(r, FirstStep(r))
  /\ UNCHANGED <<up, now, target, entry, auditLock, storePoisoned,
                 auditPoisoned, db, blob, mailed, log>>

StoreIsPoisoned(r) ==
  /\ up
  /\ pc[r] = "wait" /\ r \notin View
  /\ storeLock = None /\ storePoisoned
  /\ Abort(r)
  /\ UNCHANGED <<up, now, db, blob, mailed, log>>

\* write_event: the audit mutex is taken, under the store mutex, and the event
\* put into the log ...
WriteEvent(r) ==
  /\ pc[r] = "audit"
  /\ auditLock = None /\ ~auditPoisoned
  /\ auditLock' = r
  /\ Trail!Write(entry[r])
  /\ Goto(r, "confirm")
  /\ UNCHANGED <<up, now, target, entry, storeLock, storePoisoned,
                 auditPoisoned, db, blob, mailed>>

\* Mutant of Confirm: sync_all is left out.
ConfirmUnsynced(r) ==
  /\ pc[r] = "confirm"
  /\ UNCHANGED log
  /\ Unlock(r)
  /\ IF entry[r].what \in Denied
       THEN Fail(r)
       ELSE /\ Goto(r, IF r \in Upload THEN "notify" ELSE "respond")
            /\ UNCHANGED <<target, entry>>
  /\ UNCHANGED <<up, now, db, blob, mailed>>

\* ... and synced; then the closure returns and both mutexes are free.
Confirm(r) ==
  /\ pc[r] = "confirm"
  /\ Trail!Confirm
  /\ Unlock(r)
  /\ IF entry[r].what \in Denied
       THEN Fail(r)
       ELSE /\ Goto(r, IF r \in Upload THEN "notify" ELSE "respond")
            /\ UNCHANGED <<target, entry>>
  /\ UNCHANGED <<up, now, db, blob, mailed>>

Respond(r) ==
  /\ pc[r] = "respond"
  /\ Succeed(r)
  /\ UNCHANGED <<up, now, locks, db, blob, mailed, log>>

-----------------------------------------------------------------------------
(* create_share                                                            *)

\* Mutant of UseVendor: it does not look for a vendor with the address.
UseNewVendor(u) ==
  /\ pc[u] = "vendor"
  /\ \E e \in Email : vendor' = [vendor EXCEPT ![u] = e]
  /\ target' = [target EXCEPT ![u] = u]
  /\ Commit(vendor', print, share)
  /\ Goto(u, "blob")
  /\ UNCHANGED <<up, now, entry, locks, print, share, blob, mailed, log>>

\* Mutant of UseVendor: the id of a vendor just created is not passed on.
ForgetNewVendor(u) ==
  /\ pc[u] = "vendor"
  /\ \E e \in Email :
       \/ \E v \in Upload : /\ vendor[v] = e
                            /\ target' = [target EXCEPT ![u] = v]
                            /\ UNCHANGED <<vendor, survivors>>
       \/ /\ \A v \in Upload : vendor[v] # e
          /\ vendor' = [vendor EXCEPT ![u] = e]
          /\ Commit(vendor', print, share)
          /\ UNCHANGED target
  /\ Goto(u, "blob")
  /\ UNCHANGED <<up, now, entry, locks, print, share, blob, mailed, log>>

\* The vendor with the address given, or a new one when none is active.
UseVendor(u) ==
  /\ pc[u] = "vendor"
  /\ \E e \in Email :
       \/ \E v \in Upload : /\ vendor[v] = e
                            /\ target' = [target EXCEPT ![u] = v]
                            /\ UNCHANGED <<vendor, survivors>>
       \/ /\ \A v \in Upload : vendor[v] # e
          /\ target' = [target EXCEPT ![u] = u]
          /\ vendor' = [vendor EXCEPT ![u] = e]
          /\ Commit(vendor', print, share)
  /\ Goto(u, "blob")
  /\ UNCHANGED <<up, now, entry, locks, print, share, blob, mailed, log>>

\* PrintStore::insert: first the encrypted file ...
WriteBlob(u) ==
  /\ pc[u] = "blob"
  /\ blob' = blob \cup {u}
  /\ Goto(u, "row")
  /\ UNCHANGED <<up, now, target, entry, locks, db, mailed, log>>

\* ... then the row, ...
InsertPrint(u) ==
  /\ pc[u] = "row"
  /\ print' = print \cup {u}
  /\ Commit(vendor, print', share)
  /\ Goto(u, "share")
  /\ UNCHANGED <<up, now, target, entry, locks, vendor, share, blob, mailed, log>>

\* Mutant of InsertPrintFails: the error is dropped once the file is removed.
InsertPrintErrorDropped(u) ==
  /\ "io" \in Faults
  /\ pc[u] = "row"
  /\ blob' = blob \ {u}
  /\ Goto(u, "share")
  /\ UNCHANGED <<up, now, target, entry, locks, db, mailed, log>>

\* ... and when the row cannot be inserted the file is removed, if possible.
InsertPrintFails(u) ==
  /\ "io" \in Faults
  /\ pc[u] = "row"
  /\ blob' \in {blob, blob \ {u}}
  /\ Abort(u)
  /\ UNCHANGED <<up, now, db, mailed, log>>

InsertShare(u) ==
  /\ pc[u] = "share"
  /\ \E max \in Limit, life \in Lifetime :
       share' = [share EXCEPT ![u] =
                   [vendor |-> target[u], expires |-> now + life, max |-> max,
                    count |-> 0, revoked |-> FALSE]]
  /\ Commit(vendor, print, share')
  /\ ToAudit(u, "created", u)
  /\ UNCHANGED <<up, now, target, locks, vendor, print, blob, mailed, log>>

\* now_utc() + hours is beyond the last date there is: the thread panics with
\* the store mutex in its hands, after the print has been stored.
ExpiryOverflows(u) ==
  /\ "panic" \in Faults
  /\ pc[u] = "share"
  /\ storeLock' = None /\ storePoisoned' = TRUE
  /\ Fail(u)
  /\ UNCHANGED <<up, now, auditLock, auditPoisoned, db, blob, mailed, log>>

\* The e-mail to the vendor; that it fails is no error.
Notify(u) ==
  /\ pc[u] = "notify"
  /\ mailed' \in {mailed, mailed \cup {u}}
  /\ Goto(u, "respond")
  /\ UNCHANGED <<up, now, target, entry, locks, db, blob, log>>

-----------------------------------------------------------------------------
(* redeem_share                                                            *)

\* The secrets of a share leave the service with the e-mail and the response.
Released == mailed \cup {u \in Upload : pc[u] = "ok"}

\* find_by_token_hash and verify_access_code.
Lookup(r) ==
  /\ pc[r] = "lookup"
  /\ \/ \E s \in Released \cup {None} :
          /\ IF s = None THEN TRUE ELSE share[s] = None
          /\ ToAudit(r, "unknown_token", None)
          /\ UNCHANGED target
     \/ \E s \in Released :
          /\ share[s] # None
          /\ target' = [target EXCEPT ![r] = s]
          /\ \/ Goto(r, "consume") /\ UNCHANGED entry
             \/ ToAudit(r, "bad_access_code", s)
  /\ UNCHANGED <<up, now, locks, db, blob, mailed, log>>

\* Mutant of Consumable: <= for <.
ConsumableOnceMore(row) == ~row.revoked /\ row.expires > now /\ row.count <= row.max

\* The WHERE clause of try_consume_download.
Consumable(row) == ~row.revoked /\ row.expires > now /\ row.count < row.max

\* Mutant of ConsumeSlot: the store mutex is given back before the event is written.
ConsumeAndUnlock(r) ==
  /\ pc[r] = "consume"
  /\ Consumable(share[target[r]])
  /\ share' = [share EXCEPT ![target[r]].count = @ + 1]
  /\ Commit(vendor, print, share')
  /\ Goto(r, "read")
  /\ Unlock(r)
  /\ UNCHANGED <<up, now, target, entry, vendor, print, blob, mailed, log>>

ConsumeSlot(r) ==
  /\ pc[r] = "consume"
  /\ Consumable(share[target[r]])
  /\ share' = [share EXCEPT ![target[r]].count = @ + 1]
  /\ Commit(vendor, print, share')
  /\ Goto(r, "read")
  /\ UNCHANGED <<up, now, target, entry, locks, vendor, print, blob, mailed, log>>

\* Mutant of NoSlot: whether a slot was taken is not looked at.
NoSlotGoesOn(r) ==
  /\ pc[r] = "consume"
  /\ ~Consumable(share[target[r]])
  /\ Goto(r, "read")
  /\ UNCHANGED <<up, now, target, entry, locks, db, blob, mailed, log>>

NoSlot(r) ==
  /\ pc[r] = "consume"
  /\ ~Consumable(share[target[r]])
  /\ ToAudit(r, "unavailable", target[r])
  /\ UNCHANGED <<up, now, target, locks, db, blob, mailed, log>>

Stored(s) == s \in print \cap blob

\* find and read_blob; when they fail the slot is spent all the same.
ReadPrint(r) ==
  /\ pc[r] = "read"
  /\ IF Stored(target[r])
       THEN ToAudit(r, "redeemed", target[r]) /\ UNCHANGED <<target, locks>>
       ELSE Abort(r)
  /\ UNCHANGED <<up, now, db, blob, mailed, log>>

\* short_token cuts the unknown token inside a character: the thread panics
\* with both mutexes in its hands.
ShortTokenPanics(r) ==
  /\ "panic" \in Faults
  /\ pc[r] = "audit" /\ entry[r].what = "unknown_token"
  /\ auditLock = None /\ ~auditPoisoned
  /\ storeLock' = None /\ storePoisoned' = TRUE
  /\ auditPoisoned' = TRUE
  /\ Fail(r)
  /\ UNCHANGED <<up, now, auditLock, db, blob, mailed, log>>

-----------------------------------------------------------------------------
(* revoke_share and list_audit_events                                      *)

\* Mutant of Revoke: the event is written, the row not changed.
RevokeOnPaper(v) ==
  /\ pc[v] = "revoke"
  /\ \E s \in Upload :
       /\ share[s] # None /\ ~share[s].revoked
       /\ target' = [target EXCEPT ![v] = s]
       /\ ToAudit(v, "revoked", s)
  /\ UNCHANGED <<up, now, locks, db, blob, mailed, log>>

Revoke(v) ==
  /\ pc[v] = "revoke"
  /\ \E s \in Upload :
       /\ share[s] # None /\ ~share[s].revoked
       /\ share' = [share EXCEPT ![s].revoked = TRUE]
       /\ target' = [target EXCEPT ![v] = s]
       /\ ToAudit(v, "revoked", s)
  /\ Commit(vendor, print, share')
  /\ UNCHANGED <<up, now, locks, vendor, print, blob, mailed, log>>

\* Mutant of NothingToRevoke: that no row was affected goes unnoticed.
RevokeNothing(v) ==
  /\ pc[v] = "revoke"
  /\ \E s \in Upload :
       /\ share[s] # None => share[s].revoked
       /\ ToAudit(v, "revoked", s)
  /\ UNCHANGED <<up, now, target, locks, db, blob, mailed, log>>

\* There is no such share, or it is revoked already: NotFound, and no event.
NothingToRevoke(v) ==
  /\ pc[v] = "revoke"
  /\ \E s \in Upload : share[s] # None => share[s].revoked
  /\ Abort(v)
  /\ UNCHANGED <<up, now, db, blob, mailed, log>>

OpenAudit(v) ==
  /\ up
  /\ pc[v] = "wait" /\ v \in View
  /\ auditLock = None /\ ~auditPoisoned
  /\ auditLock' = v
  /\ Goto(v, "view")
  /\ UNCHANGED <<up, now, target, entry, storeLock, storePoisoned,
                 auditPoisoned, db, blob, mailed, log>>

\* read_all and verify_chain, with the audit mutex held.
ViewAudit(v) ==
  /\ pc[v] = "view"
  /\ Unlock(v)
  /\ Goto(v, "respond")
  /\ UNCHANGED <<up, now, target, entry, db, blob, mailed, log>>

\* (Whoever holds the store mutex never finds the audit mutex poisoned: the
\* panic that poisons it poisons both.)
AuditIsPoisoned(v) ==
  /\ up
  /\ pc[v] = "wait" /\ v \in View
  /\ auditLock = None /\ auditPoisoned
  /\ Abort(v)
  /\ UNCHANGED <<up, now, db, blob, mailed, log>>

-----------------------------------------------------------------------------
(* What may go wrong in any handler.                                       *)

Working == {"vendor", "blob", "share", "lookup", "consume", "read", "revoke",
            "audit", "confirm", "view"}

\* A statement, a file operation or a write to the log returns an error.  At
\* "confirm" the event is in the file, but not known to be.
Fails(r) ==
  /\ "io" \in Faults
  /\ pc[r] \in Working
  /\ Abort(r)
  /\ UNCHANGED <<up, now, db, blob, mailed, log>>

\* The client goes away before it has its answer.  (A closure that has begun
\* runs to its end all the same.)
HangUp(r) ==
  /\ "hangup" \in Faults
  /\ pc[r] \in {"notify", "respond"}
  /\ Fail(r)
  /\ UNCHANGED <<up, now, locks, db, blob, mailed, log>>

\* The process is gone, and with it every request it was working on.  (A
\* request that still waits may as well come after the restart.)
InHand(r) == pc[r] \notin {"wait", "ok", "failed"}

Down ==
  /\ up' = FALSE
  /\ pc' = [r \in Request |-> IF InHand(r) THEN "failed" ELSE pc[r]]
  /\ target' = [r \in Request |-> IF InHand(r) THEN None ELSE target[r]]
  /\ entry' = [r \in Request |-> None]
  /\ storeLock' = None /\ auditLock' = None
  /\ storePoisoned' = FALSE /\ auditPoisoned' = FALSE
  /\ UNCHANGED <<now, mailed>>

Kill ==
  /\ "kill" \in Faults
  /\ up
  /\ Down
  /\ UNCHANGED <<db, blob, log>>

\* Commits since a checkpoint may be undone, files that nobody synced be lost,
\* and of the audit log what was not confirmed.
PowerLoss ==
  /\ "power" \in Faults
  /\ up
  /\ Down
  /\ \E d \in survivors :
       /\ vendor' = d.vendor /\ print' = d.print /\ share' = d.share
       /\ survivors' = {d}
  /\ blob' \in SUBSET blob
  /\ Trail!Lose

Restart ==
  /\ ~up
  /\ up' = TRUE
  /\ UNCHANGED <<now, procs, locks, db, blob, mailed, log>>

Checkpoint ==
  /\ "power" \in Faults
  /\ survivors' = {State(vendor, print, share)}
  /\ UNCHANGED <<up, now, procs, locks, vendor, print, share, blob, mailed, log>>

Tick ==
  /\ now < MaxTime
  /\ now' = now + 1
  /\ UNCHANGED <<up, procs, locks, db, blob, mailed, log>>

-----------------------------------------------------------------------------
Init ==
  /\ up = TRUE
  /\ now = 0
  /\ pc = [r \in Request |-> "wait"]
  /\ target = [r \in Request |-> None]
  /\ entry = [r \in Request |-> None]
  /\ storeLock = None /\ auditLock = None
  /\ storePoisoned = FALSE /\ auditPoisoned = FALSE
  /\ vendor = [u \in Upload |-> None]
  /\ print = {}
  /\ share = [u \in Upload |-> None]
  /\ survivors = {State(vendor, print, share)}
  /\ blob = {}
  /\ mailed = {}
  /\ Trail!Init

\* What a request does once it has arrived, as long as nothing goes wrong.
Step(r) ==
  \/ LockStore(r) \/ StoreIsPoisoned(r)
  \/ UseVendor(r) \/ WriteBlob(r) \/ InsertPrint(r) \/ InsertShare(r)
  \/ Lookup(r) \/ ConsumeSlot(r) \/ NoSlot(r) \/ ReadPrint(r)
  \/ Revoke(r) \/ NothingToRevoke(r)
  \/ WriteEvent(r) \/ Confirm(r)
  \/ OpenAudit(r) \/ ViewAudit(r) \/ AuditIsPoisoned(r)
  \/ Notify(r) \/ Respond(r)

Fault(r) ==
  Fails(r) \/ InsertPrintFails(r) \/ ExpiryOverflows(r) \/ ShortTokenPanics(r) \/ HangUp(r)

AllAnswered == up /\ (\A r \in Request : pc[r] \in {"ok", "failed"}) /\ UNCHANGED vars

Next ==
  \/ \E r \in Request : Step(r) \/ Fault(r)
  \/ Kill \/ PowerLoss \/ Restart
  \/ Checkpoint \/ Tick
  \/ AllAnswered

Spec == Init /\ [][Next]_vars

\* Threads are scheduled by the operating system, and there are only so many
\* requests to lose the race for a mutex to: each gets on with its work.
FairSpec == Spec /\ \A r \in Request : WF_vars(Step(r))

-----------------------------------------------------------------------------
Steps == {"wait", "vendor", "blob", "row", "share", "lookup", "consume",
          "read", "revoke", "audit", "confirm", "view", "notify", "respond", "ok", "failed"}

TypeOK ==
  /\ up \in BOOLEAN
  /\ now \in Nat
  /\ pc \in [Request -> Steps]
  /\ target \in [Request -> Upload \cup {None}]
  /\ entry \in [Request -> Entry \cup {None}]
  /\ storeLock \in Request \cup {None} /\ auditLock \in Request \cup {None}
  /\ storePoisoned \in BOOLEAN /\ auditPoisoned \in BOOLEAN
  /\ vendor \in [Upload -> Email \cup {None}]
  /\ print \in SUBSET Upload
  /\ share \in [Upload -> Share \cup {None}]
  /\ survivors \in SUBSET [vendor : [Upload -> Email \cup {None}], print : SUBSET Upload,
                           share : [Upload -> Share \cup {None}]]
  /\ blob \in SUBSET Upload
  /\ mailed \in SUBSET Upload
  /\ trail \in Seq(Entry)
  /\ kept \in 0..Len(trail)

\* The events of one kind about one share, as places in the log.
Events(what, s) == {i \in 1..Len(trail) : trail[i].what = what /\ trail[i].share = s}

Downloads(s) == {r \in Redemption : pc[r] = "ok" /\ target[r] = s}

\* However many redemptions race, and whatever fails, a share is downloaded at
\* most as often as its download_count says, and that is never above the limit
\* its sender chose.
DownloadBudget ==
  \A s \in Upload : share[s] # None =>
    Cardinality(Downloads(s)) <= share[s].count /\ share[s].count <= share[s].max

\* The log tells the life of a share in the order in which it happened: it is
\* created before it is redeemed, and neither created nor redeemed once revoked.
\* (A revocation may stand there alone: create_share keeps the row when the event
\* about it cannot be written.)
LogInOrder ==
  \A i \in 1..Len(trail) :
    /\ trail[i].what = "redeemed" =>
         \E j \in Events("created", trail[i].share) : j < i
    /\ trail[i].what = "revoked" =>
         \A j \in Events("created", trail[i].share) \cup Events("redeemed", trail[i].share) :
           j < i

\* The service reports nothing as done before the log has a record of it that no
\* fault can take away.  (share_revoke only traces the error it gets otherwise.)
AnsweredIsOnRecord ==
  \A r \in Request \ View : pc[r] = "ok" =>
    \E i \in 1..kept : trail[i].by = r /\ trail[i].what \notin Denied

\* The log claims nothing that the database does not show.
RecordedIsDone ==
  \A s \in Upload :
    /\ Events("created", s) # {} => share[s] # None
    /\ Events("revoked", s) # {} => share[s] # None /\ share[s].revoked
    /\ share[s] # None => Cardinality(Events("redeemed", s)) <= share[s].count

\* web/templates/share_created.html:34: "All activity is recorded in the audit
\* log."  Whenever no handler is at work the log accounts for every share, every
\* download taken from it and its revocation.
AllActivityRecorded ==
  storeLock = None =>
    \A s \in Upload : share[s] # None =>
      /\ Events("created", s) # {}
      /\ Cardinality(Events("redeemed", s)) = share[s].count
      /\ share[s].revoked => Events("revoked", s) # {}

\* Rows refer to rows that are there, and a share to a file that can be read.
NothingDangles ==
  \A s \in Upload : share[s] # None => Stored(s) /\ vendor[share[s].vendor] # None

\* Nothing in the schema keeps two vendors from having one address; that the
\* handler looks for one before it creates one has to.
OneVendorPerAddress ==
  \A u, v \in Upload : vendor[u] = vendor[v] /\ vendor[u] # None => u = v

\* web/templates/shares.html:51: "Revoke this share? The vendor will no longer be
\* able to download."  Once App.revoke_share has returned Ok the share stays revoked.
\* (The page looks the same after an error, which share_revoke only traces.)
RevokedForGood ==
  \A v \in Revocation : pc[v] = "ok" =>
    share[target[v]] # None /\ share[target[v]].revoked

\* Every request that has arrived gets an answer, unless the service goes down first:
\* nobody waits for a mutex for ever, not even when a thread panics holding one.
EveryRequestEnds ==
  \A r \in Request : pc[r] = "wait" ~> pc[r] \in {"ok", "failed"} \/ ~up
=============================================================================
