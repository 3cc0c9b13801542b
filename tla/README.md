# fips-dropbox: a TLA+ model

fips-dropbox is a small service with which one organisation hands files to
outside vendors: an employee (in the browser) or a workstation agent (with a
bearer token) uploads a file, the service stores it encrypted, mails the vendor
a link, and the vendor redeems link and access code for the file, a limited
number of times, for a limited time. Everything of importance goes into a
hash-chained audit log.

This directory models the parts of it that keep state, checks them with TLC on
small instances and proves the main invariants with TLAPS. Paths below are
relative to the repository; crates are under `src/crates/<crate>/src`.

Contents

1. The system: components, state, interactions, what is hard, what must hold
2. The modules and how they correspond to the code
3. The runs: what each checks, its bounds, and what it shows
4. Findings
5. The proofs
6. What is not modelled, and the abstractions made
7. The plan

---------------------------------------------------------------------------

## 1. The system

### Components

| component | code | state it keeps | operations |
|---|---|---|---|
| audit log | `audit/lib.rs` | the text of one file; in memory `prev_hash` | `Log::open`, `Log::write`, `read_all`, `verify_chain` |
| share service | `service/lib.rs` | none of its own: two mutexes over the store and the log | `create_share`, `redeem_share`, `revoke_share`, `list_audit_events` |
| print store | `storage/prints.rs` | encrypted files, rows of `prints` | `insert`, `find`, `read_blob`, `delete` (never called) |
| shares table | `storage/shares.rs` | rows of `shares` | `create`, `find_by_token_hash`, `try_consume_download`, `revoke`, `purge_expired` (never called) |
| vendors table | `storage/vendors.rs` | rows of `vendors` | `create`, `find_by_email`, `disable` (never called) |
| accounts, sessions, API tokens | `storage/users.rs`, `sessions.rs`, `api_tokens.rs`, `web/auth.rs`, `service/lib.rs` | rows of `users`, `sessions`, `api_tokens` | `login`, `logout`, `find_authenticated`, `mint_api_token`, `revoke_api_token`, `verify_api_token` |
| store and schema | `storage/lib.rs`, `migrations/0001_initial.sql` | one SQLite connection, WAL, `synchronous = NORMAL` | `Store::open` |
| web front end | `web/lib.rs` | none | one handler per route: extractor, body, one call of the service, a page |
| command line and start-up | `app/main.rs`, `init_cmd.rs`, `config.rs` | the data directory | `init`, `run` |
| key encryption, AEAD, hashing | `crypto/*` | the KEK | wrap, unwrap, seal, open |
| CNG bindings | `cng/lib.rs` | none | FFI |
| notifications | `notifier/*` | none | send an e-mail |
| sender agent | `sender-agent/main.rs` | none | a stub |

### How they interact

A web handler runs in an async task. First its extractor (`CurrentUser` or
`ApiCaller`) resolves the cookie or the bearer token; then the body is read;
then it calls one method of `App`. Each such method moves its work onto a
thread with `spawn_blocking` and takes `App.store` (one connection behind one
mutex) and, while still holding it, `App.audit`. `list_audit_events` takes
`App.audit` alone. There are no transactions: every statement commits by
itself. Rows change first, the event is written afterwards, the answer comes
last. Sending the e-mail happens after both mutexes were given back, in the
async task, which ends when the client hangs up.

### What is hard

* *Partial failure*: any statement, file operation or the log may return an
  error between two commits, and nothing is rolled back.
* *Panics* while a mutex is held (a date beyond the year 9999, a string cut in
  the middle of a character) poison it for good.
* *Interleaving*: redemptions race for the last slot and with a revocation,
  uploads race to create a vendor, requests authenticated before a revocation
  act after it, logouts race.
* *Crashes*: a process killed inside `writeln!`; losses of power, after which
  the synced log and the unsynced journal of SQLite disagree.
* *Boundaries*: the millisecond of expiry, the last download.

`PROJECT.json` lists the hazards one by one, each at its line, with the
properties that would notice.

### What makes each component correct

* **audit log**: what was acknowledged stays; the chain verifies unless somebody
  meddled or a write failed; a break cannot be healed silently.
* **share service**: never more downloads than the limit; a revoked share stays
  revoked; the log tells what happened, in the order it happened, and nothing
  that did not; every request is answered; nothing refers to what is not there.
* **accounts, sessions, tokens**: whatever is done in a user's name goes back to
  that user's login; a credential whose logout or revocation is in the log opens
  nothing;
  the log names at most one end of a session.
* **web front end**: form and API read an upload alike; a list never offers less
  than is true for long; filter, limit and order of the audit page and its export
  agree; what is quoted, encoded or cut is read back at the other end as it was.
* **notifications**: what the sender is told about them is what was tried.
* **start-up**: when `init` says it is done, key, database and administrator are
  there; the service works with one key for ever.
* **print store and keys**: a read returns what was inserted under that id or an
  error, and no row is left whose file is gone.

---------------------------------------------------------------------------

## 2. The modules

    AuditTrail          what a log promises: a sequence that grows, part of it safe
      ^        ^    ^
      |        |    +------ Auth           login, logout, extractors, tokens
      |        +----------- ShareService   create, redeem, revoke, audit page
      |                          |
      |                          +-------> SharePromise   each request in one piece
      |                     (refinement, ShareServicePromise)
      | (refinement, AuditLogTrail)
    AuditLog            the file, line by line, step by step

    Bootstrap           init, run, kek.bin, the first user
      ^
      +---- Vault       the print store over that key: insert, read_blob, delete

    WebText             quoting, encoding, cookies, file names, each with its reader
      ^
      +---- Web         one share as the browser, the API and the audit page see it

    AuditLogProofs, AuthProofs, VaultProofs, WebProofs      theorems
    ShareServiceProofs <- ShareRecordProofs <- ShareLogProofs
    DataInduction       induction over sequences, for AuditLogProofs and WebProofs
    MCAuditLog, MCShareService, MCAuth, MCVault, MCWeb      instances for TLC

### AuditTrail

The abstract specification: `trail`, the events on record, and `kept`, how many
of them can no longer be lost. `Write` appends, `Confirm` says that all is
safe, `Lose` takes away an unsafe end. `ShareService` and `Auth` use its
actions directly (`Trail!Write(entry[r])`), so what they rely on is exactly what
`AuditLog` is shown to provide.

### AuditLog

`lines` is the text of the file: a line is a sequence of pieces, a piece a
record or `Torn`, text that is no JSON; `open` says that the last line has no
newline yet. A hash is the list of the events it stands on, so that two records
have the same hash only when they and all before them are equal: SHA-256
idealised. `Log::write` is four steps: `Seal` (the record is made, `prev_hash`
moves on), `AppendText` and `EndLine` (`writeln!` hands the text and the newline
to the file separately), `Sync` (and return). `WriteFails` is the `?` after any
of them, with whatever part of the text got to the file. `Stop`, `Kill` and
`PowerLoss` end the process; after a loss of power the file keeps its synced
lines and any part of the rest, the last piece of it possibly torn. `Open` is
`load_last_hash`: it takes its hash from the last line, and is not enabled when
that does not parse, as `run_service` then returns an error.

### ShareService

A request is a thread; `pc` is where it is. Under the store mutex it takes one
step per statement:

    create_share    wait -> vendor -> blob -> row -> share -> audit -> confirm -> notify -> respond
    redeem_share    wait -> lookup -> consume -> read -> audit -> confirm -> respond
    revoke_share    wait -> revoke -> audit -> confirm -> respond
    audit page      wait -> view -> respond

Between any two the following may strike, as far as `Faults` has them: `"io"` (a
statement, a file operation or the log returns an error: `Fails`,
`InsertPrintFails`, where the encrypted file may be removed or not), `"panic"`
(`ExpiryOverflows`, `ShortTokenPanics`: the mutexes held become poisoned and
every later `lock()` is refused), `"hangup"` (the client leaves while the e-mail
is sent), `"kill"` and `"power"` (the database falls back to any state
committed since the last checkpoint). `vendor`, `print` and `share` are the
tables, `blob` the files, `survivors` the states a loss of power may go back
to. A row carries the name of the upload that made it.

### SharePromise and ShareServicePromise

`SharePromise` is what the service is to those who use shares, with no mutex, table or
file: a request is asked, takes effect (`Offer`, `Take`, `Withdraw`), is recorded and is
answered, or fails anywhere on that way (`GiveUp`). Effects are atomic, no effect
happens while another one still awaits its record, and one happens only on a share
that allows it at that moment. `ShareServicePromise` maps `ShareService` onto it: the
effect is the statement that inserts the row, takes the slot or marks the row
revoked; the record is the event in the log. It follows that a download asked for
after a revocation was answered fails, although no single step of the code says so.

### Auth

A request is a thread here too; the store mutex is held from the change of the
rows until the log has confirmed the event (`ToAudit`, `WriteEvent`, `Confirm`).
A request ends in one of three ways: `"ok"`, `"failed"`, which its client
sees, and `"warned"`, which it does not, because `logout_post` and `token_revoke` only
trace an error of the service and answer as on success (`Error`). So no property rests on
what those two were answered; `RevokedIsRefused` rests on the log.
`Authenticate` and `Refuse` are the extractors: one critical section of their
own, after which the request stands at `"act"` and remembers only `actor`, as
the Rust handler does. `SignOut` is `logout`, which needs no authentication and
deletes whatever session is named; `RevokeToken` takes any token of any user
from whoever is logged in, as the code does. `Disable` and `Enable` are called
by no route; they are in the model because `disabled_at` is consulted at every
request, and a tool may set it at any time. `cred` is history: the code does not
keep it.

The events that `Auth` and `ShareService` write both go to one log in the
program. They are modelled apart because no property relates the two: the
service uses of a request only who it acts for, which is `Auth`'s subject.

### Bootstrap and Vault

Each `cuishare init` is a process `r` of its own; `setup[r]` is its next step:

    wait -> check -> generate -> write -> fill -> open -> seed -> done

`FindNoKek` is the test that the key file does not exist, made once in `run` and
once in `KekManager::init`; `TruncateKek` and `FillKek` are the two halves of
`fs::write`; `OpenStore` the schema; `SeedAdmin` the row of the administrator,
whose address must be new to the letter. `Ends` is every error and every end of the
process between two steps. Two inits may run at once, as nothing in the code
prevents it; `overlapped` is history and marks that one passed a test while another
was about to write, which is when keys are lost; the properties say what holds
otherwise. `LoadKek`, `Listen` and `StopService` are `cuishare run`; `RemoveKek` is
the advice in `init`'s own error message.

`Vault` adds the print store, whose operations are of one at a time because they run
under the store mutex, but of several steps: the file, then the row (`WriteFile`,
`InsertRow`, with `InsertRowFails` for the clean-up), the row, then the file
(`DeleteRow`, `Unlink`). A sealing is a record of the key, the associated data and
the plaintext that went into it, and opens with exactly those: AES-GCM idealised.
`Spoil` and `MixUp` are what files and columns may suffer from a loss of power or
from a restore: a file torn or gone, files or columns beside the row of another
print. `content` and `disturbed` are history.

### WebText and Web

`WebText` has the functions on texts, over sequences of code points, and beside
each the reader at the other end: a CSV reader after RFC 4180, the decoding of a
query, the browser's cookies and its reading of `Content-Disposition`. Those readers
are external.

`Web` follows one share. In the phase `"type"` a text of up to `MaxTyped` code points
is typed (the properties of `WebText` are about `typed`); `Send` begins an upload.
`ReadField` is one turn of the loop over the multipart body; `fields` has what *both*
handlers (`share_new_post` and `api_shares_post`) make of the same fields, so that
they can be compared; `door` is the one the request goes through. `Create`, `Notify`
and `Answer` follow it to the page, `HangUp` is a client that leaves. `mail` is what
became of the e-mail: none was sent, it failed on its way to the relay, or the relay has
it; the relay may have one that failed all the same, when its answer was lost, which
makes no difference to the page. Afterwards the
share is redeemed, refused and revoked in single steps, whose interior is
`ShareService`'s; a list of shares is made in three (`ListRecent`, `OfferRevoke`,
`ShowStatus`), because the row is read under the mutex and the two looks at the clock
come later; `log` fills up, and `AuditPage` and `AuditCsv` are what the two handlers
show of it at each moment.

---------------------------------------------------------------------------

## 3. The runs

Passing runs:

| run | what it asks | instance | distinct states |
|---|---|---|---|
| `audit_faults` | `TypeOK`, `AckedKept`, `BreaksFollowFailedWrites`, `BreakIsForGood`, and the refinement `ImplementsAuditTrail` | 1 event, chain of at most 5, all faults | 109 136 |
| `share_faults` | `TypeOK`, `DownloadBudget`, `LogInOrder`, `RecordedIsDone`, `RevokedForGood`, `NothingDangles`, `OneVendorPerAddress`, and the refinement `ImplementsSharePromise` | 2 uploads to 1 address, 2 redemptions, 1 revocation, limit 1, nothing expires; io, panic, hangup, kill | 588 356 |
| `share_answers` | `AnsweredIsOnRecord`, and `EveryRequestEnds` under fairness | one request of each kind, expiry; all faults | 180 552 |
| `vault` | `TypeOK`, `DoneMeansReady`, `OneKey`, `ReadsWhatWasInserted`, `StaysReadable` | 2 inits, 2 prints, 2 plaintexts | 365 365 |
| `web` | `WebTypeOK`, `BothDoorsAgree`, `TellsWhatWasTried`, `ClosedStaysClosed`, `ShowsTheNewest`, `CsvReadsBack`, `FilterComesBack`, `CookieComesBack`, `FilenameArrives` | 13 code points, texts of at most 3; numbers 0 and 1; 4 events, limits 2 and 3; clock to 2 | 189 338 |
| `auth` | `TypeOK`, `Traceable`, `OneNamedLogout`, `NeverSeenNeverUsed`, `RevokedIsRefused` | 2 users, 1 login, 2 logouts, 1 minting, 1 withdrawal, 1 upload; io, kill | 567 076 |

Runs that must find a violation, each of what a page or a comment says:
`audit_killed`, `audit_write_error`, `share_audit_error`, `share_power_revoked`,
`install_login`, `auth_revoked`; see section 4.

### The bounds

* **Chain of 5** (`MaxChain`): a break needs one event before it, the failed one
  and one after it; five leave room for two breaks, for a line shared by two
  events, and for a restart between any of them. One event value is enough:
  records differ by their place in the chain.
* **Two redemptions and a limit of 1**: one more than can succeed, so that the race
  for the last slot has a loser, and a redemption that fails after it spent its slot
  leaves the other without one.
* **Two uploads to one address**: they race to create its vendor, and either may be
  the one that fails. There is one share for the redemptions to race for and another
  they must not be counted with.
* **Clock of 0 or 1 and a lifetime of 1** (`MaxTime`, `Lifetime`) in `share_answers`:
  before the expiry and exactly at it. Beyond it `Consumable` is as false as at it. In
  `share_faults` the clock stands still, to leave room for the second upload and
  redemption; an expiry there would only refuse a redemption that the limit or a
  revocation refuses as well, and the proofs hold for any clock.
* **Two inits, two prints**: the two that overlap, and the two whose files or columns
  are exchanged. A third could only be one of these to either.
* **Texts of three code points** (`MaxTyped`): `CsvReadsBack` puts them next to
  another field and beside another quote; a quote doubled, a separator between
  two letters and an escape before the end all need three. The 13 code points are one
  of each kind the code or a reader tells apart, two of them beyond ASCII.
* **Four events, page of 2, export of 3** (`MaxEvents`, `PageLimit`, `CsvLimit`): both
  limits are exceeded, with and without events that the filter leaves out in between.
* **Numbers 0 and 1, a clock to 2**: a share that is over as soon as it is made, one
  that has one download or one hour, and a moment before, at and after its expiry.
* **One login**: two logins make the instance too large to be explored. A second
  session could matter only through the rows it shares with the first, and there
  are none: a row is keyed by its own credential. The proofs of section 5, which
  hold for any number, cover `Traceable`, `RevokedIsRefused`,
  `OneNamedLogout` and `NeverSeenNeverUsed`.

### Deadlock

TLC looks for deadlocks in all runs of `ShareService` and `Auth`; `AllAnswered`
is the step of a system that has nothing left to do, and is possible only when
every request has an answer. In the runs of `AuditLog` the check is off, because
the system really may stop: at the bound of the chain, and for good when the last
line of the file is torn, as `Log::open` then fails. It is off for `Vault` and `Web`
as well: an installation whose inits have all failed has nothing left to do but to
be looked at, and `Web` ends at its bounds.

### Fairness

`FairSpec` has weak fairness of `Step(r)` for each request, and of nothing else:
neither faults nor the clock nor restarts need ever happen, and no request
is said to win a mutex it competes for. That is what a pre-emptive operating
system gives a thread that can run. Weak fairness is enough because the number
of requests in the instance is finite: whoever waits for a mutex is passed over
only so often, every holder gives it back or poisons it, and a poisoned mutex
can be seen to be so at every later moment. When the process is killed or the machine
loses its power, a request that was waiting need not be answered before it is up
again; `EveryRequestEnds` says so (`\/ ~up`).

### Symmetry

Used over sets whose members are interchangeable: uploads and redemptions
(`share_faults`), users and logouts (`auth`), inits, prints and plaintexts (`vault`,
`install_login`). `share_answers`, which checks a liveness property, has none. `auth`
has symmetry and `RevokedIsRefused`, an action property, which symmetry does not
disturb.

### Mutants

For each property of each passing run the modules contain one operator, commented
"Mutant of ...", that changes one modelled definition as a plausible bug would:
the look-up of a revoked token that does not look at `revoked_at`, an error that
is dropped, a chain that is forgotten at a restart, a mutex released too
early. No action uses these operators; put in the place of what they are mutants
of, each makes the run fail.

---------------------------------------------------------------------------

## 4. Findings

1. `audit_killed`, `audit/lib.rs:94`. A process that ends between the text of an
   event and its newline leaves a last line that parses; the service starts and
   puts the next event onto the same line. "Every event is one JSON object on its
   own line" (`audit/lib.rs:3`) no longer holds; the file cannot be read.
2. `audit_write_error`, `audit/lib.rs:87`. `prev_hash` moves on before the file is
   written and stays there when that fails: the next event points at a line that
   is not there, and the chain is reported as broken for good, although nobody
   meddled with it. `BreaksFollowFailedWrites` shows that this is the only cause.
3. `share_audit_error`, `service/lib.rs:265`. A change is committed before its
   event is written and not taken back when that fails, although the page says
   that all activity is recorded (`share_created.html:34`). What does hold is
   `RecordedIsDone` and `AnsweredIsOnRecord`: the log claims nothing that was
   not done, and the service returns `Ok` of nothing before it is recorded. (What the
  handlers make of its errors is another matter, see below.)
4. `share_power_revoked`, `0001_initial.sql:7`. With `synchronous = NORMAL` a loss
   of power may undo a revocation that was answered, while its event, which is
   synced, stays. `shares.html:51`: "The vendor will no longer be able to
   download."
5. `install_login`, `web/lib.rs:222`. `init` stores the administrator's address as it
   was typed, `login_post` lowercases what is typed into the form, and `users.email`
   is compared to the letter: `--admin-email Tom@Example.com` seeds an account nobody
   can log in to, and `init` refuses to run again because the key exists.
6. `auth_revoked`, `web/auth.rs:124`. A token is looked up before the body of an
   upload is read and not again: a share is created with it after the event that
   revoked it. `tokens.html:44`: "The workstation will immediately lose access."
   What does hold is `RevokedIsRefused`: no request *begins* with it once the event
   is in the log.

Other things met while modelling, which no run is about:

* `logout_post` (`web/lib.rs:707-709`), `token_revoke` (547-553) and `share_revoke`
  (474-480) trace an error of the service and answer as on success. After a logout that
  failed the cookie is cleared and the login page comes, but the row of the session is
  still there and the cookie, if somebody kept it, is accepted until it expires; a token
  or share whose revocation failed shows in the list that follows as it is.
* `share_created.html:13` says "has been notified" whenever a mailer was configured
  (`web/lib.rs:687`), also when sending failed (`smtp.rs:104-107`; `service/lib.rs:307-313`
  only traces it). What does hold is `TellsWhatWasTried`: it is said only when sending was
  tried, or there was no address to try it with. The e-mail says that "your access code
  was sent to your phone", whether or not there is a phone.
* `service/lib.rs:299-300`: "the admin can re-deliver the link and code from the
  dashboard". They are stored nowhere in the clear and the dashboard does not have
  them (`shares.rs:36-37`); a sender whose browser leaves before the page comes has to
  revoke the share and make another.
* At the very millisecond of its expiry a share shows as active (`shares.rs:59`) and
  cannot be redeemed (`shares.rs:184`). `ClosedStaysClosed` shows that the list errs
  only in this direction.
* `shares.rs:269-270` speaks of a sweep in the service that cleans up blobs: there is
  none, and nothing calls `purge_expired`.
* Texts are cut for display at byte 197 (`web/lib.rs:420`), in the middle of a
  character if there is one: an event with such a file name makes the audit page
  panic for as long as it is listed.
* `urlencode` writes code points, not their UTF-8 bytes: right for ASCII, which is
  what `FilterComesBack` is about. A file name with a control character makes an
  invalid header, after the slot has been spent (`FilenameArrives` assumes a name that
  can stand in one).

---------------------------------------------------------------------------

## 5. The proofs

All theorems hold for every value of the constants, from the named assumptions of
the modules (kinds of requests are disjoint, numbers are numbers, `None` is
nothing else, the faults are among those listed, there are finitely many
redemptions). `TypeCorrect` is `Spec => []TypeOK`.

### DataInduction

What is proved about texts, about the file of the audit log and about the log is proved
for every length. The provers cannot instantiate an induction theorem that takes a
predicate, so `DataInduction` says of a *set* what such a theorem says of a predicate:
a set that holds the empty sequence and with each sequence every longer one by an
element holds all sequences (`SeqInduction`, from the least element of a set of
numbers, which the library's well-foundedness of `<` gives). On it rest:

* `FlattenSeq` and the fold of the community modules, which are recursive functions:
  they are what a run of steps ends in (`FlattenRun`, `FoldIsRun`), so that
  appending to a sequence appends to its concatenation (`FlattenAppend`,
  `FlattenConcat`) or takes one more step (`RunAppend`, `RunConcat`).
* `FlatMap`, a code word for each element: filters and encoders are such maps.
* the algebra of `\o`, `Append`, `SubSeq` and short tuples that proofs about texts keep
  needing, in lemmas whose hypotheses are opaque (`AreSeqs`, `ArePieces`), because
  the provers lose themselves in several concatenations at once.
* `GreatestAreLast`: of an increasing sequence of numbers the last ones are those that
  few come after.

### AuditLogProofs

* `TypeCorrect`. `TypeOK` alone is not inductive: `Sync` remembers the last piece
  of the last line, which has to be there. `Progress` adds what the end of the
  file looks like at each step of a write. `TypeInv == TypeOK /\ Progress`.
* `AcknowledgedIsKept`: `AckedKept` is inductive with `TypeInv`; every action
  changes the file only behind the last synced line (`PutEffect`), and `Sync` is
  the only one that adds to `acked`.
* `OnlyFailedWritesBreakTheChain`: `BreaksFollowFailedWrites` speaks of what a
  reader computes from the whole file. The invariant `ChainInv` speaks of
  neighbouring lines instead: the first piece of a line is chained to the first
  piece of the line before it, or to the hash of a write that failed
  (`LinesLinked`), and so will be the next one, whether `prev_hash` is in memory or
  will be read by the next `Open`.
* `NoFaultNoBreak`: with `Faults = {}` the file can be read and verified at every
  moment (`AlwaysVerifies`), by `FaultFreeInv`: no write has failed and each
  line is one whole event.
* `BreaksStay`: `BreakIsForGood`. A step keeps the synced lines as they are
  (`PutEffect`), so what a reader finds before and after it begins alike, and the
  *first* place at which the links do not hold is the same.
* `LogIsATrail`: `Spec => ImplementsAuditTrail`, under every fault. The mapping
  concatenates the lines and takes the whole events out of the text. `Put` appends one
  piece to that text, whether it begins a line or continues one (`PutText`), which is
  `Write` if the piece is an event and a stutter if it is not; `Sync` is
  `Confirm`; and a loss of power keeps the synced lines and a part of the rest, whose
  events are a beginning of the trail that has the safe ones (`CutInside`). The mapping
  is of the text and not of the lines because after a kill two events may share a
  line that the reader refuses.

### ShareServiceProofs

* `TypeCorrect`, with `PlaceOf`: each request is at a step of its own handler and
  has at hand what the step uses.
* `NeverAboveTheLimit`: `"power" \notin Faults => (Spec => []DownloadBudget)`.
  Downloads are counted when they are answered, slots when they are taken; the
  invariant counts everybody who holds a slot or has used it (`Spent`), which only
  `ConsumeSlot` enlarges, by one, together with `download_count` (`RowCounts`).
  All other steps are `Quiet`. Without the hypothesis the claim is false, for the
  reason of finding 4: a loss of power may take a counted slot back.

### ShareRecordProofs

* `AnswersAreOnRecord`: `AnsweredIsOnRecord`, under all faults. `RecordInv`: whoever
  awaits the confirmation has its event in the log, and whoever may answer has it in
  the part that is kept. All steps but `WriteEvent`, `Confirm` and `PowerLoss` leave
  the log alone and let nobody come to that point (`NoAnswer`).
* `AddressesStayUnique`: `OneVendorPerAddress`, under all faults; not only the table
  but every state that a loss of power may go back to has it (`AddressInv`).
* `RevocationsStay`: `RevokedForGood`, without losses of power (see finding 4).
  `RowsGoForward`: a row stays, its count only grows, its revocation is final.
* `SharesAreBacked`: `NothingDangles`, without losses of power, by `Backed`, which
  says of each step of `create_share` what is there already.

### ShareLogProofs

* `TheLogIsInOrder` and `WhatIsRecordedWasDone`: `LogInOrder` and `RecordedIsDone`,
  without losses of power. Both need that the store mutex is held from the change of
  a row to the confirmed event, which is proved first (`Alone`): so only one request
  at a time has something to tell the log, and nobody changes the row before it has
  told (`PlanOf`). `Known` says that a link is out only when the creation is on record,
  `Tale` relates the events about one share to its row. The log has a share created
  before it is redeemed, and neither created nor redeemed after it is revoked; it may
  have it revoked without having it created, when the event of its creation could not be
  written and the row stayed (finding 3).
* `ServiceKeepsItsPromise`: `"power" \notin Faults => (Spec => ImplementsSharePromise)`.
  Each step of a handler is one of the promise, or idles (`IdleStep`: at most some
  requests fail). The three steps with an effect rest on `TaleInv`: `Alone` for that nothing else awaits its record, `PlanOf` for that
  the share is on record and that the event says what was done. With losses of power
  it is false (finding 4).

### AuthProofs

* `TypeCorrect`, with `PlaceOf`: an entry about to be written names the request
  and whom it acts for.
* `EverythingIsTraceable`: `Traceable` by `TraceInv`. A credential is usable only
  once its event is in the log (`SessionsMade`, `TokensMade`, because clients learn
  it from the answer, which comes after `Confirm`); a request acts for whom its
  credential was made for (`ActorsMade`); and a request that has written its event
  never changes its credential again (`OwnEvents`).
* `RevokedStaysRefused`: `Spec => RevokedIsRefused`. `LogoutsEnd` and
  `WithdrawalsLast` say that the row of a session that was logged out stays
  deleted and that of a token stays revoked from the moment the event is about to
  be written, and so for every such event in the log, however the request that wrote
  it ended; only `Authenticate` lets a request through, and it looks at the row.
* `OneLogoutIsNamed`: `OneNamedLogout`. Two logouts that both found the session
  would both be in `LogoutsEnd`, and the first deleted it; each writes one event
  (`OneEventEach`).
* `NeverMeansNever`: `NeverSeenNeverUsed`. Whoever is past the extractor with a token
  is noted at it (`NotedOf`), and so is whoever an event names (`NotedEvents`), because
  requests keep their credential once they have written (`OwnEvents`).

### VaultProofs

* `TypeCorrect`, with `Running`: an operation runs only while the service is up, and
  the service is up with a key.
* `ReadsAreGenuine`: `ReadsWhatWasInserted`, by `Genuine`: wherever a ciphertext has
  got to, it holds what was inserted under the id that it was sealed for; and
  `Opens` checks that id.
* `OneKeyForAll` and `DoneIsReady`: `OneKey` and `DoneMeansReady`, by `Orderly`, which
  holds as long as no two inits overlapped: whoever is about to write the key is
  alone, no row exists yet, and the key in memory is the one in the file.
* `UndisturbedStayReadable`: `StaysReadable`, by `Fits`: the file of a row that nobody
  disturbed is the one its columns were made with.

### WebProofs

* `DoorsAgree`: `BothDoorsAgree`, by `FieldsAgree`: after any number of fields the two
  readings are the same but for the attestation, where the API asks for more.
* `PageTellsWhatWasTried`: `TellsWhatWasTried`, by `Told`: when the answer is made an
  e-mail has been tried if there is the SMTP sender and an address, and otherwise none has.
* `ClosedIsClosed`: `ClosedStaysClosed`. `ListInv`: the row of a list is never ahead of
  the share, and what a list has called closed is `Over`: revoked, expired or used
  up; none of which is ever undone.
* `WebTypes`: `WebTypeOK`, with `ListInv` for the shape of the fields.
* `FilterIsKept`, `NameIsKept`, `CsvIsRead`, `SessionIsKept`: `FilterComesBack`,
  `FilenameArrives`, `CsvReadsBack` and `CookieComesBack`. The invariant (`Texts`) is only
  that texts are texts; the work is in the lemmas on the functions, which hold for
  every text. Each writer is a map from characters to code words and each reader a
  machine that takes one character at a time, and the induction is over the text:
  after the code of what has been written so far the reader has read just that, and
  is where it was. `UrlRoundTrip`: whatever `UrlEncode` makes of an ASCII text
  `UrlDecode` takes back (`Unhex` undoes `Hex`, and no reserved character goes out
  unencoded). `NameArrives`: inside the quotes the browser meets neither a quote nor a
  backslash, because `SanitizeFilename` leaves none and cutting it short adds none.
  `TwoRowsAreRead`: a field in quotes brings the CSV reader from the quote to the quote
  (`Doubled` for the quotes within), a plain field has nothing that ends it, and the
  comma or the line feed behind either ends it; then the same over the fields of
  a row, of any number. `SessionIsFound`: splitting at semicolons gives the
  parts of what other applications have set and one more, which begins with a
  space that `Trim` takes away; it is the only part with the prefix.
* `NewestIsShown`: `ShowsTheNewest` for every log, filter and limit. `PickedAreMatching`,
  by induction over the log: the filter leaves the matching events, all of them and in
  order. So the last of them are those that fewer than the limit come after
  (`GreatestAreLast`), and turning them around twice changes nothing.

`CsvStep`, `UrlStep` and `QuotedStep` have guards that exclude each other. `CASE` with
overlapping guards leaves open which branch is taken, and TLC takes the first: a
quote inside a quoted field was such an overlap, and of a reader that may take either
branch the round trip could not be proved.

### Checked but not proved

Liveness (`EveryRequestEnds`) is out of the prover's reach. All other properties of the
passing runs are theorems: the invariants, the action properties and both refinements.
The theorems on the share service that assume that there is no loss of power say so
(finding 4); `share_faults` has none either. What the runs of section 4 violate is false
and stays with them.

---------------------------------------------------------------------------

## 6. Abstractions, and what is not modelled

* **SHA-256, AES, random numbers**: hashes and tokens never collide and cannot be
  guessed; what was sealed opens with the same key and associated data and with no
  other. `crypto/token.rs`, `hash.rs`, `rand.rs`, `kdf.rs` and `mac.rs` are thin calls
  of the CNG bindings and not modelled.
* **Access codes and links** are known to a redemption once they have left the
  service (`Released`); one that does not know them is the step that fails.
* **Clock**: `ShareService` has one that moves forward; in `Auth` a session expires
  at some moment, for good.
* **Start-up**: `ShareService` and `Auth` start again whenever they are restarted.
  That the audit log may refuse to open is `AuditLog`'s business, and shown there;
  that there may be no key is `Bootstrap`'s. The check of FIPS mode is a guard in front
  of it all that depends on the machine (and that debug builds leave out).
* **`last_seen_at` of sessions** is shown nowhere and not modelled; that of tokens is
  (`seen`).
* **Panics, hang-ups and losses of power in `Auth`**: left out. A client
  that hangs up does not stop the thread, it only misses the answer; a poisoned
  mutex refuses everything. Neither can violate a property of the module. Losses of power
  may undo a logout as they undo the revocation of a share (finding 4).
* **The audit mutex in `Auth`** is left out: whoever writes an event holds the store
  mutex, and the audit page only reads.
* **`AllActivityRecorded`** is an invariant only while nothing fails; it is
  kept for the run that shows where it does.
* **`Web` has one share and one upload**: its handlers keep no state between
  requests, so uploads do not influence each other but through the service.
  Validation messages, templates, the dashboard's counters and the cutting of texts
  for display are left out.
* **Text is code points.** UTF-8 matters to `urlencode` and to the cuts; see section 4.
* **Editing, truncating or rotating the audit file from outside** is not in the code
  and not modelled: `AuditLog` is about what the program does to the file.
* **Never called, and left out**: `shares::purge_expired`, `list_by_vendor`,
  `vendors::disable`, `list_active`, `users::rotate_password`,
  `sessions::revoke_all_for_user`, `sessions::purge_expired`.
  (`prints::delete` is not called either; `Vault` has it as one more thing that may happen
  to rows and files.)
* **CNG bindings** (`cng/lib.rs`): calls into a system library, without state of their
  own. **The sender agent** is a stub that prints a line. **SMS**: `twilio.rs` is empty
  and the null sender is always used.

---------------------------------------------------------------------------

## 7. The plan

Done: `AuditTrail`, `AuditLog` and `SharePromise` with their refinements, `ShareService`, `Auth`,
`Bootstrap`, `Vault`, `WebText`, `Web`, and the proofs of section 5. What is left:

1. `AuditLog` with rotation, truncation and edits from outside as steps of the
   environment: which of them `verify_chain` notices.
2. `ShareService` with `AuditLog` itself in the place of `AuditTrail`.
3. The operations nothing calls yet, once something does: the clean-up of expired
   shares and of their files races with redemptions.
