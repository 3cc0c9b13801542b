--------------------------------- MODULE Auth ---------------------------------
(***************************************************************************)
(* Who may do what: crates/service (login, logout, find_authenticated,     *)
(* mint_api_token, revoke_api_token, verify_api_token) over the users,     *)
(* sessions and api_tokens tables, and the extractors of web/src/auth.rs.  *)
(*                                                                         *)
(* The extractor of a request looks its credential up in one critical      *)
(* section of the store mutex; the handler acts in a later one, and does   *)
(* not look again.  In between it reads the body of the request, which     *)
(* may take as long as the client likes.                                   *)
(*                                                                         *)
(* A session carries the name of the login that made it, a token that of   *)
(* the request that minted it.  What is in a share is left to              *)
(* ShareService: here creating one is the event that says so.  Losses of   *)
(* power are left to ShareService and AuditLog as well.                    *)
(*                                                                         *)
(* A request ends "ok" if the service did what it asked for, and "failed"  *)
(* if the client is told of an error, or nothing at all.  Two handlers     *)
(* only trace an error of the service and answer as ever: such a request   *)
(* ends "warned", which its client cannot tell from "ok".                  *)
(***************************************************************************)
EXTENDS Naturals, Sequences, FiniteSets

CONSTANTS
  User,
  Login,        \* requests that log in, and the sessions they make
  Logout,       \* requests that log out
  Mint,         \* requests that create an API token, and the tokens
  Withdrawal,   \* requests that revoke a token
  Upload,       \* requests that create a share, from a browser or an agent
  Faults,       \* the kinds of fault that may strike
  None

Request == Login \cup Logout \cup Mint \cup Withdrawal \cup Upload
Credential == Login \cup Mint

ASSUME KindsAssumption ==
  /\ Login \cap (Logout \cup Mint \cup Withdrawal \cup Upload) = {}
  /\ Logout \cap (Mint \cup Withdrawal \cup Upload) = {}
  /\ Mint \cap (Withdrawal \cup Upload) = {} /\ Withdrawal \cap Upload = {}
ASSUME FaultsAssumption == Faults \subseteq {"io", "kill"}

VARIABLES
  up,          \* the service is running
  pc,          \* what each request does next; at the end "ok", "warned" or "failed"
  cred,        \* history: the credential a request came with
  actor,       \* the user a request acts for (CurrentUser, ApiCaller), or None
  entry,       \* the audit event a request is about to write
  storeLock,   \* holder of App.store's mutex, or None
  disabled,    \* users with disabled_at
  session,     \* rows of sessions: whose it is, or None for no row
  expired,     \* sessions whose expires_at has passed
  token,       \* rows of api_tokens, or None for no row
  seen,        \* tokens with last_seen_at
  trail, kept  \* the audit log, see AuditTrail

db == <<disabled, session, token, seen>>
log == <<trail, kept>>
vars == <<up, pc, cred, actor, entry, storeLock, db, expired, log>>

Token == [owner : User, revoked : BOOLEAN]
What == {"login", "login_denied", "logout", "token_created", "token_revoked", "share_created"}
Entry == [what : What, token : Mint \cup {None}, actor : User \cup {None}, by : Request]

ASSUME NoneAssumption == None \notin Request \cup User \cup Token \cup Entry

Trail == INSTANCE AuditTrail WITH Event <- Entry

-----------------------------------------------------------------------------
(* Steps that the handlers have in common.                                 *)

Goto(r, step) == pc' = [pc EXCEPT ![r] = step]

\* The request tells the audit log what it has done; the store mutex stays held.
ToAudit(r, what, t) ==
  /\ Goto(r, "audit")
  /\ entry' = [entry EXCEPT ![r] = [what |-> what, token |-> t, actor |-> actor'[r], by |-> r]]
  /\ storeLock' = r

\* The store mutex is free for a request that is at this step.
Enters(r, step) == up /\ pc[r] = step /\ storeLock = None

\* The closure is left with an error or an answer.
Leave(r, answer) ==
  /\ Goto(r, answer)
  /\ entry' = [entry EXCEPT ![r] = None]
  /\ storeLock' = IF storeLock = r THEN None ELSE storeLock

\* What becomes of a request when the service returns an error: logout_post and
\* token_revoke swallow it, unless it comes from the extractor.
Error(r) ==
  IF r \in Logout \/ (r \in Withdrawal /\ pc[r] # "wait") THEN "warned" ELSE "failed"

WriteEvent(r) ==
  /\ pc[r] = "audit"
  /\ Trail!Write(entry[r])
  /\ Goto(r, "confirm")
  /\ UNCHANGED <<up, cred, actor, entry, storeLock, db, expired>>

Confirm(r) ==
  /\ pc[r] = "confirm"
  /\ Trail!Confirm
  /\ Leave(r, IF entry[r].what = "login_denied" THEN "failed" ELSE "ok")
  /\ UNCHANGED <<up, cred, actor, db, expired>>

-----------------------------------------------------------------------------
(* Sessions: login and logout.                                             *)

SignIn(l) ==
  /\ l \in Login /\ Enters(l, "wait")
  /\ \E u \in User \ disabled :
       /\ session' = [session EXCEPT ![l] = u]
       /\ actor' = [actor EXCEPT ![l] = u]
  /\ UNCHANGED <<disabled, token, seen>>
  /\ ToAudit(l, "login", None)
  /\ UNCHANGED <<up, cred, expired, log>>

\* No such user, a disabled one or the wrong password.
SignInDenied(l) ==
  /\ l \in Login /\ Enters(l, "wait")
  /\ UNCHANGED actor
  /\ ToAudit(l, "login_denied", None)
  /\ UNCHANGED <<up, cred, db, expired, log>>

\* Clients know a credential from the answer to the request that made it.
Known == {c \in Credential : pc[c] = "ok"}

\* find_valid, which does not look at the user.
Live(s) == session[s] # None /\ s \notin expired

\* Mutant of SignOut: the row stays.
SignOutOnPaper(q) ==
  /\ q \in Logout /\ Enters(q, "wait")
  /\ \E s \in Login \cap Known :
       /\ cred' = [cred EXCEPT ![q] = s]
       /\ actor' = [actor EXCEPT ![q] = IF Live(s) THEN session[s] ELSE None]
  /\ ToAudit(q, "logout", None)
  /\ UNCHANGED <<up, db, expired, log>>

\* A logout needs no authentication: the session is looked up to name its user
\* in the event, and deleted, which succeeds whether or not it was there.
SignOut(q) ==
  /\ q \in Logout /\ Enters(q, "wait")
  /\ \E s \in Login \cap Known :
       /\ cred' = [cred EXCEPT ![q] = s]
       /\ actor' = [actor EXCEPT ![q] = IF Live(s) THEN session[s] ELSE None]
       /\ session' = [session EXCEPT ![s] = None]
  /\ UNCHANGED <<disabled, token, seen>>
  /\ ToAudit(q, "logout", None)
  /\ UNCHANGED <<up, expired, log>>

-----------------------------------------------------------------------------
(* The extractors CurrentUser and ApiCaller.                               *)

\* Browsers come with sessions; an agent, which only creates shares, with a token.
Accepted(r) == IF r \in Upload THEN Credential ELSE Login

\* Mutant of Found: find_valid_by_raw does not look at revoked_at.
FoundRevoked(c) == IF c \in Login THEN Live(c) ELSE token[c] # None

Found(c) == IF c \in Login THEN Live(c) ELSE token[c] # None /\ ~token[c].revoked
Owner(c) == IF c \in Login THEN session[c] ELSE token[c].owner

\* Mutant of Authenticate: last_seen_at is not updated.
AuthenticateUnseen(r) ==
  /\ r \in Mint \cup Withdrawal \cup Upload /\ Enters(r, "wait")
  /\ \E c \in Accepted(r) \cap Known :
       /\ Found(c) /\ Owner(c) \notin disabled
       /\ cred' = [cred EXCEPT ![r] = c]
       /\ actor' = [actor EXCEPT ![r] = Owner(c)]
  /\ Goto(r, "act")
  /\ UNCHANGED <<up, entry, storeLock, db, expired, log>>

\* find_authenticated and verify_api_token, with the mutex taken and given back.
Authenticate(r) ==
  /\ r \in Mint \cup Withdrawal \cup Upload /\ Enters(r, "wait")
  /\ \E c \in Accepted(r) \cap Known :
       /\ Found(c) /\ Owner(c) \notin disabled
       /\ cred' = [cred EXCEPT ![r] = c]
       /\ actor' = [actor EXCEPT ![r] = Owner(c)]
       /\ seen' = seen \cup ({c} \cap Mint)
  /\ UNCHANGED <<disabled, session, token>>
  /\ Goto(r, "act")
  /\ UNCHANGED <<up, entry, storeLock, expired, log>>

\* Redirect to /login or 401.  A token counts as seen before its owner is looked at.
Refuse(r) ==
  /\ r \in Mint \cup Withdrawal \cup Upload /\ Enters(r, "wait")
  /\ \E c \in Accepted(r) \cap Known :
       /\ Found(c) => Owner(c) \in disabled
       /\ cred' = [cred EXCEPT ![r] = c]
       /\ seen' = IF Found(c) THEN seen \cup ({c} \cap Mint) ELSE seen
  /\ UNCHANGED <<disabled, session, token>>
  /\ Goto(r, "failed")
  /\ UNCHANGED <<up, actor, entry, storeLock, expired, log>>

\* The lookup of the user fails after last_seen_at was updated.
OwnerLookupFails(r) ==
  /\ "io" \in Faults
  /\ r \in Mint \cup Withdrawal \cup Upload /\ Enters(r, "wait")
  /\ \E c \in Accepted(r) \cap Known :
       /\ Found(c)
       /\ cred' = [cred EXCEPT ![r] = c]
       /\ seen' = seen \cup ({c} \cap Mint)
  /\ UNCHANGED <<disabled, session, token>>
  /\ Goto(r, "failed")
  /\ UNCHANGED <<up, actor, entry, storeLock, expired, log>>

-----------------------------------------------------------------------------
(* What an authenticated request does.                                     *)

\* Mutant of MintToken: the owner is taken from the session once more.
MintFromSession(m) ==
  /\ m \in Mint /\ Enters(m, "act")
  /\ token' = [token EXCEPT ![m] = [owner |-> session[cred[m]], revoked |-> FALSE]]
  /\ UNCHANGED <<disabled, session, seen, actor>>
  /\ ToAudit(m, "token_created", m)
  /\ UNCHANGED <<up, cred, expired, log>>

MintToken(m) ==
  /\ m \in Mint /\ Enters(m, "act")
  /\ token' = [token EXCEPT ![m] = [owner |-> actor[m], revoked |-> FALSE]]
  /\ UNCHANGED <<disabled, session, seen, actor>>
  /\ ToAudit(m, "token_created", m)
  /\ UNCHANGED <<up, cred, expired, log>>

\* Whoever is logged in may revoke any token.
RevokeToken(w) ==
  /\ w \in Withdrawal /\ Enters(w, "act")
  /\ \E t \in Mint :
       /\ token[t] # None /\ ~token[t].revoked
       /\ token' = [token EXCEPT ![t].revoked = TRUE]
       /\ UNCHANGED <<disabled, session, seen, actor>>
       /\ ToAudit(w, "token_revoked", t)
  /\ UNCHANGED <<up, cred, expired, log>>

\* There is no such token, or it is revoked already: NotFound, and no event.
NothingToRevoke(w) ==
  /\ w \in Withdrawal /\ Enters(w, "act")
  /\ \E t \in Mint : token[t] # None => token[t].revoked
  /\ Leave(w, Error(w))
  /\ UNCHANGED <<up, cred, actor, db, expired, log>>

CreateShare(r) ==
  /\ r \in Upload /\ Enters(r, "act")
  /\ UNCHANGED actor
  /\ ToAudit(r, "share_created", None)
  /\ UNCHANGED <<up, cred, db, expired, log>>

-----------------------------------------------------------------------------
(* What happens to users and sessions meanwhile.                           *)

\* users::disable and enable, which no route calls: they are there for a tool.
Disable(u) ==
  /\ up /\ storeLock = None
  /\ disabled' = disabled \cup {u}
  /\ UNCHANGED <<session, token, seen>>
  /\ UNCHANGED <<up, pc, cred, actor, entry, storeLock, expired, log>>

Enable(u) ==
  /\ up /\ storeLock = None
  /\ disabled' = disabled \ {u}
  /\ UNCHANGED <<session, token, seen>>
  /\ UNCHANGED <<up, pc, cred, actor, entry, storeLock, expired, log>>

Expire(s) ==
  /\ session[s] # None
  /\ expired' = expired \cup {s}
  /\ UNCHANGED <<up, pc, cred, actor, entry, storeLock, db, log>>

\* Mutant of Fails: a login is answered although its event could not be written.
FailsUnnoticed(r) ==
  /\ "io" \in Faults
  /\ pc[r] \in {"wait", "act", "audit", "confirm"} /\ up
  /\ pc[r] \in {"wait", "act"} => storeLock = None
  /\ Leave(r, IF pc[r] = "audit" THEN "ok" ELSE Error(r))
  /\ UNCHANGED <<up, cred, actor, db, expired, log>>

\* A statement or the audit log returns an error: what was committed stays.
Fails(r) ==
  /\ "io" \in Faults
  /\ pc[r] \in {"wait", "act", "audit", "confirm"} /\ up
  /\ pc[r] \in {"wait", "act"} => storeLock = None
  /\ Leave(r, Error(r))
  /\ UNCHANGED <<up, cred, actor, db, expired, log>>

InHand(r) == pc[r] \in {"act", "audit", "confirm"}

Down ==
  /\ up' = FALSE
  /\ pc' = [r \in Request |-> IF InHand(r) THEN "failed" ELSE pc[r]]
  /\ entry' = [r \in Request |-> None]
  /\ storeLock' = None
  /\ UNCHANGED <<cred, actor, expired>>

Kill ==
  /\ "kill" \in Faults
  /\ up
  /\ Down
  /\ UNCHANGED <<db, log>>

Restart ==
  /\ ~up
  /\ up' = TRUE
  /\ UNCHANGED <<pc, cred, actor, entry, storeLock, db, expired, log>>

-----------------------------------------------------------------------------
Init ==
  /\ up = TRUE
  /\ pc = [r \in Request |-> "wait"]
  /\ cred = [r \in Request |-> None]
  /\ actor = [r \in Request |-> None]
  /\ entry = [r \in Request |-> None]
  /\ storeLock = None
  /\ disabled = {}
  /\ session = [l \in Login |-> None]
  /\ expired = {}
  /\ token = [m \in Mint |-> None]
  /\ seen = {}
  /\ Trail!Init

Step(r) ==
  \/ SignIn(r) \/ SignInDenied(r) \/ SignOut(r)
  \/ Authenticate(r) \/ Refuse(r) \/ OwnerLookupFails(r)
  \/ MintToken(r) \/ RevokeToken(r) \/ NothingToRevoke(r) \/ CreateShare(r)
  \/ WriteEvent(r) \/ Confirm(r)
  \/ Fails(r)

AllAnswered == up /\ (\A r \in Request : pc[r] \in {"ok", "warned", "failed"}) /\ UNCHANGED vars

Next ==
  \/ \E r \in Request : Step(r)
  \/ \E u \in User : Disable(u) \/ Enable(u)
  \/ \E s \in Login : Expire(s)
  \/ Kill \/ Restart
  \/ AllAnswered

Spec == Init /\ [][Next]_vars

-----------------------------------------------------------------------------
Steps == {"wait", "act", "audit", "confirm", "ok", "warned", "failed"}

TypeOK ==
  /\ up \in BOOLEAN
  /\ pc \in [Request -> Steps]
  /\ cred \in [Request -> Credential \cup {None}]
  /\ actor \in [Request -> User \cup {None}]
  /\ entry \in [Request -> Entry \cup {None}]
  /\ storeLock \in Request \cup {None}
  /\ disabled \in SUBSET User
  /\ session \in [Login -> User \cup {None}]
  /\ token \in [Mint -> Token \cup {None}]
  /\ seen \in SUBSET Mint
  /\ expired \in SUBSET Login
  /\ trail \in Seq(Entry)
  /\ kept \in 0..Len(trail)

\* Whatever the log says was done for a user goes back to that user's login: the
\* event that made the credential stands further up and names the same user.
\* A session or token that somebody can use is never missing from the log.
Traceable ==
  \A j \in 1..Len(trail) :
    trail[j].what \in {"logout", "token_created", "token_revoked", "share_created"}
      /\ trail[j].actor # None =>
    \E i \in 1..(j - 1) :
      /\ trail[i].by = cred[trail[j].by]
      /\ trail[i].what \in {"login", "token_created"}
      /\ trail[i].actor = trail[j].actor

\* A logout event that names a user is the one that ended the session: however
\* logouts, failures and restarts mix, there is at most one for a session.
OneNamedLogout ==
  \A i, j \in 1..Len(trail) :
    /\ trail[i].what = "logout" /\ trail[i].actor # None
    /\ trail[j].what = "logout" /\ trail[j].actor # None
    /\ cred[trail[i].by] = cred[trail[j].by]
    => i = j

\* The log says that the credential was given up or withdrawn.
Revoked(c) ==
  \E i \in 1..Len(trail) :
    \/ trail[i].what = "token_revoked" /\ trail[i].token = c
    \/ trail[i].what = "logout" /\ cred[trail[i].by] = c

\* Once the log has the logout from a session or the revocation of a token no request
\* gets past its extractor with it, not after a restart either, and whatever became of
\* the request that wrote the event.  (The answers promise less: logout_post and
\* token_revoke give the same one after an error, when the row may be as before.)
RevokedIsRefused ==
  [][ \A r \in Request :
        (pc[r] = "wait" /\ pc'[r] = "act") => ~Revoked(cred'[r]) ]_vars

\* The tokens page says "never" only of tokens with which nothing was ever done.
NeverSeenNeverUsed ==
  \A t \in Mint \ seen : \A i \in 1..Len(trail) :
    trail[i].what = "share_created" => cred[trail[i].by] # t

\* web/templates/tokens.html:44: "Revoke this token? The workstation will
\* immediately lose access."  In the log nothing is done with a token after the
\* event that revoked it.
RevokedTokenCreatesNothing ==
  \A i, j \in 1..Len(trail) :
    (/\ trail[i].what = "token_revoked" /\ trail[j].what = "share_created"
     /\ cred[trail[j].by] = trail[i].token)
    => j < i
=============================================================================
