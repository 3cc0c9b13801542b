------------------------------ MODULE AuthProofs ------------------------------
(***************************************************************************)
(* Proofs about Auth, for every set of users, of requests and of faults.   *)
(***************************************************************************)
EXTENDS Auth, TLAPS

\* What the events are of that only a request with a credential writes.
Followup == {"logout", "token_created", "token_revoked", "share_created"}

Writing == {"audit", "confirm"}
Ended == {"ok", "warned", "failed"}
Recorded == {"confirm"} \cup Ended

\* Each request has at hand what its next step uses.
PlaceOf(r) ==
  /\ pc[r] = "wait" => actor[r] = None
  /\ pc[r] = "act" => actor[r] # None /\ cred[r] # None
  /\ pc[r] \in Writing => entry[r] # None /\ entry[r].by = r /\ entry[r].actor = actor[r]

TypeInv == TypeOK /\ \A r \in Request : PlaceOf(r)

\* The log shows how a credential came to be, and for whom.
Made(events, c, u) ==
  \E i \in 1..Len(events) :
    /\ events[i].by = c
    /\ events[i].what \in {"login", "token_created"}
    /\ events[i].actor = u

\* Sessions and tokens that are about to be recorded, or that somebody knows of.
SessionsMade ==
  \A l \in Login : session[l] # None =>
    /\ pc[l] \notin {"wait", "act"}
    /\ pc[l] = "audit" => entry[l].what = "login" /\ entry[l].actor = session[l]
    /\ pc[l] \in {"confirm", "ok"} => Made(trail, l, session[l])

TokensMade ==
  \A m \in Mint : token[m] # None =>
    /\ pc[m] \notin {"wait", "act"}
    /\ pc[m] = "audit" => entry[m].what = "token_created" /\ entry[m].actor = token[m].owner
    /\ pc[m] \in {"confirm", "ok"} => Made(trail, m, token[m].owner)

\* Whom a request acts for is whom its credential was made for.
ActorsMade ==
  \A r \in Request \ Login : actor[r] # None => Made(trail, cred[r], actor[r])

\* Requests write what is theirs to write ...
OwnEntry(r) ==
  pc[r] \in Writing =>
    /\ entry[r].what \in Followup => r \notin Login
    /\ entry[r].what = "logout" => r \in Logout

\* ... and have nothing more to write after that.
OwnEvents ==
  \A j \in 1..Len(trail) :
    /\ trail[j].by \in Request
    /\ pc[trail[j].by] \in Recorded
    /\ trail[j].actor = actor[trail[j].by]
    /\ trail[j].what = "logout" => trail[j].by \in Logout

OneEventEach ==
  \A i, j \in 1..Len(trail) : trail[i].by = trail[j].by => i = j

TraceInv ==
  /\ SessionsMade /\ TokensMade /\ ActorsMade
  /\ \A r \in Request : OwnEntry(r)
  /\ OwnEvents /\ OneEventEach
  /\ Traceable

\* The session that a logout found is gone for good, and no other logout found it.
LogoutsEnd ==
  /\ \A q \in Logout :
       /\ cred[q] # None =>
            cred[q] \in Login /\ session[cred[q]] = None /\ pc[cred[q]] = "ok"
       /\ pc[q] \in Writing \/ actor[q] # None => cred[q] # None
  /\ \A i \in 1..Len(trail) : trail[i].what = "logout" => cred[trail[i].by] # None
  /\ \A p, q \in Logout : actor[p] # None /\ actor[q] # None /\ cred[p] = cred[q] => p = q

Withdrawn(t) == t \in Mint /\ token[t] # None /\ token[t].revoked

WithdrawalsLast ==
  /\ \A r \in Request :
       pc[r] \in Writing /\ entry[r].what = "token_revoked" => Withdrawn(entry[r].token)
  /\ \A i \in 1..Len(trail) :
       trail[i].what = "token_revoked" => Withdrawn(trail[i].token)

AuthInv == TypeInv /\ TraceInv /\ LogoutsEnd /\ WithdrawalsLast

-----------------------------------------------------------------------------
(* Types.                                                                  *)

LEMMA InitType == Init => TypeInv
<1> SUFFICES ASSUME Init
             PROVE  TypeInv
  OBVIOUS
<1>1. TypeOK
  BY DEF Init, TypeOK, Steps, Trail!Init
<1>2. \A r \in Request : PlaceOf(r)
  BY DEF Init, PlaceOf, Writing
<1> QED
  BY <1>1, <1>2 DEF TypeInv

LEMMA ToAuditType ==
  ASSUME TypeInv, NEW r \in Request, NEW what \in What, NEW t \in Mint \cup {None},
         actor' \in [Request -> User \cup {None}],
         ToAudit(r, what, t)
  PROVE  /\ pc' \in [Request -> Steps]
         /\ entry' \in [Request -> Entry \cup {None}]
         /\ storeLock' \in Request \cup {None}
         /\ pc' = [pc EXCEPT ![r] = "audit"]
         /\ entry'[r] = [what |-> what, token |-> t, actor |-> actor'[r], by |-> r]
         /\ entry'[r] # None
         /\ \A q \in Request : q # r => entry'[q] = entry[q]
<1>1. [what |-> what, token |-> t, actor |-> actor'[r], by |-> r] \in Entry
  BY DEF Entry
<1> QED
  BY <1>1, NoneAssumption DEF ToAudit, Goto, TypeInv, TypeOK, Steps

LEMMA ToAuditPlace ==
  ASSUME TypeInv, NEW r \in Request, NEW what \in What, NEW t \in Mint \cup {None},
         actor' \in [Request -> User \cup {None}],
         ToAudit(r, what, t),
         \A q \in Request : q # r => actor'[q] = actor[q] /\ cred'[q] = cred[q]
  PROVE  \A q \in Request : PlaceOf(q)'
<1> SUFFICES ASSUME NEW q \in Request
             PROVE  PlaceOf(q)'
  OBVIOUS
<1> DEFINE e == [what |-> what, token |-> t, actor |-> actor'[r], by |-> r]
<1>1. /\ pc' = [pc EXCEPT ![r] = "audit"]
      /\ entry'[r] = e /\ entry'[r] # None
      /\ q # r => entry'[q] = entry[q]
  BY ToAuditType
<1>2. CASE q = r
  <2>1. pc'[q] = "audit"
    BY <1>1, <1>2 DEF TypeInv, TypeOK
  <2>2. e.by = r /\ e.actor = actor'[r]
    OBVIOUS
  <2> QED
    BY <1>1, <1>2, <2>1, <2>2 DEF PlaceOf
<1>3. CASE q # r
  BY <1>1, <1>3 DEF TypeInv, TypeOK, PlaceOf
<1> QED
  BY <1>2, <1>3

LEMMA LeaveType ==
  ASSUME TypeInv, NEW r \in Request, NEW answer \in Ended,
         Leave(r, answer), UNCHANGED <<up, cred, actor, db, expired>>,
         trail' = trail, kept' \in 0..Len(trail)
  PROVE  TypeInv'
<1>1. TypeOK'
  BY DEF TypeInv, TypeOK, Leave, Goto, Steps, db, Ended, Recorded
<1>2. \A q \in Request : PlaceOf(q)'
  BY DEF TypeInv, TypeOK, PlaceOf, Writing, Leave, Goto, Ended, Recorded
<1> QED
  BY <1>1, <1>2 DEF TypeInv

LEMMA SignInType ==
  ASSUME TypeInv, NEW l \in Request, SignIn(l)
  PROVE  TypeInv'
<1>1. PICK u \in User : /\ session' = [session EXCEPT ![l] = u]
                        /\ actor' = [actor EXCEPT ![l] = u]
  BY DEF SignIn
<1>2. /\ actor' \in [Request -> User \cup {None}]
      /\ session' \in [Login -> User \cup {None}]
  BY <1>1 DEF TypeInv, TypeOK
<1>3. ToAudit(l, "login", None) /\ "login" \in What
  BY DEF SignIn, What
<1>4. TypeOK'
  BY <1>2, <1>3, ToAuditType DEF SignIn, TypeInv, TypeOK, log
<1>5. \A q \in Request : PlaceOf(q)'
  BY <1>1, <1>2, <1>3, ToAuditPlace DEF TypeInv, TypeOK, SignIn
<1> QED
  BY <1>4, <1>5 DEF TypeInv

LEMMA SignInDeniedType ==
  ASSUME TypeInv, NEW l \in Request, SignInDenied(l)
  PROVE  TypeInv'
<1>1. actor' = actor /\ actor' \in [Request -> User \cup {None}]
  BY DEF SignInDenied, TypeInv, TypeOK
<1>2. ToAudit(l, "login_denied", None) /\ "login_denied" \in What
  BY DEF SignInDenied, What
<1>3. TypeOK'
  BY <1>1, <1>2, ToAuditType DEF SignInDenied, TypeInv, TypeOK, db, log
<1>4. \A q \in Request : PlaceOf(q)'
  BY <1>1, <1>2, ToAuditPlace DEF TypeInv, TypeOK, SignInDenied
<1> QED
  BY <1>3, <1>4 DEF TypeInv

LEMMA SignOutType ==
  ASSUME TypeInv, NEW q \in Request, SignOut(q)
  PROVE  TypeInv'
<1>1. PICK s \in Login \cap Known :
        /\ cred' = [cred EXCEPT ![q] = s]
        /\ actor' = [actor EXCEPT ![q] = IF Live(s) THEN session[s] ELSE None]
        /\ session' = [session EXCEPT ![s] = None]
  BY DEF SignOut
<1>2. /\ cred' \in [Request -> Credential \cup {None}]
      /\ actor' \in [Request -> User \cup {None}]
      /\ session' \in [Login -> User \cup {None}]
  BY <1>1 DEF TypeInv, TypeOK, Credential
<1>3. ToAudit(q, "logout", None) /\ "logout" \in What
  BY DEF SignOut, What
<1>4. TypeOK'
  BY <1>2, <1>3, ToAuditType DEF SignOut, TypeInv, TypeOK, log
<1>5. \A r \in Request : PlaceOf(r)'
  BY <1>1, <1>2, <1>3, ToAuditPlace DEF TypeInv, TypeOK, SignOut
<1> QED
  BY <1>4, <1>5 DEF TypeInv

LEMMA OwnerType ==
  ASSUME TypeInv, NEW c \in Credential, Found(c)
  PROVE  Owner(c) \in User
<1>1. CASE c \in Login
  BY <1>1, KindsAssumption DEF TypeInv, TypeOK, Found, Live, Owner
<1>2. CASE c \notin Login
  <2>1. c \in Mint /\ token[c] \in Token
    BY <1>2 DEF TypeInv, TypeOK, Found, Credential
  <2> QED
    BY <1>2, <2>1 DEF Owner, Token
<1> QED
  BY <1>1, <1>2

LEMMA AcceptedType == \A r \in Request : Accepted(r) \subseteq Credential
BY DEF Accepted, Credential

LEMMA AuthenticateType ==
  ASSUME TypeInv, NEW r \in Request, Authenticate(r)
  PROVE  TypeInv'
<1>1. PICK c \in Accepted(r) \cap Known :
        /\ Found(c)
        /\ cred' = [cred EXCEPT ![r] = c]
        /\ actor' = [actor EXCEPT ![r] = Owner(c)]
        /\ seen' = seen \cup ({c} \cap Mint)
  BY DEF Authenticate
<1>2. c \in Credential /\ Owner(c) \in User
  BY <1>1, AcceptedType, OwnerType
<1>3. c # None /\ Owner(c) # None
  BY <1>2, NoneAssumption DEF Credential, Request
<1>4. TypeOK'
  BY <1>1, <1>2 DEF Authenticate, Goto, Steps, TypeInv, TypeOK, log
<1>5. \A q \in Request : PlaceOf(q)'
  BY <1>1, <1>3 DEF TypeInv, TypeOK, PlaceOf, Writing, Authenticate, Goto
<1> QED
  BY <1>4, <1>5 DEF TypeInv

\* Refuse and OwnerLookupFails.
LEMMA TurnedAwayType ==
  ASSUME TypeInv, NEW r \in Request, Refuse(r) \/ OwnerLookupFails(r)
  PROVE  TypeInv'
<1>1. PICK c \in Accepted(r) \cap Known :
        /\ cred' = [cred EXCEPT ![r] = c]
        /\ seen' \in {seen, seen \cup ({c} \cap Mint)}
  BY DEF Refuse, OwnerLookupFails
<1>2. c \in Credential
  BY <1>1, AcceptedType
<1>3. TypeOK'
  BY <1>1, <1>2 DEF Refuse, OwnerLookupFails, Goto, Steps, TypeInv, TypeOK, log
<1>4. \A q \in Request : PlaceOf(q)'
  BY DEF TypeInv, TypeOK, PlaceOf, Writing, Refuse, OwnerLookupFails, Goto
<1> QED
  BY <1>3, <1>4 DEF TypeInv

LEMMA MintTokenType ==
  ASSUME TypeInv, NEW m \in Request, MintToken(m)
  PROVE  TypeInv'
<1>1. m \in Mint /\ actor[m] \in User
  BY DEF MintToken, Enters, TypeInv, TypeOK, PlaceOf
<1>2. [owner |-> actor[m], revoked |-> FALSE] \in Token
  BY <1>1 DEF Token
<1>3. token' \in [Mint -> Token \cup {None}]
  BY <1>1, <1>2 DEF MintToken, TypeInv, TypeOK
<1>4. actor' = actor /\ actor' \in [Request -> User \cup {None}]
  BY DEF MintToken, TypeInv, TypeOK
<1>5. ToAudit(m, "token_created", m) /\ "token_created" \in What
  BY DEF MintToken, What
<1>6. TypeOK'
  BY <1>1, <1>3, <1>4, <1>5, ToAuditType DEF MintToken, TypeInv, TypeOK, log
<1>7. \A q \in Request : PlaceOf(q)'
  BY <1>1, <1>4, <1>5, ToAuditPlace DEF TypeInv, TypeOK, MintToken
<1> QED
  BY <1>6, <1>7 DEF TypeInv

LEMMA RevokeTokenType ==
  ASSUME TypeInv, NEW w \in Request, RevokeToken(w)
  PROVE  TypeInv'
<1>1. PICK t \in Mint : /\ token[t] # None
                        /\ token' = [token EXCEPT ![t].revoked = TRUE]
                        /\ ToAudit(w, "token_revoked", t)
  BY DEF RevokeToken
<1>2. token' \in [Mint -> Token \cup {None}]
  BY <1>1 DEF TypeInv, TypeOK, Token
<1>3. actor' = actor /\ actor' \in [Request -> User \cup {None}]
  BY DEF RevokeToken, TypeInv, TypeOK
<1>4. "token_revoked" \in What
  BY DEF What
<1>5. TypeOK'
  BY <1>1, <1>2, <1>3, <1>4, ToAuditType DEF RevokeToken, TypeInv, TypeOK, log
<1>6. \A q \in Request : PlaceOf(q)'
  BY <1>1, <1>3, <1>4, ToAuditPlace DEF TypeInv, TypeOK, RevokeToken
<1> QED
  BY <1>5, <1>6 DEF TypeInv

LEMMA CreateShareType ==
  ASSUME TypeInv, NEW r \in Request, CreateShare(r)
  PROVE  TypeInv'
<1>1. actor' = actor /\ actor' \in [Request -> User \cup {None}]
  BY DEF CreateShare, TypeInv, TypeOK
<1>2. ToAudit(r, "share_created", None) /\ "share_created" \in What
  BY DEF CreateShare, What
<1>3. TypeOK'
  BY <1>1, <1>2, ToAuditType DEF CreateShare, TypeInv, TypeOK, db, log
<1>4. \A q \in Request : PlaceOf(q)'
  BY <1>1, <1>2, ToAuditPlace DEF TypeInv, TypeOK, CreateShare
<1> QED
  BY <1>3, <1>4 DEF TypeInv

LEMMA WriteEventType ==
  ASSUME TypeInv, NEW r \in Request, WriteEvent(r)
  PROVE  TypeInv'
<1>1. entry[r] \in Entry
  BY DEF WriteEvent, TypeInv, TypeOK, PlaceOf, Writing
<1>2. trail' = Append(trail, entry[r]) /\ kept' = kept
  BY DEF WriteEvent, Trail!Write
<1>3. trail' \in Seq(Entry) /\ kept' \in 0..Len(trail')
  BY <1>1, <1>2 DEF TypeInv, TypeOK
<1>4. TypeOK'
  BY <1>3 DEF WriteEvent, Goto, Steps, TypeInv, TypeOK, db
<1>5. \A q \in Request : PlaceOf(q)'
  BY DEF TypeInv, TypeOK, PlaceOf, Writing, WriteEvent, Goto
<1> QED
  BY <1>4, <1>5 DEF TypeInv

LEMMA OtherStepsType ==
  ASSUME TypeInv,
         \/ \E u \in User : Disable(u) \/ Enable(u)
         \/ \E s \in Login : Expire(s)
         \/ Kill \/ Restart \/ UNCHANGED vars
  PROVE  TypeInv'
<1>1. TypeOK'
  BY DEF TypeInv, TypeOK, Disable, Enable, Expire, Kill, Down, Restart, InHand, Steps,
         vars, db, log
<1>2. \A q \in Request : PlaceOf(q)'
  BY DEF TypeInv, TypeOK, PlaceOf, Writing, Disable, Enable, Expire, Kill, Down, Restart,
         InHand, vars, db, log
<1> QED
  BY <1>1, <1>2 DEF TypeInv

LEMMA ConfirmType ==
  ASSUME TypeInv, NEW r \in Request, Confirm(r)
  PROVE  TypeInv'
<1>1. PICK answer \in Ended : Leave(r, answer)
  BY DEF Confirm, Ended
<1>2. trail' = trail /\ kept' \in 0..Len(trail)
  BY DEF Confirm, Trail!Confirm, TypeInv, TypeOK
<1> QED
  BY <1>1, <1>2, LeaveType DEF Confirm

LEMMA GivenUpType ==
  ASSUME TypeInv, NEW r \in Request, Fails(r) \/ NothingToRevoke(r)
  PROVE  TypeInv'
<1>1. /\ Leave(r, Error(r)) /\ Error(r) \in Ended
      /\ UNCHANGED <<up, cred, actor, db, expired>>
      /\ trail' = trail /\ kept' \in 0..Len(trail)
  BY DEF Fails, NothingToRevoke, Error, Ended, log, TypeInv, TypeOK
<1> QED
  BY <1>1, LeaveType

LEMMA StepType ==
  ASSUME TypeInv, NEW r \in Request, Step(r)
  PROVE  TypeInv'
BY SignInType, SignInDeniedType, SignOutType, AuthenticateType, TurnedAwayType,
   MintTokenType, RevokeTokenType, CreateShareType, WriteEventType, ConfirmType,
   GivenUpType
   DEF Step

LEMMA NextType == TypeInv /\ [Next]_vars => TypeInv'
BY StepType, OtherStepsType DEF Next, AllAnswered

\* However requests interleave and fail, the variables keep their types, and an
\* event is written in the name of whoever was authenticated.
THEOREM TypeInvHolds == Spec => []TypeInv
BY InitType, NextType, PTL DEF Spec

\* The variables of login, logout, the extractors and the tokens have their types.
THEOREM TypeCorrect == Spec => []TypeOK
<1>1. TypeInv => TypeOK
  BY DEF TypeInv
<1> QED
  BY <1>1, TypeInvHolds, PTL

-----------------------------------------------------------------------------
(* Traces.                                                                 *)

\* The steps that write no event, and leave alone who has written one.
EventsStay ==
  /\ trail' = trail
  /\ \A q \in Request : pc[q] \in Recorded =>
       /\ pc'[q] \in Recorded
       /\ cred'[q] = cred[q] /\ actor'[q] = actor[q]

LEMMA EventsStayTraced ==
  ASSUME TypeInv, TraceInv, EventsStay
  PROVE  OwnEvents' /\ OneEventEach' /\ Traceable'
<1>1. \A j \in 1..Len(trail) :
        /\ trail[j].by \in Request
        /\ pc[trail[j].by] \in Recorded
        /\ pc'[trail[j].by] \in Recorded
        /\ cred'[trail[j].by] = cred[trail[j].by]
        /\ actor'[trail[j].by] = actor[trail[j].by]
  BY DEF TraceInv, OwnEvents, EventsStay
<1>2. OwnEvents' /\ OneEventEach'
  BY <1>1 DEF TraceInv, OwnEvents, OneEventEach, EventsStay
<1>3. Traceable'
  BY <1>1 DEF TraceInv, Traceable, EventsStay
<1> QED
  BY <1>2, <1>3

\* The steps that only end requests.
EndsOnly ==
  /\ trail' = trail /\ session' = session /\ token' = token /\ actor' = actor
  /\ \A q \in Request :
       /\ pc'[q] \notin {"warned", "failed"} =>
            pc'[q] = pc[q] /\ (pc[q] \in Writing => entry'[q] = entry[q])
       /\ pc[q] # "wait" \/ q \in Logout => cred'[q] = cred[q]
       /\ pc[q] \in Ended => pc'[q] = pc[q]

LEMMA EndsOnlyTraced ==
  ASSUME TypeInv, TraceInv, EndsOnly
  PROVE  TraceInv'
<1>1. EventsStay
  BY DEF EventsStay, EndsOnly, Ended, Recorded
<1>2. SessionsMade'
  BY DEF TraceInv, SessionsMade, EndsOnly, Request, Writing
<1>3. TokensMade'
  BY DEF TraceInv, TokensMade, EndsOnly, Request, Writing
<1>4. ActorsMade'
  BY NoneAssumption DEF TraceInv, ActorsMade, EndsOnly, TypeInv, PlaceOf
<1>5. \A r \in Request : OwnEntry(r)'
  BY DEF TraceInv, OwnEntry, EndsOnly, Writing
<1> QED
  BY <1>1, <1>2, <1>3, <1>4, <1>5, EventsStayTraced DEF TraceInv

\* Which steps those are.
LEMMA EndingSteps ==
  ASSUME TypeInv,
         \/ \E r \in Request : Fails(r) \/ NothingToRevoke(r) \/ Refuse(r) \/ OwnerLookupFails(r)
         \/ \E u \in User : Disable(u) \/ Enable(u)
         \/ \E s \in Login : Expire(s)
         \/ Kill \/ Restart \/ UNCHANGED vars
  PROVE  EndsOnly
<1>1. CASE \E r \in Request : Fails(r) \/ NothingToRevoke(r)
  BY <1>1 DEF EndsOnly, Writing, Fails, NothingToRevoke, Leave, Goto, Enters, TypeInv, TypeOK, db, log, Ended, Recorded, Error
<1>2. CASE \E r \in Request : Refuse(r) \/ OwnerLookupFails(r)
  BY <1>2, KindsAssumption DEF EndsOnly, Writing, Refuse, OwnerLookupFails, Goto, Enters, TypeInv, TypeOK, log, Ended, Recorded
<1>3. CASE (\E u \in User : Disable(u) \/ Enable(u)) \/ (\E s \in Login : Expire(s))
           \/ Restart \/ UNCHANGED vars
  BY <1>3 DEF EndsOnly, Disable, Enable, Expire, Restart, vars, db, log, TypeInv, TypeOK
<1>4. CASE Kill
  BY <1>4 DEF EndsOnly, Writing, Kill, Down, InHand, TypeInv, TypeOK, Steps, db, log, Ended, Recorded
<1> QED
  BY <1>1, <1>2, <1>3, <1>4

LEMMA InitTraced == Init => TraceInv
<1> SUFFICES ASSUME Init
             PROVE  TraceInv
  OBVIOUS
<1>1. /\ trail = <<>> /\ \A r \in Request : pc[r] = "wait" /\ actor[r] = None
      /\ session = [l \in Login |-> None] /\ token = [m \in Mint |-> None]
  BY DEF Init, Trail!Init
<1>2. SessionsMade /\ TokensMade /\ ActorsMade
  BY <1>1 DEF SessionsMade, TokensMade, ActorsMade
<1>3. \A r \in Request : OwnEntry(r)
  BY <1>1 DEF OwnEntry, Writing
<1>4. OwnEvents /\ OneEventEach /\ Traceable
  BY <1>1 DEF OwnEvents, OneEventEach, Traceable
<1> QED
  BY <1>2, <1>3, <1>4 DEF TraceInv

\* The entries of the other requests, and where they are, stay the same.
OthersStay(r) ==
  \A q \in Request : q # r =>
    pc'[q] = pc[q] /\ entry'[q] = entry[q] /\ cred'[q] = cred[q] /\ actor'[q] = actor[q]

LEMMA SignInTraced ==
  ASSUME TypeInv, TraceInv, NEW l \in Request, SignIn(l)
  PROVE  TraceInv'
<1>1. PICK u \in User : /\ session' = [session EXCEPT ![l] = u]
                        /\ actor' = [actor EXCEPT ![l] = u]
  BY DEF SignIn
<1>2. /\ l \in Login /\ pc[l] = "wait" /\ trail' = trail /\ token' = token
      /\ ToAudit(l, "login", None) /\ actor'[l] = u
      /\ actor' \in [Request -> User \cup {None}]
  BY <1>1 DEF SignIn, Enters, log, TypeInv, TypeOK
<1>3. /\ pc' = [pc EXCEPT ![l] = "audit"]
      /\ entry'[l] = [what |-> "login", token |-> None, actor |-> u, by |-> l]
      /\ OthersStay(l)
  BY <1>1, <1>2, ToAuditType DEF What, OthersStay, SignIn, TypeInv, TypeOK
<1>4. entry'[l].what = "login" /\ entry'[l].actor = u
  BY <1>3
<1>5. EventsStay
  BY <1>2, <1>3 DEF EventsStay, OthersStay, Ended, Recorded
<1>6. SessionsMade'
  BY <1>1, <1>2, <1>3, <1>4 DEF TraceInv, SessionsMade, OthersStay, TypeInv, TypeOK, Request
<1>7. TokensMade'
  BY <1>2, <1>3, KindsAssumption DEF TraceInv, TokensMade, OthersStay, Request
<1>8. ActorsMade'
  BY <1>2, <1>3 DEF TraceInv, ActorsMade, OthersStay
<1>9. \A r \in Request : OwnEntry(r)'
  BY <1>2, <1>3, <1>4 DEF TraceInv, OwnEntry, OthersStay, Followup
<1> QED
  BY <1>5, <1>6, <1>7, <1>8, <1>9, EventsStayTraced DEF TraceInv

LEMMA SignInDeniedTraced ==
  ASSUME TypeInv, TraceInv, NEW l \in Request, SignInDenied(l)
  PROVE  TraceInv'
<1>1. /\ l \in Login /\ pc[l] = "wait" /\ trail' = trail /\ token' = token
      /\ session' = session /\ actor' = actor /\ ToAudit(l, "login_denied", None)
      /\ actor' \in [Request -> User \cup {None}]
  BY DEF SignInDenied, Enters, db, log, TypeInv, TypeOK
<1>2. /\ pc' = [pc EXCEPT ![l] = "audit"]
      /\ entry'[l] = [what |-> "login_denied", token |-> None, actor |-> actor'[l], by |-> l]
      /\ OthersStay(l)
  BY <1>1, ToAuditType DEF What, OthersStay, SignInDenied
<1>3. entry'[l].what = "login_denied"
  BY <1>2
<1>4. EventsStay
  BY <1>1, <1>2 DEF EventsStay, OthersStay, Ended, Recorded
<1>5. session[l] = None
  BY <1>1 DEF TraceInv, SessionsMade
<1>6. SessionsMade'
  BY <1>1, <1>2, <1>5 DEF TraceInv, SessionsMade, OthersStay, Request
<1>7. TokensMade'
  BY <1>1, <1>2, KindsAssumption DEF TraceInv, TokensMade, OthersStay, Request
<1>8. ActorsMade'
  BY <1>1, <1>2 DEF TraceInv, ActorsMade, OthersStay
<1>9. \A r \in Request : OwnEntry(r)'
  BY <1>1, <1>2, <1>3 DEF TraceInv, OwnEntry, OthersStay, Followup
<1> QED
  BY <1>4, <1>6, <1>7, <1>8, <1>9, EventsStayTraced DEF TraceInv

LEMMA SignOutTraced ==
  ASSUME TypeInv, TraceInv, NEW q \in Request, SignOut(q)
  PROVE  TraceInv'
<1>1. PICK s \in Login \cap Known :
        /\ cred' = [cred EXCEPT ![q] = s]
        /\ actor' = [actor EXCEPT ![q] = IF Live(s) THEN session[s] ELSE None]
        /\ session' = [session EXCEPT ![s] = None]
  BY DEF SignOut
<1>2. /\ q \in Logout /\ pc[q] = "wait" /\ trail' = trail /\ token' = token
      /\ ToAudit(q, "logout", None)
      /\ actor' \in [Request -> User \cup {None}]
  BY <1>1 DEF SignOut, Enters, log, TypeInv, TypeOK
<1>3. q \notin Login \cup Mint
  BY <1>2, KindsAssumption
<1>4. /\ pc' = [pc EXCEPT ![q] = "audit"]
      /\ entry'[q] = [what |-> "logout", token |-> None, actor |-> actor'[q], by |-> q]
      /\ OthersStay(q)
  BY <1>1, <1>2, ToAuditType DEF What, OthersStay, TypeInv, TypeOK
<1>5. entry'[q].what = "logout"
  BY <1>4
<1>6. EventsStay
  BY <1>2, <1>4 DEF EventsStay, OthersStay, Ended, Recorded
<1>7. SessionsMade'
  BY <1>1, <1>2, <1>3, <1>4 DEF TraceInv, SessionsMade, OthersStay, TypeInv, TypeOK, Request
<1>8. TokensMade'
  BY <1>2, <1>3, <1>4 DEF TraceInv, TokensMade, OthersStay, Request
<1>9. ActorsMade'
  <2>1. actor'[q] # None => Made(trail, cred'[q], actor'[q])
    BY <1>1 DEF TraceInv, SessionsMade, Known, TypeInv, TypeOK
  <2> QED
    BY <1>2, <1>4, <2>1 DEF TraceInv, ActorsMade, OthersStay
<1>10. \A r \in Request : OwnEntry(r)'
  BY <1>2, <1>3, <1>4, <1>5 DEF TraceInv, OwnEntry, OthersStay
<1> QED
  BY <1>6, <1>7, <1>8, <1>9, <1>10, EventsStayTraced DEF TraceInv

LEMMA AuthenticateTraced ==
  ASSUME TypeInv, TraceInv, NEW r \in Request, Authenticate(r)
  PROVE  TraceInv'
<1>1. PICK c \in Accepted(r) \cap Known :
        /\ Found(c)
        /\ cred' = [cred EXCEPT ![r] = c]
        /\ actor' = [actor EXCEPT ![r] = Owner(c)]
  BY DEF Authenticate
<1>2. /\ r \notin Login /\ pc[r] = "wait" /\ trail' = trail
      /\ token' = token /\ session' = session
      /\ pc' = [pc EXCEPT ![r] = "act"] /\ OthersStay(r)
  BY <1>1, KindsAssumption DEF Authenticate, Enters, Goto, log, OthersStay, TypeInv, TypeOK
<1>3. EventsStay
  BY <1>2 DEF EventsStay, OthersStay, Ended, Recorded
<1>4. Made(trail, c, Owner(c))
  <2>1. CASE c \in Login
    BY <1>1, <2>1 DEF TraceInv, SessionsMade, Found, Live, Owner, Known
  <2>2. CASE c \notin Login
    BY <1>1, <2>2 DEF TraceInv, TokensMade, Found, Owner, Known, Credential
  <2> QED
    BY <2>1, <2>2
<1>5. SessionsMade'
  BY <1>2 DEF TraceInv, SessionsMade, OthersStay, Request
<1>6. TokensMade'
  BY <1>2 DEF TraceInv, TokensMade, OthersStay, Request
<1>7. ActorsMade'
  BY <1>1, <1>2, <1>4 DEF TraceInv, ActorsMade, OthersStay, TypeInv, TypeOK
<1>8. \A q \in Request : OwnEntry(q)'
  BY <1>2 DEF TraceInv, OwnEntry, OthersStay, Writing, TypeInv, TypeOK
<1> QED
  BY <1>3, <1>5, <1>6, <1>7, <1>8, EventsStayTraced DEF TraceInv

LEMMA MintTokenTraced ==
  ASSUME TypeInv, TraceInv, NEW m \in Request, MintToken(m)
  PROVE  TraceInv'
<1>1. /\ m \in Mint /\ pc[m] = "act" /\ trail' = trail /\ session' = session
      /\ cred' = cred /\ actor' = actor /\ ToAudit(m, "token_created", m)
      /\ token' = [token EXCEPT ![m] = [owner |-> actor[m], revoked |-> FALSE]]
      /\ actor' \in [Request -> User \cup {None}]
  BY DEF MintToken, Enters, log, TypeInv, TypeOK
<1>2. m \notin Login \cup Logout
  BY <1>1, KindsAssumption
<1>3. /\ pc' = [pc EXCEPT ![m] = "audit"]
      /\ entry'[m] = [what |-> "token_created", token |-> m, actor |-> actor'[m], by |-> m]
      /\ OthersStay(m)
  BY <1>1, ToAuditType DEF What, OthersStay
<1>4. entry'[m].what = "token_created" /\ entry'[m].actor = actor[m]
  BY <1>1, <1>3
<1>5. token'[m].owner = actor[m]
  BY <1>1 DEF TypeInv, TypeOK
<1>6. EventsStay
  BY <1>1, <1>3 DEF EventsStay, OthersStay, Ended, Recorded
<1>7. SessionsMade'
  BY <1>1, <1>2, <1>3 DEF TraceInv, SessionsMade, OthersStay, Request
<1>8. TokensMade'
  BY <1>1, <1>3, <1>4, <1>5 DEF TraceInv, TokensMade, OthersStay, TypeInv, TypeOK, Request
<1>9. ActorsMade'
  BY <1>1 DEF TraceInv, ActorsMade
<1>10. \A q \in Request : OwnEntry(q)'
  BY <1>2, <1>3, <1>4 DEF TraceInv, OwnEntry, OthersStay
<1> QED
  BY <1>6, <1>7, <1>8, <1>9, <1>10, EventsStayTraced DEF TraceInv

LEMMA RevokeTokenTraced ==
  ASSUME TypeInv, TraceInv, NEW w \in Request, RevokeToken(w)
  PROVE  TraceInv'
<1>1. PICK t \in Mint : /\ token[t] # None
                        /\ token' = [token EXCEPT ![t].revoked = TRUE]
                        /\ ToAudit(w, "token_revoked", t)
  BY DEF RevokeToken
<1>2. /\ w \in Withdrawal /\ pc[w] = "act" /\ trail' = trail /\ session' = session
      /\ cred' = cred /\ actor' = actor
      /\ actor' \in [Request -> User \cup {None}]
  BY DEF RevokeToken, Enters, log, TypeInv, TypeOK
<1>3. w \notin Login \cup Logout \cup Mint
  BY <1>2, KindsAssumption
<1>4. /\ pc' = [pc EXCEPT ![w] = "audit"]
      /\ entry'[w] = [what |-> "token_revoked", token |-> t, actor |-> actor'[w], by |-> w]
      /\ OthersStay(w)
  BY <1>1, <1>2, ToAuditType DEF What, OthersStay
<1>5. entry'[w].what = "token_revoked"
  BY <1>4
<1>6. \A m \in Mint : token'[m] # None => token[m] # None /\ token'[m].owner = token[m].owner
  BY <1>1 DEF TypeInv, TypeOK, Token
<1>7. EventsStay
  BY <1>2, <1>4 DEF EventsStay, OthersStay, Ended, Recorded
<1>8. SessionsMade'
  BY <1>2, <1>3, <1>4 DEF TraceInv, SessionsMade, OthersStay, Request
<1>9. TokensMade'
  BY <1>2, <1>3, <1>4, <1>6 DEF TraceInv, TokensMade, OthersStay, Request
<1>10. ActorsMade'
  BY <1>2 DEF TraceInv, ActorsMade
<1>11. \A q \in Request : OwnEntry(q)'
  BY <1>3, <1>4, <1>5 DEF TraceInv, OwnEntry, OthersStay
<1> QED
  BY <1>7, <1>8, <1>9, <1>10, <1>11, EventsStayTraced DEF TraceInv

LEMMA CreateShareTraced ==
  ASSUME TypeInv, TraceInv, NEW r \in Request, CreateShare(r)
  PROVE  TraceInv'
<1>1. /\ r \in Upload /\ pc[r] = "act" /\ trail' = trail
      /\ session' = session /\ token' = token /\ cred' = cred /\ actor' = actor
      /\ ToAudit(r, "share_created", None)
      /\ actor' \in [Request -> User \cup {None}]
  BY DEF CreateShare, Enters, db, log, TypeInv, TypeOK
<1>2. r \notin Login \cup Logout \cup Mint
  BY <1>1, KindsAssumption
<1>3. /\ pc' = [pc EXCEPT ![r] = "audit"]
      /\ entry'[r] = [what |-> "share_created", token |-> None, actor |-> actor'[r], by |-> r]
      /\ OthersStay(r)
  BY <1>1, ToAuditType DEF What, OthersStay
<1>4. entry'[r].what = "share_created"
  BY <1>3
<1>5. EventsStay
  BY <1>1, <1>3 DEF EventsStay, OthersStay, Ended, Recorded
<1>6. SessionsMade' /\ TokensMade'
  BY <1>1, <1>2, <1>3 DEF TraceInv, SessionsMade, TokensMade, OthersStay, Request
<1>7. ActorsMade'
  BY <1>1 DEF TraceInv, ActorsMade
<1>8. \A q \in Request : OwnEntry(q)'
  BY <1>2, <1>3, <1>4 DEF TraceInv, OwnEntry, OthersStay
<1> QED
  BY <1>5, <1>6, <1>7, <1>8, EventsStayTraced DEF TraceInv

LEMMA ConfirmTraced ==
  ASSUME TypeInv, TraceInv, NEW r \in Request, Confirm(r)
  PROVE  TraceInv'
<1>1. /\ pc[r] = "confirm" /\ trail' = trail
      /\ session' = session /\ token' = token /\ cred' = cred /\ actor' = actor
      /\ pc' = [pc EXCEPT ![r] = pc'[r]] /\ pc'[r] \in Ended
      /\ \A q \in Request : q # r => entry'[q] = entry[q]
  BY DEF Confirm, Trail!Confirm, Leave, Goto, db, TypeInv, TypeOK, Ended, Recorded
<1>2. EventsStay
  BY <1>1 DEF EventsStay, TypeInv, TypeOK, Ended, Recorded
<1>3. SessionsMade'
  BY <1>1 DEF TraceInv, SessionsMade, TypeInv, TypeOK, Request, Ended, Recorded
<1>4. TokensMade'
  BY <1>1 DEF TraceInv, TokensMade, TypeInv, TypeOK, Request, Ended, Recorded
<1>5. ActorsMade'
  BY <1>1 DEF TraceInv, ActorsMade
<1>6. \A q \in Request : OwnEntry(q)'
  BY <1>1 DEF TraceInv, OwnEntry, Writing, TypeInv, TypeOK, Ended, Recorded
<1> QED
  BY <1>2, <1>3, <1>4, <1>5, <1>6, EventsStayTraced DEF TraceInv

\* What the log shows it goes on showing.
LEMMA MadeStays ==
  ASSUME NEW events \in Seq(Entry), NEW e \in Entry, NEW c, NEW u
  PROVE  /\ Made(events, c, u) => Made(Append(events, e), c, u)
         /\ /\ e.by = c /\ e.what \in {"login", "token_created"} /\ e.actor = u
            => Made(Append(events, e), c, u)
<1>1. Len(Append(events, e)) = Len(events) + 1 /\ Len(events) \in Nat
  OBVIOUS
<1>2. /\ Append(events, e)[Len(events) + 1] = e
      /\ \A i \in 1..Len(events) : Append(events, e)[i] = events[i]
  OBVIOUS
<1> QED
  BY <1>1, <1>2 DEF Made

LEMMA WriteEventTraced ==
  ASSUME TypeInv, TraceInv, NEW r \in Request, WriteEvent(r)
  PROVE  TraceInv'
<1> DEFINE n == Len(trail) + 1
           e == entry[r]
<1>1. /\ e \in Entry /\ e.by = r /\ e.actor = actor[r] /\ pc[r] = "audit"
      /\ trail \in Seq(Entry) /\ Len(trail) \in Nat
  BY DEF WriteEvent, TypeInv, TypeOK, PlaceOf, Writing
<1>2. /\ trail' = Append(trail, e)
      /\ cred' = cred /\ actor' = actor /\ entry' = entry
      /\ session' = session /\ token' = token
      /\ pc' = [pc EXCEPT ![r] = "confirm"]
  BY DEF WriteEvent, Trail!Write, Goto, db
<1>3. /\ Len(trail') = n /\ trail'[n] = e
      /\ \A i \in 1..Len(trail) : trail'[i] = trail[i]
      /\ \A i \in 1..Len(trail') : i \in 1..Len(trail) \/ i = n
  BY <1>1, <1>2
<1>4. \A c, u : Made(trail, c, u) => Made(trail', c, u)
  BY <1>1, <1>2, MadeStays
<1>5. e.what \in {"login", "token_created"} => Made(trail', r, e.actor)
  BY <1>1, <1>2, MadeStays
<1>6. \A i \in 1..Len(trail) : trail[i].by # r
  BY <1>1 DEF TraceInv, OwnEvents, Ended, Recorded
<1>7. SessionsMade'
  BY <1>1, <1>2, <1>4, <1>5 DEF TraceInv, SessionsMade, TypeInv, TypeOK, Request
<1>8. TokensMade'
  BY <1>1, <1>2, <1>4, <1>5 DEF TraceInv, TokensMade, TypeInv, TypeOK, Request
<1>9. ActorsMade'
  BY <1>2, <1>4 DEF TraceInv, ActorsMade
<1>10. \A q \in Request : OwnEntry(q)'
  BY <1>1, <1>2 DEF TraceInv, OwnEntry, Writing, TypeInv, TypeOK
<1>11. OwnEvents'
  <2> SUFFICES ASSUME NEW j \in 1..Len(trail')
               PROVE  /\ trail'[j].by \in Request
                      /\ pc'[trail'[j].by] \in Recorded
                      /\ trail'[j].actor = actor'[trail'[j].by]
                      /\ trail'[j].what = "logout" => trail'[j].by \in Logout
    BY DEF OwnEvents
  <2>1. CASE j \in 1..Len(trail)
    BY <1>2, <1>3, <2>1 DEF TraceInv, OwnEvents, TypeInv, TypeOK, Ended, Recorded
  <2>2. CASE j = n
    BY <1>1, <1>2, <1>3, <2>2 DEF TraceInv, OwnEntry, Writing, TypeInv, TypeOK, Ended, Recorded
  <2> QED
    BY <1>3, <2>1, <2>2
<1>12. OneEventEach'
  BY <1>1, <1>3, <1>6 DEF TraceInv, OneEventEach
<1>13. Traceable'
  <2> SUFFICES ASSUME NEW j \in 1..Len(trail'),
                      trail'[j].what \in Followup, trail'[j].actor # None
               PROVE  \E i \in 1..(j - 1) :
                        /\ trail'[i].by = cred'[trail'[j].by]
                        /\ trail'[i].what \in {"login", "token_created"}
                        /\ trail'[i].actor = trail'[j].actor
    BY DEF Traceable, Followup
  <2>1. CASE j \in 1..Len(trail)
    <3>1. PICK i \in 1..(j - 1) :
            /\ trail[i].by = cred[trail[j].by]
            /\ trail[i].what \in {"login", "token_created"}
            /\ trail[i].actor = trail[j].actor
      BY <1>3, <2>1 DEF TraceInv, Traceable, Followup
    <3>2. i \in 1..Len(trail)
      BY <1>1, <2>1
    <3> QED
      BY <1>2, <1>3, <2>1, <3>1, <3>2
  <2>2. CASE j = n
    <3>1. r \notin Login /\ actor[r] # None
      BY <1>1, <1>3, <2>2 DEF TraceInv, OwnEntry, Writing
    <3>2. Made(trail, cred[r], actor[r])
      BY <3>1 DEF TraceInv, ActorsMade
    <3>3. PICK i \in 1..Len(trail) :
            /\ trail[i].by = cred[r]
            /\ trail[i].what \in {"login", "token_created"}
            /\ trail[i].actor = actor[r]
      BY <3>2 DEF Made
    <3>4. i \in 1..(j - 1)
      BY <1>1, <2>2
    <3> QED
      BY <1>1, <1>2, <1>3, <2>2, <3>3, <3>4
  <2> QED
    BY <1>3, <2>1, <2>2
<1> QED
  BY <1>7, <1>8, <1>9, <1>10, <1>11, <1>12, <1>13 DEF TraceInv

LEMMA StepTraced ==
  ASSUME TypeInv, TraceInv, NEW r \in Request, Step(r)
  PROVE  TraceInv'
<1>1. CASE Fails(r) \/ NothingToRevoke(r) \/ Refuse(r) \/ OwnerLookupFails(r)
  BY <1>1, EndingSteps, EndsOnlyTraced
<1> QED
  BY <1>1, SignInTraced, SignInDeniedTraced, SignOutTraced, AuthenticateTraced,
     MintTokenTraced, RevokeTokenTraced, CreateShareTraced, WriteEventTraced, ConfirmTraced
     DEF Step

LEMMA NextTraced == TypeInv /\ TraceInv /\ [Next]_vars => TraceInv'
BY StepTraced, EndingSteps, EndsOnlyTraced DEF Next, AllAnswered

\* Whatever the log says was done for a user goes back to the login, or to the
\* token, of that user: a credential is given away by Confirm, after its event.
THEOREM EverythingIsTraceable == Spec => []Traceable
<1>1. Init => TypeInv /\ TraceInv
  BY InitType, InitTraced
<1>2. TypeInv /\ TraceInv /\ [Next]_vars => (TypeInv /\ TraceInv)'
  BY NextType, NextTraced
<1>3. TypeInv /\ TraceInv => Traceable
  BY DEF TraceInv
<1> QED
  BY <1>1, <1>2, <1>3, PTL DEF Spec

-----------------------------------------------------------------------------
(* Revocations.                                                            *)

\* The steps that neither log out nor undo a logout.
LogoutsStay ==
  /\ \A q \in Logout :
       /\ actor'[q] = actor[q] /\ cred'[q] = cred[q]
       /\ pc'[q] \in Writing => pc[q] \in Writing
  /\ \A l \in Login : pc[l] = "ok" => pc'[l] = "ok" /\ session'[l] = session[l]

LEMMA LogoutsStayEnded ==
  ASSUME TypeInv, TraceInv, LogoutsEnd, LogoutsStay,
         \/ trail' = trail
         \/ \E e \in Entry : /\ trail' = Append(trail, e)
                             /\ e.what = "logout" => e.by \in Logout /\ cred[e.by] # None
  PROVE  LogoutsEnd'
<1>1. \A i \in 1..Len(trail) :
        trail[i].what = "logout" => trail[i].by \in Logout /\ cred'[trail[i].by] # None
  BY DEF TraceInv, OwnEvents, LogoutsEnd, LogoutsStay
<1>2. \A i \in 1..Len(trail') : trail'[i].what = "logout" => cred'[trail'[i].by] # None
  <2>1. CASE trail' = trail
    BY <1>1, <2>1
  <2>2. CASE trail' # trail
    <3>1. PICK e \in Entry : /\ trail' = Append(trail, e)
                             /\ e.what = "logout" => e.by \in Logout /\ cred[e.by] # None
      BY <2>2
    <3>2. \A i \in 1..Len(trail') : trail'[i] = IF i \in 1..Len(trail) THEN trail[i] ELSE e
      BY <3>1 DEF TypeInv, TypeOK
    <3>3. e.what = "logout" => cred'[e.by] # None
      BY <3>1 DEF LogoutsStay
    <3> QED
      BY <1>1, <3>2, <3>3
  <2> QED
    BY <2>1, <2>2
<1>3. /\ \A q \in Logout :
           /\ cred'[q] # None =>
                cred'[q] \in Login /\ session'[cred'[q]] = None /\ pc'[cred'[q]] = "ok"
           /\ pc'[q] \in Writing \/ actor'[q] # None => cred'[q] # None
      /\ \A p, q \in Logout : actor'[p] # None /\ actor'[q] # None /\ cred'[p] = cred'[q] => p = q
  BY DEF LogoutsEnd, LogoutsStay, Request
<1> QED
  BY <1>2, <1>3 DEF LogoutsEnd

\* The steps that neither revoke a token nor undo a revocation.
WithdrawalsStay ==
  /\ \A t \in Mint : Withdrawn(t) => token'[t] # None /\ token'[t].revoked
  /\ \A q \in Request : pc'[q] \in Writing =>
       \/ pc[q] \in Writing /\ entry'[q] = entry[q]
       \/ entry'[q].what # "token_revoked"
  /\ trail' = trail

LEMMA WithdrawalsStayLast == WithdrawalsLast /\ WithdrawalsStay => WithdrawalsLast'
BY DEF WithdrawalsLast, WithdrawalsStay, Withdrawn

LEMMA EndsOnlyRevoked ==
  ASSUME TypeInv, TraceInv, LogoutsEnd, WithdrawalsLast, EndsOnly
  PROVE  LogoutsEnd' /\ WithdrawalsLast'
<1>1. LogoutsStay
  BY DEF LogoutsStay, EndsOnly, Request, TypeInv, TypeOK, Steps, Ended, Recorded, Writing
<1>2. WithdrawalsStay
  BY DEF WithdrawalsStay, EndsOnly, Withdrawn, Writing
<1> QED
  BY <1>1, <1>2, LogoutsStayEnded, WithdrawalsStayLast DEF WithdrawalsStay

LEMMA SignInRevoked ==
  ASSUME TypeInv, TraceInv, LogoutsEnd, WithdrawalsLast, NEW l \in Request, SignIn(l) \/ SignInDenied(l)
  PROVE  LogoutsEnd' /\ WithdrawalsLast'
<1>1. PICK what \in {"login", "login_denied"} : ToAudit(l, what, None)
  BY DEF SignIn, SignInDenied
<1>2. /\ l \in Login /\ l \notin Logout /\ pc[l] = "wait"
      /\ trail' = trail /\ token' = token /\ cred' = cred
      /\ \A q \in Request : q # l => actor'[q] = actor[q]
      /\ \A k \in Login : k # l => session'[k] = session[k]
      /\ actor' \in [Request -> User \cup {None}]
  BY KindsAssumption DEF SignIn, SignInDenied, Enters, db, log, TypeInv, TypeOK
<1>3. /\ pc' = [pc EXCEPT ![l] = "audit"]
      /\ entry'[l] = [what |-> what, token |-> None, actor |-> actor'[l], by |-> l]
      /\ \A q \in Request : q # l => entry'[q] = entry[q]
  BY <1>1, <1>2, ToAuditType DEF What
<1>4. LogoutsStay
  BY <1>2, <1>3 DEF LogoutsStay, Request, TypeInv, TypeOK
<1>5. WithdrawalsStay
  BY <1>2, <1>3 DEF WithdrawalsStay, Withdrawn, TypeInv, TypeOK
<1> QED
  BY <1>4, <1>5, LogoutsStayEnded, WithdrawalsStayLast DEF WithdrawalsStay

LEMMA SignOutRevoked ==
  ASSUME TypeInv, TraceInv, LogoutsEnd, WithdrawalsLast, NEW q \in Request, SignOut(q)
  PROVE  LogoutsEnd' /\ WithdrawalsLast'
<1>1. PICK s \in Login \cap Known :
        /\ cred' = [cred EXCEPT ![q] = s]
        /\ actor' = [actor EXCEPT ![q] = IF Live(s) THEN session[s] ELSE None]
        /\ session' = [session EXCEPT ![s] = None]
  BY DEF SignOut
<1>2. /\ q \in Logout /\ q \notin Login /\ pc[q] = "wait" /\ pc[s] = "ok" /\ s \in Request
      /\ trail' = trail /\ token' = token /\ ToAudit(q, "logout", None)
      /\ actor' \in [Request -> User \cup {None}]
  BY <1>1, KindsAssumption DEF SignOut, Enters, Known, Request, log, TypeInv, TypeOK
<1>3. /\ pc' = [pc EXCEPT ![q] = "audit"]
      /\ entry'[q] = [what |-> "logout", token |-> None, actor |-> actor'[q], by |-> q]
      /\ OthersStay(q)
  BY <1>1, <1>2, ToAuditType DEF What, OthersStay, TypeInv, TypeOK
<1>4. entry'[q].what = "logout"
  BY <1>3
<1>5. /\ cred'[q] = s /\ session'[s] = None /\ pc'[s] = "ok"
      /\ actor'[q] # None => session[s] # None
      /\ \A l \in Login : session[l] = None => session'[l] = None
      /\ \A l \in Login : pc[l] = "ok" => pc'[l] = "ok"
  BY <1>1, <1>2, <1>3 DEF Live, Request, TypeInv, TypeOK
<1>6. LogoutsEnd'
  <2>1. \A p \in Logout : p # q =>
          pc'[p] = pc[p] /\ cred'[p] = cred[p] /\ actor'[p] = actor[p]
    BY <1>3 DEF OthersStay, Request
  <2>2. \A p \in Logout : p # q /\ actor[p] # None /\ actor'[q] # None => cred[p] # s
    BY <1>5 DEF LogoutsEnd
  <2>3. \A i \in 1..Len(trail') : trail'[i].what = "logout" => cred'[trail'[i].by] # None
    <3>1. s # None
      BY <1>2, NoneAssumption
    <3> QED
      BY <1>2, <1>5, <2>1, <3>1 DEF TraceInv, OwnEvents, LogoutsEnd
  <2>4. ASSUME NEW p \in Logout
        PROVE  /\ cred'[p] # None =>
                    cred'[p] \in Login /\ session'[cred'[p]] = None /\ pc'[cred'[p]] = "ok"
               /\ pc'[p] \in Writing \/ actor'[p] # None => cred'[p] # None
    <3>1. CASE p = q
      BY <1>1, <1>2, <1>5, <3>1, NoneAssumption
    <3>2. CASE p # q
      BY <1>5, <2>1, <3>2 DEF LogoutsEnd
    <3> QED
      BY <3>1, <3>2
  <2>5. \A p, r \in Logout :
          actor'[p] # None /\ actor'[r] # None /\ cred'[p] = cred'[r] => p = r
    BY <1>5, <2>1, <2>2 DEF LogoutsEnd
  <2> QED
    BY <2>3, <2>4, <2>5 DEF LogoutsEnd
<1>7. WithdrawalsStay
  BY <1>2, <1>3, <1>4 DEF WithdrawalsStay, OthersStay, Withdrawn
<1> QED
  BY <1>6, <1>7, WithdrawalsStayLast

LEMMA AuthenticateRevoked ==
  ASSUME TypeInv, TraceInv, LogoutsEnd, WithdrawalsLast, NEW r \in Request, Authenticate(r)
  PROVE  LogoutsEnd' /\ WithdrawalsLast'
<1>1. /\ r \notin Logout \cup Login /\ pc[r] = "wait"
      /\ trail' = trail /\ token' = token /\ session' = session /\ entry' = entry
      /\ pc' = [pc EXCEPT ![r] = "act"]
      /\ \A q \in Request : q # r => cred'[q] = cred[q] /\ actor'[q] = actor[q]
  BY KindsAssumption DEF Authenticate, Enters, Goto, log, TypeInv, TypeOK
<1>2. LogoutsStay
  BY <1>1 DEF LogoutsStay, Request, TypeInv, TypeOK
<1>3. WithdrawalsStay
  BY <1>1 DEF WithdrawalsStay, Withdrawn, Writing, TypeInv, TypeOK
<1> QED
  BY <1>2, <1>3, LogoutsStayEnded, WithdrawalsStayLast DEF WithdrawalsStay

LEMMA MintTokenRevoked ==
  ASSUME TypeInv, TraceInv, LogoutsEnd, WithdrawalsLast, NEW m \in Request, MintToken(m)
  PROVE  LogoutsEnd' /\ WithdrawalsLast'
<1>1. /\ m \in Mint /\ m \notin Logout \cup Login /\ pc[m] = "act" /\ token[m] = None
      /\ trail' = trail /\ session' = session /\ cred' = cred /\ actor' = actor
      /\ ToAudit(m, "token_created", m)
      /\ \A t \in Mint : t # m => token'[t] = token[t]
      /\ actor' \in [Request -> User \cup {None}]
  BY KindsAssumption DEF MintToken, Enters, log, TypeInv, TypeOK, TraceInv, TokensMade
<1>2. /\ pc' = [pc EXCEPT ![m] = "audit"]
      /\ entry'[m] = [what |-> "token_created", token |-> m, actor |-> actor'[m], by |-> m]
      /\ OthersStay(m)
  BY <1>1, ToAuditType DEF What, OthersStay
<1>3. entry'[m].what = "token_created"
  BY <1>2
<1>4. LogoutsStay
  BY <1>1, <1>2 DEF LogoutsStay, OthersStay, Request
<1>5. WithdrawalsStay
  BY <1>1, <1>2, <1>3 DEF WithdrawalsStay, OthersStay, Withdrawn
<1> QED
  BY <1>4, <1>5, LogoutsStayEnded, WithdrawalsStayLast DEF WithdrawalsStay

LEMMA RevokeTokenRevoked ==
  ASSUME TypeInv, TraceInv, LogoutsEnd, WithdrawalsLast, NEW w \in Request, RevokeToken(w)
  PROVE  LogoutsEnd' /\ WithdrawalsLast'
<1>1. PICK t \in Mint : /\ token[t] # None
                        /\ token' = [token EXCEPT ![t].revoked = TRUE]
                        /\ ToAudit(w, "token_revoked", t)
  BY DEF RevokeToken
<1>2. /\ w \notin Logout \cup Login /\ pc[w] = "act" /\ trail' = trail
      /\ session' = session /\ cred' = cred /\ actor' = actor
      /\ actor' \in [Request -> User \cup {None}]
  BY KindsAssumption DEF RevokeToken, Enters, log, TypeInv, TypeOK
<1>3. /\ pc' = [pc EXCEPT ![w] = "audit"]
      /\ entry'[w] = [what |-> "token_revoked", token |-> t, actor |-> actor'[w], by |-> w]
      /\ OthersStay(w)
  BY <1>1, <1>2, ToAuditType DEF What, OthersStay
<1>4. entry'[w].token = t
  BY <1>3
<1>5. token[t] \in Token
  BY <1>1 DEF TypeInv, TypeOK
<1>6. /\ token'[t] = [token[t] EXCEPT !.revoked = TRUE]
      /\ \A u \in Mint : u # t => token'[u] = token[u]
      /\ token'[t] \in Token
  BY <1>1, <1>5 DEF TypeInv, TypeOK, Token
<1>7. token'[t] # None /\ token'[t].revoked
  BY <1>5, <1>6, NoneAssumption DEF Token
<1>8. \A u : Withdrawn(u) => Withdrawn(u)'
  BY <1>6, <1>7 DEF Withdrawn
<1>9. LogoutsEnd'
  BY <1>2, <1>3, LogoutsStayEnded DEF LogoutsStay, OthersStay, Request
<1>10. WithdrawalsLast'
  BY <1>2, <1>3, <1>4, <1>7, <1>8 DEF WithdrawalsLast, Withdrawn, OthersStay
<1> QED
  BY <1>9, <1>10

LEMMA CreateShareRevoked ==
  ASSUME TypeInv, TraceInv, LogoutsEnd, WithdrawalsLast, NEW r \in Request, CreateShare(r)
  PROVE  LogoutsEnd' /\ WithdrawalsLast'
<1>1. /\ r \notin Logout \cup Login /\ pc[r] = "act" /\ trail' = trail
      /\ session' = session /\ token' = token /\ cred' = cred /\ actor' = actor
      /\ ToAudit(r, "share_created", None)
      /\ actor' \in [Request -> User \cup {None}]
  BY KindsAssumption DEF CreateShare, Enters, db, log, TypeInv, TypeOK
<1>2. /\ pc' = [pc EXCEPT ![r] = "audit"]
      /\ entry'[r] = [what |-> "share_created", token |-> None, actor |-> actor'[r], by |-> r]
      /\ OthersStay(r)
  BY <1>1, ToAuditType DEF What, OthersStay
<1>3. entry'[r].what = "share_created"
  BY <1>2
<1>4. LogoutsStay
  BY <1>1, <1>2 DEF LogoutsStay, OthersStay, Request
<1>5. WithdrawalsStay
  BY <1>1, <1>2, <1>3 DEF WithdrawalsStay, OthersStay, Withdrawn
<1> QED
  BY <1>4, <1>5, LogoutsStayEnded, WithdrawalsStayLast DEF WithdrawalsStay

LEMMA ConfirmRevoked ==
  ASSUME TypeInv, TraceInv, LogoutsEnd, WithdrawalsLast, NEW r \in Request, Confirm(r)
  PROVE  LogoutsEnd' /\ WithdrawalsLast'
<1>1. /\ pc[r] = "confirm" /\ trail' = trail
      /\ session' = session /\ token' = token /\ cred' = cred /\ actor' = actor
      /\ pc' = [pc EXCEPT ![r] = pc'[r]] /\ pc'[r] \in Ended
      /\ \A q \in Request : q # r => entry'[q] = entry[q]
  BY DEF Confirm, Trail!Confirm, Leave, Goto, db, TypeInv, TypeOK, Ended, Recorded
<1>2. LogoutsStay
  BY <1>1 DEF LogoutsStay, Request, TypeInv, TypeOK, Ended, Recorded, Writing
<1>3. WithdrawalsStay
  BY <1>1 DEF WithdrawalsStay, Withdrawn, Writing, TypeInv, TypeOK, Ended, Recorded
<1> QED
  BY <1>2, <1>3, LogoutsStayEnded, WithdrawalsStayLast DEF WithdrawalsStay

LEMMA WriteEventRevoked ==
  ASSUME TypeInv, TraceInv, LogoutsEnd, WithdrawalsLast, NEW r \in Request, WriteEvent(r)
  PROVE  LogoutsEnd' /\ WithdrawalsLast'
<1>1. /\ pc[r] = "audit" /\ trail' = Append(trail, entry[r])
      /\ cred' = cred /\ actor' = actor /\ entry' = entry
      /\ session' = session /\ token' = token
      /\ pc' = [pc EXCEPT ![r] = "confirm"]
  BY DEF WriteEvent, Trail!Write, Goto, db
<1>2. /\ trail \in Seq(Entry) /\ Len(trail) \in Nat
      /\ entry[r].what = "token_revoked" => Withdrawn(entry[r].token)
  BY <1>1 DEF TypeInv, TypeOK, WithdrawalsLast, Writing
<1>3. \A i \in 1..Len(trail') : trail'[i] = IF i \in 1..Len(trail) THEN trail[i] ELSE entry[r]
  BY <1>1, <1>2
<1>4. LogoutsEnd'
  <2>1. LogoutsStay
    BY <1>1 DEF LogoutsStay, Request, Writing, TypeInv, TypeOK
  <2>2. entry[r] \in Entry
    BY <1>1 DEF TypeInv, TypeOK, PlaceOf, Writing
  <2>3. entry[r].what = "logout" => entry[r].by \in Logout /\ cred[entry[r].by] # None
    BY <1>1 DEF TypeInv, PlaceOf, TraceInv, OwnEntry, LogoutsEnd, Writing
  <2> QED
    BY <1>1, <2>1, <2>2, <2>3, LogoutsStayEnded
<1>5. \A u : Withdrawn(u)' <=> Withdrawn(u)
  BY <1>1 DEF Withdrawn
<1>6. WithdrawalsLast'
  <2>1. \A q \in Request :
          pc'[q] \in Writing /\ entry'[q].what = "token_revoked" => Withdrawn(entry'[q].token)
    BY <1>1 DEF WithdrawalsLast, Writing, TypeInv, TypeOK
  <2>2. \A i \in 1..Len(trail') :
          trail'[i].what = "token_revoked" => Withdrawn(trail'[i].token)
    BY <1>2, <1>3 DEF WithdrawalsLast
  <2> QED
    BY <1>1, <2>1, <2>2 DEF WithdrawalsLast, Withdrawn
<1> QED
  BY <1>4, <1>6

LEMMA NextRevoked ==
  ASSUME TypeInv, TraceInv, LogoutsEnd, WithdrawalsLast, [Next]_vars
  PROVE  LogoutsEnd' /\ WithdrawalsLast'
<1>1. CASE \E r \in Request :
             Fails(r) \/ NothingToRevoke(r) \/ Refuse(r) \/ OwnerLookupFails(r)
  BY <1>1, EndingSteps, EndsOnlyRevoked
<1>2. CASE \/ \E u \in User : Disable(u) \/ Enable(u)
           \/ \E s \in Login : Expire(s)
           \/ Kill \/ Restart \/ UNCHANGED vars
  BY <1>2, EndingSteps, EndsOnlyRevoked
<1> QED
  BY <1>1, <1>2, SignInRevoked, SignOutRevoked, AuthenticateRevoked, MintTokenRevoked,
     RevokeTokenRevoked, CreateShareRevoked, WriteEventRevoked, ConfirmRevoked
     DEF Next, Step, AllAnswered

LEMMA InitRevoked == Init => LogoutsEnd /\ WithdrawalsLast
BY DEF Init, Trail!Init, LogoutsEnd, WithdrawalsLast, Writing, Request

\* All of the above together, which the theorems below need.
THEOREM AuthInvHolds == Spec => []AuthInv
<1>1. Init => AuthInv
  BY InitType, InitTraced, InitRevoked DEF AuthInv
<1>2. AuthInv /\ [Next]_vars => AuthInv'
  BY NextType, NextTraced, NextRevoked DEF AuthInv
<1> QED
  BY <1>1, <1>2, PTL DEF Spec

\* Only an extractor lets a request through.
LEMMA OnlyAuthenticateAccepts ==
  ASSUME TypeInv, [Next]_vars, NEW r \in Request, pc[r] = "wait", pc'[r] = "act"
  PROVE  Authenticate(r)
<1>1. PICK q \in Request : Step(q)
  BY DEF Next, AllAnswered, vars, Disable, Enable, Expire, Kill, Down, InHand, Restart
<1>2. CASE Authenticate(q)
  BY <1>2 DEF Authenticate, Goto, TypeInv, TypeOK
<1>3. CASE ~Authenticate(q)
  BY <1>1, <1>3
     DEF Step, SignIn, SignInDenied, SignOut, Refuse, OwnerLookupFails, MintToken, RevokeToken,
         NothingToRevoke, CreateShare, WriteEvent, Confirm, Fails, Error, Leave, ToAudit, Goto,
         TypeInv, TypeOK
<1> QED
  BY <1>2, <1>3

\* Once a logout or the revocation of a token is in the log no request gets past its
\* extractor with it: the row is changed before the event is written, and stays.
THEOREM RevokedStaysRefused == Spec => RevokedIsRefused
<1>1. AuthInv /\ [Next]_vars =>
        [\A r \in Request : (pc[r] = "wait" /\ pc'[r] = "act") => ~Revoked(cred'[r])]_vars
  <2> SUFFICES ASSUME AuthInv, [Next]_vars, NEW r \in Request, pc[r] = "wait", pc'[r] = "act"
               PROVE  ~Revoked(cred'[r])
    OBVIOUS
  <2>1. PICK c \in Credential : Found(c) /\ cred' = [cred EXCEPT ![r] = c]
    BY OnlyAuthenticateAccepts, AcceptedType DEF AuthInv, Authenticate
  <2>2. cred'[r] = c
    BY <2>1 DEF AuthInv, TypeInv, TypeOK
  <2>3. ~ \E i \in 1..Len(trail) : trail[i].what = "logout" /\ cred[trail[i].by] = c
    BY <2>1, NoneAssumption
       DEF AuthInv, TraceInv, OwnEvents, LogoutsEnd, Found, Live
  <2>4. ~ \E i \in 1..Len(trail) : trail[i].what = "token_revoked" /\ trail[i].token = c
    BY <2>1, KindsAssumption DEF AuthInv, WithdrawalsLast, Withdrawn, Found
  <2> QED
    BY <2>2, <2>3, <2>4 DEF Revoked
<1> QED
  BY <1>1, AuthInvHolds, PTL DEF Spec, RevokedIsRefused

\* For each session the log names at most one logout that ended it: whoever
\* finds the row deletes it before the store mutex is given back.
THEOREM OneLogoutIsNamed == Spec => []OneNamedLogout
<1>1. AuthInv => OneNamedLogout
  <2> SUFFICES ASSUME AuthInv, NEW i \in 1..Len(trail), NEW j \in 1..Len(trail),
                      trail[i].what = "logout", trail[i].actor # None,
                      trail[j].what = "logout", trail[j].actor # None,
                      cred[trail[i].by] = cred[trail[j].by]
               PROVE  i = j
    BY DEF OneNamedLogout
  <2>1. trail[i].by \in Logout /\ trail[j].by \in Logout
        /\ actor[trail[i].by] # None /\ actor[trail[j].by] # None
    BY DEF AuthInv, TraceInv, OwnEvents
  <2>2. trail[i].by = trail[j].by
    BY <2>1 DEF AuthInv, LogoutsEnd
  <2> QED
    BY <2>2 DEF AuthInv, TraceInv, OneEventEach
<1> QED
  BY <1>1, AuthInvHolds, PTL

-----------------------------------------------------------------------------
(* What the tokens page says of a token's last use.                        *)

\* Whoever is about to create a share, or to record one, is noted at its token.
NotedOf(r) ==
  pc[r] = "act" \/ (pc[r] = "audit" /\ entry[r].what = "share_created") =>
    (cred[r] \in Mint => cred[r] \in seen)

NotedEvents ==
  \A i \in 1..Len(trail) : trail[i].what = "share_created" =>
    (cred[trail[i].by] \in Mint => cred[trail[i].by] \in seen)

SeenInv == AuthInv /\ (\A r \in Request : NotedOf(r)) /\ NotedEvents

\* What all steps but two do: nobody gets past an extractor, nor starts to record a share.
Unnoted ==
  /\ seen \subseteq seen' /\ trail' = trail
  /\ \A q \in Request :
       /\ pc[q] # "wait" => cred'[q] = cred[q]
       /\ pc[q] \in Recorded => cred'[q] = cred[q]
       /\ pc'[q] = "act" => pc[q] = "act"
       /\ pc'[q] = "audit" /\ entry'[q].what = "share_created" =>
            pc[q] = "act" \/ (pc[q] = "audit" /\ entry[q].what = "share_created")

LEMMA UnnotedSeen ==
  ASSUME SeenInv, Unnoted
  PROVE  (\A r \in Request : NotedOf(r)') /\ NotedEvents'
<1>1. \A r \in Request : NotedOf(r)'
  BY DEF SeenInv, Unnoted, NotedOf
<1>2. NotedEvents'
  BY DEF SeenInv, Unnoted, NotedEvents, AuthInv, TraceInv, OwnEvents
<1> QED
  BY <1>1, <1>2

LEMMA StepUnnoted ==
  ASSUME AuthInv, NEW r \in Request, Step(r), ~Authenticate(r), ~WriteEvent(r)
  PROVE  Unnoted
<1> USE DEF AuthInv, TypeInv, TypeOK, Unnoted, Goto
<1>1. CASE SignIn(r) \/ SignInDenied(r) \/ SignOut(r)
  BY <1>1 DEF SignIn, SignInDenied, SignOut, Enters, ToAudit, db, log, Ended, Recorded
<1>2. CASE Refuse(r) \/ OwnerLookupFails(r)
  BY <1>2 DEF Refuse, OwnerLookupFails, Enters, log, Ended, Recorded
<1>3. CASE MintToken(r) \/ RevokeToken(r) \/ CreateShare(r)
  BY <1>3 DEF MintToken, RevokeToken, CreateShare, Enters, ToAudit, db, log
<1>4. CASE NothingToRevoke(r) \/ Fails(r)
  BY <1>4 DEF NothingToRevoke, Fails, Leave, db, log, Ended, Recorded, Error
<1>5. CASE Confirm(r)
  BY <1>5 DEF Confirm, Trail!Confirm, Leave, db
<1> QED
  BY <1>1, <1>2, <1>3, <1>4, <1>5 DEF Step

LEMMA AuthenticateSeen ==
  ASSUME SeenInv, NEW r \in Request, Authenticate(r)
  PROVE  (\A q \in Request : NotedOf(q)') /\ NotedEvents'
<1>1. PICK c : /\ cred' = [cred EXCEPT ![r] = c] /\ seen' = seen \cup ({c} \cap Mint)
  BY DEF Authenticate
<1>2. /\ pc[r] = "wait" /\ pc' = [pc EXCEPT ![r] = "act"] /\ entry' = entry /\ trail' = trail
      /\ pc \in [Request -> Steps] /\ cred \in [Request -> Credential \cup {None}]
  BY DEF Authenticate, Enters, Goto, log, SeenInv, AuthInv, TypeInv, TypeOK
<1>3. \A q \in Request : NotedOf(q)'
  BY <1>1, <1>2 DEF SeenInv, NotedOf
<1>4. NotedEvents'
  BY <1>1, <1>2 DEF SeenInv, NotedEvents, AuthInv, TraceInv, OwnEvents
<1> QED
  BY <1>3, <1>4

LEMMA WriteEventSeen ==
  ASSUME SeenInv, NEW r \in Request, WriteEvent(r)
  PROVE  (\A q \in Request : NotedOf(q)') /\ NotedEvents'
<1>1. /\ pc[r] = "audit" /\ pc' = [pc EXCEPT ![r] = "confirm"] /\ pc \in [Request -> Steps]
      /\ trail' = Append(trail, entry[r]) /\ trail \in Seq(Entry) /\ entry[r] \in Entry
      /\ entry[r].by = r /\ UNCHANGED <<cred, entry, seen>>
  BY DEF WriteEvent, Trail!Write, Goto, db, SeenInv, AuthInv, TypeInv, TypeOK, PlaceOf, Writing
<1>2. /\ Len(trail') = Len(trail) + 1 /\ trail'[Len(trail) + 1] = entry[r]
      /\ \A i \in 1..Len(trail) : trail'[i] = trail[i]
  BY <1>1
<1>3. \A q \in Request : NotedOf(q)'
  BY <1>1 DEF SeenInv, NotedOf
<1>4. entry[r].what = "share_created" => (cred[r] \in Mint => cred[r] \in seen)
  BY <1>1 DEF SeenInv, NotedOf
<1>5. NotedEvents'
  BY <1>1, <1>2, <1>4 DEF SeenInv, NotedEvents
<1> QED
  BY <1>3, <1>5

LEMMA NextSeen == SeenInv /\ [Next]_vars => SeenInv'
<1> SUFFICES ASSUME SeenInv, [Next]_vars
             PROVE  (\A r \in Request : NotedOf(r)') /\ NotedEvents'
  BY NextType, NextTraced, NextRevoked DEF SeenInv, AuthInv
<1>1. CASE \E r \in Request : Step(r)
  BY <1>1, AuthenticateSeen, WriteEventSeen, StepUnnoted, UnnotedSeen DEF SeenInv
<1>2. CASE \/ \E u \in User : Disable(u) \/ Enable(u)
           \/ \E s \in Login : Expire(s)
           \/ Restart \/ AllAnswered \/ UNCHANGED vars
  <2>1. Unnoted
    BY <1>2 DEF Unnoted, Disable, Enable, Expire, Restart, AllAnswered, vars, db, log
  <2> QED
    BY <2>1, UnnotedSeen
<1>3. CASE Kill
  <2>1. Unnoted
    BY <1>3 DEF Unnoted, Kill, Down, InHand, db, log
  <2> QED
    BY <2>1, UnnotedSeen
<1> QED
  BY <1>1, <1>2, <1>3 DEF Next

\* Of a token that the page calls never used the log shows no share that was created
\* with it: last_seen_at is written before the request goes on, and is kept.
THEOREM NeverMeansNever == Spec => []NeverSeenNeverUsed
<1>1. Init => SeenInv
  BY InitType, InitTraced, InitRevoked
     DEF Init, Trail!Init, SeenInv, AuthInv, NotedOf, NotedEvents
<1>2. SeenInv => NeverSeenNeverUsed
  BY DEF SeenInv, NotedEvents, NeverSeenNeverUsed
<1> QED
  BY <1>1, <1>2, NextSeen, PTL DEF Spec
=============================================================================
