------------------------------ MODULE WebProofs ------------------------------
(***************************************************************************)
(* Proofs about Web, for every set of code points and of numbers and every *)
(* bound.  What is said of texts and of the log is said of every length:   *)
(* DataInduction has the inductions.                                       *)
(***************************************************************************)
EXTENDS Web, DataInduction

-----------------------------------------------------------------------------
(* Form and API                                                            *)

\* What the two loops have made of the fields so far.
FieldsAgree ==
  /\ \A d \in Door : fields[d] = [name \in FieldName |-> fields[d][name]]
  /\ \A name \in FieldName \ {"cui_attested"} : fields["form"][name] = fields["api"][name]
  /\ fields["api"]["cui_attested"] => fields["form"]["cui_attested"]

LEMMA ReadFieldAgrees ==
  ASSUME FieldsAgree, ReadField
  PROVE  FieldsAgree'
<1>0. PICK name \in FieldName : \E value \in Values(name) :
        fields' = [d \in Door |-> [fields[d] EXCEPT ![name] = Parsed(d, name, value)]]
  BY DEF ReadField
<1>1. PICK value :
        fields' = [d \in Door |-> [fields[d] EXCEPT ![name] = Parsed(d, name, value)]]
  BY <1>0
<1>2. \A d \in Door : /\ fields'[d] = [fields[d] EXCEPT ![name] = Parsed(d, name, value)]
                      /\ fields'[d][name] = Parsed(d, name, value)
                      /\ \A n \in FieldName \ {name} : fields'[d][n] = fields[d][n]
  BY <1>1 DEF FieldsAgree
<1>3. \A d \in Door : fields'[d] = [n \in FieldName |-> fields'[d][n]]
  BY <1>2 DEF FieldsAgree
<1>4. CASE name # "cui_attested"
  <2>1. Parsed("form", name, value) = Parsed("api", name, value)
    BY <1>4 DEF Parsed
  <2> QED
    BY <1>2, <1>3, <1>4, <2>1 DEF FieldsAgree, Door, FieldName
<1>5. CASE name = "cui_attested"
  <2>1. Parsed("form", name, value) = TRUE
    BY <1>5 DEF Parsed, Default
  <2> QED
    BY <1>2, <1>3, <1>5, <2>1 DEF FieldsAgree, Door, FieldName
<1> QED
  BY <1>4, <1>5

LEMMA CreateAgrees ==
  ASSUME FieldsAgree, Create
  PROVE  FieldsAgree'
<1>1. fields' = [d \in Door |-> [NoFields EXCEPT !["vendor_email"] = fields[d]["vendor_email"]]]
  BY DEF Create
<1>2. fields["form"]["vendor_email"] = fields["api"]["vendor_email"]
  BY DEF FieldsAgree, FieldName
<1> QED
  BY <1>1, <1>2 DEF FieldsAgree, NoFields, Door, FieldName, Default

LEMMA NextAgrees == FieldsAgree /\ [Next]_vars => FieldsAgree'
<1> SUFFICES ASSUME FieldsAgree, [Next]_vars
             PROVE  FieldsAgree'
  OBVIOUS
<1>1. CASE UNCHANGED fields
  BY <1>1 DEF FieldsAgree
<1>2. CASE ReadField \/ Create
  BY <1>2, ReadFieldAgrees, CreateAgrees
<1> QED
  BY <1>1, <1>2
     DEF Next, vars, upload, Type, Send, Refuse, Notify, Answer, HangUp, Redeem, RedeemDenied,
         Revoke, SignInOrOut, Tick, ListRecent, OfferRevoke, ShowStatus

\* Whatever fields a body has, in whatever order and however often, what the API
\* accepts the form accepts too, as the same request.
THEOREM DoorsAgree == Spec => []BothDoorsAgree
<1>1. Init => FieldsAgree
  BY DEF Init, FieldsAgree, NoFields, Door, FieldName
<1>2. FieldsAgree => BothDoorsAgree
  BY DEF FieldsAgree, BothDoorsAgree, Accepted, Given, FieldName
<1> QED
  BY <1>1, <1>2, NextAgrees, PTL DEF Spec

-----------------------------------------------------------------------------
(* What the sender is told                                                 *)

Told ==
  /\ email.configured <=> email.sender = "smtp"
  /\ step = "answer" =>
       (mail # "none" <=> email.sender = "smtp" /\ fields[door]["vendor_email"] = "address")
  /\ page # None => step = "made"
  /\ TellsWhatWasTried

LEMMA AnswerTells ==
  ASSUME Told, Answer
  PROVE  Told'
<1>1. /\ page' = [to |-> fields[door]["vendor_email"],
                  says |-> IF door = "api" THEN "nothing"
                           ELSE IF email.configured THEN "notified" ELSE "deliver manually"]
      /\ step = "answer" /\ step' = "made" /\ email' = email /\ mail' = mail
  BY DEF Answer, upload
<1>2. page'.says = "notified" => email.configured
  BY <1>1
<1>3. page'.says = "deliver manually" => ~email.configured
  BY <1>1
<1>4. page'.to = fields[door]["vendor_email"]
  BY <1>1
<1> QED
  BY <1>1, <1>2, <1>3, <1>4 DEF Told, TellsWhatWasTried

LEMMA NextTells == Told /\ [Next]_vars => Told'
<1> SUFFICES ASSUME Told, [Next]_vars
             PROVE  Told'
  OBVIOUS
<1>1. CASE Answer
  BY <1>1, AnswerTells
<1>2. CASE Notify
  BY <1>2 DEF Notify, upload, Told, TellsWhatWasTried
<1>3. CASE UNCHANGED <<step, email, fields, door, mail, page>>
  BY <1>3 DEF Told, TellsWhatWasTried
<1>4. CASE Send \/ ReadField \/ Refuse \/ Create \/ HangUp
  <2>1. step # "made" /\ step' # "answer" /\ UNCHANGED <<email, mail, page>>
    BY <1>4 DEF Send, ReadField, Refuse, Create, HangUp, upload
  <2> QED
    BY <2>1 DEF Told, TellsWhatWasTried
<1> QED
  BY <1>1, <1>2, <1>3, <1>4
     DEF Next, vars, upload, Type, Redeem, RedeemDenied, Revoke, SignInOrOut, Tick, ListRecent,
         OfferRevoke, ShowStatus

\* The page says "notified" only when an e-mail went off to the relay, unless the
\* address was none, and asks for delivery by hand only when none did: whatever the
\* relay then made of it, which the page does not tell.
THEOREM PageTellsWhatWasTried == Spec => []TellsWhatWasTried
<1>1. ASSUME Init PROVE Told
  <2>1. PICK smtp \in {"none", "bad", "good"} : email = Mailer(smtp)
    BY <1>1 DEF Init
  <2>2. email.configured <=> email.sender = "smtp"
    BY <2>1 DEF Mailer
  <2> QED
    BY <1>1, <2>2 DEF Init, Told, TellsWhatWasTried
<1>2. Told => TellsWhatWasTried
  BY DEF Told
<1> QED
  BY <1>1, <1>2, NextTells, PTL DEF Spec

-----------------------------------------------------------------------------
(* What the list of shares is good for                                     *)

\* No redemption gets anything of a share in this state, now or later.
Over(r) == r.revoked \/ r.expires <= now \/ r.count >= r.max

\* The row of a list and the share itself: only later.
Ahead ==
  /\ row.expires = share.expires /\ row.max = share.max /\ row.count <= share.count
  /\ row.revoked => share.revoked

\* Nobody knows of a share before there is one.
Seen ==
  /\ step \in {"type", "read", "refused", "notify", "answer", "made"}
  /\ share = None <=> step \in {"type", "read", "refused"}
  /\ mail # "none" => share # None
  /\ page # None => share # None

ListInv ==
  /\ now \in Nat
  /\ \A d \in Door, name \in DOMAIN Default : fields[d][name] \in Nat
  /\ \A d \in Door : fields[d] = [name \in FieldName |-> fields[d][name]]
  /\ door \in Door
  /\ share \in Row \cup {None} /\ row \in Row \cup {None}
  /\ button \in BOOLEAN \cup {None} /\ closed \in BOOLEAN
  /\ row # None => share # None /\ Ahead
  /\ button # None => row # None /\ (button = FALSE => Over(row))
  /\ closed => share # None /\ Over(share)
  /\ Seen

\* What all steps do but those that make the share, list it or look at the list.
LEMMA LaterKeepsList ==
  ASSUME ListInv, UNCHANGED <<row, button, closed, fields, door>>, Seen',
         now' \in Nat, now' >= now,
         share' = share \/ /\ share # None /\ share' \in Row
                           /\ share'.expires = share.expires /\ share'.max = share.max
                           /\ share'.count >= share.count
                           /\ share.revoked => share'.revoked
  PROVE  ListInv'
<1>1. /\ row # None => row.expires \in Nat /\ row.count \in Nat /\ row.max \in Nat
      /\ share # None => share.expires \in Nat /\ share.count \in Nat /\ share.max \in Nat
      /\ share' \in Row => share'.count \in Nat
  BY DEF ListInv, Row
<1>2. share' \in Row \cup {None} /\ now \in Nat
  BY DEF ListInv
<1>3. row # None => share' # None /\ Ahead'
  BY <1>1, <1>2, NoneAssumption DEF ListInv, Ahead
<1>4. button # None /\ button = FALSE => Over(row)'
  BY <1>1, <1>2 DEF ListInv, Over
<1>5. closed => share' # None /\ Over(share)'
  BY <1>1, <1>2, NoneAssumption DEF ListInv, Over
<1> QED
  BY <1>2, <1>3, <1>4, <1>5 DEF ListInv

LEMMA CreateList ==
  ASSUME ListInv, Create
  PROVE  ListInv'
<1>1. /\ step = "read" /\ share = None /\ row = None /\ button = None /\ closed = FALSE
      /\ mail = "none" /\ page = None /\ mail' = "none" /\ page' = None
      /\ step' = "notify" /\ UNCHANGED <<row, button, closed, now, door>>
  BY DEF Create, ListInv, Seen, list
<1>2. share' \in Row
  <2>1. /\ fields[door]["expires_in_hours"] \in Nat /\ fields[door]["max_downloads"] \in Nat
        /\ now \in Nat
    BY DEF ListInv, Default
  <2> QED
    BY <2>1 DEF Create, Row
<1>3. ASSUME NEW d \in Door
      PROVE  /\ fields'[d] = [name \in FieldName |-> fields'[d][name]]
             /\ \A name \in DOMAIN Default : fields'[d][name] \in Nat
  <2>1. fields'[d] = [NoFields EXCEPT !["vendor_email"] = fields[d]["vendor_email"]]
    BY DEF Create
  <2>2. NoFields = [name \in FieldName |-> NoFields[name]]
    BY DEF NoFields
  <2>3. NoFields["expires_in_hours"] = 72 /\ NoFields["max_downloads"] = 3
    BY DEF NoFields, FieldName, Default
  <2>4. DOMAIN Default = {"expires_in_hours", "max_downloads"}
    BY DEF Default
  <2> QED
    BY <2>1, <2>2, <2>3, <2>4 DEF FieldName
<1>4. share' # None
  BY <1>2, NoneAssumption
<1>5. Seen'
  BY <1>1, <1>4 DEF Seen
<1> QED
  BY <1>1, <1>2, <1>3, <1>4, <1>5 DEF ListInv

LEMMA ReadFieldList ==
  ASSUME ListInv, ReadField
  PROVE  ListInv'
<1>1. PICK name \in FieldName : \E value \in Values(name) :
        fields' = [d \in Door |-> [fields[d] EXCEPT ![name] = Parsed(d, name, value)]]
  BY DEF ReadField
<1>2. PICK value :
        fields' = [d \in Door |-> [fields[d] EXCEPT ![name] = Parsed(d, name, value)]]
  BY <1>1
<1>3. ASSUME NEW d \in Door
      PROVE  /\ fields'[d] = [n \in FieldName |-> fields'[d][n]]
             /\ \A n \in DOMAIN Default : fields'[d][n] \in Nat
  <2>1. /\ fields'[d] = [fields[d] EXCEPT ![name] = Parsed(d, name, value)]
        /\ fields[d] = [n \in FieldName |-> fields[d][n]]
        /\ \A n \in DOMAIN Default : fields[d][n] \in Nat
    BY <1>2 DEF ListInv
  <2>2. \A n \in DOMAIN Default : Default[n] \in Nat
    BY DEF Default
  <2>3. name \in DOMAIN Default => Parsed(d, name, value) \in Nat
    BY <2>2, WebAssumption DEF Parsed
  <2>4. DOMAIN Default \subseteq FieldName
    BY DEF Default, FieldName
  <2> QED
    BY <2>1, <2>3, <2>4
<1>4. Seen' /\ UNCHANGED <<share, now, row, button, closed, door>>
  BY DEF ReadField, ListInv, Seen, list
<1> QED
  BY <1>3, <1>4 DEF ListInv, Ahead, Over

LEMMA NextList == ListInv /\ [Next]_vars => ListInv'
<1> SUFFICES ASSUME ListInv, [Next]_vars
             PROVE  ListInv'
  OBVIOUS
<1>0. Seen /\ now \in Nat
  BY DEF ListInv
<1>1. CASE Create \/ ReadField
  BY <1>1, CreateList, ReadFieldList
<1>2. CASE Send
  <2>1. Seen' /\ door' \in Door /\ UNCHANGED <<fields, now, share, row, button, closed>>
    BY <1>0, <1>2 DEF Send, Seen, list
  <2> QED
    BY <2>1 DEF ListInv, Ahead, Over
<1>3. CASE Type \/ Refuse \/ HangUp \/ RedeemDenied \/ SignInOrOut \/ UNCHANGED vars
  <2>1. UNCHANGED <<row, button, closed, fields, door, now, share, mail, page>>
    BY <1>3 DEF Type, Refuse, HangUp, RedeemDenied, SignInOrOut, vars, upload, list
  <2>2. \/ step' = step
        \/ {step, step'} \subseteq {"notify", "answer", "made"}
        \/ step = "read" /\ step' = "refused"
    BY <1>3 DEF Type, Refuse, HangUp, RedeemDenied, SignInOrOut, vars
  <2>3. Seen'
    BY <1>0, <2>1, <2>2 DEF Seen
  <2> QED
    BY <1>0, <2>1, <2>3, LaterKeepsList
<1>4. CASE Notify \/ Answer
  <2>1. UNCHANGED <<row, button, closed, fields, door, now, share>>
    BY <1>4 DEF Notify, Answer, upload, list
  <2>2. Seen'
    BY <1>0, <1>4, <2>1 DEF Notify, Answer, Seen
  <2> QED
    BY <1>0, <2>1, <2>2, LaterKeepsList
<1>5. CASE Redeem \/ Revoke
  <2>1. share \in Row /\ share # None
    BY <1>0, <1>5 DEF Redeem, Revoke, LinkIsOut, ListInv, Seen
  <2>2. UNCHANGED <<row, button, closed, fields, door, now, step, mail, page>>
    BY <1>5 DEF Redeem, Revoke, upload, list
  <2>3. share' \in {[share EXCEPT !.count = @ + 1], [share EXCEPT !.revoked = TRUE]}
    BY <1>5 DEF Redeem, Revoke
  <2>4. /\ share' \in Row /\ share'.expires = share.expires /\ share'.max = share.max
        /\ share'.count >= share.count /\ (share.revoked => share'.revoked)
    <3>1. share.count \in Nat /\ share.revoked \in BOOLEAN
      BY <2>1 DEF Row
    <3>2. CASE share' = [share EXCEPT !.count = @ + 1]
      BY <2>1, <3>1, <3>2 DEF Row
    <3>3. CASE share' = [share EXCEPT !.revoked = TRUE]
      <4>1. share' \in Row
        BY <2>1, <3>3 DEF Row
      <4>2. /\ share'.expires = share.expires /\ share'.max = share.max
            /\ share'.count = share.count /\ share'.revoked
        BY <2>1, <3>3 DEF Row
      <4> QED
        BY <3>1, <4>1, <4>2
    <3> QED
      BY <2>3, <3>2, <3>3
  <2>5. Seen'
    BY <1>0, <2>1, <2>2, <2>4, NoneAssumption DEF Seen
  <2> QED
    BY <1>0, <2>1, <2>2, <2>4, <2>5, LaterKeepsList
<1>6. CASE Tick
  <2>1. UNCHANGED <<row, button, closed, fields, door, share, step, mail, page>>
    BY <1>6 DEF Tick, upload, list
  <2>2. now' \in Nat /\ now' >= now
    BY <1>0, <1>6 DEF Tick
  <2>3. Seen'
    BY <1>0, <2>1 DEF Seen
  <2> QED
    BY <2>1, <2>2, <2>3, LaterKeepsList
<1>7. CASE ListRecent
  <2>1. UNCHANGED <<fields, door, now, share, step, mail, page, button, closed>>
    BY <1>7 DEF ListRecent, upload
  <2>2. row' = share /\ share # None /\ share \in Row /\ button = None
    BY <1>7 DEF ListRecent, ListInv
  <2>3. Seen'
    BY <1>0, <2>1 DEF Seen
  <2> QED
    BY <2>1, <2>2, <2>3 DEF ListInv, Ahead, Over, Row
<1>8. CASE OfferRevoke
  <2>1. row \in Row /\ now \in Nat
    BY <1>8 DEF OfferRevoke, ListInv
  <2>2. ~IsActive(row) => Over(row)
    BY <2>1 DEF IsActive, IsExpired, IsExhausted, Over, Row
  <2>3. IsActive(row) \in BOOLEAN
    BY DEF IsActive
  <2>4. Seen'
    BY <1>0, <1>8 DEF OfferRevoke, Seen
  <2> QED
    BY <1>8, <2>2, <2>3, <2>4 DEF OfferRevoke, ListInv, upload, Ahead, Over
<1>9. CASE ShowStatus
  <2>1. row \in Row /\ share \in Row /\ now \in Nat /\ Ahead /\ share # None
    BY <1>9 DEF ShowStatus, ListInv
  <2>2. StatusLabel(row) # "active" \/ ~button => Over(row)
    BY <1>9, <2>1
       DEF ShowStatus, ListInv, StatusLabel, IsExpired, IsExhausted, Over, Row
  <2>3. Over(row) => Over(share)
    BY <2>1 DEF Ahead, Over, Row
  <2>4. Seen'
    BY <1>0, <1>9 DEF ShowStatus, Seen
  <2> QED
    BY <1>9, <2>1, <2>2, <2>3, <2>4 DEF ShowStatus, ListInv, upload, Over
<1> QED
  BY <1>1, <1>2, <1>3, <1>4, <1>5, <1>6, <1>7, <1>8, <1>9 DEF Next

LEMMA InitList ==
  ASSUME Init
  PROVE  ListInv
<1>1. \A d \in Door : fields[d] = NoFields
  BY DEF Init
<1>2. NoFields = [name \in FieldName |-> NoFields[name]]
  BY DEF NoFields
<1>3. \A name \in DOMAIN Default : NoFields[name] \in Nat
  <2>1. NoFields["expires_in_hours"] = 72 /\ NoFields["max_downloads"] = 3
    BY DEF NoFields, FieldName, Default
  <2>2. DOMAIN Default = {"expires_in_hours", "max_downloads"}
    BY DEF Default
  <2> QED
    BY <2>1, <2>2
<1> QED
  BY <1>1, <1>2, <1>3 DEF Init, ListInv, Seen, Door

\* A share that a list showed as over, or without a button, is never downloaded again,
\* however old the row was and however the clock moved while the list was made.
THEOREM ClosedIsClosed == Spec => ClosedStaysClosed
<1>1. Init => ListInv
  BY InitList
<1>2. ListInv /\ [Next]_vars => [closed /\ share # None => share'.count = share.count]_vars
  <2> SUFFICES ASSUME ListInv, Next, closed, share # None
               PROVE  share'.count = share.count
    OBVIOUS
  <2>1. Over(share) /\ share \in Row /\ step \notin {"type", "read"}
    BY DEF ListInv, Seen
  <2>2. CASE Revoke
    BY <2>1, <2>2 DEF Revoke, Row
  <2>3. CASE Redeem
    BY <2>1, <2>3 DEF Redeem, Over, Row, ListInv
  <2> QED
    BY <2>1, <2>2, <2>3
       DEF Next, Type, Send, ReadField, Refuse, Create, Notify, Answer, HangUp, RedeemDenied,
           SignInOrOut, Tick, ListRecent, OfferRevoke, ShowStatus
<1> QED
  BY <1>1, <1>2, NextList, PTL DEF Spec, ClosedStaysClosed

-----------------------------------------------------------------------------
(* The filter in the link to audit.csv                                     *)

UrlState == [out : Seq(Nat), wait : 0..2, high : Nat]
UrlMachine == [c \in Nat |-> [r \in UrlState |-> UrlStep(r, c)]]
UrlStart == [out |-> <<>>, wait |-> 0, high |-> 0]

LEMMA UrlStepType ==
  ASSUME NEW c \in Nat, NEW r \in UrlState
  PROVE  UrlStep(r, c) \in UrlState
<1>1. Unhex(c) \in Nat
  BY DEF Unhex
<1>2. r.out \in Seq(Nat) /\ r.high \in Nat /\ r.wait \in 0..2
  BY DEF UrlState
<1>3. 16 * r.high + Unhex(c) \in Nat /\ (IF c = Plus THEN Space ELSE c) \in Nat
  BY <1>1, <1>2 DEF Space
<1>4. /\ Append(r.out, 16 * r.high + Unhex(c)) \in Seq(Nat)
      /\ Append(r.out, IF c = Plus THEN Space ELSE c) \in Seq(Nat)
  BY <1>2, <1>3, AppendProperties
<1>5. CASE r.wait = 2
  BY <1>1, <1>2, <1>5 DEF UrlStep, UrlState
<1>6. CASE r.wait = 1
  BY <1>2, <1>4, <1>6 DEF UrlStep, UrlState
<1>7. CASE r.wait = 0 /\ c = Percent
  BY <1>7 DEF UrlStep, UrlState
<1>8. CASE r.wait = 0 /\ c # Percent
  <2>1. UrlStep(r, c) = [r EXCEPT !.out = Append(r.out, IF c = Plus THEN Space ELSE c)]
    BY <1>8 DEF UrlStep
  <2> QED
    BY <1>4, <2>1 DEF UrlState
<1> QED
  BY <1>2, <1>5, <1>6, <1>7, <1>8

LEMMA UrlMachineIs ==
  /\ IsMachine(UrlMachine, Nat, UrlState)
  /\ UrlStart \in UrlState
  /\ \A c \in Nat, r \in UrlState : UrlMachine[c][r] = UrlStep(r, c)
<1>1. UrlStart \in UrlState
  BY DEF UrlStart, UrlState
<1>2. \A c \in Nat, r \in UrlState : UrlMachine[c][r] = UrlStep(r, c)
  BY DEF UrlMachine
<1> QED
  BY <1>1, <1>2, UrlStepType DEF IsMachine

LEMMA UrlDecodeIsRun ==
  ASSUME NEW u \in Seq(Nat)
  PROVE  FoldLeft(UrlStep, UrlStart, u) = Run(UrlMachine, UrlStart, u)
<1> DEFINE n == Len(u)
           IsItsFold(c) ==
             c = [s \in SUBSET (1..n) |->
                    IF s = {} THEN UrlStart ELSE UrlStep(c[s \ {Max(s)}], u[Max(s)])]
           fold == CHOOSE c : IsItsFold(c)
<1>1. n \in Nat /\ DOMAIN u = 1..n /\ \A k \in 1..n : u[k] \in Nat
  OBVIOUS
<1>2. FoldLeft(UrlStep, UrlStart, u) = fold[1..n]
  BY <1>1 DEF FoldLeft, MapThenFoldSet
<1> HIDE DEF n
<1>3. PICK c \in [SUBSET (1..n) -> UrlState] : IsFold(UrlMachine, UrlStart, u, n, c)
  BY UrlMachineIs, FoldExists DEF n
<1>4. ASSUME NEW s \in SUBSET (1..n), s # {}
      PROVE  UrlMachine[u[Max(s)]][c[s \ {Max(s)}]] = UrlStep(c[s \ {Max(s)}], u[Max(s)])
  <2>1. Max(s) \in 1..n
    BY <1>1, <1>4, MaxIsIn
  <2>2. u[Max(s)] \in Nat
    BY <1>1, <2>1
  <2>3. s \ {Max(s)} \in SUBSET (1..n)
    OBVIOUS
  <2>4. c[s \ {Max(s)}] \in UrlState
    BY <1>3, <2>3
  <2> QED
    BY <2>2, <2>4, UrlMachineIs
<1>5. IsItsFold(c)
  BY <1>3, <1>4, Zenon DEF IsFold
<1>6. IsItsFold(fold)
  <2> HIDE DEF IsItsFold
  <2> QED
    BY <1>5
<1> HIDE DEF fold
<1>7. fold[{}] = UrlStart
  BY <1>6
<1>8. ASSUME NEW k \in 1..Len(u), fold[1..(k - 1)] \in UrlState
      PROVE  fold[1..k] = UrlMachine[u[k]][fold[1..(k - 1)]]
  <2>1. k \in Nat /\ k > 0 /\ k <= n /\ u[k] \in Nat
    BY <1>1 DEF n
  <2>2. /\ 1..k # {} /\ Max(1..k) = k /\ (1..k) \ {k} = 1..(k - 1)
        /\ 1..k \in SUBSET (1..n)
    BY <1>1, <2>1, MaxOfStart
  <2>3. fold[1..k] = UrlStep(fold[1..(k - 1)], u[k])
    BY <1>6, <2>2
  <2> QED
    BY <1>8, <2>1, <2>3, UrlMachineIs
<1>9. FoldsStarts(UrlMachine, UrlStart, u, UrlState, fold)
  BY <1>7, <1>8 DEF FoldsStarts
<1> QED
  BY <1>2, <1>9, UrlMachineIs, FoldIsRun DEF n

Ascii == 0..127

\* What UrlEncode makes of one code point.
UrlCode ==
  [c \in Ascii |-> IF c \in Unreserved THEN <<c>> ELSE <<Percent, Hex(c \div 16), Hex(c % 16)>>]

LEMMA AsciiIsNat == \A u \in Seq(Ascii) : u \in Seq(Nat)
<1>1. Ascii \subseteq Nat
  BY DEF Ascii
<1> QED
  BY <1>1, SeqsOfMore

LEMMA UrlCodeType ==
  ASSUME NEW c \in Ascii
  PROVE  /\ c \div 16 \in 0..7 /\ c % 16 \in 0..15 /\ (16 * (c \div 16)) + (c % 16) = c
         /\ Hex(c \div 16) \in Nat /\ Hex(c % 16) \in Nat
         /\ UrlCode[c] \in Seq(Nat)
<1>1. c \in Nat /\ c \div 16 \in 0..7 /\ c % 16 \in 0..15 /\ (16 * (c \div 16)) + (c % 16) = c
  BY DEF Ascii
<1>2. Hex(c \div 16) \in Nat /\ Hex(c % 16) \in Nat
  BY <1>1 DEF Hex
<1>3. <<c>> \in Seq(Nat) /\ <<Percent, Hex(c \div 16), Hex(c % 16)>> \in Seq(Nat)
  BY <1>1, <1>2 DEF Percent
<1> QED
  BY <1>1, <1>2, <1>3 DEF UrlCode

LEMMA UrlEncodeIsMap ==
  /\ IsMap(UrlCode, Ascii, Seq(Nat))
  /\ \A u \in Seq(Ascii) : UrlEncode(u) = FlatMap(UrlCode, u)
<1>1. UrlCode \in [Ascii -> Seq(Nat)]
  BY UrlCodeType DEF UrlCode
<1>2. ASSUME NEW c \in Ascii
      PROVE  (IF c \in Unreserved THEN <<c>>
              ELSE IF c < 16 THEN <<Percent, Hex(0), Hex(c)>>
              ELSE <<Percent>> \o HexDigits(c)) = UrlCode[c]
  <2>1. CASE c < 16
    <3>1. c \div 16 = 0 /\ c % 16 = c
      BY <2>1 DEF Ascii
    <3> QED
      BY <2>1, <3>1 DEF UrlCode
  <2>2. CASE c >= 16
    <3>1. HexDigits(c) = <<Hex(c \div 16), Hex(c % 16)>>
      BY <2>2 DEF HexDigits, Ascii
    <3>2. <<Percent>> \o <<Hex(c \div 16), Hex(c % 16)>> = <<Percent, Hex(c \div 16), Hex(c % 16)>>
      <4>1. Percent \in Nat /\ Hex(c \div 16) \in Nat /\ Hex(c % 16) \in Nat
        BY UrlCodeType DEF Percent
      <4> QED
        BY <4>1, OneAndTwo
    <3>3. ~ (c < 16)
      BY <2>2 DEF Ascii
    <3> QED
      BY <3>1, <3>2, <3>3 DEF UrlCode
  <2> QED
    BY <2>1, <2>2 DEF Ascii
<1>3. ASSUME NEW u \in Seq(Ascii)
      PROVE  UrlEncode(u) = FlatMap(UrlCode, u)
  <2>1. \A i \in DOMAIN u : u[i] \in Ascii
    OBVIOUS
  <2> QED
    BY <1>2, <2>1 DEF UrlEncode, ConcatMap, FlatMap, Images
<1> QED
  BY <1>1, <1>3 DEF IsMap

\* From where the decoder waits for nothing it takes in c whole.
LEMMA UrlCodeIsRead ==
  ASSUME NEW c \in Ascii, NEW o \in Seq(Nat), NEW h \in Nat
  PROVE  LET r == Run(UrlMachine, [out |-> o, wait |-> 0, high |-> h], UrlCode[c])
         IN  r.out = Append(o, c) /\ r.wait = 0
<1> DEFINE q == [out |-> o, wait |-> 0, high |-> h]
<1>1. q \in UrlState /\ c \in Nat
  BY DEF UrlState, Ascii
<1>2. CASE c \in Unreserved
  <2>1. UrlCode[c] = <<c>> /\ c # Percent /\ c # Plus
    BY <1>2 DEF UrlCode, Unreserved, Percent, Plus
  <2>2. Run(UrlMachine, q, <<c>>) = UrlStep(q, c)
    <3> HIDE DEF q
    <3> QED
      BY <1>1, UrlMachineIs, RunOne
  <2>3. UrlStep(q, c) = [q EXCEPT !.out = Append(o, c)]
    BY <2>1 DEF UrlStep
  <2> QED
    BY <2>1, <2>2, <2>3
<1>3. CASE c \notin Unreserved
  <2> DEFINE x == c \div 16
             y == c % 16
             q1 == [out |-> o, wait |-> 2, high |-> h]
             q2 == [out |-> o, wait |-> 1, high |-> x]
             q3 == [out |-> Append(o, c), wait |-> 0, high |-> 0]
  <2>1. UrlCode[c] = <<Percent, Hex(x), Hex(y)>>
    BY <1>3 DEF UrlCode
  <2>2. /\ x \in 0..7 /\ y \in 0..15 /\ (16 * x) + y = c
        /\ Percent \in Nat /\ Hex(x) \in Nat /\ Hex(y) \in Nat
    <3>1. Percent \in Nat
      BY DEF Percent
    <3> QED
      BY <3>1, UrlCodeType
  <2> HIDE DEF x, y
  <2>3. Unhex(Hex(x)) = x /\ Unhex(Hex(y)) = y
    BY <2>2 DEF Unhex, Hex
  <2>4. q1 \in UrlState /\ q2 \in UrlState
    BY <2>2 DEF UrlState
  <2>5. UrlStep(q, Percent) = q1
    BY DEF UrlStep
  <2>6. UrlStep(q1, Hex(x)) = q2
    BY <2>3 DEF UrlStep
  <2>7. UrlStep(q2, Hex(y)) = q3
    <3>1. q2.wait = 1 /\ q2.out = o /\ 16 * q2.high + Unhex(Hex(y)) = c
      BY <2>2, <2>3
    <3> HIDE DEF q2
    <3>2. UrlStep(q2, Hex(y))
            = [out |-> Append(q2.out, 16 * q2.high + Unhex(Hex(y))), wait |-> 0, high |-> 0]
      BY <3>1 DEF UrlStep
    <3> QED
      BY <3>1, <3>2, Zenon
  <2>8. q3.out = Append(o, c) /\ q3.wait = 0
    OBVIOUS
  <2> HIDE DEF q, q1, q2, q3
  <2>9. Run(UrlMachine, q, <<Percent, Hex(x), Hex(y)>>)
          = UrlMachine[Hex(y)][UrlMachine[Hex(x)][UrlMachine[Percent][q]]]
    BY <1>1, <2>2, UrlMachineIs, RunThree
  <2>10. Run(UrlMachine, q, <<Percent, Hex(x), Hex(y)>>) = q3
    BY <1>1, <2>2, <2>4, <2>5, <2>6, <2>7, <2>9, UrlMachineIs
  <2>11. Run(UrlMachine, q, UrlCode[c]) = q3
    BY <2>1, <2>10
  <2> QED
    BY <2>8, <2>11 DEF q
<1> QED
  BY <1>2, <1>3

\* However long it is, a text of ASCII characters comes back.
LEMMA UrlRoundTrip ==
  ASSUME NEW u \in Seq(Ascii)
  PROVE  UrlDecode(UrlEncode(u)) = u
<1> DEFINE Read(v) == Run(UrlMachine, UrlStart, FlatMap(UrlCode, v))
           S == {v \in Seq(Ascii) : Read(v).out = v /\ Read(v).wait = 0}
<1>1. <<>> \in S
  <2>1. Read(<<>>) = UrlStart
    BY FlatMapEmpty, UrlMachineIs, RunEmpty
  <2> QED
    BY <2>1 DEF UrlStart
<1>2. ASSUME NEW v \in Seq(Ascii), NEW c \in Ascii, v \in S
      PROVE  Append(v, c) \in S
  <2>1. PICK code \in Seq(Nat) : code = FlatMap(UrlCode, v)
    BY UrlEncodeIsMap, FlatMapType
  <2>2. PICK codec \in Seq(Nat) : codec = UrlCode[c]
    BY UrlCodeType
  <2>3. FlatMap(UrlCode, Append(v, c)) = code \o codec
    <3>1. FlatMap(UrlCode, Append(v, c)) = FlatMap(UrlCode, v) \o UrlCode[c]
      BY UrlEncodeIsMap, FlatMapAppend
    <3> QED
      BY <2>1, <2>2, <3>1
  <2>4. PICK r \in UrlState : r = Read(v)
    BY <2>1, UrlMachineIs, RunType
  <2>5. Read(Append(v, c)) = Run(UrlMachine, r, codec)
    BY <2>1, <2>3, <2>4, UrlMachineIs, RunConcat
  <2>6. r = [out |-> v, wait |-> 0, high |-> r.high] /\ r.high \in Nat
    BY <1>2, <2>4 DEF UrlState
  <2>7. v \in Seq(Nat) /\ Append(v, c) \in Seq(Ascii)
    BY AsciiIsNat
  <2>8. Read(Append(v, c)).out = Append(v, c) /\ Read(Append(v, c)).wait = 0
    BY <2>2, <2>5, <2>6, <2>7, UrlCodeIsRead
  <2> HIDE DEF Read
  <2> QED
    BY <2>7, <2>8
<1>3. HoldsAllOf(S, Ascii)
  <2> HIDE DEF S
  <2> QED
    BY <1>1, <1>2 DEF HoldsAllOf
<1>4. u \in S
  <2> HIDE DEF S
  <2> QED
    BY <1>3, SeqInduction
<1>5. PICK code \in Seq(Nat) : code = UrlEncode(u) /\ code = FlatMap(UrlCode, u)
  BY UrlEncodeIsMap, FlatMapType
<1>6. UrlDecode(code) = Run(UrlMachine, UrlStart, code).out
  BY UrlDecodeIsRun DEF UrlDecode, UrlStart
<1> QED
  BY <1>4, <1>5, <1>6

-----------------------------------------------------------------------------
(* The name of a downloaded file                                           *)

QuotedState == [at : {"escape", "inside", "after"}, out : Seq(Nat)]
QuotedMachine == [c \in Nat |-> [r \in QuotedState |-> QuotedStep(r, c)]]
QuotedStart == [at |-> "inside", out |-> <<>>]

LEMMA QuotedMachineIs ==
  /\ IsMachine(QuotedMachine, Nat, QuotedState)
  /\ QuotedStart \in QuotedState
  /\ \A c \in Nat, r \in QuotedState : QuotedMachine[c][r] = QuotedStep(r, c)
<1>1. QuotedStart \in QuotedState
  BY DEF QuotedStart, QuotedState
<1>2. \A c \in Nat, r \in QuotedState : QuotedStep(r, c) \in QuotedState
  BY AppendProperties DEF QuotedStep, QuotedState
<1>3. \A c \in Nat, r \in QuotedState : QuotedMachine[c][r] = QuotedStep(r, c)
  BY DEF QuotedMachine
<1> QED
  BY <1>1, <1>2, <1>3 DEF IsMachine

LEMMA ReadQuotedIsRun ==
  ASSUME NEW u \in Seq(Nat)
  PROVE  FoldLeft(QuotedStep, QuotedStart, u) = Run(QuotedMachine, QuotedStart, u)
<1> DEFINE n == Len(u)
           IsItsFold(c) ==
             c = [s \in SUBSET (1..n) |->
                    IF s = {} THEN QuotedStart ELSE QuotedStep(c[s \ {Max(s)}], u[Max(s)])]
           fold == CHOOSE c : IsItsFold(c)
<1>1. n \in Nat /\ DOMAIN u = 1..n /\ \A k \in 1..n : u[k] \in Nat
  OBVIOUS
<1>2. FoldLeft(QuotedStep, QuotedStart, u) = fold[1..n]
  BY <1>1 DEF FoldLeft, MapThenFoldSet
<1> HIDE DEF n
<1>3. PICK c \in [SUBSET (1..n) -> QuotedState] : IsFold(QuotedMachine, QuotedStart, u, n, c)
  BY QuotedMachineIs, FoldExists DEF n
<1>4. ASSUME NEW s \in SUBSET (1..n), s # {}
      PROVE  QuotedMachine[u[Max(s)]][c[s \ {Max(s)}]] = QuotedStep(c[s \ {Max(s)}], u[Max(s)])
  <2>1. Max(s) \in 1..n
    BY <1>1, <1>4, MaxIsIn
  <2>2. u[Max(s)] \in Nat
    BY <1>1, <2>1
  <2>3. s \ {Max(s)} \in SUBSET (1..n)
    OBVIOUS
  <2>4. c[s \ {Max(s)}] \in QuotedState
    BY <1>3, <2>3
  <2> QED
    BY <2>2, <2>4, QuotedMachineIs
<1>5. IsItsFold(c)
  BY <1>3, <1>4, Zenon DEF IsFold
<1>6. IsItsFold(fold)
  <2> HIDE DEF IsItsFold
  <2> QED
    BY <1>5
<1> HIDE DEF fold
<1>7. fold[{}] = QuotedStart
  BY <1>6
<1>8. ASSUME NEW k \in 1..Len(u), fold[1..(k - 1)] \in QuotedState
      PROVE  fold[1..k] = QuotedMachine[u[k]][fold[1..(k - 1)]]
  <2>1. k \in Nat /\ k > 0 /\ k <= n /\ u[k] \in Nat
    BY <1>1 DEF n
  <2>2. /\ 1..k # {} /\ Max(1..k) = k /\ (1..k) \ {k} = 1..(k - 1)
        /\ 1..k \in SUBSET (1..n)
    BY <1>1, <2>1, MaxOfStart
  <2>3. fold[1..k] = QuotedStep(fold[1..(k - 1)], u[k])
    BY <1>6, <2>2
  <2> QED
    BY <1>8, <2>1, <2>3, QuotedMachineIs
<1>9. FoldsStarts(QuotedMachine, QuotedStart, u, QuotedState, fold)
  BY <1>7, <1>8 DEF FoldsStarts
<1> QED
  BY <1>2, <1>9, QuotedMachineIs, FoldIsRun DEF n

HeaderChar == {c \in Nat : c = 9 \/ (c >= 32 /\ c # 127)}
CutOut == {Quote, Cr, Lf, 0, Slash, Backslash}
Kept == HeaderChar \ CutOut

\* What SanitizeFilename leaves of one code point.
KeptCode == [c \in HeaderChar |-> IF c \notin CutOut THEN <<c>> ELSE <<>>]

LEMMA SanitizedAreKept ==
  ASSUME NEW u \in Seq(HeaderChar)
  PROVE  SanitizeFilename(u) \in Seq(Kept)
<1>1. IsMap(KeptCode, HeaderChar, Seq(Kept))
  <2>1. \A c \in Kept : <<c>> \in Seq(Kept)
    OBVIOUS
  <2> QED
    BY <2>1 DEF IsMap, KeptCode, Kept
<1>2. SanitizeFilename(u) = Take(FlatMap(KeptCode, u), 255)
  <2>1. \A i \in DOMAIN u : u[i] \in HeaderChar
    OBVIOUS
  <2>2. \A i \in DOMAIN u : KeptCode[u[i]] = IF u[i] \notin CutOut THEN <<u[i]>> ELSE <<>>
    BY <2>1 DEF KeptCode
  <2> QED
    BY <2>2 DEF SanitizeFilename, Keep, ConcatMap, FlatMap, Images, CutOut
<1>3. PICK w \in Seq(Kept) : w = FlatMap(KeptCode, u)
  BY <1>1, FlatMapType
<1>4. Take(w, 255) \in Seq(Kept)
  <2>1. PICK n \in Nat : n = IF Len(w) > 255 THEN 255 ELSE Len(w)
    OBVIOUS
  <2>2. \A i \in 1..n : w[i] \in Kept
    BY <2>1
  <2>3. SubSeq(w, 1, n) \in Seq(Kept)
    BY <2>2, SubSeqProperties
  <2> QED
    BY <2>1, <2>3 DEF Take
<1> QED
  BY <1>2, <1>3, <1>4

\* Nothing that SanitizeFilename keeps ends the name or escapes anything.
LEMMA KeptIsRead ==
  ASSUME NEW x \in Seq(Kept)
  PROVE  Run(QuotedMachine, QuotedStart, x) = [at |-> "inside", out |-> x]
<1> DEFINE S == {v \in Seq(Kept) :
                   Run(QuotedMachine, QuotedStart, v) = [at |-> "inside", out |-> v]}
<1>0. \A v \in Seq(Kept) : v \in Seq(Nat)
  <2>1. Kept \subseteq Nat
    BY DEF Kept, HeaderChar
  <2> QED
    BY <2>1, SeqsOfMore
<1>1. <<>> \in S
  <2>1. Run(QuotedMachine, QuotedStart, <<>>) = QuotedStart
    BY QuotedMachineIs, RunEmpty
  <2> QED
    BY <2>1 DEF QuotedStart
<1>2. ASSUME NEW v \in Seq(Kept), NEW c \in Kept, v \in S
      PROVE  Append(v, c) \in S
  <2>1. v \in Seq(Nat) /\ c \in Nat /\ c # Quote /\ c # Backslash
    BY <1>0 DEF Kept, HeaderChar, CutOut
  <2>2. Run(QuotedMachine, QuotedStart, Append(v, c))
          = QuotedMachine[c][Run(QuotedMachine, QuotedStart, v)]
    BY <2>1, QuotedMachineIs, RunAppend
  <2>3. PICK r \in QuotedState : r = [at |-> "inside", out |-> v]
    <3>1. [at |-> "inside", out |-> v] \in QuotedState
      BY <2>1 DEF QuotedState
    <3> QED
      BY <3>1
  <2>4. QuotedStep(r, c) = [at |-> "inside", out |-> Append(v, c)]
    BY <2>1, <2>3 DEF QuotedStep
  <2>5. Append(v, c) \in Seq(Kept)
    OBVIOUS
  <2> QED
    BY <1>2, <2>1, <2>2, <2>3, <2>4, <2>5, QuotedMachineIs
<1>3. HoldsAllOf(S, Kept)
  <2> HIDE DEF S
  <2> QED
    BY <1>1, <1>2 DEF HoldsAllOf
<1>4. x \in S
  <2> HIDE DEF S
  <2> QED
    BY <1>3, SeqInduction
<1> QED
  BY <1>4

\* However long it is, the browser reads the name to its end and no further.
LEMMA NameArrives ==
  ASSUME NEW u \in Seq(Nat), IsHeader(u)
  PROVE  LET header == Disposition(u)
         IN  /\ IsHeader(header) /\ ReadQuoted(header).at = "after"
             /\ ReadQuoted(header).out = SanitizeFilename(u)
<1>1. u \in Seq(HeaderChar)
  <2>1. u \in [1..Len(u) -> HeaderChar] /\ Len(u) \in Nat
    BY DEF IsHeader, HeaderChar
  <2> QED
    BY <2>1, SeqDef
<1>2. PICK x \in Seq(Kept) : x = SanitizeFilename(u)
  BY <1>1, SanitizedAreKept
<1>3. x \in Seq(Nat) /\ x \in Seq(HeaderChar)
  <2>1. Kept \subseteq Nat /\ Kept \subseteq HeaderChar
    BY DEF Kept, HeaderChar
  <2> QED
    BY <2>1, SeqsOfMore
<1>4. Quote \in Nat /\ Quote \in HeaderChar
  BY DEF Quote, HeaderChar
<1>5. PICK header \in Seq(HeaderChar) :
        header = Disposition(u) /\ Tail(header) = Append(x, Quote)
  BY <1>2, <1>3, <1>4, Bracketed DEF Disposition
<1>6. IsHeader(header)
  <2>1. \A i \in DOMAIN header : header[i] \in HeaderChar
    OBVIOUS
  <2> QED
    BY <2>1 DEF IsHeader, HeaderChar
<1>7. ReadQuoted(header) = Run(QuotedMachine, QuotedStart, Append(x, Quote))
  <2>1. Append(x, Quote) \in Seq(Nat)
    BY <1>3, <1>4, AppendProperties
  <2> QED
    BY <1>5, <2>1, ReadQuotedIsRun DEF ReadQuoted, QuotedStart
<1>8. PICK r \in QuotedState : r = Run(QuotedMachine, QuotedStart, x)
  BY <1>3, QuotedMachineIs, RunType
<1>9. ReadQuoted(header) = QuotedStep(r, Quote)
  BY SMTT(30), <1>3, <1>4, <1>7, <1>8, QuotedMachineIs, RunAppend
<1>10. r.at = "inside" /\ r.out = x
  BY <1>8, KeptIsRead
<1>11. QuotedStep(r, Quote) = [r EXCEPT !.at = "after"]
  BY <1>10 DEF QuotedStep, Quote, Backslash
<1>12. QuotedStep(r, Quote).at = "after" /\ QuotedStep(r, Quote).out = x
  BY <1>10, <1>11 DEF QuotedState
<1> QED
  BY <1>2, <1>5, <1>6, <1>9, <1>12

-----------------------------------------------------------------------------
(* audit.csv                                                               *)

CsvState == [at : {"start", "quoted", "closed", "plain"}, field : Seq(Nat),
             row : Seq(Seq(Nat)), rows : Seq(Seq(Seq(Nat)))]
CsvMachine == [c \in Nat |-> [r \in CsvState |-> CsvStep(r, c)]]
CsvStart == [at |-> "start", field |-> <<>>, row |-> <<>>, rows |-> <<>>]

LEMMA CsvStepType ==
  ASSUME NEW c \in Nat, NEW r \in CsvState
  PROVE  CsvStep(r, c) \in CsvState
<1>1. r.field \in Seq(Nat) /\ r.row \in Seq(Seq(Nat)) /\ r.rows \in Seq(Seq(Seq(Nat)))
  BY DEF CsvState
<1>2. Append(r.field, c) \in Seq(Nat) /\ Append(r.row, r.field) \in Seq(Seq(Nat))
  BY <1>1, AppendProperties
<1>3. Append(r.rows, Append(r.row, r.field)) \in Seq(Seq(Seq(Nat)))
  BY <1>1, <1>2, AppendProperties
<1>4. <<>> \in Seq(Nat) /\ <<>> \in Seq(Seq(Nat))
  OBVIOUS
<1> QED
  BY <1>1, <1>2, <1>3, <1>4 DEF CsvStep, CsvState

LEMMA CsvMachineIs ==
  /\ IsMachine(CsvMachine, Nat, CsvState)
  /\ CsvStart \in CsvState
  /\ \A c \in Nat, r \in CsvState : CsvMachine[c][r] = CsvStep(r, c)
<1>1. CsvStart \in CsvState
  BY DEF CsvStart, CsvState
<1>2. \A c \in Nat, r \in CsvState : CsvMachine[c][r] = CsvStep(r, c)
  BY DEF CsvMachine
<1> QED
  BY <1>1, <1>2, CsvStepType DEF IsMachine

LEMMA ReadCsvIsRun ==
  ASSUME NEW u \in Seq(Nat)
  PROVE  FoldLeft(CsvStep, CsvStart, u) = Run(CsvMachine, CsvStart, u)
<1> DEFINE n == Len(u)
           IsItsFold(c) ==
             c = [s \in SUBSET (1..n) |->
                    IF s = {} THEN CsvStart ELSE CsvStep(c[s \ {Max(s)}], u[Max(s)])]
           fold == CHOOSE c : IsItsFold(c)
<1>1. n \in Nat /\ DOMAIN u = 1..n /\ \A k \in 1..n : u[k] \in Nat
  OBVIOUS
<1>2. FoldLeft(CsvStep, CsvStart, u) = fold[1..n]
  BY <1>1 DEF FoldLeft, MapThenFoldSet
<1> HIDE DEF n
<1>3. PICK c \in [SUBSET (1..n) -> CsvState] : IsFold(CsvMachine, CsvStart, u, n, c)
  BY CsvMachineIs, FoldExists DEF n
<1>4. ASSUME NEW s \in SUBSET (1..n), s # {}
      PROVE  CsvMachine[u[Max(s)]][c[s \ {Max(s)}]] = CsvStep(c[s \ {Max(s)}], u[Max(s)])
  <2>1. Max(s) \in 1..n
    BY <1>1, <1>4, MaxIsIn
  <2>2. u[Max(s)] \in Nat
    BY <1>1, <2>1
  <2>3. s \ {Max(s)} \in SUBSET (1..n)
    OBVIOUS
  <2>4. c[s \ {Max(s)}] \in CsvState
    BY <1>3, <2>3
  <2> QED
    BY <2>2, <2>4, CsvMachineIs
<1>5. IsItsFold(c)
  BY <1>3, <1>4, Zenon DEF IsFold
<1>6. IsItsFold(fold)
  <2> HIDE DEF IsItsFold
  <2> QED
    BY <1>5
<1> HIDE DEF fold
<1>7. fold[{}] = CsvStart
  BY <1>6
<1>8. ASSUME NEW k \in 1..Len(u), fold[1..(k - 1)] \in CsvState
      PROVE  fold[1..k] = CsvMachine[u[k]][fold[1..(k - 1)]]
  <2>1. k \in Nat /\ k > 0 /\ k <= n /\ u[k] \in Nat
    BY <1>1 DEF n
  <2>2. /\ 1..k # {} /\ Max(1..k) = k /\ (1..k) \ {k} = 1..(k - 1)
        /\ 1..k \in SUBSET (1..n)
    BY <1>1, <2>1, MaxOfStart
  <2>3. fold[1..k] = CsvStep(fold[1..(k - 1)], u[k])
    BY <1>6, <2>2
  <2> QED
    BY <1>8, <2>1, <2>3, CsvMachineIs
<1>9. FoldsStarts(CsvMachine, CsvStart, u, CsvState, fold)
  BY <1>7, <1>8 DEF FoldsStarts
<1> QED
  BY <1>2, <1>9, CsvMachineIs, FoldIsRun DEF n

\* A state of the reader.
At(at, field, done, above) == [at |-> at, field |-> field, row |-> done, rows |-> above]

Special == {Comma, Quote, Lf, Cr}

\* What the reader does next.
LEMMA CsvArms ==
  ASSUME NEW c \in Nat, NEW r \in CsvState
  PROVE  /\ c = Quote =>
              /\ r.at = "start" => CsvStep(r, c) = At("quoted", r.field, r.row, r.rows)
              /\ r.at = "quoted" => CsvStep(r, c) = At("closed", r.field, r.row, r.rows)
              /\ r.at = "closed" => CsvStep(r, c) = At("quoted", Append(r.field, c), r.row, r.rows)
         /\ c # Quote /\ r.at = "quoted" =>
              CsvStep(r, c) = At("quoted", Append(r.field, c), r.row, r.rows)
         /\ c = Comma /\ r.at # "quoted" =>
              CsvStep(r, c) = At("start", <<>>, Append(r.row, r.field), r.rows)
         /\ c = Lf /\ r.at # "quoted" =>
              CsvStep(r, c) = At("start", <<>>, <<>>, Append(r.rows, Append(r.row, r.field)))
         /\ c \notin Special /\ r.at \in {"start", "plain"} =>
              CsvStep(r, c) = At("plain", Append(r.field, c), r.row, r.rows)
<1>1. Quote # Comma /\ Quote # Lf /\ Quote # Cr /\ Comma # Lf /\ Comma # Cr
  BY DEF Quote, Comma, Lf, Cr
<1>2. CASE c = Quote /\ r.at = "start"
  <2>1. CsvStep(r, c) = [r EXCEPT !.at = "quoted"]
    BY <1>1, <1>2 DEF CsvStep
  <2> QED
    BY <1>1, <1>2, <2>1 DEF At, CsvState, Special
<1>3. CASE r.at = "quoted"
  <2>1. c = Quote => CsvStep(r, c) = [r EXCEPT !.at = "closed"]
    BY <1>3 DEF CsvStep
  <2>2. c # Quote => CsvStep(r, c) = At("quoted", Append(r.field, c), r.row, r.rows)
    BY <1>3 DEF CsvStep, At
  <2> QED
    BY <1>3, <2>1, <2>2 DEF At, CsvState
<1>4. CASE c = Quote /\ r.at = "closed"
  <2>1. CsvStep(r, c) = At("quoted", Append(r.field, c), r.row, r.rows)
    BY <1>1, <1>4 DEF CsvStep, At
  <2> QED
    BY <1>1, <1>4, <2>1 DEF Special
<1>5. CASE c = Comma /\ r.at # "quoted"
  <2>1. CsvStep(r, c) = At("start", <<>>, Append(r.row, r.field), r.rows)
    BY <1>1, <1>5 DEF CsvStep, At
  <2> QED
    BY <1>1, <1>5, <2>1 DEF Special
<1>6. CASE c = Lf /\ r.at # "quoted"
  <2>1. CsvStep(r, c) = At("start", <<>>, <<>>, Append(r.rows, Append(r.row, r.field)))
    BY <1>1, <1>6 DEF CsvStep, At
  <2> QED
    BY <1>1, <1>6, <2>1 DEF Special
<1>7. CASE c \notin Special /\ r.at \in {"start", "plain"}
  <2>1. CsvStep(r, c) = At("plain", Append(r.field, c), r.row, r.rows)
    BY <1>7 DEF CsvStep, At, Special
  <2> QED
    BY <1>7, <2>1 DEF Special
<1> QED
  BY <1>1, <1>2, <1>3, <1>4, <1>5, <1>6, <1>7 DEF Special

\* Where the reader is when all of the field has been read.
HasRead(r, field, done, above) ==
  /\ r \in CsvState /\ r.at # "quoted"
  /\ r.field = field /\ r.row = done /\ r.rows = above

LEMMA AtType ==
  ASSUME NEW done \in Seq(Seq(Nat)), NEW above \in Seq(Seq(Seq(Nat))),
         NEW field \in Seq(Nat), NEW at \in {"start", "quoted", "closed", "plain"}
  PROVE  At(at, field, done, above) \in CsvState
BY DEF At, CsvState

LEMMA CsvReads ==
  ASSUME NEW r \in CsvState, NEW c \in Nat
  PROVE  /\ Run(CsvMachine, r, <<c>>) = CsvStep(r, c)
         /\ \A u \in Seq(Nat) :
              Run(CsvMachine, r, Append(u, c)) = CsvStep(Run(CsvMachine, r, u), c)
<1>1. Run(CsvMachine, r, <<c>>) = CsvMachine[c][r]
  BY CsvMachineIs, RunOne
<1>2. ASSUME NEW u \in Seq(Nat)
      PROVE  Run(CsvMachine, r, Append(u, c)) = CsvStep(Run(CsvMachine, r, u), c)
  <2>1. Run(CsvMachine, r, u) \in CsvState
    BY CsvMachineIs, RunType
  <2>2. Run(CsvMachine, r, Append(u, c)) = CsvMachine[c][Run(CsvMachine, r, u)]
    BY CsvMachineIs, RunAppend
  <2> QED
    BY <2>1, <2>2, CsvMachineIs
<1> QED
  BY <1>1, <1>2, CsvMachineIs

Doubled == [c \in Nat |-> IF c = Quote THEN <<c, c>> ELSE <<c>>]

LEMMA DoubledIsMap == IsMap(Doubled, Nat, Seq(Nat))
BY DEF IsMap, Doubled

LEMMA EscIs ==
  ASSUME NEW x \in Seq(Nat)
  PROVE  \/ Esc(x) = <<Quote>> \o FlatMap(Doubled, x) \o <<Quote>>
         \/ Esc(x) = x /\ x \in Seq(Nat \ Special)
<1>1. x \in [1..Len(x) -> Nat] /\ Len(x) \in Nat /\ DOMAIN x = 1..Len(x)
  OBVIOUS
<1>2. CASE \E i \in DOMAIN x : x[i] \in Special
  <2>1. \A i \in DOMAIN x : Doubled[x[i]] = IF x[i] = Quote THEN <<x[i], x[i]>> ELSE <<x[i]>>
    BY <1>1 DEF Doubled
  <2>2. FlatMap(Doubled, x) = ConcatMap(LAMBDA c : IF c = Quote THEN <<c, c>> ELSE <<c>>, x)
    BY <2>1 DEF FlatMap, Images, ConcatMap
  <2> QED
    BY <1>2, <2>2 DEF Esc, Special
<1>3. CASE ~ \E i \in DOMAIN x : x[i] \in Special
  <2>1. Esc(x) = x
    BY <1>3 DEF Esc, Special
  <2>2. x \in [1..Len(x) -> Nat \ Special]
    BY <1>1, <1>3
  <2>3. x \in Seq(Nat \ Special)
    BY <1>1, <2>2, SeqDef
  <2> QED
    BY <2>1, <2>3
<1> QED
  BY <1>2, <1>3

LEMMA EscType ==
  ASSUME NEW x \in Seq(Nat)
  PROVE  Esc(x) \in Seq(Nat)
<1>1. FlatMap(Doubled, x) \in Seq(Nat) /\ Quote \in Nat
  BY DoubledIsMap, FlatMapType DEF Quote
<1>2. <<Quote>> \o FlatMap(Doubled, x) \o <<Quote>> \in Seq(Nat)
  BY <1>1, Bracketed
<1> QED
  BY <1>2, EscIs

\* What is between quotes is read to its end, doubled quotes as one.
LEMMA QuotedIsRead ==
  ASSUME NEW done \in Seq(Seq(Nat)), NEW above \in Seq(Seq(Seq(Nat))), NEW x \in Seq(Nat)
  PROVE  Run(CsvMachine, At("quoted", <<>>, done, above), FlatMap(Doubled, x))
           = At("quoted", x, done, above)
<1> DEFINE q0 == At("quoted", <<>>, done, above)
           S == {v \in Seq(Nat) : Run(CsvMachine, q0, FlatMap(Doubled, v))
                                    = At("quoted", v, done, above)}
<1>0. q0 \in CsvState
  <2>1. <<>> \in Seq(Nat)
    OBVIOUS
  <2> QED
    BY <2>1, AtType
<1>1. <<>> \in S
  <2>1. Run(CsvMachine, q0, <<>>) = q0
    BY <1>0, CsvMachineIs, RunEmpty
  <2> QED
    BY <2>1, FlatMapEmpty
<1>2. ASSUME NEW v \in Seq(Nat), NEW c \in Nat, v \in S
      PROVE  Append(v, c) \in S
  <2>1. PICK text \in Seq(Nat) : text = FlatMap(Doubled, v)
    BY DoubledIsMap, FlatMapType
  <2>2. PICK code \in Seq(Nat) : code = Doubled[c]
    BY DoubledIsMap DEF IsMap
  <2>3. FlatMap(Doubled, Append(v, c)) = text \o code
    <3>1. FlatMap(Doubled, Append(v, c)) = FlatMap(Doubled, v) \o Doubled[c]
      BY DoubledIsMap, FlatMapAppend
    <3> QED
      BY <2>1, <2>2, <3>1
  <2>4. PICK r \in CsvState : r = At("quoted", v, done, above)
    BY AtType
  <2>5. Run(CsvMachine, q0, text \o code) = Run(CsvMachine, r, code)
    <3>1. r = Run(CsvMachine, q0, text)
      BY <1>2, <2>1, <2>4
    <3> HIDE DEF q0
    <3> QED
      BY <1>0, <3>1, CsvMachineIs, RunConcat
  <2>6. PICK w \in Seq(Nat) : w = Append(v, c)
    <3>1. Append(v, c) \in Seq(Nat)
      BY AppendProperties
    <3> QED
      BY <3>1
  <2>7. PICK t \in CsvState : t = At("quoted", w, done, above)
    BY AtType
  <2>8. Run(CsvMachine, r, code) = t
    <3>1. CASE c = Quote
      <4>1. code = <<c, c>>
        BY <2>2, <3>1 DEF Doubled
      <4>2. PICK m \in CsvState : m = At("closed", v, done, above)
        BY AtType
      <4>3. CsvStep(r, c) = m
        BY <2>4, <3>1, <4>2, CsvArms DEF At
      <4>4. CsvStep(m, c) = t
        BY <2>6, <2>7, <3>1, <4>2, CsvArms DEF At
      <4>5. PICK once \in Seq(Nat) : once = <<c>>
        <5>1. <<c>> \in Seq(Nat)
          OBVIOUS
        <5> QED
          BY <5>1
      <4>6. Append(once, c) = <<c, c>>
        BY <4>5, AppendTwo
      <4>7. Run(CsvMachine, r, once) = m
        BY <4>3, <4>5, CsvReads
      <4>8. Run(CsvMachine, r, Append(once, c)) = t
        <5>1. Run(CsvMachine, r, Append(once, c)) = CsvStep(Run(CsvMachine, r, once), c)
          BY CsvReads
        <5> QED
          BY <4>4, <4>7, <5>1, Zenon
      <4> QED
        BY <4>1, <4>6, <4>8
    <3>2. CASE c # Quote
      <4>1. code = <<c>>
        BY <2>2, <3>2 DEF Doubled
      <4>2. CsvStep(r, c) = t
        BY <2>4, <2>6, <2>7, <3>2, CsvArms DEF At
      <4> QED
        BY <4>1, <4>2, CsvReads
    <3> QED
      BY <3>1, <3>2
  <2> HIDE DEF q0
  <2> QED
    BY <2>3, <2>5, <2>6, <2>7, <2>8
<1>3. HoldsAllOf(S, Nat)
  <2> HIDE DEF S
  <2> QED
    BY <1>1, <1>2 DEF HoldsAllOf
<1>4. x \in S
  <2> HIDE DEF S
  <2> QED
    BY <1>3, SeqInduction
<1> QED
  BY <1>4

\* What needs no quotes is read as it is.
LEMMA PlainIsRead ==
  ASSUME NEW done \in Seq(Seq(Nat)), NEW above \in Seq(Seq(Seq(Nat))),
         NEW x \in Seq(Nat \ Special)
  PROVE  HasRead(Run(CsvMachine, At("start", <<>>, done, above), x), x, done, above)
<1> DEFINE q0 == At("start", <<>>, done, above)
           Plain == Nat \ Special
           S == {v \in Seq(Plain) : Run(CsvMachine, q0, v)
                                     \in {At("start", v, done, above), At("plain", v, done, above)}}
<1>a. \A v \in Seq(Plain) : v \in Seq(Nat)
  <2>1. Plain \subseteq Nat
    OBVIOUS
  <2> HIDE DEF Plain
  <2> QED
    BY <2>1, SeqsOfMore
<1>0. q0 \in CsvState
  <2>1. <<>> \in Seq(Nat)
    OBVIOUS
  <2> QED
    BY <2>1, AtType
<1>1. <<>> \in S
  <2>1. Run(CsvMachine, q0, <<>>) = q0
    BY <1>0, CsvMachineIs, RunEmpty
  <2>2. <<>> \in Seq(Plain)
    OBVIOUS
  <2> QED
    BY <2>1, <2>2
<1>2. ASSUME NEW v \in Seq(Plain), NEW c \in Plain, v \in S
      PROVE  Append(v, c) \in S
  <2>1. v \in Seq(Nat) /\ c \in Nat /\ c \notin Special
    BY <1>a
  <2>2. PICK r \in CsvState : r = Run(CsvMachine, q0, v)
    BY <1>0, <2>1, CsvMachineIs, RunType
  <2>3. r = At("start", v, done, above) \/ r = At("plain", v, done, above)
    BY <1>2, <2>2
  <2>4. CsvStep(r, c) = At("plain", Append(v, c), done, above)
    <3>1. /\ r.at \in {"start", "plain"} /\ r.field = v /\ r.row = done /\ r.rows = above
      BY <2>3 DEF At
    <3> QED
      BY <2>1, <3>1, CsvArms
  <2>5. Run(CsvMachine, q0, Append(v, c)) = CsvStep(r, c)
    <3> HIDE DEF q0
    <3> QED
      BY <1>0, <2>1, <2>2, CsvReads
  <2>6. Append(v, c) \in Seq(Plain)
    <3> HIDE DEF Plain
    <3> QED
      BY AppendProperties
  <2> HIDE DEF q0, Plain
  <2> QED
    BY <2>4, <2>5, <2>6
<1>3. HoldsAllOf(S, Plain)
  <2> HIDE DEF S
  <2> QED
    BY <1>1, <1>2 DEF HoldsAllOf
<1>4. x \in S
  <2> HIDE DEF S
  <2> QED
    BY <1>3, SeqInduction
<1>5. x \in Seq(Nat)
  BY <1>a
<1>6. At("start", x, done, above) \in CsvState /\ At("plain", x, done, above) \in CsvState
  BY <1>5, AtType
<1> QED
  BY <1>4, <1>6 DEF HasRead, At

LEMMA FieldIsRead ==
  ASSUME NEW done \in Seq(Seq(Nat)), NEW above \in Seq(Seq(Seq(Nat))), NEW x \in Seq(Nat)
  PROVE  HasRead(Run(CsvMachine, At("start", <<>>, done, above), Esc(x)), x, done, above)
<1>1. CASE Esc(x) = <<Quote>> \o FlatMap(Doubled, x) \o <<Quote>>
  <2>1. PICK text \in Seq(Nat) : text = FlatMap(Doubled, x)
    BY DoubledIsMap, FlatMapType
  <2>2. PICK quote \in Nat : quote = Quote
    BY DEF Quote
  <2>3. PICK open \in Seq(Nat) : open = <<quote>>
    <3>1. <<quote>> \in Seq(Nat)
      OBVIOUS
    <3> QED
      BY <3>1
  <2>4. PICK most \in Seq(Nat) : most = open \o text
    BY ConcatProperties
  <2>5. Esc(x) = Append(most, quote)
    <3>1. most \o <<quote>> = Append(most, quote)
      OBVIOUS
    <3> QED
      BY <1>1, <2>1, <2>2, <2>3, <2>4, <3>1, Zenon
  <2>6. PICK q0 \in CsvState : q0 = At("start", <<>>, done, above)
    <3>1. <<>> \in Seq(Nat)
      OBVIOUS
    <3> QED
      BY <3>1, AtType
  <2>7. PICK q1 \in CsvState : q1 = At("quoted", <<>>, done, above)
    <3>1. <<>> \in Seq(Nat)
      OBVIOUS
    <3> QED
      BY <3>1, AtType
  <2>8. PICK q2 \in CsvState : q2 = At("quoted", x, done, above)
    BY AtType
  <2>9. PICK q3 \in CsvState : q3 = At("closed", x, done, above)
    BY AtType
  <2>10. CsvStep(q0, quote) = q1
    BY <2>2, <2>6, <2>7, CsvArms DEF At
  <2>11. CsvStep(q2, quote) = q3
    BY <2>2, <2>8, <2>9, CsvArms DEF At
  <2>12. Run(CsvMachine, q0, open) = q1
    BY <2>3, <2>10, CsvReads
  <2>13. Run(CsvMachine, q1, text) = q2
    BY <2>1, <2>7, <2>8, QuotedIsRead
  <2>14. Run(CsvMachine, q0, most) = q2
    BY <2>4, <2>12, <2>13, CsvMachineIs, RunConcat
  <2>15. Run(CsvMachine, q0, Append(most, quote)) = q3
    BY <2>11, <2>14, CsvReads
  <2> QED
    BY <2>5, <2>6, <2>9, <2>15 DEF HasRead, At
<1>2. CASE Esc(x) = x /\ x \in Seq(Nat \ Special)
  BY <1>2, PlainIsRead
<1> QED
  BY <1>1, <1>2, EscIs

\* A field with the comma before it.
FieldCode == [x \in Seq(Nat) |-> <<Comma>> \o Esc(x)]

LEMMA FieldCodeType ==
  /\ IsMap(FieldCode, Seq(Nat), Seq(Nat))
  /\ \A x \in Seq(Nat) : FieldCode[x] = <<Comma>> \o Esc(x) /\ FieldCode[x] \in Seq(Nat)
<1>1. \A x \in Seq(Nat) : <<Comma>> \o Esc(x) \in Seq(Nat)
  BY EscType, Behind DEF Comma
<1> QED
  BY <1>1 DEF IsMap, FieldCode

\* At the end of a row: what is left to do is to put the last field to the others.
HasReadRow(r, done, above) ==
  r \in CsvState /\ r.at # "quoted" /\ Append(r.row, r.field) = done /\ r.rows = above

LEMMA NextFieldIsRead ==
  ASSUME NEW done \in Seq(Seq(Nat)), NEW above \in Seq(Seq(Seq(Nat))), NEW x \in Seq(Nat),
         NEW r \in CsvState, HasReadRow(r, done, above)
  PROVE  HasReadRow(Run(CsvMachine, r, FieldCode[x]), Append(done, x), above)
<1>1. PICK comma \in Nat : comma = Comma
  BY DEF Comma
<1>2. PICK open \in Seq(Nat) : open = <<comma>>
  <2>1. <<comma>> \in Seq(Nat)
    OBVIOUS
  <2> QED
    BY <2>1
<1>3. PICK text \in Seq(Nat) : text = Esc(x)
  BY EscType
<1>4. FieldCode[x] = open \o text
  BY <1>1, <1>2, <1>3, FieldCodeType
<1>5. PICK q \in CsvState : q = At("start", <<>>, done, above)
  <2>1. <<>> \in Seq(Nat)
    OBVIOUS
  <2> QED
    BY <2>1, AtType
<1>6. CsvStep(r, comma) = q
  <2>1. r.at # "quoted" /\ Append(r.row, r.field) = done /\ r.rows = above
    BY DEF HasReadRow
  <2>2. CsvStep(r, comma) = At("start", <<>>, Append(r.row, r.field), r.rows)
    BY <1>1, <2>1, CsvArms
  <2> QED
    BY <1>5, <2>1, <2>2, Zenon
<1>7. Run(CsvMachine, r, open) = q
  BY <1>2, <1>6, CsvReads
<1>8. Run(CsvMachine, r, open \o text) = Run(CsvMachine, q, text)
  BY <1>7, CsvMachineIs, RunConcat
<1>9. HasRead(Run(CsvMachine, q, text), x, done, above)
  BY <1>3, <1>5, FieldIsRead
<1> QED
  BY <1>4, <1>8, <1>9 DEF HasRead, HasReadRow

\* Reading on from a row read so far, over more fields.
LEMMA MoreFieldsAreRead ==
  ASSUME NEW done \in Seq(Seq(Nat)), NEW above \in Seq(Seq(Seq(Nat))),
         NEW r \in CsvState, HasReadRow(r, done, above), NEW more \in Seq(Seq(Nat))
  PROVE  HasReadRow(Run(CsvMachine, r, FlatMap(FieldCode, more)), done \o more, above)
<1> DEFINE S == {v \in Seq(Seq(Nat)) :
                   HasReadRow(Run(CsvMachine, r, FlatMap(FieldCode, v)), done \o v, above)}
<1>1. <<>> \in S
  <2>1. Run(CsvMachine, r, <<>>) = r
    BY CsvMachineIs, RunEmpty
  <2>2. done \o <<>> = done /\ <<>> \in Seq(Seq(Nat))
    BY ConcatEmptySeq
  <2>3. FlatMap(FieldCode, <<>>) = <<>>
    BY FlatMapEmpty
  <2> QED
    BY <2>1, <2>2, <2>3
<1>2. ASSUME NEW v \in Seq(Seq(Nat)), NEW x \in Seq(Nat), v \in S
      PROVE  Append(v, x) \in S
  <2>1. PICK text \in Seq(Nat) : text = FlatMap(FieldCode, v)
    BY FieldCodeType, FlatMapType
  <2>2. PICK code \in Seq(Nat) : code = FieldCode[x]
    BY FieldCodeType
  <2>3. FlatMap(FieldCode, Append(v, x)) = text \o code
    <3>1. FlatMap(FieldCode, Append(v, x)) = FlatMap(FieldCode, v) \o FieldCode[x]
      BY FieldCodeType, FlatMapAppend
    <3> QED
      BY <2>1, <2>2, <3>1
  <2>4. PICK q \in CsvState : q = Run(CsvMachine, r, text)
    BY CsvMachineIs, RunType
  <2>5. Run(CsvMachine, r, text \o code) = Run(CsvMachine, q, code)
    BY <2>4, CsvMachineIs, RunConcat
  <2>6. PICK before \in Seq(Seq(Nat)) : before = done \o v
    BY ConcatProperties
  <2>7. HasReadRow(q, before, above)
    BY <1>2, <2>1, <2>4, <2>6
  <2>8. HasReadRow(Run(CsvMachine, q, code), Append(before, x), above)
    BY <2>2, <2>7, NextFieldIsRead
  <2>9. done \o Append(v, x) = Append(before, x)
    <3> DEFINE Field == Seq(Nat)
    <3>1. done \in Seq(Field) /\ v \in Seq(Field) /\ x \in Field
      OBVIOUS
    <3> HIDE DEF Field
    <3>2. done \o Append(v, x) = Append(done \o v, x)
      BY SMTT(30), <3>1, ConcatThenAppend
    <3> QED
      BY <2>6, <3>2, Zenon
  <2>10. Append(v, x) \in Seq(Seq(Nat))
    BY AppendProperties
  <2> QED
    BY <2>3, <2>5, <2>8, <2>9, <2>10
<1>3. HoldsAllOf(S, Seq(Nat))
  <2> HIDE DEF S
  <2> QED
    BY <1>1, <1>2 DEF HoldsAllOf
<1>4. more \in S
  <2> HIDE DEF S
  <2> QED
    BY <1>3, SeqInduction
<1> QED
  BY <1>4

Between(above) == At("start", <<>>, <<>>, above)

\* However many fields a row has and whatever is in them, it is read as that row.
LEMMA RowIsRead ==
  ASSUME NEW above \in Seq(Seq(Seq(Nat))), NEW x \in Seq(Nat), NEW more \in Seq(Seq(Nat))
  PROVE  LET fs == <<x>> \o more
         IN  /\ CsvRow(fs) \in Seq(Nat)
             /\ Run(CsvMachine, Between(above), CsvRow(fs)) = Between(Append(above, fs))
<1>1. PICK one \in Seq(Seq(Nat)) : one = <<x>>
  <2>1. <<x>> \in Seq(Seq(Nat))
    OBVIOUS
  <2> QED
    BY <2>1
<1>2. PICK fs \in Seq(Seq(Nat)) : fs = one \o more
  BY ConcatProperties
<1>3. PICK first \in Seq(Nat) : first = Esc(x)
  BY EscType
<1>4. PICK rest \in Seq(Nat) : rest = FlatMap(FieldCode, more)
  BY FieldCodeType, FlatMapType
<1>5. PICK text \in Seq(Nat) : text = first \o rest
  BY ConcatProperties
<1>6. FlatMap(FieldCode, fs) = <<Comma>> \o text
  <2>1. FlatMap(FieldCode, fs) = FlatMap(FieldCode, one) \o FlatMap(FieldCode, more)
    BY <1>2, FieldCodeType, FlatMapConcat
  <2>2. FlatMap(FieldCode, one) = FieldCode[x]
    BY <1>1, FieldCodeType, FlatMapOne
  <2>3. FieldCode[x] = <<Comma>> \o first
    BY <1>3, FieldCodeType
  <2>4. AreSeqs(Nat, <<Comma>>, first, rest)
    BY DEF AreSeqs, Comma
  <2>5. (<<Comma>> \o first) \o rest = <<Comma>> \o (first \o rest)
    BY <2>4, Regroup3
  <2> QED
    BY <1>4, <1>5, <2>1, <2>2, <2>3, <2>5
<1>7. CsvRow(fs) = Append(text, Lf)
  <2>1. Tail(<<Comma>> \o text) = text
    <3>1. Comma \in Nat
      BY DEF Comma
    <3> QED
      BY <3>1, Behind
  <2>2. ConcatMap(LAMBDA f : <<Comma>> \o Esc(f), fs) = FlatMap(FieldCode, fs)
    <3>1. \A i \in DOMAIN fs : FieldCode[fs[i]] = <<Comma>> \o Esc(fs[i])
      BY SMTT(30), FieldCodeType
    <3> QED
      BY <3>1 DEF ConcatMap, FlatMap, Images
  <2>3. text \o <<Lf>> = Append(text, Lf)
    OBVIOUS
  <2> QED
    BY <1>6, <2>1, <2>2, <2>3 DEF CsvRow
<1>8. PICK q \in CsvState : q = Between(above)
  <2>1. <<>> \in Seq(Nat) /\ <<>> \in Seq(Seq(Nat))
    OBVIOUS
  <2> QED
    BY <2>1, AtType DEF Between
<1>9. PICK r \in CsvState : r = Run(CsvMachine, q, first)
  BY CsvMachineIs, RunType
<1>10. HasReadRow(r, one, above)
  <2>1. <<>> \in Seq(Seq(Nat)) /\ Append(<<>>, x) = <<x>>
    OBVIOUS
  <2>2. HasRead(r, x, <<>>, above)
    BY <1>3, <1>8, <1>9, <2>1, FieldIsRead DEF Between
  <2> QED
    BY <1>1, <2>1, <2>2 DEF HasRead, HasReadRow
<1>11. PICK s \in CsvState : s = Run(CsvMachine, r, rest)
  BY CsvMachineIs, RunType
<1>12. HasReadRow(s, fs, above)
  BY <1>2, <1>4, <1>10, <1>11, MoreFieldsAreRead
<1>13. Run(CsvMachine, q, text) = s
  BY <1>5, <1>9, <1>11, CsvMachineIs, RunConcat
<1>14. PICK lf \in Nat : lf = Lf
  BY DEF Lf
<1>15. CsvStep(s, lf) = Between(Append(above, fs))
  BY <1>12, <1>14, CsvArms DEF HasReadRow, Between
<1>16. Run(CsvMachine, q, Append(text, lf)) = CsvStep(s, lf)
  BY <1>13, CsvReads
<1>17. Append(text, lf) \in Seq(Nat)
  BY AppendProperties
<1> QED
  BY <1>1, <1>2, <1>7, <1>8, <1>14, <1>15, <1>16, <1>17

\* Two rows are two rows.
LEMMA TwoRowsAreRead ==
  ASSUME NEW x \in Seq(Nat), NEW more \in Seq(Seq(Nat))
  PROVE  LET fs == <<x>> \o more
         IN  ReadCsv(CsvRow(fs) \o CsvRow(fs)) = <<fs, fs>>
<1>1. PICK fs \in Seq(Seq(Nat)) : fs = <<x>> \o more
  <2>1. <<x>> \in Seq(Seq(Nat))
    OBVIOUS
  <2> QED
    BY <2>1, ConcatProperties
<1>2. PICK none \in Seq(Seq(Seq(Nat))) : none = <<>>
  <2>1. <<>> \in Seq(Seq(Seq(Nat)))
    OBVIOUS
  <2> QED
    BY <2>1
<1>3. PICK once \in Seq(Seq(Seq(Nat))) : once = Append(none, fs)
  <2>1. Append(none, fs) \in Seq(Seq(Seq(Nat)))
    BY AppendProperties
  <2> QED
    BY <2>1
<1>4. PICK text \in Seq(Nat) : text = CsvRow(fs)
  BY <1>1, <1>2, RowIsRead
<1>5. Between(none) \in CsvState /\ Between(once) \in CsvState
  <2>1. <<>> \in Seq(Nat) /\ <<>> \in Seq(Seq(Nat))
    OBVIOUS
  <2> QED
    BY <2>1, AtType DEF Between
<1>6. Run(CsvMachine, Between(none), text) = Between(once)
  BY <1>1, <1>3, <1>4, RowIsRead
<1>7. Run(CsvMachine, Between(once), text) = Between(Append(once, fs))
  BY <1>1, <1>4, RowIsRead
<1>8. Run(CsvMachine, Between(none), text \o text) = Between(Append(once, fs))
  BY <1>5, <1>6, <1>7, CsvMachineIs, RunConcat
<1>9. Between(none) = CsvStart
  BY <1>2 DEF Between, At, CsvStart
<1>10. text \o text \in Seq(Nat)
  BY ConcatProperties
<1>11. ReadCsv(text \o text) = Run(CsvMachine, CsvStart, text \o text).rows
  BY <1>10, ReadCsvIsRun DEF ReadCsv, CsvStart
<1>12. Between(Append(once, fs)).rows = Append(once, fs)
  BY DEF Between, At
<1>13. Append(once, fs) = <<fs, fs>>
  <2>1. once = <<fs>>
    BY <1>2, <1>3
  <2> QED
    BY <2>1, AppendTwo
<1> QED
  BY <1>1, <1>4, <1>8, <1>9, <1>11, <1>12, <1>13

-----------------------------------------------------------------------------
(* The session cookie                                                      *)

SplitState == Seq(Seq(Nat)) \ {<<>>}
SplitMachine == [c \in Nat |-> [r \in SplitState |-> SplitStep(r, c, Semicolon)]]

LEMMA SplitMachineIs ==
  /\ IsMachine(SplitMachine, Nat, SplitState)
  /\ <<<<>>>> \in SplitState
  /\ \A c \in Nat, r \in SplitState : SplitMachine[c][r] = SplitStep(r, c, Semicolon)
<1>1. <<<<>>>> \in SplitState
  BY DEF SplitState
<1>2. ASSUME NEW c \in Nat, NEW r \in SplitState
      PROVE  SplitStep(r, c, Semicolon) \in SplitState
  <2>1. Front(r) \in Seq(Seq(Nat)) /\ Last(r) \in Seq(Nat)
    BY FrontAndLast DEF SplitState
  <2>2. Append(Last(r), c) \in Seq(Nat) /\ <<>> \in Seq(Nat)
    BY <2>1, AppendProperties
  <2>3. Append(Front(r), Append(Last(r), c)) \in SplitState /\ Append(r, <<>>) \in SplitState
    <3>1. r \in Seq(Seq(Nat))
      BY DEF SplitState
    <3>2. Append(r, <<>>) \in Seq(Seq(Nat)) /\ Append(r, <<>>) # <<>>
      BY <2>2, <3>1, AppendProperties
    <3>3. PICK most \in Seq(Seq(Nat)) : most = Front(r)
      BY <2>1
    <3>4. PICK last \in Seq(Nat) : last = Append(Last(r), c)
      BY <2>2
    <3>5. Append(most, last) \in Seq(Seq(Nat)) /\ Append(most, last) # <<>>
      BY AppendProperties
    <3> QED
      BY <3>2, <3>3, <3>4, <3>5 DEF SplitState
  <2> QED
    BY <2>3 DEF SplitStep
<1>3. \A c \in Nat, r \in SplitState : SplitMachine[c][r] = SplitStep(r, c, Semicolon)
  BY DEF SplitMachine
<1> QED
  BY <1>1, <1>2, <1>3 DEF IsMachine

LEMMA SplitIsRun ==
  ASSUME NEW u \in Seq(Nat)
  PROVE  Split(u, Semicolon) = Run(SplitMachine, <<<<>>>>, u)
<1> DEFINE n == Len(u)
           IsItsFold(c) ==
             c = [s \in SUBSET (1..n) |->
                    IF s = {} THEN <<<<>>>> ELSE SplitStep(c[s \ {Max(s)}], u[Max(s)], Semicolon)]
           fold == CHOOSE c : IsItsFold(c)
<1>1. n \in Nat /\ DOMAIN u = 1..n /\ \A k \in 1..n : u[k] \in Nat
  OBVIOUS
<1>2. Split(u, Semicolon) = fold[1..n]
  BY <1>1 DEF Split, FoldLeft, MapThenFoldSet
<1> HIDE DEF n
<1>3. PICK c \in [SUBSET (1..n) -> SplitState] : IsFold(SplitMachine, <<<<>>>>, u, n, c)
  BY SplitMachineIs, FoldExists DEF n
<1>4. ASSUME NEW s \in SUBSET (1..n), s # {}
      PROVE  SplitMachine[u[Max(s)]][c[s \ {Max(s)}]] = SplitStep(c[s \ {Max(s)}], u[Max(s)], Semicolon)
  <2>1. Max(s) \in 1..n
    BY <1>1, <1>4, MaxIsIn
  <2>2. u[Max(s)] \in Nat
    BY <1>1, <2>1
  <2>3. s \ {Max(s)} \in SUBSET (1..n)
    OBVIOUS
  <2>4. c[s \ {Max(s)}] \in SplitState
    BY <1>3, <2>3
  <2> QED
    BY <2>2, <2>4, SplitMachineIs
<1>5. IsItsFold(c)
  BY <1>3, <1>4, Zenon DEF IsFold
<1>6. IsItsFold(fold)
  <2> HIDE DEF IsItsFold
  <2> QED
    BY <1>5
<1> HIDE DEF fold
<1>7. fold[{}] = <<<<>>>>
  BY <1>6
<1>8. ASSUME NEW k \in 1..Len(u), fold[1..(k - 1)] \in SplitState
      PROVE  fold[1..k] = SplitMachine[u[k]][fold[1..(k - 1)]]
  <2>1. k \in Nat /\ k > 0 /\ k <= n /\ u[k] \in Nat
    BY <1>1 DEF n
  <2>2. /\ 1..k # {} /\ Max(1..k) = k /\ (1..k) \ {k} = 1..(k - 1)
        /\ 1..k \in SUBSET (1..n)
    BY <1>1, <2>1, MaxOfStart
  <2>3. fold[1..k] = SplitStep(fold[1..(k - 1)], u[k], Semicolon)
    BY <1>6, <2>2
  <2> QED
    BY <1>8, <2>1, <2>3, SplitMachineIs
<1>9. FoldsStarts(SplitMachine, <<<<>>>>, u, SplitState, fold)
  BY <1>7, <1>8 DEF FoldsStarts
<1> QED
  BY <1>2, <1>9, SplitMachineIs, FoldIsRun DEF n

\* What stands behind a separator is a part of its own.
LEMMA LastPart ==
  ASSUME NEW t \in Seq(Nat), NEW w \in Seq(Nat \ {Semicolon})
  PROVE  /\ Split(t, Semicolon) \in Seq(Seq(Nat))
         /\ Split(Append(t, Semicolon) \o w, Semicolon) = Append(Split(t, Semicolon), w)
<1>1. PICK q \in SplitState : q = Split(t, Semicolon) /\ q = Run(SplitMachine, <<<<>>>>, t)
  BY SplitMachineIs, RunType, SplitIsRun
<1>2. q \in Seq(Seq(Nat))
  BY DEF SplitState
<1>3. PICK semicolon \in Nat : semicolon = Semicolon
  BY DEF Semicolon
<1>4. PICK ts \in Seq(Nat) : ts = Append(t, semicolon)
  <2>1. Append(t, semicolon) \in Seq(Nat)
    BY AppendProperties
  <2> QED
    BY <2>1
<1>5. PICK q0 \in SplitState : q0 = Append(q, <<>>)
  <2>1. <<>> \in Seq(Nat)
    OBVIOUS
  <2>2. Append(q, <<>>) \in Seq(Seq(Nat)) /\ Append(q, <<>>) # <<>>
    BY <1>2, <2>1, AppendProperties
  <2>3. Append(q, <<>>) \in SplitState
    BY <2>2 DEF SplitState
  <2> QED
    BY <2>3
<1>6. Run(SplitMachine, <<<<>>>>, ts) = q0
  <2>1. Run(SplitMachine, <<<<>>>>, Append(t, semicolon)) = SplitMachine[semicolon][q]
    BY <1>1, SplitMachineIs, RunAppend
  <2>2. SplitMachine[semicolon][q] = SplitStep(q, semicolon, Semicolon)
    BY SplitMachineIs
  <2> QED
    BY <1>3, <1>4, <1>5, <2>1, <2>2 DEF SplitStep
<1> DEFINE Other == Nat \ {Semicolon}
           S == {v \in Seq(Other) : Run(SplitMachine, q0, v) = Append(q, v)}
<1>a. \A v \in Seq(Other) : v \in Seq(Nat)
  <2>1. Other \subseteq Nat
    OBVIOUS
  <2> HIDE DEF Other
  <2> QED
    BY <2>1, SeqsOfMore
<1>7. <<>> \in S
  <2>1. Run(SplitMachine, q0, <<>>) = q0
    BY SplitMachineIs, RunEmpty
  <2>2. <<>> \in Seq(Other)
    OBVIOUS
  <2> QED
    BY <1>5, <2>1, <2>2
<1>8. ASSUME NEW v \in Seq(Other), NEW c \in Other, v \in S
      PROVE  Append(v, c) \in S
  <2>1. v \in Seq(Nat) /\ c \in Nat /\ c # Semicolon
    BY <1>a
  <2>2. PICK r \in SplitState : r = Run(SplitMachine, q0, v)
    BY <2>1, SplitMachineIs, RunType
  <2>3. r = Append(q, v)
    BY <1>8, <2>2
  <2>4. Front(r) = q /\ Last(r) = v
    BY <1>2, <2>1, <2>3, OfAppend
  <2>5. SplitStep(r, c, Semicolon) = Append(q, Append(v, c))
    BY <2>1, <2>4 DEF SplitStep
  <2>6. Run(SplitMachine, q0, Append(v, c)) = SplitMachine[c][r]
    BY <2>1, <2>2, SplitMachineIs, RunAppend
  <2>7. Append(v, c) \in Seq(Other)
    <3> HIDE DEF Other
    <3> QED
      BY AppendProperties
  <2>8. SplitMachine[c][r] = SplitStep(r, c, Semicolon)
    BY <2>1, SplitMachineIs
  <2> QED
    BY <2>5, <2>6, <2>7, <2>8
<1>9. HoldsAllOf(S, Other)
  <2> HIDE DEF S, Other
  <2> QED
    BY <1>7, <1>8 DEF HoldsAllOf
<1>10. w \in S
  <2> HIDE DEF S
  <2> QED
    BY <1>9, SeqInduction
<1>11. PICK v \in Seq(Nat) : v = w
  BY <1>a
<1>12. Run(SplitMachine, <<<<>>>>, ts \o v) = Run(SplitMachine, q0, v)
  BY <1>6, SplitMachineIs, RunConcat
<1>13. ts \o v \in Seq(Nat)
  BY ConcatProperties
<1>14. Split(ts \o v, Semicolon) = Run(SplitMachine, <<<<>>>>, ts \o v)
  BY <1>13, SplitIsRun
<1> QED
  BY <1>1, <1>2, <1>3, <1>4, <1>10, <1>11, <1>12, <1>14

\* What a token is made of: neither a space nor what ends a cookie.
TokenChar == (33..126) \ {Semicolon}
Visible == (32..126) \cup {9}

LEMMA TrimSpaceBefore ==
  ASSUME NEW p \in Seq(TokenChar), p # <<>>
  PROVE  <<Space>> \o p \in Seq(Visible) /\ Trim(<<Space>> \o p) = p
<1>1. PICK v \in Seq(Visible) : v = p
  <2>1. TokenChar \subseteq Visible
    BY DEF TokenChar, Visible
  <2> QED
    BY <2>1, SeqsOfMore
<1>2. PICK n \in Nat : n = Len(p) /\ n >= 1
  OBVIOUS
<1>3. PICK space \in Visible : space = Space
  BY DEF Space, Visible
<1>4. PICK o \in Seq(Visible) : o = <<space>> /\ Len(o) = 1 /\ o[1] = space
  <2>1. <<space>> \in Seq(Visible) /\ Len(<<space>>) = 1 /\ <<space>>[1] = space
    OBVIOUS
  <2> QED
    BY <2>1
<1>5. PICK s \in Seq(Visible) : /\ s = o \o v /\ Len(s) = n + 1 /\ s[1] = space
                               /\ \A i \in 2..(n + 1) : s[i] = p[i - 1]
  <2>1. /\ o \o v \in Seq(Visible) /\ Len(o \o v) = n + 1 /\ (o \o v)[1] = space
        /\ \A i \in 2..(n + 1) : (o \o v)[i] = v[i - 1]
    BY <1>1, <1>2, <1>4, ConcatProperties
  <2> QED
    BY <1>1, <2>1
<1>6. {i \in DOMAIN s : s[i] \notin {9, Lf, Cr, Space}} = 2..(n + 1)
  <2>1. DOMAIN s = 1..(n + 1)
    BY <1>5
  <2>2. ASSUME NEW i \in 2..(n + 1)
        PROVE  s[i] \notin {9, Lf, Cr, Space} /\ i \in 1..(n + 1)
    <3>1. i - 1 \in 1..Len(p)
      BY <1>2
    <3>2. p[i - 1] \in TokenChar
      BY <3>1
    <3>3. s[i] \in TokenChar
      BY <1>5, <3>2
    <3>4. \A x \in TokenChar : x \notin {9, Lf, Cr, Space}
      BY DEF TokenChar, Lf, Cr, Space
    <3>5. i \in 1..(n + 1)
      OBVIOUS
    <3> QED
      BY <3>3, <3>4, <3>5
  <2>3. \A i \in 1..(n + 1) : i = 1 \/ i \in 2..(n + 1)
    OBVIOUS
  <2>4. s[1] \in {9, Lf, Cr, Space}
    BY <1>3, <1>5
  <2>5. 1 \notin 2..(n + 1)
    OBVIOUS
  <2> QED
    BY <2>1, <2>2, <2>3, <2>4, <2>5, Zenon
<1>7. 2 \in 2..(n + 1) /\ n + 1 \in 2..(n + 1)
  <2>1. 2 \in Nat /\ n + 1 \in Nat /\ 2 <= n + 1
    BY <1>2
  <2> QED
    BY <2>1
<1>8. (CHOOSE i \in 2..(n + 1) : \A j \in 2..(n + 1) : i <= j) = 2
  BY <1>7
<1>9. (CHOOSE i \in 2..(n + 1) : \A j \in 2..(n + 1) : i >= j) = n + 1
  BY <1>7
<1>10. Trim(s) = SubSeq(s, 2, n + 1)
  BY <1>6, <1>7, <1>8, <1>9, Zenon DEF Trim
<1>11. Tail(s) = v /\ Tail(s) = SubSeq(s, 2, Len(s))
  <2>1. s # <<>>
    BY <1>2, <1>5
  <2> QED
    BY <1>4, <1>5, <2>1, Behind, TailIsSubSeq
<1> QED
  BY <1>1, <1>3, <1>4, <1>5, <1>10, <1>11

\* Whatever cookies come before it, and however long the token is.
LEMMA SessionIsFound ==
  ASSUME NEW others \in Seq(Visible), NEW token \in Seq(TokenChar),
         \A i \in DOMAIN Split(others, Semicolon) :
           ~ IsPrefix(Append(SessionCookie, Equals), Trim(Split(others, Semicolon)[i]))
  PROVE  CookieValue(CookieHeader(others, token), SessionCookie) = token
<1>0. Visible \subseteq Nat /\ TokenChar \subseteq Visible /\ TokenChar \subseteq Nat
      /\ TokenChar \subseteq Nat \ {Semicolon}
  BY DEF Visible, TokenChar, Semicolon
<1>1. PICK pre \in Seq(TokenChar) :
        pre = Append(SessionCookie, Equals) /\ pre = SessionCookie \o <<Equals>> /\ Len(pre) = 2
  <2>1. 115 \in TokenChar /\ Equals \in TokenChar
    BY DEF TokenChar, Equals, Semicolon
  <2>2. <<115>> \o <<Equals>> = <<115, Equals>>
    BY <2>1, OneAndOne
  <2>3. Append(<<115>>, Equals) = <<115, Equals>>
    BY <2>1, AppendTwo
  <2>4. <<115, Equals>> \in Seq(TokenChar) /\ Len(<<115, Equals>>) = 2
    BY <2>1
  <2> QED
    BY <2>2, <2>3, <2>4 DEF SessionCookie
<1>2. PICK part \in Seq(TokenChar) : part = pre \o token /\ Len(part) >= 2
  <2>1. pre \o token \in Seq(TokenChar) /\ Len(pre \o token) = 2 + Len(token)
    BY <1>1, ConcatProperties
  <2>2. Len(token) \in Nat
    OBVIOUS
  <2>3. Len(pre \o token) >= 2
    BY <2>1, <2>2
  <2> QED
    BY <2>1, <2>3, Zenon
<1>3. part # <<>>
  BY <1>2
<1>4. PICK w \in Seq(Visible) : w = <<Space>> \o part /\ Trim(w) = part
  BY <1>3, TrimSpaceBefore
<1>5. w \in Seq(Nat \ {Semicolon})
  <2>1. Space \in Nat \ {Semicolon}
    BY DEF Space, Semicolon
  <2>2. part \in Seq(Nat \ {Semicolon})
    BY <1>0, SeqsOfMore
  <2> QED
    BY <1>4, <2>1, <2>2, Behind
<1>6. PICK t \in Seq(Nat) : t = others
  BY <1>0, SeqsOfMore
<1>7. PICK header : header = CookieHeader(others, token) /\ header = Append(others, Semicolon) \o w
                    /\ header \in Seq(Visible)
  <2>1. PICK semicolon \in Visible : semicolon = Semicolon
    BY DEF Semicolon, Visible
  <2>2. PICK space \in Visible : space = Space
    BY DEF Space, Visible
  <2>3. PICK b \in Seq(Visible) : b = <<semicolon>>
    <3>1. <<semicolon>> \in Seq(Visible)
      OBVIOUS
    <3> QED
      BY <3>1
  <2>4. PICK c \in Seq(Visible) : c = <<space>>
    <3>1. <<space>> \in Seq(Visible)
      OBVIOUS
    <3> QED
      BY <3>1
  <2>5. PICK d \in Seq(Visible) : d = SessionCookie
    <3>1. 115 \in Visible
      BY DEF Visible
    <3>2. <<115>> \in Seq(Visible)
      BY <3>1
    <3> QED
      BY <3>2 DEF SessionCookie
  <2>6. PICK e \in Seq(Visible) : e = <<Equals>>
    <3>1. Equals \in Visible
      BY DEF Equals, Visible
    <3>2. <<Equals>> \in Seq(Visible)
      BY <3>1
    <3> QED
      BY <3>2
  <2>7. PICK f \in Seq(Visible) : f = token
    BY <1>0, SeqsOfMore
  <2>8. AreSix(Visible, others, b, c, d, e, f)
    BY DEF AreSeqs, AreSix
  <2>9. (((others \o (b \o c)) \o d) \o e) \o f = (others \o b) \o (c \o ((d \o e) \o f))
    <3>1. SixRegrouped(others, b, c, d, e, f)
      BY <2>8, RegroupSix
    <3> QED
      BY <3>1, Zenon DEF SixRegrouped
  <2>10. b \o c = <<semicolon, space>>
    BY <2>3, <2>4, OneAndOne
  <2>11. CookieHeader(others, token) = (((others \o (b \o c)) \o d) \o e) \o f
    BY <2>1, <2>2, <2>5, <2>6, <2>7, <2>10, Zenon DEF CookieHeader
  <2>12. (d \o e) \o f = part
    BY <1>1, <1>2, <2>5, <2>6, <2>7, Zenon
  <2>13. c \o part = w
    BY <1>4, <2>2, <2>4, Zenon
  <2>14. others \o b = Append(others, semicolon)
    BY <2>3
  <2>15. Append(others, semicolon) \in Seq(Visible)
    BY AppendProperties
  <2>16. Append(others, semicolon) \o w \in Seq(Visible)
    BY <2>15, ConcatProperties
  <2>17. CookieHeader(others, token) = Append(others, semicolon) \o w
    BY <2>9, <2>11, <2>12, <2>13, <2>14, Zenon
  <2> QED
    BY <2>1, <2>16, <2>17
<1>8. PICK ps \in Seq(Seq(Nat)) : ps = Split(others, Semicolon)
  BY <1>5, <1>6, LastPart
<1>9. Split(header, Semicolon) = Append(ps, w)
  BY <1>5, <1>6, <1>7, <1>8, LastPart
<1>10. PICK n \in Nat : n = Len(ps)
  OBVIOUS
<1>11. PICK wn \in Seq(Nat) : wn = w
  BY <1>0, SeqsOfMore
<1>12. PICK all \in Seq(Seq(Nat)) : /\ all = Append(ps, w) /\ DOMAIN all = 1..(n + 1)
                                   /\ all[n + 1] = w /\ \A i \in 1..n : all[i] = ps[i]
  <2>1. /\ Append(ps, wn) \in Seq(Seq(Nat)) /\ Len(Append(ps, wn)) = n + 1
        /\ Append(ps, wn)[n + 1] = wn /\ \A i \in 1..n : Append(ps, wn)[i] = ps[i]
    BY <1>10, AppendProperties
  <2>2. DOMAIN Append(ps, wn) = 1..(n + 1)
    BY <2>1
  <2> QED
    BY <1>11, <2>1, <2>2
<1>13. CookieParts(header) = [i \in 1..(n + 1) |-> Trim(all[i])]
  BY <1>9, <1>12 DEF CookieParts
<1>14. PICK parts : /\ parts = CookieParts(header) /\ DOMAIN parts = 1..(n + 1)
                    /\ parts[n + 1] = part /\ \A i \in 1..n : parts[i] = Trim(ps[i])
  <2> DEFINE g == [i \in 1..(n + 1) |-> Trim(all[i])]
  <2>1. n + 1 \in 1..(n + 1) /\ \A i \in 1..n : i \in 1..(n + 1)
    OBVIOUS
  <2>2. g[n + 1] = Trim(w)
    BY <1>12, <2>1
  <2>3. \A i \in 1..n : g[i] = Trim(ps[i])
    BY <1>12, <2>1
  <2>4. DOMAIN g = 1..(n + 1)
    OBVIOUS
  <2> HIDE DEF g
  <2> QED
    BY <1>4, <1>13, <2>2, <2>3, <2>4 DEF g
<1>15. {i \in DOMAIN parts : IsCookie(parts[i], SessionCookie)} = {n + 1}
  <2>1. ASSUME NEW i \in 1..n
        PROVE  ~ IsCookie(parts[i], SessionCookie)
    <3>1. i \in DOMAIN ps
      BY <1>10
    <3>2. ~ IsPrefix(Append(SessionCookie, Equals), Trim(ps[i]))
      BY <1>8, <3>1
    <3> QED
      BY <1>14, <3>2 DEF IsCookie
  <2>2. IsCookie(parts[n + 1], SessionCookie)
    <3>1. Len(pre) <= Len(pre \o token) /\ SubSeq(pre \o token, 1, Len(pre)) = pre
      BY StartOfConcat
    <3>2. SubSeq(pre, 1, Len(pre)) = pre
      OBVIOUS
    <3>3. IsPrefix(pre, part)
      BY <1>2, <3>1, <3>2 DEF IsPrefix
    <3> QED
      BY <1>1, <1>14, <3>3 DEF IsCookie
  <2>3. \A i \in 1..(n + 1) : i = n + 1 \/ i \in 1..n
    OBVIOUS
  <2>4. n + 1 \in 1..(n + 1) /\ \A i \in 1..n : i \in 1..(n + 1)
    OBVIOUS
  <2> QED
    BY <1>14, <2>1, <2>2, <2>3, <2>4, Zenon
<1>16. (CHOOSE i \in {n + 1} : \A j \in {n + 1} : i <= j) = n + 1
  BY LeastOfOne, Zenon
<1>17. IsVisible(header)
  <2>1. \A i \in DOMAIN header : header[i] \in Visible
    BY <1>7
  <2> QED
    BY <2>1, Zenon DEF IsVisible, Visible
<1>18. Len(SessionCookie) + 2 = Len(pre) + 1
  BY <1>1 DEF SessionCookie
<1>19. SubSeq(part, Len(pre) + 1, Len(part)) = token
  BY <1>2, EndOfConcat
<1>20. CookieValue(header, SessionCookie)
         = SubSeq(parts[n + 1], Len(SessionCookie) + 2, Len(parts[n + 1]))
  <2>1. {n + 1} # {}
    OBVIOUS
  <2> QED
    BY <1>14, <1>15, <1>16, <1>17, <2>1, Zenon DEF CookieValue
<1> QED
  BY <1>7, <1>14, <1>18, <1>19, <1>20

-----------------------------------------------------------------------------
(* The audit page and audit.csv                                            *)

Entry == [at : Nat, event : Filter]
PlacedOf(u) == [i \in DOMAIN u |-> [at |-> i, event |-> u[i]]]
PickCode(filter) == [e \in Entry |-> IF Matches(e.event, filter) THEN <<e>> ELSE <<>>]
Picked(u, filter) == FlatMap(PickCode(filter), PlacedOf(u))
MatchingIn(u, filter) == {i \in DOMAIN u : Matches(u[i], filter)}

\* es has the events at the places in M, in order.
ListsAll(es, M) ==
  /\ es \in Seq(Entry)
  /\ \A k \in DOMAIN es : es[k].at \in M
  /\ \A i \in M : \E k \in DOMAIN es : es[k].at = i
  /\ \A k, l \in DOMAIN es : k < l => es[k].at < es[l].at

LEMMA PickCodeType ==
  ASSUME NEW filter
  PROVE  IsMap(PickCode(filter), Entry, Seq(Entry))
BY DEF IsMap, PickCode

LEMMA PlacedType ==
  ASSUME NEW u \in Seq(Filter)
  PROVE  /\ PlacedOf(u) \in Seq(Entry) /\ Len(PlacedOf(u)) = Len(u)
         /\ \A i \in 1..Len(u) : PlacedOf(u)[i] = [at |-> i, event |-> u[i]]
<1>1. DOMAIN u = 1..Len(u) /\ Len(u) \in Nat /\ \A i \in 1..Len(u) : u[i] \in Filter
  OBVIOUS
<1>2. \A i \in 1..Len(u) : [at |-> i, event |-> u[i]] \in Entry
  BY <1>1 DEF Entry
<1> QED
  BY <1>1, <1>2, IsASeq DEF PlacedOf

LEMMA OneMoreEntry ==
  ASSUME NEW es, NEW M, ListsAll(es, M), NEW e \in Entry, \A i \in M : i < e.at
  PROVE  ListsAll(Append(es, e), M \cup {e.at})
<1>1. PICK n \in Nat : n = Len(es) /\ DOMAIN es = 1..n
  BY DEF ListsAll
<1>2. PICK fs \in Seq(Entry) : /\ fs = Append(es, e) /\ DOMAIN fs = 1..(n + 1)
                              /\ fs[n + 1] = e /\ \A k \in 1..n : fs[k] = es[k]
  <2>1. es \in Seq(Entry)
    BY DEF ListsAll
  <2>2. /\ Append(es, e) \in Seq(Entry) /\ Len(Append(es, e)) = n + 1
        /\ Append(es, e)[n + 1] = e /\ \A k \in 1..n : Append(es, e)[k] = es[k]
    BY <1>1, <2>1, AppendProperties
  <2>3. DOMAIN Append(es, e) = 1..(n + 1)
    BY <2>2
  <2> QED
    BY <2>2, <2>3
<1>3. \A k \in 1..(n + 1) : k = n + 1 \/ k \in 1..n
  OBVIOUS
<1>4. n + 1 \in 1..(n + 1) /\ \A k \in 1..n : k \in 1..(n + 1)
  OBVIOUS
<1>5. \A k \in 1..n : es[k].at \in M
  BY <1>1 DEF ListsAll
<1>6. \A i \in M : \E k \in 1..n : es[k].at = i
  BY <1>1 DEF ListsAll
<1>7. \A k, l \in 1..n : k < l => es[k].at < es[l].at
  BY <1>1 DEF ListsAll
<1>8. \A k \in 1..(n + 1) : fs[k].at \in M \cup {e.at}
  BY <1>2, <1>3, <1>5
<1>9. \A i \in M \cup {e.at} : \E k \in 1..(n + 1) : fs[k].at = i
  BY <1>2, <1>4, <1>6
<1>10. ASSUME NEW k \in 1..(n + 1), NEW l \in 1..(n + 1), k < l
       PROVE  fs[k].at < fs[l].at
  <2>1. k \in 1..n
    BY <1>10
  <2>2. CASE l \in 1..n
    BY <1>2, <1>7, <1>10, <2>1, <2>2
  <2>3. CASE l = n + 1
    BY <1>2, <1>5, <2>1, <2>3
  <2> QED
    BY <1>3, <2>2, <2>3
<1> QED
  BY <1>2, <1>8, <1>9, <1>10 DEF ListsAll

\* However long the log is, the filter leaves the matching events, in order.
LEMMA PickedAreMatching ==
  ASSUME NEW filter, NEW u \in Seq(Filter)
  PROVE  ListsAll(Picked(u, filter), MatchingIn(u, filter))
<1> DEFINE S == {v \in Seq(Filter) : ListsAll(Picked(v, filter), MatchingIn(v, filter))}
<1>1. <<>> \in S
  <2>1. PlacedOf(<<>>) = <<>> /\ MatchingIn(<<>>, filter) = {} /\ <<>> \in Seq(Filter)
    BY DEF PlacedOf, MatchingIn
  <2>2. Picked(<<>>, filter) = <<>>
    BY <2>1, FlatMapEmpty DEF Picked
  <2>3. ListsAll(<<>>, {})
    BY DEF ListsAll
  <2> QED
    BY <2>1, <2>2, <2>3
<1>2. ASSUME NEW v \in Seq(Filter), NEW x \in Filter, v \in S
      PROVE  Append(v, x) \in S
  <2>1. PICK n \in Nat : n = Len(v) /\ DOMAIN v = 1..n
    OBVIOUS
  <2>2. PICK w \in Seq(Filter) : /\ w = Append(v, x) /\ Len(w) = n + 1 /\ DOMAIN w = 1..(n + 1)
                                 /\ w[n + 1] = x /\ \A i \in 1..n : w[i] = v[i]
    <3>1. /\ Append(v, x) \in Seq(Filter) /\ Len(Append(v, x)) = n + 1
          /\ Append(v, x)[n + 1] = x /\ \A i \in 1..n : Append(v, x)[i] = v[i]
      BY <2>1, AppendProperties
    <3>2. DOMAIN Append(v, x) = 1..(n + 1)
      BY <3>1
    <3> QED
      BY <3>1, <3>2
  <2>3. PICK e \in Entry : e = [at |-> n + 1, event |-> x] /\ e.at = n + 1 /\ e.event = x
    <3> DEFINE r == [at |-> n + 1, event |-> x]
    <3>1. n + 1 \in Nat
      OBVIOUS
    <3>2. r \in Entry
      BY <3>1 DEF Entry
    <3>3. r.at = n + 1 /\ r.event = x
      OBVIOUS
    <3> QED
      BY <3>2, <3>3, Zenon
  <2>4. PICK ps \in Seq(Entry) : ps = PlacedOf(v)
    BY PlacedType
  <2>5. PlacedOf(w) = Append(ps, e)
    <3>1. /\ PlacedOf(w) \in Seq(Entry) /\ Len(PlacedOf(w)) = n + 1
          /\ \A i \in 1..(n + 1) : PlacedOf(w)[i] = [at |-> i, event |-> w[i]]
      BY <2>2, PlacedType
    <3>2. Len(ps) = n /\ \A i \in 1..n : ps[i] = [at |-> i, event |-> v[i]]
      BY <2>1, <2>4, PlacedType
    <3>3. /\ Append(ps, e) \in Seq(Entry) /\ Len(Append(ps, e)) = n + 1
          /\ Append(ps, e)[n + 1] = e /\ \A i \in 1..n : Append(ps, e)[i] = ps[i]
      BY <3>2, AppendProperties
    <3>4. ASSUME NEW i \in 1..(n + 1)
          PROVE  PlacedOf(w)[i] = Append(ps, e)[i]
      <4>1. CASE i \in 1..n
        <5>1. PlacedOf(w)[i] = [at |-> i, event |-> w[i]]
          BY <3>1
        <5>2. Append(ps, e)[i] = [at |-> i, event |-> v[i]]
          BY <3>2, <3>3, <4>1
        <5> QED
          BY <2>2, <4>1, <5>1, <5>2
      <4>2. CASE i = n + 1
        <5>1. PlacedOf(w)[i] = [at |-> n + 1, event |-> w[n + 1]]
          BY <3>1, <4>2
        <5>2. Append(ps, e)[i] = e
          BY <3>3, <4>2
        <5> QED
          BY <2>2, <2>3, <5>1, <5>2
      <4>3. i \in 1..n \/ i = n + 1
        OBVIOUS
      <4> QED
        BY <4>1, <4>2, <4>3
    <3> QED
      BY <3>1, <3>3, <3>4, SeqEqual
  <2>6. PICK es \in Seq(Entry) : es = Picked(v, filter)
    BY <2>4, PickCodeType, FlatMapType DEF Picked
  <2>7. Picked(w, filter) = es \o PickCode(filter)[e]
    <3>1. FlatMap(PickCode(filter), Append(ps, e))
            = FlatMap(PickCode(filter), ps) \o PickCode(filter)[e]
      BY PickCodeType, FlatMapAppend
    <3> QED
      BY <2>4, <2>5, <2>6, <3>1 DEF Picked
  <2>8. ListsAll(es, MatchingIn(v, filter))
    BY <1>2, <2>6
  <2>9. \A i \in MatchingIn(v, filter) : i < e.at
    BY <2>1, <2>3 DEF MatchingIn
  <2>10. PickCode(filter)[e] = IF Matches(x, filter) THEN <<e>> ELSE <<>>
    BY <2>3 DEF PickCode
  <2>11. MatchingIn(w, filter) = IF Matches(x, filter) THEN MatchingIn(v, filter) \cup {e.at}
                                 ELSE MatchingIn(v, filter)
    <3>1. \A i \in 1..(n + 1) : i = n + 1 \/ i \in 1..n
      OBVIOUS
    <3>2. n + 1 \in 1..(n + 1) /\ \A i \in 1..n : i \in 1..(n + 1)
      OBVIOUS
    <3> QED
      BY <2>1, <2>2, <2>3, <3>1, <3>2, Zenon DEF MatchingIn
  <2>12. CASE Matches(x, filter)
    <3>1. es \o <<e>> = Append(es, e)
      OBVIOUS
    <3>2. ListsAll(Append(es, e), MatchingIn(v, filter) \cup {e.at})
      BY <2>8, <2>9, OneMoreEntry
    <3> QED
      BY <2>2, <2>7, <2>10, <2>11, <2>12, <3>1, <3>2
  <2>13. CASE ~ Matches(x, filter)
    <3>1. es \o <<>> = es
      BY ConcatEmptySeq
    <3> QED
      BY <2>2, <2>7, <2>8, <2>10, <2>11, <2>13, <3>1
  <2> QED
    BY <2>12, <2>13
<1>3. HoldsAllOf(S, Filter)
  <2> HIDE DEF S
  <2> QED
    BY <1>1, <1>2 DEF HoldsAllOf
<1>4. u \in S
  <2> HIDE DEF S
  <2> QED
    BY <1>3, SeqInduction
<1> QED
  BY <1>4

\* es has those places of M that fewer than limit come after.
NewestOf(es, M, limit) ==
  {es[k].at : k \in DOMAIN es} = {i \in M : Cardinality({j \in M : j > i}) < limit}

LEMMA NewestAreShown ==
  ASSUME NEW es, NEW M, ListsAll(es, M), NEW limit \in Nat
  PROVE  LET ns == Newest(es, limit)
         IN  /\ ns \in Seq(Entry)
             /\ NewestOf(ns, M, limit)
             /\ \A k, l \in DOMAIN ns : k < l => ns[k].at < ns[l].at
<1> DEFINE v == [k \in 1..Len(es) |-> es[k].at]
<1>1. PICK n \in Nat : n = Len(es) /\ DOMAIN es = 1..n /\ \A k \in 1..n : es[k].at \in Nat
  <2>1. es \in Seq(Entry)
    BY DEF ListsAll
  <2>2. Len(es) \in Nat /\ DOMAIN es = 1..Len(es) /\ \A k \in 1..Len(es) : es[k] \in Entry
    BY <2>1
  <2> QED
    BY <2>2 DEF Entry
<1>2. v \in Seq(Nat) /\ Len(v) = n /\ DOMAIN v = 1..n /\ \A k \in 1..n : v[k] = es[k].at
  BY <1>1, IsASeq
<1> HIDE DEF v
<1>3. Increasing(v)
  BY <1>1, <1>2 DEF ListsAll, Increasing
<1>4. M = ValuesOf(v, 1)
  <2>1. \A k \in 1..n : v[k] \in M
    BY <1>1, <1>2 DEF ListsAll
  <2>2. \A i \in M : \E k \in 1..n : v[k] = i
    BY <1>1, <1>2 DEF ListsAll
  <2> QED
    BY <1>2, <2>1, <2>2 DEF ValuesOf
<1>5. PICK from \in 1..(n + 1) : from = IF n > limit THEN n - limit + 1 ELSE 1
  <2>1. CASE n > limit
    <3>1. n - limit + 1 \in 1..(n + 1)
      BY <2>1
    <3> QED
      BY <2>1, <3>1
  <2>2. CASE ~ (n > limit)
    <3>1. 1 \in 1..(n + 1)
      OBVIOUS
    <3> QED
      BY <2>2, <3>1
  <2> QED
    BY <2>1, <2>2
<1>6. {i \in M : Cardinality({j \in M : j > i}) < limit} = ValuesOf(v, from)
  BY <1>2, <1>3, <1>4, <1>5, GreatestAreLast
<1>7. Newest(es, limit) = SubSeq(es, from, n)
  BY <1>1, <1>5 DEF Newest
<1>8. PICK ns \in Seq(Entry) : /\ ns = SubSeq(es, from, n) /\ DOMAIN ns = 1..(n - from + 1)
                              /\ \A k \in 1..(n - from + 1) : ns[k] = es[from + k - 1]
  <2>1. es \in Seq(Entry) /\ n = Len(es)
    BY <1>1 DEF ListsAll
  <2>2. \A k \in from..n : k \in 1..n
    OBVIOUS
  <2>3. /\ SubSeq(es, from, n) \in Seq(Entry)
        /\ Len(SubSeq(es, from, n)) = n - from + 1
        /\ \A k \in 1..(n - from + 1) : SubSeq(es, from, n)[k] = es[from + k - 1]
    BY <2>1, SubSeqProperties
  <2>4. DOMAIN SubSeq(es, from, n) = 1..(n - from + 1)
    BY <2>3
  <2> QED
    BY <2>3, <2>4
<1>9. \A k \in 1..(n - from + 1) : from + k - 1 \in from..n /\ from + k - 1 \in 1..n
  OBVIOUS
<1>10. \A l \in from..n : l - from + 1 \in 1..(n - from + 1) /\ l \in 1..n
                          /\ from + (l - from + 1) - 1 = l
  OBVIOUS
<1>11. \A k \in 1..(n - from + 1) : ns[k].at = v[from + k - 1]
  BY <1>2, <1>8, <1>9
<1>12. \A l \in from..n : ns[l - from + 1].at = v[l]
  BY <1>10, <1>11
<1>13. {ns[k].at : k \in DOMAIN ns} = {v[l] : l \in from..n}
  <2>1. \A k \in DOMAIN ns : \E l \in from..n : ns[k].at = v[l]
    BY <1>8, <1>9, <1>11, Zenon
  <2>2. \A l \in from..n : \E k \in DOMAIN ns : ns[k].at = v[l]
    BY <1>8, <1>10, <1>12, Zenon
  <2>3. \A x : x \in {ns[k].at : k \in DOMAIN ns} => x \in {v[l] : l \in from..n}
    BY <2>1, Zenon
  <2>4. \A x : x \in {v[l] : l \in from..n} => x \in {ns[k].at : k \in DOMAIN ns}
    BY <2>2, Zenon
  <2> QED
    BY <2>3, <2>4, Zenon
<1>14. NewestOf(ns, M, limit)
  BY <1>2, <1>6, <1>13 DEF NewestOf, ValuesOf
<1>15. ASSUME NEW k \in DOMAIN ns, NEW l \in DOMAIN ns, k < l
       PROVE  ns[k].at < ns[l].at
  <2>1. k \in 1..(n - from + 1) /\ l \in 1..(n - from + 1)
    BY <1>8
  <2>2. from + k - 1 \in 1..n /\ from + l - 1 \in 1..n /\ from + k - 1 < from + l - 1
    BY <1>9, <1>15, <2>1
  <2>3. v[from + k - 1] < v[from + l - 1]
    BY <1>2, <1>3, <2>2 DEF Increasing
  <2> QED
    BY <1>11, <2>1, <2>3
<1> QED
  BY <1>7, <1>8, <1>14, <1>15

LEMMA ReverseIs ==
  ASSUME NEW A, NEW s \in Seq(A)
  PROVE  /\ Reverse(s) \in Seq(A) /\ DOMAIN Reverse(s) = DOMAIN s
         /\ \A k \in DOMAIN s : Len(s) - k + 1 \in DOMAIN s /\ Reverse(s)[k] = s[Len(s) - k + 1]
         /\ Reverse(Reverse(s)) = s
<1>1. PICK n \in Nat : n = Len(s) /\ DOMAIN s = 1..n
  OBVIOUS
<1>2. \A k \in 1..n : (n - k) + 1 \in 1..n /\ n - k + 1 = (n - k) + 1
  BY <1>1
<1>3. Reverse(s) = [k \in 1..n |-> s[(n - k) + 1]]
  BY <1>1 DEF Reverse
<1>4. PICK r \in Seq(A) : /\ r = Reverse(s) /\ Len(r) = n /\ DOMAIN r = 1..n
                           /\ \A k \in 1..n : r[k] = s[(n - k) + 1]
  <2>1. \A k \in 1..n : s[(n - k) + 1] \in A
    BY <1>1, <1>2
  <2> DEFINE g == [k \in 1..n |-> s[(n - k) + 1]]
  <2>2. g \in Seq(A) /\ Len(g) = n /\ DOMAIN g = 1..n
    BY <2>1, IsASeq
  <2>3. \A k \in 1..n : g[k] = s[(n - k) + 1]
    OBVIOUS
  <2> HIDE DEF g
  <2> QED
    BY <1>3, <2>2, <2>3 DEF g
<1>5. Reverse(r) = [k \in 1..n |-> r[(n - k) + 1]]
  BY <1>4 DEF Reverse
<1>6. \A k \in 1..n : r[(n - k) + 1] = s[k]
  <2>1. \A k \in 1..n : (n - ((n - k) + 1)) + 1 = k
    OBVIOUS
  <2> QED
    BY <1>2, <1>4, <2>1
<1>7. Reverse(r) = [k \in 1..n |-> s[k]]
  BY <1>5, <1>6
<1>8. s = [k \in 1..n |-> s[k]]
  BY <1>1
<1> QED
  BY <1>1, <1>2, <1>4, <1>7, <1>8

\* The page turns them around, and audit.csv turns them back.
LEMMA LogIsShown ==
  ASSUME log \in Seq(Filter), NEW filter \in Filter, NEW limit \in Nat
  PROVE  LET events == ListAuditEvents(filter, limit)
             M == MatchingIn(log, filter)
         IN  /\ NewestOf(events, M, limit) /\ NewestOf(Reverse(events), M, limit)
             /\ \A k, l \in DOMAIN events : k < l => events[k].at > events[l].at
             /\ \A k, l \in DOMAIN Reverse(events) :
                  k < l => Reverse(events)[k].at < Reverse(events)[l].at
<1>1. PICK es \in Seq(Entry) : /\ es = Keep(LAMBDA e : Matches(e.event, filter), Placed)
                              /\ es = Picked(log, filter)
  <2>1. PICK ps \in Seq(Entry) : ps = Placed /\ ps = PlacedOf(log)
    BY PlacedType DEF Placed, PlacedOf
  <2>2. Picked(log, filter) \in Seq(Entry)
    BY <2>1, PickCodeType, FlatMapType DEF Picked
  <2>3. \A i \in DOMAIN ps :
          PickCode(filter)[ps[i]] = IF Matches(ps[i].event, filter) THEN <<ps[i]>> ELSE <<>>
    <3>1. \A i \in DOMAIN ps : ps[i] \in Entry
      OBVIOUS
    <3> QED
      BY <3>1 DEF PickCode
  <2>4. Keep(LAMBDA e : Matches(e.event, filter), ps) = FlatMap(PickCode(filter), ps)
    BY <2>3 DEF Keep, ConcatMap, FlatMap, Images
  <2> QED
    BY <2>1, <2>2, <2>4 DEF Picked
<1>2. ListsAll(es, MatchingIn(log, filter))
  BY <1>1, PickedAreMatching
<1>3. PICK ns \in Seq(Entry) :
        /\ ns = Newest(es, limit)
        /\ NewestOf(ns, MatchingIn(log, filter), limit)
        /\ \A k, l \in DOMAIN ns : k < l => ns[k].at < ns[l].at
  BY <1>2, NewestAreShown
<1>4. PICK n \in Nat : n = Len(ns) /\ DOMAIN ns = 1..n
  OBVIOUS
<1>5. PICK rs \in Seq(Entry) : /\ rs = Reverse(ns) /\ DOMAIN rs = 1..n /\ Reverse(rs) = ns
                              /\ \A k \in 1..n : n - k + 1 \in 1..n /\ rs[k] = ns[n - k + 1]
  BY <1>4, ReverseIs
<1>6. rs = ListAuditEvents(filter, limit)
  BY <1>1, <1>3, <1>5 DEF ListAuditEvents
<1>7. ASSUME NEW k \in 1..n, NEW l \in 1..n, k < l
      PROVE  rs[k].at > rs[l].at
  <2>1. n - k + 1 \in 1..n /\ n - l + 1 \in 1..n /\ n - l + 1 < n - k + 1
    BY <1>7
  <2>2. ns[n - l + 1].at < ns[n - k + 1].at
    BY <1>3, <1>4, <2>1
  <2>3. ns[n - l + 1] \in Entry /\ ns[n - k + 1] \in Entry
    BY <1>4, <2>1
  <2>4. ns[n - l + 1].at \in Nat /\ ns[n - k + 1].at \in Nat
    BY <2>3 DEF Entry
  <2> QED
    BY <1>5, <2>2, <2>4
<1>8. {rs[k].at : k \in 1..n} = {ns[k].at : k \in 1..n}
  <2>1. \A k \in 1..n : \E l \in 1..n : rs[k] = ns[l]
    BY <1>5
  <2>2. \A l \in 1..n : n - l + 1 \in 1..n /\ n - (n - l + 1) + 1 = l
    OBVIOUS
  <2>3. \A l \in 1..n : rs[n - l + 1] = ns[l]
    BY <1>5, <2>2
  <2>4. \A k \in 1..n : \E l \in 1..n : rs[k].at = ns[l].at
    BY <2>1, Zenon
  <2>5. \A l \in 1..n : \E k \in 1..n : rs[k].at = ns[l].at
    BY <2>2, <2>3, Zenon
  <2>6. ASSUME NEW x \in {rs[k].at : k \in 1..n}
        PROVE  x \in {ns[k].at : k \in 1..n}
    <3>1. PICK k \in 1..n : x = rs[k].at
      OBVIOUS
    <3>2. PICK l \in 1..n : rs[k].at = ns[l].at
      BY <2>4
    <3> QED
      BY <3>1, <3>2
  <2>7. \A x : x \in {ns[k].at : k \in 1..n} => x \in {rs[k].at : k \in 1..n}
    BY <2>5, Zenon
  <2> QED
    BY <2>6, <2>7, Zenon
<1>9. NewestOf(rs, MatchingIn(log, filter), limit)
  BY <1>3, <1>4, <1>5, <1>8 DEF NewestOf
<1> QED
  BY <1>3, <1>5, <1>6, <1>7, <1>9

-----------------------------------------------------------------------------
(* What is typed, and the log                                              *)

Texts == typed \in Seq(Char) /\ log \in Seq(Filter)

LEMMA NextTexts == Texts /\ [Next]_vars => Texts'
<1> SUFFICES ASSUME Texts, [Next]_vars
             PROVE  Texts'
  OBVIOUS
<1>1. typed' \in Seq(Char)
  <2>1. CASE Type
    <3>1. PICK c \in Char : typed' = Append(typed, c)
      BY <2>1 DEF Type
    <3> QED
      BY <3>1, AppendProperties DEF Texts
  <2>2. CASE Send
    BY <2>2 DEF Send
  <2>3. CASE UNCHANGED typed
    BY <2>3 DEF Texts
  <2> QED
    BY <2>1, <2>2, <2>3
       DEF Next, vars, upload, ReadField, Refuse, Create, Notify, Answer, HangUp, Redeem,
           RedeemDenied, Revoke, SignInOrOut, Tick, ListRecent, OfferRevoke, ShowStatus
<1>2. log' \in Seq(Filter)
  <2>1. CASE \E event \in Filter : log' = Append(log, event)
    BY <2>1, AppendProperties DEF Texts
  <2>2. CASE UNCHANGED log
    BY <2>2 DEF Texts
  <2>3. "share." \in Filter /\ "auth." \in Filter
    BY DEF Filter
  <2> QED
    BY <2>1, <2>2, <2>3
       DEF Next, vars, Type, Send, ReadField, Refuse, Create, Notify, Answer, HangUp, Redeem,
           RedeemDenied, Revoke, SignInOrOut, Record, Tick, ListRecent, OfferRevoke, ShowStatus
<1> QED
  BY <1>1, <1>2 DEF Texts

LEMMA InitTexts == Init => Texts
BY DEF Init, Texts

LEMMA TextOfNat ==
  ASSUME Texts
  PROVE  typed \in Seq(Nat)
<1>1. Char \subseteq Nat /\ typed \in Seq(Char)
  BY WebAssumption DEF Texts
<1> QED
  BY <1>1, SeqsOfMore

\* What a text holds that is made of characters of one kind.
LEMMA TextOf ==
  ASSUME Texts, NEW A, \A i \in DOMAIN typed : typed[i] \in A
  PROVE  typed \in Seq(A)
<1>1. Len(typed) \in Nat /\ DOMAIN typed = 1..Len(typed) /\ typed = [i \in 1..Len(typed) |-> typed[i]]
  BY DEF Texts
<1> QED
  BY <1>1, IsASeq

\* The link to audit.csv asks for what the page shows, for a filter of any length.
THEOREM FilterIsKept == Spec => []FilterComesBack
<1>1. ASSUME Texts PROVE FilterComesBack
  <2> SUFFICES ASSUME IsAscii(typed)
               PROVE  UrlDecode(UrlEncode(typed)) = typed
    BY DEF FilterComesBack
  <2>1. \A i \in DOMAIN typed : typed[i] \in Ascii
    <3>1. \A i \in DOMAIN typed : typed[i] \in Nat
      BY <1>1, TextOfNat
    <3> QED
      BY <3>1 DEF IsAscii, Ascii
  <2> QED
    BY <1>1, <2>1, TextOf, UrlRoundTrip
<1> QED
  BY <1>1, InitTexts, NextTexts, PTL DEF Spec

\* A download arrives under its sanitized name, and nothing in the name ends it early.
THEOREM NameIsKept == Spec => []FilenameArrives
<1>1. ASSUME Texts PROVE FilenameArrives
  <2>1. IsHeader(typed) =>
          LET header == Disposition(typed)
          IN  /\ IsHeader(header) /\ ReadQuoted(header).at = "after"
              /\ ReadQuoted(header).out = SanitizeFilename(typed)
    BY <1>1, TextOfNat, NameArrives
  <2> QED
    BY <2>1 DEF FilenameArrives
<1> QED
  BY <1>1, InitTexts, NextTexts, PTL DEF Spec

\* Two rows of audit.csv are read as the fields they were written from, whatever
\* was typed into one of them.
THEOREM CsvIsRead == Spec => []CsvReadsBack
<1>1. ASSUME Texts PROVE CsvReadsBack
  <2>1. PICK x \in Seq(Nat) : x = typed
    BY <1>1, TextOfNat
  <2>2. <<>> \in Seq(Nat) /\ x \o <<Comma>> \in Seq(Nat) /\ <<Quote>> \o x \in Seq(Nat)
    <3>1. <<Comma>> \in Seq(Nat) /\ <<Quote>> \in Seq(Nat)
      BY DEF Comma, Quote
    <3> QED
      BY <3>1, ConcatProperties
  <2>3. PICK a \in Seq(Nat), b \in Seq(Nat), c \in Seq(Nat) :
          a = <<>> /\ b = x \o <<Comma>> /\ c = <<Quote>> \o x
    BY <2>2
  <2>4. PICK more \in Seq(Seq(Nat)) : more = <<a, b, c>>
    <3>1. <<a, b, c>> \in Seq(Seq(Nat))
      OBVIOUS
    <3> QED
      BY <3>1
  <2>5. <<x, a, b, c>> = <<x>> \o more
    BY <2>4, OneAndThree
  <2>6. LET fs == <<x>> \o more IN ReadCsv(CsvRow(fs) \o CsvRow(fs)) = <<fs, fs>>
    BY TwoRowsAreRead
  <2>7. ReadCsv(CsvRow(<<x, a, b, c>>) \o CsvRow(<<x, a, b, c>>))
          = <<<<x, a, b, c>>, <<x, a, b, c>>>>
    BY <2>5, <2>6, Zenon
  <2> QED
    BY <2>1, <2>3, <2>7, Zenon DEF CsvReadsBack
<1> QED
  BY <1>1, InitTexts, NextTexts, PTL DEF Spec

\* Whatever cookies other applications have set, the session is found by its own.
THEOREM SessionIsKept == Spec => []CookieComesBack
<1>1. ASSUME Texts PROVE CookieComesBack
  <2>1. <<97, Equals>> \in Seq(TokenChar)
    <3>1. 97 \in TokenChar /\ Equals \in TokenChar
      BY DEF TokenChar, Equals, Semicolon
    <3> QED
      BY <3>1
  <2>2. ASSUME IsVisible(typed),
               \A i \in DOMAIN Split(typed, Semicolon) :
                 ~ IsPrefix(Append(SessionCookie, Equals), Trim(Split(typed, Semicolon)[i]))
        PROVE  CookieValue(CookieHeader(typed, <<97, Equals>>), SessionCookie) = <<97, Equals>>
    <3>1. \A i \in DOMAIN typed : typed[i] \in Visible
      BY <2>2 DEF IsVisible, Visible
    <3>2. typed \in Seq(Visible)
      BY <1>1, <3>1, TextOf
    <3> QED
      BY <2>1, <2>2, <3>2, SessionIsFound
  <2> QED
    BY <2>2, Zenon DEF CookieComesBack
<1> QED
  BY <1>1, InitTexts, NextTexts, PTL DEF Spec

\* The page and the export show the newest matching events, as many as the limit
\* admits, in their own order: for every log and every limit.
THEOREM NewestIsShown == Spec => []ShowsTheNewest
<1>1. ASSUME Texts PROVE ShowsTheNewest
  <2>1. log \in Seq(Filter) /\ PageLimit \in Nat /\ CsvLimit \in Nat
    BY <1>1, WebAssumption DEF Texts
  <2>2. ASSUME NEW filter \in Filter
        PROVE  LET matching == MatchingIn(log, filter)
               IN  /\ NewestOf(AuditPage(filter), matching, PageLimit)
                   /\ NewestOf(AuditCsv(filter), matching, CsvLimit)
                   /\ \A k, l \in DOMAIN AuditPage(filter) :
                        k < l => AuditPage(filter)[k].at > AuditPage(filter)[l].at
                   /\ \A k, l \in DOMAIN AuditCsv(filter) :
                        k < l => AuditCsv(filter)[k].at < AuditCsv(filter)[l].at
    BY <2>1, LogIsShown DEF AuditPage, AuditCsv
  <2> QED
    BY <2>2, Zenon DEF ShowsTheNewest, NewestOf, MatchingIn
<1> QED
  BY <1>1, InitTexts, NextTexts, PTL DEF Spec

-----------------------------------------------------------------------------
(* Types                                                                   *)

FieldsTyped ==
  /\ \A d \in Door, name \in DOMAIN Default : fields[d][name] \in Number \cup {Default[name]}
  /\ \A d \in Door : fields[d]["cui_attested"] \in BOOLEAN

LEMMA NextFields ==
  ASSUME ListInv, FieldsTyped, [Next]_vars
  PROVE  FieldsTyped'
<1>0. "cui_attested" \notin DOMAIN Default /\ DOMAIN Default \cup {"cui_attested"} \subseteq FieldName
  BY DEF Default, FieldName
<1>1. CASE ReadField
  <2>1. PICK name \in FieldName : \E value \in Values(name) :
          fields' = [d \in Door |-> [fields[d] EXCEPT ![name] = Parsed(d, name, value)]]
    BY <1>1 DEF ReadField
  <2>2. PICK value :
          fields' = [d \in Door |-> [fields[d] EXCEPT ![name] = Parsed(d, name, value)]]
    BY <2>1
  <2>3. ASSUME NEW d \in Door
        PROVE  /\ \A n \in DOMAIN Default : fields'[d][n] \in Number \cup {Default[n]}
               /\ fields'[d]["cui_attested"] \in BOOLEAN
    <3>1. /\ fields'[d] = [fields[d] EXCEPT ![name] = Parsed(d, name, value)]
          /\ fields[d] = [n \in FieldName |-> fields[d][n]]
      BY <2>2 DEF ListInv
    <3>2. name \in DOMAIN Default => Parsed(d, name, value) \in Number \cup {Default[name]}
      BY DEF Parsed
    <3>3. name = "cui_attested" => Parsed(d, name, value) \in BOOLEAN
      BY <1>0 DEF Parsed
    <3>4. /\ \A n \in DOMAIN Default : fields[d][n] \in Number \cup {Default[n]}
          /\ fields[d]["cui_attested"] \in BOOLEAN
      BY DEF FieldsTyped
    <3>5. \A n \in FieldName : fields'[d][n] = IF n = name THEN Parsed(d, name, value) ELSE fields[d][n]
      BY <3>1
    <3> QED
      BY <1>0, <3>2, <3>3, <3>4, <3>5
  <2> QED
    BY <2>3 DEF FieldsTyped
<1>2. CASE Create
  <2>1. \A d \in Door :
          fields'[d] = [NoFields EXCEPT !["vendor_email"] = fields[d]["vendor_email"]]
    BY <1>2 DEF Create
  <2>2. /\ NoFields = [name \in FieldName |-> NoFields[name]]
        /\ NoFields["cui_attested"] = FALSE
        /\ \A name \in DOMAIN Default : NoFields[name] = Default[name]
    BY <1>0 DEF NoFields
  <2>3. "vendor_email" \notin DOMAIN Default
    BY DEF Default
  <2> QED
    BY <1>0, <2>1, <2>2, <2>3 DEF FieldsTyped
<1>3. CASE UNCHANGED fields
  BY <1>3 DEF FieldsTyped
<1> QED
  BY <1>1, <1>2, <1>3
     DEF Next, vars, upload, Type, Send, Refuse, Notify, Answer, HangUp, Redeem, RedeemDenied,
         Revoke, SignInOrOut, Tick, ListRecent, OfferRevoke, ShowStatus

\* What else has a type of its own.
OthersTyped ==
  /\ email \in [sender : {"smtp", "null"}, configured : BOOLEAN]
  /\ now \in 0..MaxTime
  /\ mail \in {"none", "failed", "taken"}
  /\ page = None \/ page.says \in {"nothing", "notified", "deliver manually"}

LEMMA NextOthers ==
  ASSUME OthersTyped, [Next]_vars
  PROVE  OthersTyped'
<1>1. CASE Tick
  <2>1. now' = now + 1 /\ now < MaxTime /\ UNCHANGED <<email, mail, page>>
    BY <1>1 DEF Tick, upload
  <2>2. now' \in 0..MaxTime
    <3>1. MaxTime \in Nat /\ now \in 0..MaxTime
      BY WebAssumption DEF OthersTyped
    <3> QED
      BY <2>1, <3>1
  <2> QED
    BY <2>1, <2>2 DEF OthersTyped
<1>2. CASE Notify
  BY <1>2 DEF Notify, upload, OthersTyped
<1>3. CASE Answer
  BY <1>3 DEF Answer, upload, OthersTyped
<1>4. CASE UNCHANGED <<email, now, mail, page>>
  BY <1>4 DEF OthersTyped
<1> QED
  BY <1>1, <1>2, <1>3, <1>4
     DEF Next, vars, upload, Type, Send, ReadField, Refuse, Create, HangUp, Redeem, RedeemDenied,
         Revoke, SignInOrOut, ListRecent, OfferRevoke, ShowStatus

\* What the loops, the share, the lists and the pages hold, whatever a body sends.
THEOREM WebTypes == Spec => []WebTypeOK
<1> DEFINE Typed == ListInv /\ Texts /\ FieldsTyped /\ OthersTyped
<1>1. ASSUME Init PROVE Typed
  <2>1. /\ NoFields["cui_attested"] = FALSE
        /\ \A name \in DOMAIN Default : NoFields[name] = Default[name]
    BY DEF NoFields, Default, FieldName
  <2>2. FieldsTyped
    BY <1>1, <2>1 DEF Init, FieldsTyped
  <2>3. email \in [sender : {"smtp", "null"}, configured : BOOLEAN]
    BY <1>1 DEF Init, Mailer
  <2>4. now \in 0..MaxTime
    <3>1. now = 0 /\ MaxTime \in Nat
      BY <1>1, WebAssumption DEF Init
    <3> QED
      BY <3>1
  <2>5. mail \in {"none", "failed", "taken"} /\ page = None
    BY <1>1 DEF Init
  <2>6. OthersTyped
    BY <2>3, <2>4, <2>5 DEF OthersTyped
  <2> QED
    BY <1>1, <2>2, <2>6, InitList, InitTexts
<1>2. Typed /\ [Next]_vars => Typed'
  BY NextList, NextTexts, NextFields, NextOthers
<1>3. Typed => WebTypeOK
  BY DEF WebTypeOK, ListInv, Seen, Texts, FieldsTyped, OthersTyped
<1> HIDE DEF Typed
<1> QED
  BY <1>1, <1>2, <1>3, PTL DEF Spec
=============================================================================
