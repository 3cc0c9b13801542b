--------------------------------- MODULE Web ---------------------------------
(***************************************************************************)
(* The front end (web/lib.rs) around one share: how the form and the API   *)
(* read an upload, what the sender is told about the e-mail, what the list *)
(* of shares says while the share is redeemed and revoked, and what the    *)
(* audit page and audit.csv show of the log.  ShareService has the steps   *)
(* inside the service, which are one step here.                            *)
(*                                                                         *)
(* Before anything is sent the person at the browser types: that text may  *)
(* become a file name, a filter, a User-Agent or a cookie (WebText).       *)
(***************************************************************************)
EXTENDS WebText, FiniteSets

CONSTANTS
  Char,        \* code points that are typed
  MaxTyped,    \* bound: how many of them
  Number,      \* what may stand in expires_in_hours and max_downloads
  MaxTime,     \* bound: the clock stops here
  MaxEvents,   \* bound: the log ends here
  PageLimit,   \* 500: events on the audit page
  CsvLimit,    \* 100000: events in audit.csv
  None

ASSUME WebAssumption ==
  /\ Number \subseteq Nat /\ MaxTime \in Nat /\ MaxTyped \in Nat /\ MaxEvents \in Nat
  /\ PageLimit \in Nat /\ CsvLimit \in Nat /\ PageLimit <= CsvLimit
  /\ Char \subseteq Nat

\* What the handlers know of a row of shares.
Row == [expires : Nat, max : Nat, count : Nat, revoked : BOOLEAN]

ASSUME NoneAssumption == None \notin Row \cup BOOLEAN

VARIABLES
  step,      \* "type", "read", "notify", "answer", "made" or "refused"
  typed,     \* what has been typed
  email,     \* App.email and App.email_configured
  fields,    \* the fields as share_new_post and api_shares_post have read them
  door,      \* "form" or "api"
  now,
  share,     \* its row, or None
  mail,      \* of the e-mail: "none" went to the relay, it "failed", or was "taken"
  page,      \* the page about the new share, or None
  row,       \* what list_recent returned to shares_list_get, or None
  button,    \* is_active, evaluated for that row, or None
  closed,    \* history: some list called the share closed or had no button for it
  log        \* the audit log: of each event the prefix of its name

upload == <<typed, email, fields, door>>
list == <<row, button, closed>>
vars == <<step, upload, now, share, mail, page, list, log>>

-----------------------------------------------------------------------------
(* Start-up: the mailer                                                    *)

\* Mutant of Mailer: a section [smtp] is enough.
MailerClaimed(smtp) ==
  [sender |-> IF smtp = "good" THEN "smtp" ELSE "null", configured |-> smtp # "none"]

\* SmtpSender::new refuses an address or a host that does not parse.
Mailer(smtp) ==
  [sender |-> IF smtp = "good" THEN "smtp" ELSE "null", configured |-> smtp = "good"]

-----------------------------------------------------------------------------
(* The fields of an upload                                                 *)

Door == {"form", "api"}
FieldName == {"file", "vendor_email", "vendor_display_name", "expires_in_hours",
              "max_downloads", "cui_attested"}

\* What the client puts there: an address may be none that can be written to, and None
\* stands for what does not parse as a number.
Values(name) ==
  CASE name = "file" -> [filename : {"none", "blank", "name"}, bytes : {"blank", "bytes"}]
    [] name = "vendor_email" -> {"blank", "scribble", "address"}
    [] name = "vendor_display_name" -> {"blank", "text"}
    [] name \in {"expires_in_hours", "max_downloads"} -> Number \cup {None}
    [] name = "cui_attested" -> {"no", "yes"}

Default == [expires_in_hours |-> 72, max_downloads |-> 3]

NoFields ==
  [name \in FieldName |->
     IF name \in DOMAIN Default THEN Default[name]
     ELSE IF name = "cui_attested" THEN FALSE ELSE None]

\* Mutant of Parsed: a number that cannot be read leaves the field without one.
ParsedOrNone(d, name, value) ==
  IF name = "cui_attested" THEN d = "form" \/ value = "yes" ELSE value

\* Mutant of Parsed: the API counts what cannot be read as 0.
ParsedOrZero(d, name, value) ==
  IF name \in DOMAIN Default
    THEN IF value \in Number THEN value ELSE IF d = "api" THEN 0 ELSE Default[name]
  ELSE IF name = "cui_attested" THEN d = "form" \/ value = "yes"
  ELSE value

\* A checkbox that is sent at all is checked; the API reads its value.
Parsed(d, name, value) ==
  IF name \in DOMAIN Default THEN IF value \in Number THEN value ELSE Default[name]
  ELSE IF name = "cui_attested" THEN d = "form" \/ value = "yes"
  ELSE value

Given(f) ==
  /\ f["file"] # None /\ f["file"].filename = "name" /\ f["file"].bytes = "bytes"
  /\ f["vendor_email"] \notin {None, "blank"}
  /\ f["vendor_display_name"] \notin {None, "blank"}

\* What the checks behind the loop let through.
Accepted(d) == Given(fields[d]) /\ fields[d]["cui_attested"]

Type ==
  /\ step = "type" /\ Len(typed) < MaxTyped
  /\ \E c \in Char : typed' = Append(typed, c)
  /\ UNCHANGED <<step, email, fields, door, now, share, mail, page, list, log>>

Send ==
  /\ step = "type"
  /\ step' = "read"
  /\ typed' = <<>>
  /\ \E d \in Door : door' = d
  /\ UNCHANGED <<email, fields, now, share, mail, page, list, log>>

\* One turn of the loop over the multipart body.
ReadField ==
  /\ step = "read"
  /\ \E name \in FieldName : \E value \in Values(name) :
       fields' = [d \in Door |-> [fields[d] EXCEPT ![name] = Parsed(d, name, value)]]
  /\ UNCHANGED <<step, typed, email, door, now, share, mail, page, list, log>>

\* The body ends early, or a check fails: 400, or the form again.
Refuse ==
  /\ step = "read"
  /\ step' = "refused"
  /\ UNCHANGED <<upload, now, share, mail, page, list, log>>

\* create_share up to the event.  (That it fails is Refuse to the client.)  Of the
\* request only the address is needed from here on.
Create ==
  /\ step = "read" /\ Accepted(door)
  /\ share' = [expires |-> now + fields[door]["expires_in_hours"],
               max |-> fields[door]["max_downloads"], count |-> 0, revoked |-> FALSE]
  /\ log' = Append(log, "share.")
  /\ fields' = [d \in Door |-> [NoFields EXCEPT !["vendor_email"] = fields[d]["vendor_email"]]]
  /\ step' = "notify"
  /\ UNCHANGED <<typed, email, door, now, mail, page, list>>

\* Null takes everything and sends nothing, and SmtpSender sends nothing to an address
\* it cannot parse.  A message may fail on its way to the relay, or after the relay has
\* it: the service only traces that, and goes on.
Notify ==
  /\ step = "notify"
  /\ mail' \in IF email.sender = "smtp" /\ fields[door]["vendor_email"] = "address"
               THEN {"failed", "taken"} ELSE {"none"}
  /\ step' = "answer"
  /\ UNCHANGED <<upload, now, share, page, list, log>>

Answer ==
  /\ step = "answer"
  /\ page' = [to |-> fields[door]["vendor_email"],
              says |-> IF door = "api" THEN "nothing"
                       ELSE IF email.configured THEN "notified" ELSE "deliver manually"]
  /\ step' = "made"
  /\ UNCHANGED <<upload, now, share, mail, list, log>>

\* The client is gone: nobody is told the link and the code.
HangUp ==
  /\ step \in {"notify", "answer"}
  /\ step' = "made"
  /\ UNCHANGED <<upload, now, share, mail, page, list, log>>

-----------------------------------------------------------------------------
(* The share afterwards                                                    *)

Record(event) ==
  /\ Len(log) < MaxEvents
  /\ log' = Append(log, event)

\* The vendor has the link, or the sender has it to pass on.
LinkIsOut == mail # "none" \/ page # None

Redeem ==
  /\ LinkIsOut
  /\ ~share.revoked /\ share.expires > now /\ share.count < share.max
  /\ share' = [share EXCEPT !.count = @ + 1]
  /\ Record("share.")
  /\ UNCHANGED <<step, upload, now, mail, page, list>>

RedeemDenied ==
  /\ LinkIsOut
  /\ Record("share.")
  /\ UNCHANGED <<step, upload, now, share, mail, page, list>>

\* share_revoke: whatever comes of it, the answer is a redirect to the list.
Revoke ==
  /\ share # None /\ ~share.revoked
  /\ share' = [share EXCEPT !.revoked = TRUE]
  /\ Record("share.")
  /\ UNCHANGED <<step, upload, now, mail, page, list>>

SignInOrOut ==
  /\ Record("auth.")
  /\ share # None
  /\ UNCHANGED <<step, upload, now, share, mail, page, list>>

Tick ==
  /\ share # None
  /\ now < MaxTime
  /\ now' = now + 1
  /\ UNCHANGED <<step, upload, share, mail, page, list, log>>

-----------------------------------------------------------------------------
(* shares_list_get: the row is read under the mutex; is_active and         *)
(* status_label look at the clock one after the other, when it is free.    *)

\* Mutant of IsExpired: a row counts as expired one unit before its time.
IsExpiredEarly(r) == r.expires <= now + 1

IsExpired(r) == r.expires < now
IsExhausted(r) == r.count >= r.max
IsActive(r) == ~r.revoked /\ ~IsExpired(r) /\ ~IsExhausted(r)

StatusLabel(r) ==
  IF r.revoked THEN "revoked"
  ELSE IF IsExpired(r) THEN "expired"
  ELSE IF IsExhausted(r) THEN "downloaded"
  ELSE "active"

ListRecent ==
  /\ share # None /\ row = None
  /\ row' = share
  /\ UNCHANGED <<step, upload, now, share, mail, page, button, closed, log>>

OfferRevoke ==
  /\ row # None /\ button = None
  /\ button' = IsActive(row)
  /\ UNCHANGED <<step, upload, now, share, mail, page, row, closed, log>>

ShowStatus ==
  /\ button # None
  /\ closed' = (closed \/ StatusLabel(row) # "active" \/ ~button)
  /\ row' = None
  /\ button' = None
  /\ UNCHANGED <<step, upload, now, share, mail, page, log>>

-----------------------------------------------------------------------------
(* list_audit_events, audit_get and audit_csv                              *)

Filter == {"", "share.", "auth."}
Matches(event, filter) == filter \in {"", event}

\* An event with its place in the log.
Placed == [i \in DOMAIN log |-> [at |-> i, event |-> log[i]]]

\* The last of a sequence, as skip(len.saturating_sub(limit)) leaves them.
Newest(events, limit) ==
  SubSeq(events, IF Len(events) > limit THEN Len(events) - limit + 1 ELSE 1, Len(events))

\* Mutant of ListAuditEvents: the limit comes before the filter.
ListThenFilter(filter, limit) ==
  Reverse(Keep(LAMBDA e : Matches(e.event, filter), Newest(Placed, limit)))

ListAuditEvents(filter, limit) ==
  Reverse(Newest(Keep(LAMBDA e : Matches(e.event, filter), Placed), limit))

AuditPage(filter) == ListAuditEvents(filter, PageLimit)
AuditCsv(filter) == Reverse(ListAuditEvents(filter, CsvLimit))

-----------------------------------------------------------------------------
Init ==
  /\ step = "type"
  /\ typed = <<>>
  /\ \E smtp \in {"none", "bad", "good"} : email = Mailer(smtp)
  /\ fields = [d \in Door |-> NoFields]
  /\ door = "form"
  /\ now = 0
  /\ share = None
  /\ mail = "none"
  /\ page = None
  /\ row = None /\ button = None /\ closed = FALSE
  /\ log = <<>>

Next ==
  \/ Type \/ Send \/ ReadField \/ Refuse
  \/ Create \/ Notify \/ Answer \/ HangUp
  \/ Redeem \/ RedeemDenied \/ Revoke \/ SignInOrOut \/ Tick
  \/ ListRecent \/ OfferRevoke \/ ShowStatus

Spec == Init /\ [][Next]_vars
-----------------------------------------------------------------------------
WebTypeOK ==
  /\ step \in {"type", "read", "notify", "answer", "made", "refused"}
  /\ typed \in Seq(Char)
  /\ email \in [sender : {"smtp", "null"}, configured : BOOLEAN]
  /\ \A d \in Door, name \in DOMAIN Default : fields[d][name] \in Number \cup {Default[name]}
  /\ \A d \in Door : fields[d]["cui_attested"] \in BOOLEAN
  /\ door \in Door
  /\ now \in 0..MaxTime
  /\ share \in Row \cup {None} /\ row \in Row \cup {None}
  /\ mail \in {"none", "failed", "taken"} /\ closed \in BOOLEAN /\ button \in BOOLEAN \cup {None}
  /\ page = None \/ page.says \in {"nothing", "notified", "deliver manually"}
  /\ log \in Seq(Filter)

\* share_new_post and api_shares_post read the same body twice over, in code of their
\* own: whatever fields come in whatever order, and however often, what the API
\* accepts the form accepts as well, and they make the same request of it.
BothDoorsAgree ==
  /\ \A name \in FieldName \ {"cui_attested"} : fields["form"][name] = fields["api"][name]
  /\ Accepted("api") => Accepted("form")

\* web/templates/share_created.html:12-16: the page says that the vendor was notified
\* only if that was tried, that is, if an e-mail went off to the relay (or there was no
\* address to send it to), and asks for delivery by hand only if none did.  Whether
\* the relay took the e-mail the page does not tell: an error is only traced.
TellsWhatWasTried ==
  page # None =>
    /\ page.says = "notified" => mail # "none" \/ page.to # "address"
    /\ page.says = "deliver manually" => mail = "none"

\* Once a list showed a share as revoked, expired or downloaded, or without a button to
\* revoke it, nobody downloads it any more: however old the row was by then that the
\* list was made from, and however the clock moved between its two looks at it.
ClosedStaysClosed == [][closed /\ share # None => share'.count = share.count]_vars

\* The audit page and audit.csv show the newest events that match the filter, as many
\* as the limit admits: the page from the newest on, the export in order of the log.
ShowsTheNewest ==
  \A filter \in Filter :
    LET matching == {i \in DOMAIN log : Matches(log[i], filter)}
        newest(limit) == {i \in matching : Cardinality({j \in matching : j > i}) < limit}
        Shows(events, limit, before(_, _)) ==
          /\ {events[k].at : k \in DOMAIN events} = newest(limit)
          /\ \A k, l \in DOMAIN events : k < l => before(events[k].at, events[l].at)
    IN  /\ Shows(AuditPage(filter), PageLimit, LAMBDA i, j : i > j)
        /\ Shows(AuditCsv(filter), CsvLimit, LAMBDA i, j : i < j)

\* A reader of audit.csv gets back the fields of the event, whatever a client put
\* into its User-Agent or a sender into a file name.
CsvReadsBack ==
  LET fields4 == <<typed, <<>>, typed \o <<Comma>>, <<Quote>> \o typed>>
  IN  ReadCsv(CsvRow(fields4) \o CsvRow(fields4)) = <<fields4, fields4>>

\* The link to audit.csv asks for what the audit page shows.  (A filter beyond ASCII,
\* which the page's own menu does not offer, does not come back.)
FilterComesBack == IsAscii(typed) => UrlDecode(UrlEncode(typed)) = typed

\* Whatever cookies other applications of the host have set, the session is found by
\* its own: unless they hold what a header must not, or one of the same name.
CookieComesBack ==
  LET token == <<97, Equals>>
      others == Split(typed, Semicolon)
  IN  IsVisible(typed) /\ (\A i \in DOMAIN others : ~IsPrefix(Append(SessionCookie, Equals), Trim(others[i])))
        => CookieValue(CookieHeader(typed, token), SessionCookie) = token

\* A download arrives under the name the sender gave the file, without the characters
\* that sanitize_filename takes out: nothing in it ends the name early.
FilenameArrives ==
  LET header == Disposition(typed)
  IN  IsHeader(typed) => IsHeader(header) /\ ReadQuoted(header).at = "after"
                         /\ ReadQuoted(header).out = SanitizeFilename(typed)
=============================================================================
