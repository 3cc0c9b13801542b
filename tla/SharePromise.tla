----------------------------- MODULE SharePromise -----------------------------
(***************************************************************************)
(* What the service promises those who use shares, with nothing of its     *)
(* mutexes, tables and files.  Each request takes effect at once, or not   *)
(* at all; its effect is on record before anything else takes effect and   *)
(* before it is answered; and it takes effect only on a share that then    *)
(* allows it.  Any request may fail at any time, also after its effect.    *)
(***************************************************************************)
EXTENDS Naturals

CONSTANTS Upload, Redemption, Revocation, Limit, None

VARIABLES
  offered,     \* the shares there are, named by their uploads
  left,        \* how many downloads of each are left
  withdrawn,   \* those that are revoked
  over,        \* those that have expired
  phase,       \* how far each request has got
  subject,     \* the share a request has had its effect on
  record       \* what was done, to which share and at whose request

vars == <<phase, offered, left, withdrawn, over, subject, record>>

Client == Upload \cup Redemption \cup Revocation
Phase == {"asked", "done", "recorded", "answered", "failed"}

Deed(r) ==
  IF r \in Upload THEN "created" ELSE IF r \in Redemption THEN "redeemed" ELSE "revoked"
Line(r, s) == [what |-> Deed(r), share |-> s, by |-> r]

\* A request takes effect, while no other one's effect still awaits its record.
Effect(r, s) ==
  /\ phase[r] = "asked"
  /\ \A q \in Client : phase[q] # "done"
  /\ phase' = [phase EXCEPT ![r] = "done"]
  /\ subject' = [subject EXCEPT ![r] = s]
  /\ UNCHANGED record

Offer(u) ==
  /\ Effect(u, u)
  /\ u \notin offered
  /\ offered' = offered \cup {u}
  /\ \E n \in Limit : left' = [left EXCEPT ![u] = n]
  /\ over' \in {over, over \cup {u}}
  /\ UNCHANGED withdrawn

\* Nobody has the link to a share that is not on record.
Take(d, s) ==
  /\ Effect(d, s)
  /\ s \in offered \ (withdrawn \cup over)
  /\ left[s] > 0
  /\ \E line \in record : line.what = "created" /\ line.share = s
  /\ left' = [left EXCEPT ![s] = @ - 1]
  /\ UNCHANGED <<offered, withdrawn, over>>

Withdraw(v, s) ==
  /\ Effect(v, s)
  /\ s \in offered \ withdrawn
  /\ withdrawn' = withdrawn \cup {s}
  /\ UNCHANGED <<offered, left, over>>

Record(r) ==
  /\ phase[r] = "done"
  /\ record' = record \cup {Line(r, subject[r])}
  /\ phase' = [phase EXCEPT ![r] = "recorded"]
  /\ UNCHANGED <<offered, left, withdrawn, over, subject>>

Answer(r) ==
  /\ phase[r] = "recorded"
  /\ phase' = [phase EXCEPT ![r] = "answered"]
  /\ UNCHANGED <<offered, left, withdrawn, over, subject, record>>

\* One or several requests fail; what they have done remains.
GiveUp ==
  /\ phase' \in [Client -> Phase]
  /\ \A r \in Client :
       phase'[r] # phase[r] => phase[r] # "answered" /\ phase'[r] = "failed"
  /\ subject' = [r \in Client |-> IF phase'[r] = "failed" THEN None ELSE subject[r]]
  /\ UNCHANGED <<offered, left, withdrawn, over, record>>

Expire ==
  /\ over \subseteq over' /\ over' \subseteq offered
  /\ UNCHANGED <<offered, left, withdrawn, phase, subject, record>>

Init ==
  /\ offered = {} /\ left = [u \in Upload |-> 0]
  /\ withdrawn = {} /\ over = {}
  /\ phase = [r \in Client |-> "asked"]
  /\ subject = [r \in Client |-> None]
  /\ record = {}

Next ==
  \/ \E u \in Upload : Offer(u)
  \/ \E d \in Redemption, s \in Upload : Take(d, s)
  \/ \E v \in Revocation, s \in Upload : Withdraw(v, s)
  \/ \E r \in Client : Record(r) \/ Answer(r)
  \/ GiveUp
  \/ Expire

Spec == Init /\ [][Next]_vars
=============================================================================
