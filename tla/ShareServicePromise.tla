------------------------- MODULE ShareServicePromise --------------------------
(***************************************************************************)
(* ShareService implements SharePromise, as long as the machine keeps its  *)
(* power: a request takes effect with the statement that inserts the row   *)
(* of a share, takes a slot or marks the row revoked, and nobody sees what *)
(* is between that and the event in the log.                               *)
(***************************************************************************)
EXTENDS ShareService

Client == Upload \cup Redemption \cup Revocation

\* It has had its effect and not yet said so; it has said so.
Done(r) == pc[r] = "read" \/ (pc[r] = "audit" /\ entry[r].what \notin Denied)
Recorded(r) ==
  pc[r] \in {"notify", "respond"} \/ (pc[r] = "confirm" /\ entry[r].what \notin Denied)

PhaseOf(r) ==
  CASE pc[r] = "ok" -> "answered"
    [] pc[r] = "failed" -> "failed"
    [] Done(r) -> "done"
    [] Recorded(r) -> "recorded"
    [] OTHER -> "asked"

SubjectOf(r) ==
  IF PhaseOf(r) \notin {"done", "recorded", "answered"} THEN None
  ELSE IF r \in Upload THEN r ELSE target[r]

Made == {s \in Upload : share[s] # None}
Left == [s \in Upload |-> IF s \in Made THEN share[s].max - share[s].count ELSE 0]
Withdrawn == {s \in Made : share[s].revoked}
Over == {s \in Made : share[s].expires <= now}
Phases == [r \in Client |-> PhaseOf(r)]
Subjects == [r \in Client |-> SubjectOf(r)]
Recalled == {trail[i] : i \in {j \in 1..Len(trail) : trail[j].what \notin Denied}}

Promise == INSTANCE SharePromise WITH
             offered <- Made, left <- Left, withdrawn <- Withdrawn, over <- Over,
             phase <- Phases, subject <- Subjects, record <- Recalled

\* However requests interleave and whatever fails, to those outside it is as if
\* each took effect and was recorded in one piece, between being asked and being
\* answered: a download that is asked for after a revocation was answered fails,
\* and of two for the last slot one does.
ImplementsSharePromise == Promise!Spec
=============================================================================
