------------------------------ MODULE AuditTrail ------------------------------
(***************************************************************************)
(* What crates/audit promises the rest of the program, with nothing of how *)
(* it keeps the promise: a trail of events that only grows at its end, of  *)
(* which an initial part is safe for good.  Whoever was told that an event *)
(* was written has it in the safe part.                                    *)
(***************************************************************************)
EXTENDS Naturals, Sequences

CONSTANT Event

VARIABLES
  trail,    \* the events on record, oldest first
  kept      \* so many of them can no longer be lost

vars == <<trail, kept>>

Init == trail = <<>> /\ kept = 0

\* An event gets onto the record; its writer has not been told.
Write(e) ==
  /\ trail' = Append(trail, e)
  /\ UNCHANGED kept

\* The last writer is told that its event was written.
Confirm ==
  /\ kept' = Len(trail)
  /\ UNCHANGED trail

\* The end of the trail, as far as it was not safe, disappears.
Lose ==
  /\ \E n \in kept..Len(trail) : trail' = SubSeq(trail, 1, n)
  /\ UNCHANGED kept

Next == (\E e \in Event : Write(e)) \/ Confirm \/ Lose

Spec == Init /\ [][Next]_vars
=============================================================================
