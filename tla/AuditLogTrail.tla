---------------------------- MODULE AuditLogTrail -----------------------------
(***************************************************************************)
(* AuditLog implements AuditTrail, whatever the faults: the trail is the   *)
(* sequence of whole events in the text of the file, also of those on      *)
(* lines the reader refuses, and the safe part is the synced lines'.       *)
(***************************************************************************)
EXTENDS AuditLog, SequencesExt

\* Of a Torn piece nothing counts.
EventOf(piece) == IF piece = Torn THEN <<>> ELSE <<piece.ev>>

EventsIn(pieces) == FlattenSeq([i \in DOMAIN pieces |-> EventOf(pieces[i])])

EventsOf(ls) == EventsIn(FlattenSeq(ls))

Trail == INSTANCE AuditTrail WITH
           trail <- EventsOf(lines),
           kept <- Len(EventsOf(SubSeq(lines, 1, synced)))

\* The log never drops, reorders or rewrites an event it has taken into the
\* file, except that a loss of power may take an unconfirmed end of it.
ImplementsAuditTrail == Trail!Spec
=============================================================================
