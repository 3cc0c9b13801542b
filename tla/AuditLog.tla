------------------------------- MODULE AuditLog -------------------------------
(***************************************************************************)
(* crates/audit: the append-only JSONL file behind audit::Log, and the     *)
(* struct that writes it.                                                  *)
(*                                                                         *)
(* The service keeps one Log behind a mutex, so at most one write is in    *)
(* progress; what makes the component hard is that a write is five steps   *)
(* (advance prev_hash, append the JSON text, append the newline, sync,     *)
(* return) and that an I/O error, the end of the process or a loss of      *)
(* power can come between any two of them.                                 *)
(*                                                                         *)
(* The file is a sequence of lines, a line the sequence of the pieces of   *)
(* text appended to it: a whole event or a Torn one.  A line is what the   *)
(* reader expects when it is exactly one whole event.  SHA-256 is an ideal *)
(* digest: the hash of an event is the history it commits to, the events   *)
(* of the chain up to and including it.                                    *)
(***************************************************************************)
EXTENDS Naturals, Sequences

CONSTANTS
  Event,      \* what a caller asks to record: every field but the two hashes
  Torn,       \* the text of an event of which only a part reached the file
  Faults,     \* the kinds of fault that may strike
  MaxChain    \* bound: no event is sealed onto a longer chain than this

ASSUME FaultsAssumption == Faults \subseteq {"io", "kill", "power"}
ASSUME MaxChainAssumption == MaxChain \in Nat
ASSUME TornAssumption ==
  Torn \notin [ev : Event, prev : Seq(Event), hash : Seq(Event)]

VARIABLES
  running,    \* the process is up and has a Log open
  prevHash,   \* Log.prev_hash
  step,       \* how far Log::write has come; "idle" outside of it
  rec,        \* the sealed event Log::write is putting into the file
  lines,      \* the text of the file
  open,       \* the last line has not got its newline yet
  synced,     \* so many lines are known to survive a loss of power
  acked,      \* history: what was reported written, and where it was put
  failed      \* history: hashes of the events whose write returned an error

vars == <<running, prevHash, step, rec, lines, open, synced, acked, failed>>
file == <<lines, open>>

Hash == Seq(Event)
Genesis == <<>>
Digest(prev, e) == Append(prev, e)

Record == [ev : Event, prev : Hash, hash : Hash]
Sealed(prev, e) == [ev |-> e, prev |-> prev, hash |-> Digest(prev, e)]

-----------------------------------------------------------------------------
(* The reader: read_all, verify_chain and load_last_hash.                  *)

Parses(line) == Len(line) = 1 /\ line[1] # Torn

\* read_all returns events, rather than the error of the first bad line
Readable(ls) == \A i \in 1..Len(ls) : Parses(ls[i])

ReadAll(ls) == [i \in 1..Len(ls) |-> ls[i][1]]

HashBefore(evs, i) == IF i = 1 THEN Genesis ELSE evs[i - 1].hash

\* The events at which verify_chain's walk may stop; it stops at the first.
Breaks(evs) ==
  {i \in 1..Len(evs) : \/ evs[i].prev # HashBefore(evs, i)
                       \/ evs[i].hash # Digest(evs[i].prev, evs[i].ev)}

Valid(evs) == Breaks(evs) = {}

BreakAt(evs) == CHOOSE i \in Breaks(evs) : \A j \in Breaks(evs) : i <= j

\* load_last_hash fails when the last line does not parse, and looks at no other
LastParses(ls) == Len(ls) > 0 => Parses(ls[Len(ls)])

\* Mutant of LastHash: every file begins a chain of its own.
LastHashForgotten(ls) == Genesis

\* Mutant of LastHash: the hash is not read from the last line but computed
\* from its text, in which the hash is filled in.
LastHashOfLine(ls) ==
  IF Len(ls) = 0 THEN Genesis ELSE Digest(Genesis, ls[Len(ls)][1])

LastHash(ls) == IF Len(ls) = 0 THEN Genesis ELSE ls[Len(ls)][1].hash

-----------------------------------------------------------------------------
Init ==
  /\ running = FALSE
  /\ prevHash = Genesis
  /\ step = "idle"
  /\ rec \in {Sealed(Genesis, e) : e \in Event}     \* meaningless until Seal
  /\ lines = <<>>
  /\ open = FALSE
  /\ synced = 0
  /\ acked = <<>>
  /\ failed = {}

\* Mutant of Open: a file whose chain is broken is put aside and a new one begun.
OpenAfresh ==
  /\ ~running
  /\ LastParses(lines)
  /\ running' = TRUE
  /\ lines' = IF Readable(lines) /\ ~Valid(ReadAll(lines)) THEN <<>> ELSE lines
  /\ prevHash' = LastHash(lines')
  /\ UNCHANGED <<step, rec, open, synced, acked, failed>>

\* Log::open.  When the last line does not parse it fails and the service
\* does not start: there is no step.
Open ==
  /\ ~running
  /\ LastParses(lines)
  /\ running' = TRUE
  /\ prevHash' = LastHash(lines)
  /\ UNCHANGED <<step, rec, file, synced, acked, failed>>

\* Log::write up to the opening of the file: prev_hash moves on here.
Seal(e) ==
  /\ running
  /\ step = "idle"
  /\ Len(prevHash) < MaxChain
  /\ rec' = Sealed(prevHash, e)
  /\ prevHash' = rec'.hash
  /\ step' = "sealed"
  /\ UNCHANGED <<running, file, synced, acked, failed>>

\* Mutant of Put: the file is opened for writing, but not at its end.
PutAtStart(piece) ==
  /\ lines' = IF lines = <<>> THEN <<<<piece>>>> ELSE [lines EXCEPT ![1] = <<piece>>]
  /\ open' = TRUE

\* Text goes to the end of the file, wherever that is.
Put(piece) ==
  /\ lines' = IF open THEN [lines EXCEPT ![Len(lines)] = Append(@, piece)]
                      ELSE Append(lines, <<piece>>)
  /\ open' = TRUE

\* The first half of writeln!: the JSON text.
AppendText ==
  /\ step = "sealed"
  /\ Put(rec)
  /\ step' = "written"
  /\ UNCHANGED <<running, prevHash, rec, synced, acked, failed>>

\* The second half of writeln!: the newline.
EndLine ==
  /\ step = "written"
  /\ open' = FALSE
  /\ step' = "ended"
  /\ UNCHANGED <<running, prevHash, rec, lines, synced, acked, failed>>

\* Mutant of Sync: sync_all is left out.
AckUnsynced ==
  /\ step = "ended"
  /\ acked' = Append(acked, [line |-> Len(lines), at |-> Len(lines[Len(lines)]), rec |-> rec])
  /\ step' = "idle"
  /\ UNCHANGED <<running, prevHash, rec, file, synced, failed>>

\* sync_all, and Ok(()) to the caller.
Sync ==
  /\ step = "ended"
  /\ synced' = Len(lines)
  /\ acked' = Append(acked, [line |-> Len(lines), at |-> Len(lines[Len(lines)]), rec |-> rec])
  /\ step' = "idle"
  /\ UNCHANGED <<running, prevHash, rec, file, failed>>

\* A call on the file fails: Log::write returns the error, and no more.
WriteFails ==
  /\ "io" \in Faults
  /\ step # "idle"
  /\ \/ UNCHANGED file
     \/ step = "sealed" /\ Put(Torn)      \* write_all had written a part
  /\ failed' = failed \cup {rec.hash}
  /\ step' = "idle"
  /\ UNCHANGED <<running, prevHash, rec, synced, acked>>

\* The service is stopped between two writes.
Stop ==
  /\ running
  /\ step = "idle"
  /\ running' = FALSE
  /\ UNCHANGED <<prevHash, step, rec, file, synced, acked, failed>>

\* The process ends in the middle of a write.
Kill ==
  /\ "kill" \in Faults
  /\ step # "idle"
  /\ running' = FALSE
  /\ step' = "idle"
  /\ UNCHANGED <<prevHash, rec, file, synced, acked, failed>>

\* The machine stops: of the text that was never synced some prefix is left.
PowerLoss ==
  /\ "power" \in Faults
  /\ \/ \E k \in synced..Len(lines) :
          /\ lines' = SubSeq(lines, 1, k)
          /\ open' = (open /\ k = Len(lines))
     \/ \E k \in (synced + 1)..Len(lines) : \E m \in 1..Len(lines[k]) :
          \E piece \in {lines[k][m], Torn} :
            /\ lines' = Append(SubSeq(lines, 1, k - 1),
                               Append(SubSeq(lines[k], 1, m - 1), piece))
            /\ open' = TRUE
  /\ running' = FALSE
  /\ step' = "idle"
  /\ UNCHANGED <<prevHash, rec, synced, acked, failed>>

Next ==
  \/ Open
  \/ \E e \in Event : Seal(e)
  \/ AppendText
  \/ EndLine
  \/ Sync
  \/ WriteFails
  \/ Stop
  \/ Kill
  \/ PowerLoss

Spec == Init /\ [][Next]_vars

-----------------------------------------------------------------------------
TypeOK ==
  /\ running \in BOOLEAN
  /\ prevHash \in Hash
  /\ step \in {"idle", "sealed", "written", "ended"}
  /\ rec \in Record
  /\ lines \in Seq(Seq(Record \cup {Torn}))
  /\ open \in BOOLEAN
  /\ synced \in 0..Len(lines)
  /\ acked \in Seq([line : Nat, at : Nat, rec : Record])
  /\ failed \in SUBSET Hash

\* Log::write returned Ok for an event: from then on its text is in the file,
\* whole, at the place where it was put, and no fault the code can meet takes
\* it away; and events acknowledged later stand further down the file.
AckedKept ==
  /\ \A k \in 1..Len(acked) :
       /\ acked[k].line \in 1..synced
       /\ acked[k].at \in 1..Len(lines[acked[k].line])
       /\ lines[acked[k].line][acked[k].at] = acked[k].rec
  /\ \A j, k \in 1..Len(acked) : j < k => acked[j].line < acked[k].line

\* Every event at which verify_chain can stop, in a file that nobody edited, was
\* chained to an event whose write had returned an error: neither a restart nor
\* the end of the process nor a loss of power alone ever breaks the chain.
BreaksFollowFailedWrites ==
  Readable(lines) =>
    LET evs == ReadAll(lines) IN \A i \in Breaks(evs) : evs[i].prev \in failed

\* A break is for good: no later event, restart or loss of power of what had
\* been synced moves the index verify_chain reports, or clears it.
BreakIsForGood ==
  [][ LET evs == ReadAll(lines)
          evsNext == ReadAll(lines')
      IN  (/\ Readable(lines) /\ Readable(lines')
           /\ ~Valid(evs) /\ BreakAt(evs) <= synced)
          => ~Valid(evsNext) /\ BreakAt(evsNext) = BreakAt(evs) ]_vars

\* With no fault, whatever the log is doing and however often the service is
\* restarted, the audit page can read the file, verify_chain accepts it, and a
\* restart can open it.
AlwaysVerifies ==
  /\ Readable(lines)
  /\ Valid(ReadAll(lines))

\* audit/src/lib.rs:3: "Every event is one JSON object on its own line."
OneObjectPerLine == \A i \in 1..Len(lines) : Len(lines[i]) = 1

\* audit/src/lib.rs:3-5: each event carries "a prev_hash pointing at the
\* SHA-256 of the previous line".
PrevHashPointsAtPreviousLine ==
  Readable(lines) =>
    LET evs == ReadAll(lines) IN
    \A i \in 1..Len(evs) : evs[i].prev = HashBefore(evs, i)
=============================================================================
