---------------------------- MODULE AuditLogProofs ----------------------------
(***************************************************************************)
(* Proofs about AuditLog, for every set of events, every combination of    *)
(* faults and every bound.                                                 *)
(***************************************************************************)
EXTENDS AuditLogTrail, DataInduction

Piece == Record \cup {Torn}

\* Where Log::write stands and what the end of the file looks like then.
Progress ==
  /\ step # "idle" => running
  /\ open => Len(lines) > synced
  /\ step \in {"written", "ended"} =>
       /\ Len(lines) > synced
       /\ open = (step = "written")
       /\ Len(lines[Len(lines)]) > 0
       /\ lines[Len(lines)][Len(lines[Len(lines)])] = rec

\* TypeOK and Progress are inductive together: what Sync puts into acked is
\* well typed only because the line it names exists.
TypeInv == TypeOK /\ Progress

LEMMA TornIsNoRecord == Torn \notin Record
BY TornAssumption DEF Record, Hash

LEMMA SealedType ==
  ASSUME NEW prev \in Hash, NEW e \in Event
  PROVE  Sealed(prev, e) \in Record
BY DEF Sealed, Record, Hash, Digest

LEMMA LastHashType ==
  ASSUME lines \in Seq(Seq(Piece)), LastParses(lines)
  PROVE  LastHash(lines) \in Hash
<1>1. CASE Len(lines) = 0
  BY <1>1 DEF LastHash, Genesis, Hash
<1>2. CASE Len(lines) > 0
  <2>1. Parses(lines[Len(lines)]) /\ lines[Len(lines)] \in Seq(Piece)
    BY <1>2 DEF LastParses
  <2>2. lines[Len(lines)][1] \in Record
    BY <2>1 DEF Parses, Piece
  <2> QED
    BY <1>2, <2>2 DEF LastHash, Record
<1> QED
  BY <1>1, <1>2

\* What Put does to a file: it adds one piece at the very end.
LEMMA PutEffect ==
  ASSUME TypeInv, NEW piece \in Piece, Put(piece)
  PROVE  /\ lines' \in Seq(Seq(Piece))
         /\ open' = TRUE
         /\ Len(lines') >= Len(lines)
         /\ Len(lines') > synced
         /\ \A i \in 1..Len(lines) : i < Len(lines') => lines'[i] = lines[i]
         /\ Len(lines'[Len(lines')]) > 0
         /\ lines'[Len(lines')][Len(lines'[Len(lines')])] = piece
<1> USE DEF TypeInv, TypeOK, Progress, Piece
<1>1. CASE open
  <2>1. Len(lines) > 0 /\ lines[Len(lines)] \in Seq(Piece)
    BY <1>1
  <2>2. /\ lines' = [lines EXCEPT ![Len(lines)] = Append(lines[Len(lines)], piece)]
        /\ open' = TRUE
    BY <1>1 DEF Put
  <2>3. Append(lines[Len(lines)], piece) \in Seq(Piece)
    BY <2>1
  <2> QED
    BY <1>1, <2>1, <2>2, <2>3
<1>2. CASE ~open
  <2>1. lines' = Append(lines, <<piece>>) /\ open' = TRUE
    BY <1>2 DEF Put
  <2>2. <<piece>> \in Seq(Piece)
    OBVIOUS
  <2> QED
    BY <2>1, <2>2
<1> QED
  BY <1>1, <1>2 

\* What a loss of power makes of a file that it cuts inside of line k.
LEMMA CutInsideLine ==
  ASSUME TypeInv, NEW k \in (synced + 1)..Len(lines), NEW m \in 1..Len(lines[k]),
         NEW piece \in {lines[k][m], Torn},
         lines' = Append(SubSeq(lines, 1, k - 1),
                         Append(SubSeq(lines[k], 1, m - 1), piece))
  PROVE  /\ lines' \in Seq(Seq(Piece))
         /\ Len(lines') = k
         /\ \A i \in 1..(k - 1) : lines'[i] = lines[i]
         /\ Len(lines'[k]) = m
         /\ lines'[k][1] \in {lines[k][1], Torn}
<1>1. /\ k \in 1..Len(lines)
      /\ lines \in Seq(Seq(Piece))
  BY DEF TypeInv, TypeOK, Piece
<1>2. lines[k] \in Seq(Piece) /\ piece \in Piece
  <2>1. lines[k] \in Seq(Piece)
    BY <1>1
  <2>2. lines[k][m] \in Piece
    BY <2>1
  <2>3. Torn \in Piece
    BY DEF Piece
  <2> QED
    BY <2>1, <2>2, <2>3
<1> DEFINE start == SubSeq(lines[k], 1, m - 1)
           cut   == Append(start, piece)
           above == SubSeq(lines, 1, k - 1)
<1>3. /\ start \in Seq(Piece)
      /\ Len(start) = m - 1
      /\ \A i \in 1..(m - 1) : start[i] = lines[k][i]
  BY <1>2
<1>4. /\ cut \in Seq(Piece)
      /\ Len(cut) = m
      /\ cut[1] \in {lines[k][1], Torn}
  BY <1>2, <1>3
<1>5. /\ above \in Seq(Seq(Piece))
      /\ Len(above) = k - 1
      /\ \A i \in 1..(k - 1) : above[i] = lines[i]
  BY <1>1
<1>6. lines' = Append(above, cut)
  OBVIOUS
<1> HIDE DEF start, cut, above
<1>7. k \in Nat /\ k - 1 + 1 = k /\ m \in Nat
  BY <1>1, <1>2
<1>8. /\ lines' \in Seq(Seq(Piece))
      /\ Len(lines') = k
  <2>1. lines' \in Seq(Seq(Piece)) /\ Len(lines') = Len(above) + 1
    <3>1. above \in Seq(Seq(Piece)) /\ cut \in Seq(Piece)
      BY <1>4, <1>5
    <3>2. Append(above, cut) \in Seq(Seq(Piece)) /\ Len(Append(above, cut)) = Len(above) + 1
      BY <3>1, AppendProperties
    <3> QED
      BY <1>6, <3>2
  <2> QED
    BY <1>5, <1>7, <2>1
<1>9. \A i \in 1..(k - 1) : lines'[i] = lines[i]
  BY <1>4, <1>5, <1>6, <1>7
<1>10. lines'[k] = cut
  BY <1>4, <1>5, <1>6, <1>7
<1> QED
  BY <1>4, <1>8, <1>9, <1>10

LEMMA InitType == Init => TypeInv
<1> SUFFICES ASSUME Init
             PROVE  TypeInv
  OBVIOUS
<1>1. Genesis \in Hash
  BY DEF Genesis, Hash
<1>2. PICK e \in Event : rec = Sealed(Genesis, e)
  BY DEF Init
<1>3. rec \in Record
  BY <1>1, <1>2, SealedType
<1>4. /\ lines \in Seq(Seq(Record \cup {Torn}))
      /\ acked \in Seq([line : Nat, at : Nat, rec : Record])
      /\ synced \in 0..Len(lines)
  BY DEF Init
<1>5. TypeOK
  BY <1>1, <1>3, <1>4 DEF Init, TypeOK
<1>6. Progress
  BY DEF Init, Progress
<1> QED
  BY <1>5, <1>6 DEF TypeInv

LEMMA NextType == TypeInv /\ [Next]_vars => TypeInv'
<1> SUFFICES ASSUME TypeInv, [Next]_vars
             PROVE  TypeInv'
  OBVIOUS
<1> USE DEF TypeInv, TypeOK, Progress
<1>1. CASE Open
  BY <1>1, LastHashType DEF Open, file, Piece
<1>2. ASSUME NEW e \in Event, Seal(e)
      PROVE  TypeInv'
  <2>1. rec' \in Record
    BY <1>2, SealedType DEF Seal
  <2> QED
    BY <1>2, <2>1 DEF Seal, Record, file
<1>3. CASE AppendText
  <2>1. Put(rec) /\ rec \in Piece
    BY <1>3 DEF AppendText, Piece
  <2>2. /\ lines' \in Seq(Seq(Record \cup {Torn}))
        /\ open' = TRUE
        /\ Len(lines') >= Len(lines)
        /\ Len(lines') > synced
        /\ Len(lines'[Len(lines')]) > 0
        /\ lines'[Len(lines')][Len(lines'[Len(lines')])] = rec
    BY <2>1, PutEffect DEF Piece
  <2>3. TypeOK'
    BY <1>3, <2>2 DEF AppendText
  <2>4. Progress'
    BY <1>3, <2>2 DEF AppendText
  <2> QED
    BY <2>3, <2>4
<1>4. CASE EndLine
  BY <1>4 DEF EndLine
<1>5. CASE Sync
  <2>1. [line |-> Len(lines), at |-> Len(lines[Len(lines)]), rec |-> rec]
          \in [line : Nat, at : Nat, rec : Record]
    BY <1>5 DEF Sync
  <2>2. acked' \in Seq([line : Nat, at : Nat, rec : Record])
    BY <1>5, <2>1 DEF Sync
  <2>3. /\ synced' = Len(lines) /\ step' = "idle"
        /\ UNCHANGED <<running, prevHash, rec, lines, open, failed>>
    BY <1>5 DEF Sync, file
  <2>4. ~open
    BY <1>5 DEF Sync
  <2> QED
    BY <2>2, <2>3, <2>4
<1>6. CASE WriteFails
  <2>1. failed' \in SUBSET Hash
    BY <1>6 DEF WriteFails, Record
  <2>2. CASE UNCHANGED file
    BY <1>6, <2>1, <2>2 DEF WriteFails, file
  <2>3. CASE step = "sealed" /\ Put(Torn)
    <3>1. /\ lines' \in Seq(Seq(Record \cup {Torn}))
          /\ open' = TRUE
          /\ Len(lines') >= Len(lines)
          /\ Len(lines') > synced
      BY <2>3, PutEffect DEF Piece
    <3> QED
      BY <1>6, <2>1, <3>1 DEF WriteFails
  <2> QED
    BY <1>6, <2>2, <2>3 DEF WriteFails
<1>7. CASE Stop
  BY <1>7 DEF Stop, file
<1>8. CASE Kill
  BY <1>8 DEF Kill, file
<1>9. CASE PowerLoss
  <2>1. /\ step' = "idle" /\ running' = FALSE
        /\ UNCHANGED <<prevHash, rec, synced, acked, failed>>
    BY <1>9 DEF PowerLoss
  <2>2. ASSUME NEW k \in synced..Len(lines), lines' = SubSeq(lines, 1, k),
               open' = (open /\ k = Len(lines))
        PROVE  TypeInv'
    <3>1. lines' \in Seq(Seq(Record \cup {Torn})) /\ Len(lines') = k
      BY <2>2
    <3>2. open' \in BOOLEAN /\ synced' \in 0..Len(lines')
      BY <2>1, <2>2, <3>1
    <3>3. TypeOK'
      BY <2>1, <3>1, <3>2
    <3>4. Progress'
      BY <2>1, <2>2, <3>1
    <3> QED
      BY <3>3, <3>4
  <2>3. ASSUME NEW k \in (synced + 1)..Len(lines), NEW m \in 1..Len(lines[k]),
               NEW piece \in {lines[k][m], Torn},
               lines' = Append(SubSeq(lines, 1, k - 1),
                               Append(SubSeq(lines[k], 1, m - 1), piece)),
               open' = TRUE
        PROVE  TypeInv'
    <3>1. lines' \in Seq(Seq(Record \cup {Torn})) /\ Len(lines') = k
      BY <2>3, CutInsideLine DEF Piece
    <3>2. open' \in BOOLEAN /\ synced' \in 0..Len(lines')
      BY <2>1, <2>3, <3>1
    <3>3. TypeOK'
      BY <2>1, <3>1, <3>2
    <3>4. Progress'
      BY <2>1, <2>3, <3>1
    <3> QED
      BY <3>3, <3>4
  <2> QED
    BY <1>9, <2>2, <2>3 DEF PowerLoss
<1>10. CASE UNCHANGED vars
  BY <1>10 DEF vars, file
<1> QED
  BY <1>1, <1>2, <1>3, <1>4, <1>5, <1>6, <1>7, <1>8, <1>9, <1>10 DEF Next

\* Beside the types: a write in progress has its event at the very end of the
\* file from AppendText on.
THEOREM TypeInvHolds == Spec => []TypeInv
<1>1. Init => TypeInv
  BY InitType
<1>2. TypeInv /\ [Next]_vars => TypeInv'
  BY NextType
<1> QED
  BY <1>1, <1>2, PTL DEF Spec

\* Whatever fails, the variables of the log keep their types; in particular the
\* part of the file that is known to be synced never reaches beyond its end.
THEOREM TypeCorrect == Spec => []TypeOK
<1>1. TypeInv => TypeOK
  BY DEF TypeInv
<1> QED
  BY <1>1, TypeInvHolds, PTL

-----------------------------------------------------------------------------
(* What has been synced and acknowledged stays.                            *)

\* No step of the code and no fault touches a synced line.
LEMMA SyncedLinesKept ==
  ASSUME TypeInv, [Next]_vars
  PROVE  synced' >= synced /\ \A i \in 1..synced : lines'[i] = lines[i]
<1> USE DEF TypeInv, TypeOK, Progress
<1>1. CASE UNCHANGED lines /\ synced' = synced
  BY <1>1
<1>2. CASE Sync
  BY <1>2 DEF Sync, file
<1>3. ASSUME NEW piece \in Piece, Put(piece), synced' = synced
      PROVE  synced' >= synced /\ \A i \in 1..synced : lines'[i] = lines[i]
  <2>1. /\ lines' \in Seq(Seq(Piece)) /\ Len(lines') > synced
        /\ \A i \in 1..Len(lines) : i < Len(lines') => lines'[i] = lines[i]
    BY <1>3, PutEffect
  <2>2. Len(lines') \in Nat /\ Len(lines) \in Nat /\ synced \in 0..Len(lines)
    BY <2>1
  <2>3. ASSUME NEW i \in 1..synced
        PROVE  lines'[i] = lines[i]
    <3>1. i \in 1..Len(lines) /\ i < Len(lines')
      BY <2>1, <2>2
    <3> QED
      BY <2>1, <3>1
  <2>4. synced' >= synced
    BY <1>3, <2>2
  <2> QED
    BY <2>3, <2>4
<1>4. CASE AppendText
  BY <1>3, <1>4 DEF AppendText, Piece
<1>5. CASE WriteFails
  <2>1. CASE UNCHANGED file
    BY <1>1, <1>5, <2>1 DEF WriteFails, file
  <2>2. CASE Put(Torn)
    BY <1>3, <1>5, <2>2 DEF WriteFails, Piece
  <2> QED
    BY <1>5, <2>1, <2>2 DEF WriteFails
<1>6. CASE PowerLoss
  <2>1. synced' = synced
    BY <1>6 DEF PowerLoss
  <2>2. ASSUME NEW k \in synced..Len(lines), lines' = SubSeq(lines, 1, k)
        PROVE  \A i \in 1..synced : lines'[i] = lines[i]
    BY <2>2
  <2>3. ASSUME NEW k \in (synced + 1)..Len(lines), NEW m \in 1..Len(lines[k]),
               NEW piece \in {lines[k][m], Torn},
               lines' = Append(SubSeq(lines, 1, k - 1),
                               Append(SubSeq(lines[k], 1, m - 1), piece))
        PROVE  \A i \in 1..synced : lines'[i] = lines[i]
    <3>1. \A i \in 1..(k - 1) : lines'[i] = lines[i]
      BY <2>3, CutInsideLine
    <3> QED
      BY <3>1
  <2>4. \A i \in 1..synced : lines'[i] = lines[i]
    BY <1>6, <2>2, <2>3 DEF PowerLoss
  <2> QED
    BY <2>1, <2>4
<1> QED
  BY <1>1, <1>2, <1>4, <1>5, <1>6
     DEF Next, vars, Open, Seal, EndLine, Stop, Kill, file

\* An event reported written stays in the file, whole and in its place, after
\* any number of further writes, failed writes, restarts and losses of power.
THEOREM AcknowledgedIsKept == Spec => []AckedKept
<1>1. Init => AckedKept
  BY DEF Init, AckedKept
<1>2. TypeInv /\ AckedKept /\ [Next]_vars => AckedKept'
  <2> SUFFICES ASSUME TypeInv, AckedKept, [Next]_vars
               PROVE  AckedKept'
    OBVIOUS
  <2>1. /\ synced' >= synced /\ synced' \in Nat /\ synced \in Nat
        /\ \A i \in 1..synced : lines'[i] = lines[i]
    BY SyncedLinesKept, NextType DEF TypeInv, TypeOK
  <2>2. CASE acked' = acked
    <3>1. ASSUME NEW k \in 1..Len(acked)
          PROVE  /\ acked[k].line \in 1..synced'
                 /\ acked[k].at \in 1..Len(lines'[acked[k].line])
                 /\ lines'[acked[k].line][acked[k].at] = acked[k].rec
      <4>1. /\ acked[k].line \in 1..synced
            /\ acked[k].at \in 1..Len(lines[acked[k].line])
            /\ lines[acked[k].line][acked[k].at] = acked[k].rec
        BY DEF AckedKept
      <4>2. lines'[acked[k].line] = lines[acked[k].line]
        BY <2>1, <4>1
      <4> QED
        BY <2>1, <4>1, <4>2
    <3>2. \A j, k \in 1..Len(acked) : j < k => acked[j].line < acked[k].line
      BY DEF AckedKept
    <3> QED
      BY <2>2, <3>1, <3>2 DEF AckedKept
  <2>3. CASE Sync
    <3> DEFINE last == Len(lines)
               new  == [line |-> last, at |-> Len(lines[last]), rec |-> rec]
    <3>1. /\ acked' = Append(acked, new)
          /\ synced' = last
          /\ lines' = lines
      BY <2>3 DEF Sync, file
    <3>2. /\ last \in 1..last
          /\ last > synced
          /\ Len(lines[last]) \in 1..Len(lines[last])
          /\ lines[last][Len(lines[last])] = rec
      BY <2>3 DEF Sync, TypeInv, TypeOK, Progress
    <3>3. /\ acked \in Seq([line : Nat, at : Nat, rec : Record])
          /\ Len(acked') = Len(acked) + 1
          /\ acked'[Len(acked) + 1] = new
          /\ \A k \in 1..Len(acked) : acked'[k] = acked[k]
      BY <3>1 DEF TypeInv, TypeOK
    <3>a. \A k \in 1..Len(acked') : k = Len(acked) + 1 \/ k \in 1..Len(acked)
      BY <3>3
    <3>b. new.line = last /\ new.at = Len(lines[last]) /\ new.rec = rec
      OBVIOUS
    <3>c. \A k \in 1..Len(acked) : acked[k].line \in 1..synced /\ acked[k].line < last
      BY <2>1, <3>2 DEF AckedKept
    <3> HIDE DEF new, last
    <3>4. ASSUME NEW k \in 1..Len(acked')
          PROVE  /\ acked'[k].line \in 1..synced'
                 /\ acked'[k].at \in 1..Len(lines'[acked'[k].line])
                 /\ lines'[acked'[k].line][acked'[k].at] = acked'[k].rec
      <4>1. CASE k = Len(acked) + 1
        BY <3>1, <3>2, <3>3, <3>b, <4>1
      <4>2. CASE k \in 1..Len(acked)
        <5>1. acked[k].line \in 1..synced'
          BY <2>1, <3>c, <4>2
        <5> QED
          BY <3>1, <3>3, <4>2, <5>1 DEF AckedKept
      <4> QED
        BY <3>a, <4>1, <4>2
    <3>5. ASSUME NEW j \in 1..Len(acked'), NEW k \in 1..Len(acked'), j < k
          PROVE  acked'[j].line < acked'[k].line
      <4>1. j \in 1..Len(acked)
        BY <3>3, <3>5
      <4>2. CASE k = Len(acked) + 1
        BY <3>3, <3>b, <3>c, <4>1, <4>2
      <4>3. CASE k \in 1..Len(acked)
        BY <3>3, <3>5, <4>1, <4>3 DEF AckedKept
      <4> QED
        BY <3>a, <4>2, <4>3
    <3> QED
      BY <3>4, <3>5 DEF AckedKept
  <2> QED
    BY <2>2, <2>3 DEF Next, vars, Open, Seal, AppendText, EndLine, WriteFails,
                      Stop, Kill, PowerLoss
<1> QED
  BY <1>1, <1>2, TypeInvHolds, PTL DEF Spec

-----------------------------------------------------------------------------
(* Why the chain holds, and when it does not.                              *)

WellSealed(r) == r.hash = Digest(r.prev, r.ev)

\* An event with this prev_hash continues the file, unless the file already
\* ends in a line that no reader gets past, or the event it was chained to was
\* never written.
Continues(h) == h \in failed \/ ~LastParses(lines) \/ h = LastHash(lines)

\* The event that begins line i is linked to the event on the line before it.
Linked(i) ==
  LET prev == lines[i][1].prev IN
  /\ WellSealed(lines[i][1])
  /\ i = 1 => prev = Genesis \/ prev \in failed
  /\ i > 1 /\ Parses(lines[i - 1]) => prev = lines[i - 1][1].hash \/ prev \in failed

LinesLinked ==
  \A i \in 1..Len(lines) :
    Len(lines[i]) > 0 /\ (lines[i][1] # Torn => Linked(i))

ChainInv ==
  /\ LinesLinked
  /\ WellSealed(rec)
  /\ running /\ step = "idle" => Continues(prevHash)
  /\ step = "sealed" => Continues(rec.prev)
  /\ step # "idle" => prevHash = rec.hash

\* With no fault the file is at all times one event per line.
FaultFreeInv ==
  Faults = {} => failed = {} /\ Readable(lines) /\ (open => step = "written")

LEMMA LinkedStays ==
  ASSUME NEW i \in Nat, Linked(i), failed \subseteq failed',
         lines'[i][1] = lines[i][1],
         i > 1 => lines'[i - 1] = lines[i - 1]
  PROVE  Linked(i)'
BY DEF Linked, WellSealed

LEMMA SameLinesStayLinked ==
  ASSUME LinesLinked, lines' = lines, failed \subseteq failed'
  PROVE  LinesLinked'
BY DEF LinesLinked, Linked, WellSealed

LEMMA PutKeepsLinked ==
  ASSUME TypeInv, LinesLinked, NEW piece \in Piece, Put(piece),
         failed \subseteq failed',
         piece # Torn => WellSealed(piece) /\ Continues(piece.prev)
  PROVE  LinesLinked'
<1>0. PICK n \in Nat : n = Len(lines)
  BY DEF TypeInv, TypeOK
<1>1. /\ lines \in Seq(Seq(Piece)) /\ n \in Nat /\ n = Len(lines)
      /\ open \in BOOLEAN /\ (open => n > 0)
  BY <1>0 DEF TypeInv, TypeOK, Progress, Piece
<1>2. CASE open
  <2>1. n > 0 /\ lines[n] \in Seq(Piece) /\ Len(lines[n]) > 0
    BY <1>1, <1>2 DEF LinesLinked
  <2>2. lines' = [lines EXCEPT ![n] = Append(lines[n], piece)]
    BY <1>1, <1>2 DEF Put
  <2>3. /\ Len(lines') = n
        /\ \A i \in 1..n : i # n => lines'[i] = lines[i]
        /\ Len(lines'[n]) > 0
        /\ lines'[n][1] = lines[n][1]
    BY <1>1, <2>1, <2>2
  <2>4. ASSUME NEW i \in 1..n
        PROVE  Len(lines'[i]) > 0 /\ (lines'[i][1] # Torn => Linked(i)')
    <3>1. i \in Nat /\ lines'[i][1] = lines[i][1] /\ Len(lines'[i]) > 0
      BY <1>1, <2>3 DEF LinesLinked
    <3>2. i > 1 => i - 1 \in 1..n /\ i - 1 # n
      BY <1>1
    <3>3. i > 1 => lines'[i - 1] = lines[i - 1]
      BY <2>3, <3>2
    <3>4. lines[i][1] # Torn => Linked(i)
      BY <1>1 DEF LinesLinked
    <3> QED
      BY <3>1, <3>3, <3>4, LinkedStays
  <2> QED
    BY <2>3, <2>4 DEF LinesLinked
<1>3. CASE ~open
  <2>1. lines' = Append(lines, <<piece>>)
    BY <1>3 DEF Put
  <2>2. /\ Len(lines') = n + 1
        /\ \A i \in 1..n : lines'[i] = lines[i]
        /\ lines'[n + 1] = <<piece>>
    BY <1>1, <2>1
  <2>3. ASSUME NEW i \in 1..n
        PROVE  Len(lines'[i]) > 0 /\ (lines'[i][1] # Torn => Linked(i)')
    <3>1. i \in Nat /\ lines'[i] = lines[i] /\ Len(lines[i]) > 0
      BY <1>1, <2>2 DEF LinesLinked
    <3>2. i > 1 => i - 1 \in 1..n
      BY <1>1
    <3>3. i > 1 => lines'[i - 1] = lines[i - 1]
      BY <2>2, <3>2
    <3>4. lines[i][1] # Torn => Linked(i)
      BY <1>1 DEF LinesLinked
    <3> QED
      BY <3>1, <3>3, <3>4, LinkedStays
  <2>4. ASSUME piece # Torn
        PROVE  Linked(n + 1)'
    <3>1. WellSealed(piece) /\ Continues(piece.prev)
      BY <2>4
    <3>2. lines'[n + 1][1] = piece
      BY <2>2
    <3>3. n = 0 => piece.prev = Genesis \/ piece.prev \in failed'
      BY <1>1, <3>1 DEF Continues, LastParses, LastHash
    <3>4. n > 0 /\ Parses(lines[n]) => piece.prev = lines[n][1].hash \/ piece.prev \in failed'
      BY <1>1, <3>1 DEF Continues, LastParses, LastHash
    <3>5. n > 0 => lines'[n] = lines[n]
      BY <1>1, <2>2
    <3>6. n + 1 = 1 <=> n = 0
      BY <1>1
    <3>7. n + 1 > 1 <=> n > 0
      BY <1>1
    <3>8. (n + 1) - 1 = n
      BY <1>1
    <3>9. WellSealed(lines'[n + 1][1])
      BY <3>1, <3>2
    <3>10. n + 1 = 1 => lines'[n + 1][1].prev = Genesis \/ lines'[n + 1][1].prev \in failed'
      BY <3>2, <3>3, <3>6
    <3>11. n + 1 > 1 /\ Parses(lines'[(n + 1) - 1]) =>
             \/ lines'[n + 1][1].prev = lines'[(n + 1) - 1][1].hash
             \/ lines'[n + 1][1].prev \in failed'
      BY <3>2, <3>4, <3>5, <3>7, <3>8
    <3> QED
      BY <3>9, <3>10, <3>11 DEF Linked, WellSealed, Parses
  <2>5. Len(lines'[n + 1]) > 0 /\ lines'[n + 1][1] = piece
    BY <2>2
  <2>6. \A i \in 1..(n + 1) : i \in 1..n \/ i = n + 1
    BY <1>1
  <2>7. \A i \in 1..(n + 1) : Len(lines'[i]) > 0 /\ (lines'[i][1] # Torn => Linked(i)')
    BY <2>3, <2>4, <2>5, <2>6
  <2> QED
    BY <2>2, <2>7 DEF LinesLinked
<1> QED
  BY <1>1, <1>2, <1>3

LEMMA PowerLossKeepsLinked ==
  ASSUME TypeInv, LinesLinked, PowerLoss
  PROVE  LinesLinked'
<1>1. lines \in Seq(Seq(Piece)) /\ Len(lines) \in Nat /\ synced \in 0..Len(lines)
  BY DEF TypeInv, TypeOK, Piece
<1>2. failed' = failed
  BY DEF PowerLoss
<1>3. ASSUME NEW k \in 0..Len(lines), Len(lines') = k,
             \A i \in 1..(k - 1) : lines'[i] = lines[i],
             k > 0 => Len(lines'[k]) > 0 /\ lines'[k][1] \in {lines[k][1], Torn}
      PROVE  LinesLinked'
  <2>1. ASSUME NEW i \in 1..k
        PROVE  Len(lines'[i]) > 0 /\ (lines'[i][1] # Torn => Linked(i)')
    <3>1. /\ i \in Nat /\ i \in 1..Len(lines)
          /\ i \in 1..(k - 1) \/ i = k
          /\ i > 1 => i - 1 \in 1..(k - 1)
      BY <1>1
    <3>2. Len(lines[i]) > 0 /\ (lines[i][1] # Torn => Linked(i))
      BY <3>1 DEF LinesLinked
    <3>3. Len(lines'[i]) > 0 /\ lines'[i][1] \in {lines[i][1], Torn}
      BY <1>3, <3>1, <3>2
    <3>4. i > 1 => lines'[i - 1] = lines[i - 1]
      BY <1>3, <3>1
    <3> QED
      BY <1>2, <3>1, <3>2, <3>3, <3>4, LinkedStays
  <2> QED
    BY <1>3, <2>1 DEF LinesLinked
<1>4. ASSUME NEW k \in synced..Len(lines), lines' = SubSeq(lines, 1, k)
      PROVE  LinesLinked'
  <2>1. k \in 0..Len(lines) /\ Len(lines') = k /\ \A i \in 1..k : lines'[i] = lines[i]
    BY <1>1, <1>4
  <2> QED
    BY <1>1, <1>3, <2>1 DEF LinesLinked
<1>5. ASSUME NEW k \in (synced + 1)..Len(lines), NEW m \in 1..Len(lines[k]),
             NEW piece \in {lines[k][m], Torn},
             lines' = Append(SubSeq(lines, 1, k - 1),
                             Append(SubSeq(lines[k], 1, m - 1), piece))
      PROVE  LinesLinked'
  <2>1. /\ Len(lines') = k
        /\ \A i \in 1..(k - 1) : lines'[i] = lines[i]
        /\ Len(lines'[k]) = m
        /\ lines'[k][1] \in {lines[k][1], Torn}
    BY <1>5, CutInsideLine
  <2>2. k \in 0..Len(lines) /\ m > 0
    BY <1>1
  <2> QED
    BY <1>3, <2>1, <2>2
<1> QED
  BY <1>4, <1>5 DEF PowerLoss

LEMMA InitChain == Init => ChainInv
<1> SUFFICES ASSUME Init
             PROVE  ChainInv
  OBVIOUS
<1>1. PICK e \in Event : rec = Sealed(Genesis, e)
  BY DEF Init
<1>2. WellSealed(rec)
  BY <1>1 DEF Sealed, WellSealed
<1> QED
  BY <1>2 DEF Init, ChainInv, LinesLinked

LEMMA NextChain == TypeInv /\ ChainInv /\ [Next]_vars => ChainInv'
<1> SUFFICES ASSUME TypeInv, ChainInv, [Next]_vars
             PROVE  ChainInv'
  OBVIOUS
<1> USE DEF ChainInv
<1>1. CASE Open
  <2>1. LinesLinked'
    BY <1>1, SameLinesStayLinked DEF Open, file
  <2> QED
    BY <1>1, <2>1 DEF Open, file, Continues, WellSealed, TypeInv, Progress
<1>2. ASSUME NEW e \in Event, Seal(e)
      PROVE  ChainInv'
  <2>1. LinesLinked'
    BY <1>2, SameLinesStayLinked DEF Seal, file
  <2>2. /\ rec' = Sealed(prevHash, e) /\ prevHash' = rec'.hash
        /\ step' = "sealed" /\ lines' = lines /\ failed' = failed
    BY <1>2 DEF Seal, file
  <2>3. rec'.prev = prevHash /\ WellSealed(rec')
    BY <2>2 DEF Sealed, WellSealed
  <2>4. Continues(rec.prev)'
    BY <1>2, <2>2, <2>3 DEF Seal, Continues
  <2>5. WellSealed(rec)'
    BY <2>3 DEF WellSealed
  <2> QED
    BY <2>1, <2>2, <2>4, <2>5
<1>3. CASE AppendText
  <2>1. /\ Put(rec) /\ rec \in Piece /\ step = "sealed" /\ step' = "written"
        /\ UNCHANGED <<running, prevHash, rec, failed>>
    BY <1>3 DEF AppendText, TypeInv, TypeOK, Piece
  <2>2. LinesLinked'
    BY <2>1, PutKeepsLinked
  <2> QED
    BY <2>1, <2>2 DEF WellSealed
<1>4. CASE EndLine
  <2>1. LinesLinked'
    BY <1>4, SameLinesStayLinked DEF EndLine
  <2> QED
    BY <1>4, <2>1 DEF EndLine, WellSealed
<1>5. CASE Sync
  <2>1. LinesLinked'
    BY <1>5, SameLinesStayLinked DEF Sync, file
  <2>2. /\ prevHash = rec.hash
        /\ Len(lines) > 0
        /\ lines[Len(lines)][Len(lines[Len(lines)])] = rec
    BY <1>5 DEF Sync, TypeInv, TypeOK, Progress
  <2>3. LastParses(lines) => LastHash(lines) = prevHash
    BY <2>2 DEF LastParses, Parses, LastHash
  <2>4. Continues(prevHash)'
    BY <1>5, <2>3 DEF Sync, file, Continues
  <2> QED
    BY <1>5, <2>1, <2>4 DEF Sync, file, WellSealed
<1>6. CASE WriteFails
  <2>1. /\ step # "idle" /\ step' = "idle" /\ failed' = failed \cup {rec.hash}
        /\ UNCHANGED <<prevHash, rec>>
    BY <1>6 DEF WriteFails
  <2>2. LinesLinked'
    <3>1. CASE UNCHANGED file
      BY <2>1, <3>1, SameLinesStayLinked DEF file
    <3>2. CASE Put(Torn)
      BY <2>1, <3>2, PutKeepsLinked DEF Piece
    <3> QED
      BY <1>6, <3>1, <3>2 DEF WriteFails
  <2>3. Continues(prevHash)'
    BY <2>1 DEF Continues
  <2> QED
    BY <2>1, <2>2, <2>3 DEF WellSealed
<1>7. CASE Stop
  <2>1. LinesLinked'
    BY <1>7, SameLinesStayLinked DEF Stop, file
  <2> QED
    BY <1>7, <2>1 DEF Stop, WellSealed
<1>8. CASE Kill
  <2>1. LinesLinked'
    BY <1>8, SameLinesStayLinked DEF Kill, file
  <2> QED
    BY <1>8, <2>1 DEF Kill, WellSealed
<1>9. CASE PowerLoss
  <2>1. LinesLinked'
    BY <1>9, PowerLossKeepsLinked
  <2>2. running' = FALSE /\ step' = "idle" /\ rec' = rec
    BY <1>9 DEF PowerLoss
  <2> QED
    BY <2>1, <2>2 DEF WellSealed
<1>10. CASE UNCHANGED vars
  <2>1. LinesLinked'
    BY <1>10, SameLinesStayLinked DEF vars
  <2> QED
    BY <1>10, <2>1 DEF vars, WellSealed, Continues
<1> QED
  BY <1>1, <1>2, <1>3, <1>4, <1>5, <1>6, <1>7, <1>8, <1>9, <1>10 DEF Next

\* In a file whose lines are linked, only a failed write makes a break.
LEMMA LinkedFileBreaks == ChainInv => BreaksFollowFailedWrites
<1> SUFFICES ASSUME ChainInv, Readable(lines),
                    NEW i \in Breaks(ReadAll(lines))
             PROVE  ReadAll(lines)[i].prev \in failed
  BY DEF BreaksFollowFailedWrites
<1>1. i \in 1..Len(lines)
  BY DEF Breaks, ReadAll
<1>2. ReadAll(lines)[i] = lines[i][1] /\ lines[i][1] # Torn /\ Linked(i)
  BY <1>1 DEF ReadAll, Readable, Parses, ChainInv, LinesLinked
<1>3. lines[i][1].prev # HashBefore(ReadAll(lines), i)
  BY <1>1, <1>2 DEF Breaks, Linked, WellSealed
<1>4. CASE i = 1
  BY <1>2, <1>3, <1>4 DEF Linked, HashBefore
<1>5. CASE i > 1
  <2>1. i - 1 \in 1..Len(lines) /\ i # 1
    BY <1>1, <1>5
  <2>2. Parses(lines[i - 1]) /\ ReadAll(lines)[i - 1] = lines[i - 1][1]
    BY <2>1 DEF Readable, ReadAll
  <2> QED
    BY <1>2, <1>3, <1>5, <2>1, <2>2 DEF Linked, HashBefore
<1> QED
  BY <1>1, <1>4, <1>5

\* verify_chain finds fault only with events that were chained to an event
\* whose write had returned an error.
THEOREM OnlyFailedWritesBreakTheChain == Spec => []BreaksFollowFailedWrites
BY LinkedFileBreaks, InitChain, NextChain, TypeInvHolds, PTL DEF Spec

\* With no fault the log verifies, at every moment and across restarts.
THEOREM NoFaultNoBreak == Faults = {} => (Spec => []AlwaysVerifies)
<1> SUFFICES ASSUME Faults = {}
             PROVE  Spec => []AlwaysVerifies
  OBVIOUS
<1>1. Init => FaultFreeInv
  BY DEF Init, FaultFreeInv, Readable
<1>2. TypeInv /\ FaultFreeInv /\ [Next]_vars => FaultFreeInv'
  <2> SUFFICES ASSUME TypeInv, FaultFreeInv, [Next]_vars
               PROVE  FaultFreeInv'
    OBVIOUS
  <2>1. failed = {} /\ Readable(lines) /\ (open => step = "written")
    BY DEF FaultFreeInv
  <2>2. CASE UNCHANGED <<failed, lines, open>> /\ step # "written"
    BY <2>1, <2>2 DEF FaultFreeInv
  <2>3. CASE UNCHANGED vars
    BY <2>1, <2>3 DEF FaultFreeInv, vars
  <2>4. CASE AppendText
    <3>1. ~open /\ lines' = Append(lines, <<rec>>) /\ step' = "written" /\ failed' = failed
      BY <2>1, <2>4 DEF AppendText, Put
    <3>2. rec # Torn
      BY TornIsNoRecord DEF TypeInv, TypeOK
    <3>3. lines \in Seq(Seq(Piece))
      BY DEF TypeInv, TypeOK, Piece
    <3>4. ASSUME NEW i \in 1..Len(lines')
          PROVE  Parses(lines'[i])
      <4>1. CASE i = Len(lines) + 1
        <5>1. lines'[i] = <<rec>>
          BY <3>1, <3>3, <4>1
        <5> QED
          BY <3>2, <5>1 DEF Parses
      <4>2. CASE i \in 1..Len(lines)
        BY <2>1, <3>1, <3>3, <4>2 DEF Readable
      <4> QED
        BY <3>1, <3>3, <4>1, <4>2
    <3> QED
      BY <2>1, <3>1, <3>4 DEF FaultFreeInv, Readable
  <2>5. CASE EndLine
    BY <2>1, <2>5 DEF EndLine, FaultFreeInv
  <2> QED
    BY <2>2, <2>3, <2>4, <2>5
       DEF Next, Open, Seal, Sync, WriteFails, Stop, Kill, PowerLoss, file,
           TypeInv, Progress
<1>3. ChainInv /\ FaultFreeInv => AlwaysVerifies
  <2> SUFFICES ASSUME ChainInv, FaultFreeInv
               PROVE  AlwaysVerifies
    OBVIOUS
  <2>1. failed = {} /\ Readable(lines)
    BY DEF FaultFreeInv
  <2>2. BreaksFollowFailedWrites
    BY LinkedFileBreaks
  <2> QED
    BY <2>1, <2>2 DEF AlwaysVerifies, BreaksFollowFailedWrites, Valid
<1> QED
  BY <1>1, <1>2, <1>3, InitChain, NextChain, TypeInvHolds, PTL DEF Spec

-----------------------------------------------------------------------------
(* A break stays where it was found.                                       *)

\* Two files that agree up to line n have the same breaks there.
LEMMA SameLinesSameBreaks ==
  ASSUME NEW n \in Nat, NEW ls, NEW ms, Len(ls) \in Nat, Len(ms) \in Nat,
         n <= Len(ls), n <= Len(ms), \A i \in 1..n : ls[i] = ms[i], NEW i \in 1..n
  PROVE  i \in Breaks(ReadAll(ls)) <=> i \in Breaks(ReadAll(ms))
<1>1. i \in 1..Len(ls) /\ i \in 1..Len(ms)
  OBVIOUS
<1>2. /\ ReadAll(ls)[i] = ls[i][1] /\ ReadAll(ms)[i] = ms[i][1]
      /\ Len(ReadAll(ls)) = Len(ls) /\ Len(ReadAll(ms)) = Len(ms)
  BY <1>1 DEF ReadAll
<1>3. HashBefore(ReadAll(ls), i) = HashBefore(ReadAll(ms), i)
  <2>1. CASE i = 1
    BY <2>1 DEF HashBefore
  <2>2. CASE i # 1
    <3>1. i - 1 \in 1..n /\ i - 1 \in 1..Len(ls) /\ i - 1 \in 1..Len(ms)
      BY <1>1, <2>2
    <3>2. ReadAll(ls)[i - 1] = ls[i - 1][1] /\ ReadAll(ms)[i - 1] = ms[i - 1][1]
      BY <3>1 DEF ReadAll
    <3> QED
      BY <2>2, <3>1, <3>2 DEF HashBefore
  <2> QED
    BY <2>1, <2>2
<1> QED
  BY <1>1, <1>2, <1>3 DEF Breaks

\* verify_chain reports the first break there is.
LEMMA FirstBreak ==
  ASSUME NEW evs, ~Valid(evs)
  PROVE  BreakAt(evs) \in Breaks(evs) /\ \A j \in Breaks(evs) : BreakAt(evs) <= j
<1>1. Breaks(evs) \in SUBSET Nat /\ Breaks(evs) # {}
  BY DEF Valid, Breaks
<1>2. \E i \in Breaks(evs) : \A j \in Breaks(evs) : i <= j
  BY <1>1, LeastElement
<1> QED
  BY <1>2, Zenon DEF BreakAt

LEMMA NextKeepsBreak ==
  ASSUME TypeInv, [Next]_vars, ~Valid(ReadAll(lines)), BreakAt(ReadAll(lines)) <= synced
  PROVE  ~Valid(ReadAll(lines')) /\ BreakAt(ReadAll(lines')) = BreakAt(ReadAll(lines))
<1> DEFINE evs == ReadAll(lines)
           next == ReadAll(lines')
           at == BreakAt(evs)
<1>1. /\ Len(lines) \in Nat /\ Len(lines') \in Nat /\ synced \in Nat
      /\ synced <= Len(lines) /\ synced <= Len(lines')
      /\ \A i \in 1..synced : lines[i] = lines'[i]
  BY SyncedLinesKept, NextType DEF TypeInv, TypeOK
<1>2. \A i \in 1..synced : i \in Breaks(evs) <=> i \in Breaks(next)
  BY <1>1, SameLinesSameBreaks
<1>3. at \in Breaks(evs) /\ \A j \in Breaks(evs) : at <= j
  BY FirstBreak
<1>4. at \in 1..synced /\ Breaks(next) \in SUBSET Nat /\ \A j \in Breaks(next) : j >= 1
  BY <1>1, <1>3 DEF Breaks
<1>5. at \in Breaks(next) /\ ~Valid(next)
  BY <1>2, <1>3, <1>4 DEF Valid
<1>6. BreakAt(next) \in Breaks(next) /\ \A j \in Breaks(next) : BreakAt(next) <= j
  BY <1>5, FirstBreak
<1> HIDE DEF evs, next, at
<1>7. BreakAt(next) <= at /\ BreakAt(next) \in 1..synced
  BY <1>1, <1>4, <1>5, <1>6
<1>8. at <= BreakAt(next)
  BY <1>2, <1>3, <1>6, <1>7
<1>9. BreakAt(next) = at
  BY <1>4, <1>7, <1>8
<1> QED
  BY <1>5, <1>9 DEF evs, next, at

\* The index that verify_chain reports for a break within what has been synced is
\* the same ever after, whatever is written or lost.
THEOREM BreaksStay == Spec => BreakIsForGood
<1>1. TypeInv /\ [Next]_vars =>
        [ LET evs == ReadAll(lines)
              evsNext == ReadAll(lines')
          IN  (/\ Readable(lines) /\ Readable(lines')
               /\ ~Valid(evs) /\ BreakAt(evs) <= synced)
              => ~Valid(evsNext) /\ BreakAt(evsNext) = BreakAt(evs) ]_vars
  BY NextKeepsBreak
<1> QED
  BY <1>1, TypeInvHolds, PTL DEF Spec, BreakIsForGood

-----------------------------------------------------------------------------
(* The log implements the trail.                                           *)

LEMMA EventType == \A p \in Piece : EventOf(p) \in Seq(Event)
BY TornIsNoRecord DEF Piece, EventOf, Record

\* EventOf as a function.
EventMap == [p \in Piece |-> EventOf(p)]

LEMMA EventsInMap ==
  /\ IsMap(EventMap, Piece, Seq(Event))
  /\ \A ps \in Seq(Piece) : EventsIn(ps) = FlatMap(EventMap, ps)
<1>1. IsMap(EventMap, Piece, Seq(Event))
  BY EventType DEF EventMap, IsMap
<1>2. ASSUME NEW ps \in Seq(Piece)
      PROVE  EventsIn(ps) = FlatMap(EventMap, ps)
  <2>1. \A i \in DOMAIN ps : EventOf(ps[i]) = EventMap[ps[i]]
    BY DEF EventMap
  <2> QED
    BY <2>1 DEF EventsIn, FlatMap, Images
<1> QED
  BY <1>1, <1>2

LEMMA EventsType == \A ps \in Seq(Piece) : EventsIn(ps) \in Seq(Event)
BY EventsInMap, FlatMapType

LEMMA EventsConcat ==
  ASSUME NEW ps \in Seq(Piece), NEW qs \in Seq(Piece)
  PROVE  EventsIn(ps \o qs) = EventsIn(ps) \o EventsIn(qs)
<1>1. ps \o qs \in Seq(Piece)
  OBVIOUS
<1>2. FlatMap(EventMap, ps \o qs) = FlatMap(EventMap, ps) \o FlatMap(EventMap, qs)
  BY EventsInMap, FlatMapConcat
<1> QED
  BY <1>1, <1>2, EventsInMap

LEMMA EventsOfOne ==
  ASSUME NEW p \in Piece
  PROVE  EventsIn(<<p>>) = EventOf(p)
<1>1. <<p>> \in Seq(Piece) /\ EventMap[p] = EventOf(p)
  BY DEF EventMap
<1> QED
  BY <1>1, EventsInMap, FlatMapOne

\* The text of the file, across the ends of the lines.
Text == FlattenSeq(lines)

LEMMA TextType == TypeInv => Text \in Seq(Piece) /\ lines \in Seq(Seq(Piece))
BY FlattenType DEF TypeInv, TypeOK, Piece, Text

\* Wherever Put puts it, the piece comes last.
LEMMA PutText ==
  ASSUME TypeInv, NEW piece \in Piece, Put(piece)
  PROVE  Text' = Text \o <<piece>>
<1>1. lines \in Seq(Seq(Piece)) /\ <<piece>> \in Seq(Piece)
  BY TextType
<1>2. CASE ~open
  <2>1. lines' = Append(lines, <<piece>>)
    BY <1>2 DEF Put
  <2> QED
    BY <1>1, <2>1, FlattenAppend DEF Text
<1>3. CASE open
  <2>1. PICK n \in Nat : n = Len(lines) /\ n > 0
    BY <1>3 DEF TypeInv, TypeOK, Progress
  <2>2. PICK last \in Seq(Piece) : last = lines[n]
    BY <1>1, <2>1
  <2>3. PICK front \in Seq(Seq(Piece)) : front = SubSeq(lines, 1, n - 1)
    <3>1. SubSeq(lines, 1, n - 1) \in Seq(Seq(Piece))
      BY <1>1, <2>1
    <3> QED
      BY <3>1
  <2>4. lines = Append(front, last)
    BY <1>1, <2>1, <2>2, <2>3
  <2>5. lines' = [lines EXCEPT ![n] = Append(last, piece)]
    BY <1>3, <2>1, <2>2 DEF Put
  <2>6. Append(last, piece) = last \o <<piece>> /\ Append(last, piece) \in Seq(Piece)
    BY <2>2
  <2>7. lines' = Append(front, Append(last, piece))
    BY SMTT(30), <1>1, <2>1, <2>3, <2>5, <2>6
  <2>8. Text = FlattenSeq(front) \o last
    BY <2>4, FlattenAppend DEF Text
  <2>9. Text' = FlattenSeq(front) \o (last \o <<piece>>)
    BY <2>6, <2>7, FlattenAppend DEF Text
  <2>10. FlattenSeq(front) \in Seq(Piece)
    BY FlattenType
  <2> QED
    BY <1>1, <2>8, <2>9, <2>10, ConcatAssociative
<1> QED
  BY <1>2, <1>3

\* The part of the text that is known to survive.
SyncedText == FlattenSeq(SubSeq(lines, 1, synced))

\* A loss of power leaves a start of the text, at least the synced part of it,
\* and perhaps a torn piece behind that.
LeavesAStart ==
  \E u, v, w \in Seq(Piece) :
    /\ Text = u \o v
    /\ u = SyncedText \o w
    /\ Text' \in {u, Append(u, Torn)}

LEMMA CutBetweenLinesText ==
  ASSUME TypeInv, NEW k \in synced..Len(lines), lines' = SubSeq(lines, 1, k)
  PROVE  LeavesAStart
<1>1. /\ lines \in Seq(Seq(Piece)) /\ Len(lines) \in Nat
      /\ synced \in 0..k /\ k \in 0..Len(lines)
      /\ SubSeq(lines, 1, Len(lines)) = lines
  BY TextType DEF TypeInv, TypeOK
<1>2. PICK u \in Seq(Piece) : u = FlattenSeq(SubSeq(lines, 1, k))
  BY <1>1, FlattenSplit
<1>3. PICK v \in Seq(Piece) : Text = u \o v
  <2>1. Len(lines) \in 0..Len(lines)
    BY <1>1
  <2> QED
    BY <1>1, <1>2, <2>1, FlattenSplit DEF Text
<1>4. PICK w \in Seq(Piece) : u = SyncedText \o w
  BY <1>1, <1>2, FlattenSplit DEF SyncedText
<1>5. Text' = u
  BY <1>2 DEF Text
<1> QED
  BY <1>3, <1>4, <1>5 DEF LeavesAStart

LEMMA CutInsideLineText ==
  ASSUME TypeInv, NEW k \in (synced + 1)..Len(lines), NEW m \in 1..Len(lines[k]),
         NEW piece \in {lines[k][m], Torn},
         lines' = Append(SubSeq(lines, 1, k - 1),
                         Append(SubSeq(lines[k], 1, m - 1), piece))
  PROVE  LeavesAStart
<1>1. lines \in Seq(Seq(Piece)) /\ synced \in Nat /\ Torn \in Piece
  BY TextType DEF TypeInv, TypeOK, Piece
<1>2. PICK line \in Seq(Piece) : line = lines[k]
  <2>1. lines[k] \in Seq(Piece)
    BY <1>1
  <2> QED
    BY <2>1
<1>3. PICK j \in 0..Len(lines[k]) :
        Append(SubSeq(line, 1, m - 1), piece)
          \in {SubSeq(line, 1, j), Append(SubSeq(line, 1, j), Torn)}
  <2>1. m \in 0..Len(line) /\ m - 1 \in 0..Len(line)
    BY <1>2
  <2>2. CASE piece = line[m]
    <3>1. Append(SubSeq(line, 1, m - 1), piece) = SubSeq(line, 1, m)
      BY <1>2, <2>2
    <3> QED
      BY <1>2, <2>1, <3>1
  <2>3. CASE piece = Torn
    BY <1>2, <2>1, <2>3
  <2> QED
    BY <1>2, <2>2, <2>3
<1>a. IsCut(Piece, lines, synced, k, j)
  BY <1>1 DEF IsCut
<1>b. PICK u \in Seq(Piece), v \in Seq(Piece), w \in Seq(Piece) :
        AreCutParts(Piece, lines, synced, k, j, u, v, w)
  BY <1>a, CutInside
<1>4. /\ Text = u \o v
      /\ u = SyncedText \o w
      /\ SubSeq(line, 1, j) \in Seq(Piece)
      /\ u = FlattenSeq(SubSeq(lines, 1, k - 1)) \o SubSeq(line, 1, j)
      /\ Append(u, Torn)
           = FlattenSeq(SubSeq(lines, 1, k - 1)) \o Append(SubSeq(line, 1, j), Torn)
  BY <1>1, <1>2, <1>b DEF AreCutParts, Text, SyncedText
<1>5. PICK start \in Seq(Seq(Piece)) : start = SubSeq(lines, 1, k - 1)
  <2>1. SubSeq(lines, 1, k - 1) \in Seq(Seq(Piece))
    BY <1>1
  <2> QED
    BY <2>1
<1>6. PICK last \in Seq(Piece) : last = Append(SubSeq(line, 1, m - 1), piece)
  <2>1. SubSeq(line, 1, j) \in Seq(Piece)
    BY <1>2, <1>4
  <2>2. Append(SubSeq(line, 1, j), Torn) \in Seq(Piece)
    BY <1>1, <2>1
  <2> QED
    BY <1>3, <2>1, <2>2
<1>7. Text' = FlattenSeq(start) \o last
  <2>1. lines' = Append(start, last)
    BY <1>2, <1>5, <1>6
  <2> QED
    BY <2>1, FlattenAppend DEF Text
<1>8. Text' \in {u, Append(u, Torn)}
  BY <1>1, <1>2, <1>3, <1>4, <1>5, <1>6, <1>7
<1> QED
  BY <1>4, <1>8 DEF LeavesAStart, Text, SyncedText

LEMMA PowerLossText == TypeInv /\ PowerLoss => LeavesAStart
BY CutBetweenLinesText, CutInsideLineText DEF PowerLoss

LEMMA EventsOfTorn ==
  ASSUME NEW u \in Seq(Piece)
  PROVE  /\ EventsIn(Append(u, Torn)) = EventsIn(u)
         /\ EventsIn(u) \in Seq(Event)
         /\ Append(u, Torn) = u \o <<Torn>>
<1>1. Torn \in Piece /\ <<Torn>> \in Seq(Piece) /\ Append(u, Torn) = u \o <<Torn>>
  BY DEF Piece
<1>2. EventsIn(u \o <<Torn>>) = EventsIn(u) \o EventsIn(<<Torn>>)
  BY <1>1, EventsConcat
<1>3. EventsIn(<<Torn>>) = <<>>
  BY <1>1, EventsOfOne DEF EventOf
<1>4. EventsIn(u) \in Seq(Event)
  BY EventsType
<1> QED
  BY <1>1, <1>2, <1>3, <1>4, ConcatEmptySeq

\* A loss of power takes an end of the trail, none of it confirmed.
LEMMA PowerLossIsLose ==
  ASSUME TypeInv, PowerLoss, synced' = synced,
         SubSeq(lines', 1, synced) = SubSeq(lines, 1, synced)
  PROVE  Trail!Lose
<1>1. PICK u \in Seq(Piece), v \in Seq(Piece), w \in Seq(Piece) :
        Text = u \o v /\ u = SyncedText \o w /\ Text' \in {u, Append(u, Torn)}
  BY PowerLossText DEF LeavesAStart
<1>2. PICK s \in Seq(Piece) : s = SyncedText
  BY TextType, FlattenSplit DEF SyncedText, TypeInv, TypeOK
<1>3. PICK eu \in Seq(Event) : eu = EventsIn(u)
  BY EventsType
<1>4. PICK ev \in Seq(Event) : ev = EventsIn(v)
  BY EventsType
<1>5. PICK es \in Seq(Event) : es = EventsIn(s)
  BY EventsType
<1>6. PICK ew \in Seq(Event) : ew = EventsIn(w)
  BY EventsType
<1>7. EventsOf(lines) = eu \o ev
  BY <1>1, <1>3, <1>4, EventsConcat DEF EventsOf, Text
<1>8. eu = es \o ew
  BY <1>1, <1>2, <1>3, <1>5, <1>6, EventsConcat
<1>9. EventsOf(lines') = eu
  BY <1>1, <1>3, EventsOfTorn DEF EventsOf, Text
<1>10. EventsOf(SubSeq(lines, 1, synced)) = es
  BY <1>2, <1>5 DEF EventsOf, SyncedText
<1>11. Len(eu) \in Len(es)..Len(eu \o ev)
  BY <1>8, StartOfConcat
<1>12. SubSeq(eu \o ev, 1, Len(eu)) = eu
  BY StartOfConcat
<1> QED
  BY <1>7, <1>9, <1>10, <1>11, <1>12 DEF Trail!Lose

\* Text added to the end of the file makes the trail longer by its event, if any.
LEMMA PutIsAppend ==
  ASSUME TypeInv, NEW piece \in Piece, Put(piece)
  PROVE  EventsOf(lines') = EventsOf(lines) \o EventOf(piece)
<1>1. Text \in Seq(Piece) /\ <<piece>> \in Seq(Piece)
  BY TextType
<1>2. Text' = Text \o <<piece>>
  BY PutText
<1>3. EventsIn(Text \o <<piece>>) = EventsIn(Text) \o EventsIn(<<piece>>)
  BY <1>1, EventsConcat
<1> QED
  BY <1>2, <1>3, EventsOfOne DEF EventsOf, Text

LEMMA TrailType == TypeInv => EventsOf(lines) \in Seq(Event)
BY TextType, EventsType DEF EventsOf, Text

LEMMA SyncedStart ==
  ASSUME TypeInv, [Next]_vars, synced' = synced
  PROVE  SubSeq(lines', 1, synced) = SubSeq(lines, 1, synced)
<1>1. \A i \in 1..synced : lines'[i] = lines[i]
  BY SyncedLinesKept
<1>2. synced \in Nat
  BY DEF TypeInv, TypeOK
<1> QED
  BY <1>1, <1>2

LEMMA NextTrail == TypeInv /\ [Next]_vars => [Trail!Next]_(Trail!vars)
<1> SUFFICES ASSUME TypeInv, [Next]_vars
             PROVE  [Trail!Next]_(Trail!vars)
  OBVIOUS
<1>1. CASE AppendText
  <2>1. Put(rec) /\ rec \in Piece /\ synced' = synced
    BY <1>1 DEF AppendText, Piece, TypeInv, TypeOK
  <2>2. EventOf(rec) = <<rec.ev>> /\ rec.ev \in Event
    BY TornIsNoRecord DEF TypeInv, TypeOK, EventOf, Record
  <2>3. EventsOf(lines') = EventsOf(lines) \o <<rec.ev>>
    BY <2>1, <2>2, PutIsAppend
  <2>4. EventsOf(lines') = Append(EventsOf(lines), rec.ev)
    BY <2>2, <2>3, TrailType
  <2>5. Trail!Write(rec.ev)
    BY <2>1, <2>4, SyncedStart DEF Trail!Write
  <2> QED
    BY <2>2, <2>5 DEF Trail!Next
<1>2. CASE WriteFails
  <2>1. CASE UNCHANGED file
    BY <1>2, <2>1 DEF WriteFails, file, Trail!vars
  <2>2. CASE Put(Torn)
    <3>1. Torn \in Piece /\ synced' = synced /\ EventOf(Torn) = <<>>
      BY <1>2 DEF WriteFails, Piece, EventOf
    <3>2. EventsOf(lines') = EventsOf(lines) \o <<>>
      BY <2>2, <3>1, PutIsAppend
    <3>3. EventsOf(lines') = EventsOf(lines)
      BY <3>2, TrailType, ConcatEmptySeq
    <3> QED
      BY <3>1, <3>3, SyncedStart DEF Trail!vars
  <2> QED
    BY <1>2, <2>1, <2>2 DEF WriteFails
<1>3. CASE Sync
  <2>1. lines' = lines /\ synced' = Len(lines) /\ lines \in Seq(Seq(Piece))
    BY <1>3, TextType DEF Sync, file
  <2>2. SubSeq(lines', 1, synced') = lines
    BY <2>1
  <2>3. Trail!Confirm
    BY <2>1, <2>2 DEF Trail!Confirm
  <2> QED
    BY <2>3 DEF Trail!Next
<1>4. CASE PowerLoss
  <2>1. synced' = synced
    BY <1>4 DEF PowerLoss
  <2>2. SubSeq(lines', 1, synced) = SubSeq(lines, 1, synced)
    BY <2>1, SyncedStart
  <2> QED
    BY <1>4, <2>1, <2>2, PowerLossIsLose DEF Trail!Next
<1>5. CASE lines' = lines /\ synced' = synced
  BY <1>5 DEF Trail!vars
<1> QED
  BY <1>1, <1>2, <1>3, <1>4, <1>5
     DEF Next, vars, Open, Seal, EndLine, Stop, Kill, file

LEMMA InitTrail == Init => Trail!Init
<1> SUFFICES ASSUME Init
             PROVE  Trail!Init
  OBVIOUS
<1>1. lines = <<>> /\ SubSeq(lines, 1, synced) = <<>>
  BY DEF Init
<1>2. EventsOf(<<>>) = <<>>
  BY FlattenEmpty DEF EventsOf, EventsIn
<1>3. Len(<<>>) = 0
  OBVIOUS
<1> QED
  BY <1>1, <1>2, <1>3 DEF Trail!Init

\* The log never drops, reorders or rewrites an event that is in its file, and of
\* what it has reported written a loss of power takes nothing: whatever fails, it
\* is a trail that grows at its end and may lose an end that nobody was told of.
THEOREM LogIsATrail == Spec => ImplementsAuditTrail
<1>1. TypeInv /\ [Next]_vars => [Trail!Next]_(Trail!vars)
  BY NextTrail
<1> QED
  BY <1>1, InitTrail, TypeInvHolds, PTL DEF Spec, ImplementsAuditTrail, Trail!Spec
=============================================================================
