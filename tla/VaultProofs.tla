------------------------------ MODULE VaultProofs ------------------------------
(***************************************************************************)
(* Proofs about Vault, for every set of invocations of init, of addresses, *)
(* of prints and of plaintexts.                                            *)
(***************************************************************************)
EXTENDS Vault, TLAPS

\* An operation runs while the service is up, and the service is up with a key.
Running ==
  /\ service = "down" <=> loaded = None
  /\ \A r \in Setup : setup[r] \notin {"wait", "failed"} => address[r] # None
  /\ op # Idle => service = "up"
  /\ op.step = "row" => content[op.print] # None

TypeInv == TypeOK /\ Running

LEMMA InitType == Init => TypeInv
<1> SUFFICES ASSUME Init
             PROVE  TypeInv
  OBVIOUS
<1> USE DEF Init, BootInit
<1>1. TypeOK
  BY DEF TypeOK, BootTypeOK, SetupSteps
<1>2. Running
  BY DEF Running, Idle
<1> QED
  BY <1>1, <1>2 DEF TypeInv

LEMMA SetupStepType ==
  ASSUME TypeInv, NEW r \in Setup, SetupStep(r), UNCHANGED printVars
  PROVE  TypeInv'
<1> USE DEF TypeInv, TypeOK, BootTypeOK, SetupSteps, Running, printVars, Proceed
<1>1. CASE Begin(r) \/ Unusable(r)
  BY <1>1, BootstrapAssumption DEF Begin, Unusable
<1>2. CASE FindNoKek(r) \/ FindKek(r)
  BY <1>2 DEF FindNoKek, FindKek
<1>3. CASE TruncateKek(r) \/ FillKek(r) \/ OpenStore(r)
  BY <1>3 DEF TruncateKek, FillKek, OpenStore
<1>4. CASE SeedAdmin(r) \/ AdminExists(r) \/ Ends(r)
  <2>1. setup[r] = "seed" => address[r] \in Address \cup {None}
    OBVIOUS
  <2> QED
    BY <1>4, <2>1 DEF SeedAdmin, AdminExists, Ends, InHand
<1> QED
  BY <1>1, <1>2, <1>3, <1>4 DEF SetupStep

LEMMA ServiceStepType ==
  ASSUME TypeInv,
         \/ (LoadKek \/ Listen) /\ UNCHANGED printVars
         \/ StopService /\ DropOp
         \/ RemoveKek /\ UNCHANGED printVars
  PROVE  TypeInv'
<1> USE DEF TypeInv, TypeOK, BootTypeOK, Running
<1>1. CASE (LoadKek \/ Listen) /\ UNCHANGED printVars
  <2>1. BootTypeOK'
    BY <1>1 DEF LoadKek, Listen
  <2>2. loaded' # None /\ service' # "down" /\ (op # Idle => service' = "up")
    BY <1>1, BootstrapAssumption DEF LoadKek, Listen
  <2>3. UNCHANGED <<op, content, row, file, disturbed, setup, address>>
    BY <1>1 DEF LoadKek, Listen, printVars
  <2> QED
    BY <2>1, <2>2, <2>3
<1>2. CASE StopService /\ DropOp
  <2>1. op.step = "row" => op.print \in PrintId
    BY DEF Idle
  <2>2. file' \in [PrintId -> Sealing \cup {Torn, None}]
    BY <1>2, <2>1 DEF DropOp
  <2> QED
    BY <1>2, <2>2 DEF StopService, DropOp, Idle
<1>3. CASE RemoveKek /\ UNCHANGED printVars
  BY <1>3 DEF RemoveKek, printVars
<1> QED
  BY <1>1, <1>2, <1>3

LEMMA SealIsSealing ==
  ASSUME NEW p \in PrintId, NEW d \in Data
  PROVE  /\ Seal(p, d) \in Sealing
         /\ Seal(p, d).key = p /\ Seal(p, d).aad = p /\ Seal(p, d).data = d
         /\ Seal(p, d) # None /\ Seal(p, d) # Torn
BY VaultAssumption DEF Seal, Aad, Sealing

LEMMA PrintStepType ==
  ASSUME TypeInv, NEW p \in PrintId, PrintStep(p), UNCHANGED bootVars
  PROVE  TypeInv'
<1> USE DEF TypeInv, TypeOK
<1>1. BootTypeOK' /\ UNCHANGED <<service, loaded, setup, address>>
  BY DEF BootTypeOK, bootVars
<1>2. CASE \E d \in Data : WriteFile(p, d) \/ WriteFileFails(p, d)
  <2>1. PICK d \in Data : WriteFile(p, d) \/ WriteFileFails(p, d)
    BY <1>2
  <2>2. d # None /\ Seal(p, d) \in Sealing
    BY VaultAssumption, SealIsSealing
  <2>3. /\ file' \in [PrintId -> Sealing \cup {Torn, None}]
        /\ content' \in [PrintId -> Data \cup {None}] /\ content'[p] # None
        /\ row' = row /\ disturbed' = disturbed
        /\ op' \in {Idle, [step |-> "row", print |-> p]} /\ service = "up"
    BY <2>1, <2>2 DEF WriteFile, WriteFileFails
  <2>4. op' \in [step : {"row", "unlink"}, print : PrintId] \cup {Idle}
    BY <2>3
  <2>5. Running'
    BY <1>1, <2>3 DEF Running, Idle
  <2> QED
    BY <1>1, <2>3, <2>4, <2>5
<1>3. CASE InsertRow(p)
  <2>1. content[p] \in Data /\ loaded \in Setup
    BY <1>3 DEF InsertRow, Running, BootTypeOK, Idle
  <2>2. [dek |-> p, kek |-> loaded, tag |-> Seal(p, content[p]), digest |-> content[p]] \in Row
    BY <2>1, SealIsSealing DEF Row
  <2>3. row' \in [PrintId -> Row \cup {None}]
    BY <1>3, <2>2 DEF InsertRow
  <2> QED
    BY <1>1, <1>3, <2>3 DEF InsertRow, Running, Idle
<1>4. CASE InsertRowFails(p) \/ Unlink(p)
  BY <1>1, <1>4 DEF InsertRowFails, Unlink, Running, Idle
<1>5. CASE DeleteRow(p)
  BY <1>1, <1>5 DEF DeleteRow, Running
<1>6. CASE Spoil(p)
  BY <1>1, <1>6 DEF Spoil, Running
<1>7. CASE \E q \in PrintId \ {p} : MixUp(p, q)
  <2>1. PICK q \in PrintId \ {p} : MixUp(p, q)
    BY <1>7
  <2>2. row[p] \in Row /\ row[q] \in Row
    BY <2>1 DEF MixUp
  <2>3. /\ [row[p] EXCEPT !.dek = row[q].dek, !.kek = row[q].kek, !.tag = row[q].tag] \in Row
        /\ [row[q] EXCEPT !.dek = row[p].dek, !.kek = row[p].kek, !.tag = row[p].tag] \in Row
    BY <2>2 DEF Row
  <2>4. /\ row' \in [PrintId -> Row \cup {None}]
        /\ file' \in [PrintId -> Sealing \cup {Torn, None}]
    BY <2>1, <2>2, <2>3 DEF MixUp, Swap
  <2> QED
    BY <1>1, <2>1, <2>4 DEF MixUp, Running
<1> QED
  BY <1>2, <1>3, <1>4, <1>5, <1>6, <1>7 DEF PrintStep

LEMMA NextType == TypeInv /\ [Next]_vars => TypeInv'
<1> SUFFICES ASSUME TypeInv, [Next]_vars
             PROVE  TypeInv'
  OBVIOUS
<1>1. CASE UNCHANGED vars
  BY <1>1 DEF vars, bootVars, printVars, TypeInv, TypeOK, BootTypeOK, Running
<1>2. CASE Next
  BY <1>2, SetupStepType, ServiceStepType, PrintStepType DEF Next
<1> QED
  BY <1>1, <1>2

\* The variables of init, of the service and of the print store keep their types,
\* however many inits, operations, failures and disturbances interleave.
THEOREM TypeCorrect == Spec => []TypeOK
<1>1. TypeInv => TypeOK
  BY DEF TypeInv
<1> QED
  BY <1>1, InitType, NextType, PTL DEF Spec

-----------------------------------------------------------------------------
(* What a read returns                                                     *)

\* A ciphertext holds what was inserted under the id that it was sealed for, wherever
\* it has got to.
Genuine ==
  \A p \in PrintId : file[p] \in Sealing =>
    file[p].aad \in PrintId /\ content[file[p].aad] = file[p].data

GenuineInv == TypeInv /\ Genuine

LEMMA PrintStepGenuine ==
  ASSUME GenuineInv, NEW p \in PrintId, PrintStep(p), UNCHANGED bootVars
  PROVE  Genuine'
<1> USE DEF GenuineInv, Genuine
<1>1. /\ file \in [PrintId -> Sealing \cup {Torn, None}]
      /\ content \in [PrintId -> Data \cup {None}]
      /\ None \notin Sealing /\ Torn \notin Sealing /\ None \notin Data
  BY VaultAssumption DEF TypeInv, TypeOK
<1>2. CASE \E d \in Data : WriteFile(p, d) \/ WriteFileFails(p, d)
  <2>1. PICK d \in Data : WriteFile(p, d) \/ WriteFileFails(p, d)
    BY <1>2
  <2>2. content[p] = None /\ content' = [content EXCEPT ![p] = d]
    BY <2>1 DEF WriteFile, WriteFileFails
  <2>3. ASSUME NEW q \in PrintId, file[q] \in Sealing
        PROVE  file[q].aad \in PrintId /\ content'[file[q].aad] = file[q].data
    <3>1. file[q].data \in Data
      BY <2>3 DEF Sealing
    <3> QED
      BY <1>1, <2>2, <2>3, <3>1
  <2>4. /\ Seal(p, d).aad = p /\ Seal(p, d).data = d /\ content'[p] = d
        /\ file' \in {[file EXCEPT ![p] = Seal(p, d)], [file EXCEPT ![p] = Torn]}
    BY <1>1, <2>1, <2>2, SealIsSealing DEF WriteFile, WriteFileFails
  <2> QED
    BY <1>1, <2>3, <2>4
<1>3. CASE InsertRow(p) \/ DeleteRow(p)
  BY <1>3 DEF InsertRow, DeleteRow
<1>4. CASE InsertRowFails(p) \/ Unlink(p) \/ Spoil(p)
  <2>1. content' = content
        /\ file' \in {file, [file EXCEPT ![p] = None], [file EXCEPT ![p] = Torn]}
    BY <1>4 DEF InsertRowFails, Unlink, Spoil
  <2> QED
    BY <1>1, <2>1
<1>5. CASE \E q \in PrintId \ {p} : MixUp(p, q)
  <2>1. PICK q \in PrintId \ {p} : file' \in {file, Swap(file, p, q)} /\ content' = content
    BY <1>5 DEF MixUp
  <2> QED
    BY <1>1, <2>1 DEF Swap
<1> QED
  BY <1>2, <1>3, <1>4, <1>5 DEF PrintStep

LEMMA NextGenuine == GenuineInv /\ [Next]_vars => GenuineInv'
<1> SUFFICES ASSUME GenuineInv, [Next]_vars
             PROVE  GenuineInv'
  OBVIOUS
<1>1. TypeInv'
  BY NextType DEF GenuineInv
<1>2. ASSUME UNCHANGED printVars
      PROVE  GenuineInv'
  BY <1>1, <1>2 DEF GenuineInv, Genuine, printVars
<1>3. CASE StopService /\ DropOp
  <2>1. op.step = "row" => op.print \in PrintId
    BY DEF GenuineInv, TypeInv, TypeOK, Idle
  <2>2. content' = content /\ (file' = file \/ file' = [file EXCEPT ![op.print] = Torn])
    BY <1>3 DEF DropOp
  <2>3. file \in [PrintId -> Sealing \cup {Torn, None}] /\ Torn \notin Sealing
    BY VaultAssumption DEF GenuineInv, TypeInv, TypeOK
  <2> QED
    BY <1>1, <2>2, <2>3 DEF GenuineInv, Genuine
<1>4. CASE \E p \in PrintId : PrintStep(p) /\ UNCHANGED bootVars
  BY <1>1, <1>4, PrintStepGenuine DEF GenuineInv
<1>5. CASE UNCHANGED vars
  BY <1>2, <1>5 DEF vars
<1> QED
  BY <1>2, <1>3, <1>4, <1>5 DEF Next

\* A read returns what was inserted under the id, or an error, whichever files and
\* columns were torn, lost or exchanged.
THEOREM ReadsAreGenuine == Spec => []ReadsWhatWasInserted
<1>1. Init => GenuineInv
  BY InitType, VaultAssumption DEF Init, GenuineInv, Genuine
<1>2. GenuineInv => ReadsWhatWasInserted
  <2> SUFFICES ASSUME GenuineInv, NEW p \in PrintId, Opens(p)
               PROVE  file[p].data = content[p]
    BY DEF ReadsWhatWasInserted, ReadBlob
  <2>1. row[p] \in Row /\ file[p] = row[p].tag /\ file[p].aad = p
    BY DEF Opens, Aad, GenuineInv, TypeInv, TypeOK
  <2>2. file[p] \in Sealing
    BY <2>1 DEF Row
  <2> QED
    BY <2>1, <2>2 DEF GenuineInv, Genuine
<1> QED
  BY <1>1, <1>2, NextGenuine, PTL DEF Spec

-----------------------------------------------------------------------------
(* One key                                                                 *)

Making == {"generate", "write", "fill"}

\* What an init at each of its steps may count on, as long as none ran into another.
Alone(r) ==
  /\ setup[r] \in {"generate", "write"} => kekFile = None
  /\ setup[r] = "fill" => kekFile = Torn
  /\ setup[r] \in {"open", "seed", "done"} => kekFile = r
  /\ setup[r] \in {"seed", "done"} => schema
  /\ setup[r] = "done" => address[r] \in admin

Orderly ==
  /\ \A r \in Setup : Alone(r)
  /\ \A q, r \in Setup : setup[q] \in Making /\ setup[r] \in Making => q = r
  /\ loaded # None => kekFile = loaded
  /\ \A p \in PrintId : row[p] # None => row[p].kek = kekFile

KeyInv == TypeInv /\ (~overlapped => Orderly)

\* Nothing is stored under a key, and none in memory, while there is no whole one.
LEMMA NoKeyNoUse ==
  ASSUME TypeInv, Orderly, kekFile \notin Setup
  PROVE  loaded = None /\ \A p \in PrintId : row[p] = None
BY DEF TypeInv, TypeOK, BootTypeOK, Orderly, Row

LEMMA SetupStepOrderly ==
  ASSUME TypeInv, Orderly, NEW r \in Setup, SetupStep(r), UNCHANGED printVars, ~overlapped'
  PROVE  Orderly'
<1> USE DEF Making, Alone, Proceed
<1>1. /\ setup \in [Setup -> SetupSteps] /\ address \in [Setup -> Address \cup {None}]
      /\ None \notin Setup /\ Torn \notin Setup /\ None # Torn
  BY BootstrapAssumption DEF TypeInv, TypeOK, BootTypeOK
<1>2. row' = row /\ loaded' = loaded
  BY DEF printVars, SetupStep, Begin, Unusable, FindNoKek, FindKek, TruncateKek, FillKek,
         OpenStore, SeedAdmin, AdminExists, Ends
<1>3. CASE Begin(r) \/ Unusable(r) \/ FindKek(r)
  BY <1>1, <1>2, <1>3 DEF Orderly, Begin, Unusable, FindKek
<1>4. CASE FindNoKek(r)
  <2>1. \A q \in Setup \ {r} : setup[q] \notin {"generate", "write"}
    BY <1>4 DEF FindNoKek
  <2>2. \A q \in Setup : setup[q] # "fill"
    BY <1>1, <1>4 DEF FindNoKek, Orderly
  <2> QED
    BY <1>1, <1>2, <1>4, <2>1, <2>2 DEF Orderly, FindNoKek
<1>5. CASE TruncateKek(r)
  <2>1. loaded = None /\ \A p \in PrintId : row[p] = None
    BY <1>1, <1>5, NoKeyNoUse DEF TruncateKek, Orderly
  <2>2. \A q \in Setup \ {r} : setup[q] \notin {"generate", "write", "fill", "open", "seed", "done"}
    BY <1>1, <1>5 DEF TruncateKek, Orderly
  <2> QED
    BY <1>1, <1>2, <1>5, <2>1, <2>2 DEF Orderly, TruncateKek
<1>6. CASE FillKek(r)
  <2>1. loaded = None /\ \A p \in PrintId : row[p] = None
    BY <1>1, <1>6, NoKeyNoUse DEF FillKek, Orderly
  <2>2. \A q \in Setup \ {r} : setup[q] \notin {"generate", "write", "fill", "open", "seed", "done"}
    BY <1>1, <1>6 DEF FillKek, Orderly
  <2> QED
    BY <1>1, <1>2, <1>6, <2>1, <2>2 DEF Orderly, FillKek
<1>7. CASE OpenStore(r)
  BY <1>1, <1>2, <1>7 DEF Orderly, OpenStore
<1>8. CASE SeedAdmin(r) \/ AdminExists(r) \/ Ends(r)
  BY <1>1, <1>2, <1>8 DEF Orderly, SeedAdmin, AdminExists, Ends
<1> QED
  BY <1>3, <1>4, <1>5, <1>6, <1>7, <1>8 DEF SetupStep

LEMMA PrintStepOrderly ==
  ASSUME TypeInv, Orderly, NEW p \in PrintId, PrintStep(p), UNCHANGED bootVars
  PROVE  Orderly'
<1>1. row \in [PrintId -> Row \cup {None}]
  BY DEF TypeInv, TypeOK
<1>2. \A q \in PrintId : row'[q] # None => row'[q].kek = kekFile
  <2>1. CASE (\E d \in Data : WriteFile(p, d) \/ WriteFileFails(p, d))
             \/ InsertRowFails(p) \/ Unlink(p) \/ Spoil(p)
    BY <2>1 DEF WriteFile, WriteFileFails, InsertRowFails, Unlink, Spoil, Orderly
  <2>2. CASE InsertRow(p)
    <3>1. loaded = kekFile
      BY <2>2 DEF InsertRow, Orderly, TypeInv, Running, Idle
    <3> QED
      BY <1>1, <2>2, <3>1 DEF InsertRow, Orderly
  <2>3. CASE DeleteRow(p)
    BY <1>1, <2>3 DEF DeleteRow, Orderly
  <2>4. CASE \E q \in PrintId \ {p} : MixUp(p, q)
    <3>1. PICK q \in PrintId \ {p} : MixUp(p, q)
      BY <2>4
    <3>2. /\ row[p] \in Row /\ row[q] \in Row
          /\ row[p].kek = kekFile /\ row[q].kek = kekFile
      BY <1>1, <3>1 DEF MixUp, Orderly
    <3>3. \A s \in PrintId \ {p, q} : row'[s] = row[s]
      BY <1>1, <3>1 DEF MixUp, Swap
    <3>4. \/ row' = row
          \/ row'[p] = row[q] /\ row'[q] = row[p]
          \/ /\ row'[p] = [row[p] EXCEPT !.dek = row[q].dek, !.kek = row[q].kek, !.tag = row[q].tag]
             /\ row'[q] = [row[q] EXCEPT !.dek = row[p].dek, !.kek = row[p].kek, !.tag = row[p].tag]
      BY <1>1, <3>1 DEF MixUp, Swap
    <3>5. row'[p].kek = kekFile /\ row'[q].kek = kekFile
      BY <3>2, <3>4 DEF Row
    <3> QED
      BY <3>3, <3>5 DEF Orderly
  <2> QED
    BY <2>1, <2>2, <2>3, <2>4 DEF PrintStep
<1> QED
  BY <1>2 DEF Orderly, Alone, bootVars

LEMMA NextKey == KeyInv /\ [Next]_vars => KeyInv'
<1> SUFFICES ASSUME KeyInv, [Next]_vars, ~overlapped'
             PROVE  Orderly'
  BY NextType DEF KeyInv
<1>1. TypeInv /\ Orderly
  <2>1. overlapped \in BOOLEAN /\ (overlapped => overlapped')
    BY DEF KeyInv, TypeInv, TypeOK, BootTypeOK, Next, vars, bootVars, SetupStep, Begin, Unusable,
           FindNoKek, FindKek, TruncateKek, FillKek, OpenStore, SeedAdmin, AdminExists, Ends,
           LoadKek, Listen, StopService, RemoveKek
  <2> QED
    BY <2>1 DEF KeyInv
<1>2. CASE \E r \in Setup : SetupStep(r) /\ UNCHANGED printVars
  BY <1>1, <1>2, SetupStepOrderly
<1>3. CASE (LoadKek \/ Listen) /\ UNCHANGED printVars
  BY <1>1, <1>3 DEF LoadKek, Listen, printVars, Orderly, Alone
<1>4. CASE StopService /\ DropOp
  BY <1>1, <1>4 DEF StopService, DropOp, Orderly, Alone
<1>5. CASE RemoveKek /\ (\A p \in PrintId : row[p] = None) /\ UNCHANGED printVars
  BY <1>1, <1>5 DEF RemoveKek, printVars, Orderly, Alone, Making, TypeInv, Running
<1>6. CASE \E p \in PrintId : PrintStep(p) /\ UNCHANGED bootVars
  BY <1>1, <1>6, PrintStepOrderly
<1>7. CASE UNCHANGED vars
  BY <1>1, <1>7 DEF vars, bootVars, printVars, Orderly, Alone
<1> QED
  BY <1>2, <1>3, <1>4, <1>5, <1>6, <1>7 DEF Next

LEMMA InitKey == Init => KeyInv
BY InitType DEF Init, BootInit, KeyInv, Orderly, Alone, Making

\* Unless two inits overlapped, the key in memory is the one in the file, and every
\* print can be unwrapped with it, whatever was killed, torn or removed on the way.
THEOREM OneKeyForAll == Spec => []OneKey
<1>1. KeyInv => OneKey
  BY DEF KeyInv, Orderly, OneKey
<1> QED
  BY <1>1, InitKey, NextKey, PTL DEF Spec

\* An init that said it was done, and ran into no other, has left a key and an
\* administrator behind, and nothing undoes that.
THEOREM DoneIsReady == Spec => []DoneMeansReady
<1>1. KeyInv => DoneMeansReady
  BY DEF KeyInv, Orderly, Alone, DoneMeansReady
<1> QED
  BY <1>1, InitKey, NextKey, PTL DEF Spec

-----------------------------------------------------------------------------
(* Rows and files fit                                                      *)

\* A print that nothing disturbed: its row, when there is one, and its file are what
\* insert made of its content.
Fits(p) ==
  /\ row[p] # None =>
       /\ row[p].dek = p /\ row[p].tag = Seal(p, content[p]) /\ row[p].digest = content[p]
       /\ content[p] \in Data
       /\ file[p] = Seal(p, content[p])
  /\ op = [step |-> "row", print |-> p] => row[p] = None /\ file[p] = Seal(p, content[p])
  /\ op = [step |-> "unlink", print |-> p] => row[p] = None

FitInv == TypeInv /\ \A p \in PrintId \ disturbed : Fits(p)

LEMMA PrintStepFits ==
  ASSUME FitInv, NEW p \in PrintId, PrintStep(p), UNCHANGED bootVars,
         NEW q \in PrintId \ disturbed'
  PROVE  Fits(q)'
<1> USE DEF Fits
<1>1. /\ row \in [PrintId -> Row \cup {None}]
      /\ file \in [PrintId -> Sealing \cup {Torn, None}]
      /\ content \in [PrintId -> Data \cup {None}] /\ None \notin Data
  BY VaultAssumption DEF FitInv, TypeInv, TypeOK
<1>2. q \notin disturbed /\ Fits(q)
  BY DEF FitInv, PrintStep, WriteFile, WriteFileFails, InsertRow, InsertRowFails, DeleteRow,
         Unlink, Spoil, MixUp
<1>3. CASE \E d \in Data : WriteFile(p, d) \/ WriteFileFails(p, d)
  <2>1. PICK d \in Data : WriteFile(p, d) \/ WriteFileFails(p, d)
    BY <1>3
  <2>2. /\ content[p] = None /\ content' = [content EXCEPT ![p] = d] /\ row' = row
        /\ op = Idle
    BY <2>1 DEF WriteFile, WriteFileFails
  <2>3. CASE q = p
    BY <1>1, <1>2, <2>1, <2>2, <2>3 DEF WriteFile, WriteFileFails, Idle
  <2>4. CASE q # p
    <3>1. content'[q] = content[q] /\ file'[q] = file[q] /\ Seal(q, content'[q]) = Seal(q, content[q])
      BY <1>1, <2>1, <2>2, <2>4 DEF WriteFile, WriteFileFails
    <3>2. op' # [step |-> "row", print |-> q] /\ op' # [step |-> "unlink", print |-> q]
      BY <2>1, <2>2, <2>4 DEF WriteFile, WriteFileFails, Idle
    <3> QED
      BY <1>2, <2>2, <3>1, <3>2
  <2> QED
    BY <2>3, <2>4
<1>4. CASE InsertRow(p)
  <2>1. content[p] \in Data /\ content' = content /\ file' = file /\ op' = Idle
    BY <1>4 DEF InsertRow, FitInv, TypeInv, TypeOK, Running
  <2>2. CASE q = p
    <3>1. row'[p] = [dek |-> p, kek |-> loaded, tag |-> Seal(p, content[p]), digest |-> content[p]]
      BY <1>1, <1>4 DEF InsertRow
    <3> QED
      BY <1>2, <1>4, <2>1, <2>2, <3>1 DEF InsertRow, Idle
  <2>3. CASE q # p
    BY <1>1, <1>2, <1>4, <2>1, <2>3 DEF InsertRow, Idle
  <2> QED
    BY <2>2, <2>3
<1>5. CASE InsertRowFails(p) \/ Unlink(p)
  <2>1. row[q] # None => q # p
    BY <1>2, <1>5 DEF InsertRowFails, Unlink
  <2>2. /\ op' = Idle /\ row' = row /\ content' = content
        /\ file' \in {file, [file EXCEPT ![p] = None]}
    BY <1>5 DEF InsertRowFails, Unlink
  <2>3. q # p => file'[q] = file[q]
    BY <1>1, <2>2
  <2> QED
    BY <1>2, <2>1, <2>2, <2>3 DEF Idle
<1>6. CASE DeleteRow(p)
  BY <1>1, <1>2, <1>6 DEF DeleteRow
<1>7. CASE Spoil(p)
  <2>1. /\ q # p /\ UNCHANGED <<op, row, content>>
        /\ file' \in {[file EXCEPT ![p] = None], [file EXCEPT ![p] = Torn]}
    BY <1>7 DEF Spoil
  <2>2. file'[q] = file[q]
    BY <1>1, <2>1
  <2> QED
    BY <1>2, <2>1, <2>2
<1>8. CASE \E s \in PrintId \ {p} : MixUp(p, s)
  <2>1. PICK s \in PrintId \ {p} : MixUp(p, s)
    BY <1>8
  <2>2. /\ q # p /\ q # s /\ UNCHANGED <<op, content>>
        /\ row'[q] = row[q] /\ file'[q] = file[q]
    BY <1>1, <2>1 DEF MixUp, Swap
  <2> QED
    BY <1>2, <2>2
<1> QED
  BY <1>3, <1>4, <1>5, <1>6, <1>7, <1>8 DEF PrintStep

LEMMA NextFits == FitInv /\ [Next]_vars => FitInv'
<1> SUFFICES ASSUME FitInv, [Next]_vars
             PROVE  FitInv'
  OBVIOUS
<1>1. TypeInv'
  BY NextType DEF FitInv
<1>2. ASSUME UNCHANGED printVars
      PROVE  FitInv'
  BY <1>1, <1>2 DEF FitInv, Fits, printVars
<1>3. CASE StopService /\ DropOp
  <2>1. /\ file \in [PrintId -> Sealing \cup {Torn, None}]
        /\ op \in [step : {"row", "unlink"}, print : PrintId] \cup {Idle}
    BY DEF FitInv, TypeInv, TypeOK
  <2>2. UNCHANGED <<row, content, disturbed>> /\ op' = Idle
    BY <1>3 DEF DropOp
  <2>3. ASSUME NEW q \in PrintId \ disturbed
        PROVE  Fits(q)'
    <3>1. Fits(q)
      BY DEF FitInv
    <3>2. row[q] # None => file'[q] = file[q]
      <4>1. CASE op.step = "row"
        <5>1. op = [step |-> "row", print |-> op.print] /\ op.print \in PrintId
          BY <2>1, <4>1 DEF Idle
        <5>2. row[q] # None => q # op.print
          BY <3>1, <5>1 DEF Fits
        <5> QED
          BY <1>3, <2>1, <5>1, <5>2 DEF DropOp
      <4>2. CASE op.step # "row"
        BY <1>3, <4>2 DEF DropOp
      <4> QED
        BY <4>1, <4>2
    <3> QED
      BY <2>2, <3>1, <3>2 DEF Fits, Idle
  <2> QED
    BY <1>1, <2>2, <2>3 DEF FitInv
<1>4. CASE \E p \in PrintId : PrintStep(p) /\ UNCHANGED bootVars
  BY <1>1, <1>4, PrintStepFits DEF FitInv
<1>5. CASE UNCHANGED vars
  BY <1>2, <1>5 DEF vars
<1> QED
  BY <1>2, <1>3, <1>4, <1>5 DEF Next

\* The service can open every print that nobody tampered with, unless two inits
\* overlapped: neither deletions nor failures nor restarts separate row, file and key.
THEOREM UndisturbedStayReadable == Spec => []StaysReadable
<1>1. Init => FitInv
  BY InitType DEF Init, FitInv, Fits, Idle
<1>2. FitInv /\ KeyInv => StaysReadable
  <2> SUFFICES ASSUME FitInv, KeyInv, service = "up", ~overlapped,
                      NEW p \in PrintId \ disturbed, row[p] # None
               PROVE  Opens(p)
    BY DEF StaysReadable
  <2>1. row[p].kek = loaded
    BY DEF KeyInv, TypeInv, Running, Orderly
  <2>2. Fits(p)
    BY DEF FitInv
  <2>3. file[p] = row[p].tag /\ file[p].key = p /\ file[p].aad = p /\ file[p].data = content[p]
    BY <2>2, SealIsSealing DEF Fits
  <2> QED
    BY <2>1, <2>2, <2>3 DEF Opens, Unwraps, Aad, Fits
<1> QED
  BY <1>1, <1>2, InitKey, NextKey, NextFits, PTL DEF Spec
=============================================================================
