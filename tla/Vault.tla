-------------------------------- MODULE Vault --------------------------------
(***************************************************************************)
(* The print store (storage/prints.rs) over the key of Bootstrap: insert,  *)
(* read_blob and delete in the steps between which the process may end,    *)
(* and which key, which associated data and which tag open a file          *)
(* (crypto/aead.rs, crypto/kek.rs).                                        *)
(*                                                                         *)
(* Ciphertext and tag are made together by one sealing, which the model    *)
(* takes as one value: the key it was made with, its associated data and   *)
(* the plaintext.  Decryption succeeds when ciphertext and tag are of the  *)
(* same sealing and key and associated data are the ones it was made with. *)
(* The store mutex admits one operation at a time.  Files nobody synced    *)
(* may be lost or damaged, and a restore may put files or columns where    *)
(* they do not belong.                                                     *)
(***************************************************************************)
EXTENDS Bootstrap

CONSTANTS
  PrintId,  \* prints, and the data key (DEK) of each
  Data      \* plaintexts

Sealing == [key : PrintId, aad : PrintId \cup {None}, data : Data]
Row == [dek : PrintId, kek : Setup, tag : Sealing, digest : Data]

ASSUME VaultAssumption == None \notin PrintId \cup Row \cup Sealing \cup Data /\ Torn \notin Sealing

VARIABLES
  op,        \* the operation under the store mutex: what it is at, and the print
  row,       \* rows of prints, or None
  file,      \* the .enc files: a ciphertext, Torn, or None
  content,   \* history: what was given to insert
  disturbed  \* history: prints whose file or columns suffered from outside

printVars == <<op, row, file, content, disturbed>>
vars == <<bootVars, printVars>>

Idle == [step |-> "idle", print |-> None]

-----------------------------------------------------------------------------
\* Mutant of Aad: the associated data is left empty.
AadEmpty(p) == None

\* What insert and read_blob pass for associated data: the id of the print.
Aad(p) == p

\* aead::seal under a fresh key.
Seal(p, d) == [key |-> p, aad |-> Aad(p), data |-> d]

\* unwrap_dek: the data key is the print's own if it was wrapped with the key in memory.
Unwraps(p) == row[p].kek = loaded

\* unwrap_dek, then aead::open, then the digest.
Opens(p) ==
  /\ row[p] # None
  /\ Unwraps(p)
  /\ file[p] = row[p].tag
  /\ file[p].key = row[p].dek
  /\ file[p].aad = Aad(p)
  /\ file[p].data = row[p].digest

\* What read_blob returns: a plaintext, or an error.
ReadBlob(p) == IF service = "up" /\ Opens(p) THEN file[p].data ELSE None

\* insert: the file is written, ...
WriteFile(p, d) ==
  /\ service = "up" /\ op = Idle /\ content[p] = None
  /\ content' = [content EXCEPT ![p] = d]
  /\ file' = [file EXCEPT ![p] = Seal(p, d)]
  /\ op' = [step |-> "row", print |-> p]
  /\ UNCHANGED <<row, disturbed>>

\* Mutant of WriteFileFails: the error is dropped, and insert goes on to the row.
WriteErrorDropped(p, d) ==
  /\ service = "up" /\ op = Idle /\ content[p] = None
  /\ content' = [content EXCEPT ![p] = d]
  /\ file' = [file EXCEPT ![p] = Torn]
  /\ op' = [step |-> "row", print |-> p]
  /\ UNCHANGED <<row, disturbed>>

\* The file cannot be written, or not to its end.
WriteFileFails(p, d) ==
  /\ service = "up" /\ op = Idle /\ content[p] = None
  /\ content' = [content EXCEPT ![p] = d]
  /\ file' = [file EXCEPT ![p] = Torn]
  /\ UNCHANGED <<op, row, disturbed>>

\* ... then the row with everything else that it takes to open it.
InsertRow(p) ==
  /\ op = [step |-> "row", print |-> p]
  /\ row' = [row EXCEPT ![p] = [dek |-> p, kek |-> loaded,
                                tag |-> Seal(p, content[p]), digest |-> content[p]]]
  /\ op' = Idle
  /\ UNCHANGED <<file, content, disturbed>>

\* The row cannot be inserted: the file is removed, if possible.
InsertRowFails(p) ==
  /\ op = [step |-> "row", print |-> p]
  /\ file' \in {file, [file EXCEPT ![p] = None]}
  /\ op' = Idle
  /\ UNCHANGED <<row, content, disturbed>>

\* delete: the row goes first (unless a share refers to it), ...
DeleteRow(p) ==
  /\ service = "up" /\ op = Idle /\ row[p] # None
  /\ row' = [row EXCEPT ![p] = None]
  /\ op' = [step |-> "unlink", print |-> p]
  /\ UNCHANGED <<file, content, disturbed>>

\* ... then the file, if it can be removed.
Unlink(p) ==
  /\ op = [step |-> "unlink", print |-> p]
  /\ file' \in {file, [file EXCEPT ![p] = None]}
  /\ op' = Idle
  /\ UNCHANGED <<row, content, disturbed>>

\* The operation goes with the process.  (A file it was writing may be torn.)
DropOp ==
  /\ op' = Idle
  /\ \/ UNCHANGED file
     \/ op.step = "row" /\ file' = [file EXCEPT ![op.print] = Torn]
  /\ UNCHANGED <<row, content, disturbed>>

-----------------------------------------------------------------------------
(* What files and columns may suffer from outside.                         *)

\* No write was synced: a loss of power leaves the file torn, or none.
Spoil(p) ==
  /\ file[p] # None
  /\ file' \in {[file EXCEPT ![p] = None], [file EXCEPT ![p] = Torn]}
  /\ disturbed' = disturbed \cup {p}
  /\ UNCHANGED <<op, row, content>>

Swap(f, p, q) == [f EXCEPT ![p] = f[q], ![q] = f[p]]

\* Files, or columns of rows, of two prints in each other's place.
MixUp(p, q) ==
  /\ op = Idle /\ row[p] # None /\ row[q] # None
  /\ \/ file' = Swap(file, p, q) /\ UNCHANGED row
     \/ /\ row' = [row EXCEPT ![p] = [@ EXCEPT !.dek = row[q].dek, !.kek = row[q].kek,
                                               !.tag = row[q].tag],
                              ![q] = [@ EXCEPT !.dek = row[p].dek, !.kek = row[p].kek,
                                               !.tag = row[p].tag]]
        /\ UNCHANGED file
     \/ row' = Swap(row, p, q) /\ UNCHANGED file
  /\ disturbed' = disturbed \cup {p, q}
  /\ UNCHANGED <<op, content>>

-----------------------------------------------------------------------------
Init ==
  /\ BootInit
  /\ op = Idle
  /\ row = [p \in PrintId |-> None]
  /\ file = [p \in PrintId |-> None]
  /\ content = [p \in PrintId |-> None]
  /\ disturbed = {}

PrintStep(p) ==
  \/ \E d \in Data : WriteFile(p, d) \/ WriteFileFails(p, d)
  \/ InsertRow(p) \/ InsertRowFails(p)
  \/ DeleteRow(p) \/ Unlink(p)
  \/ Spoil(p)
  \/ \E q \in PrintId \ {p} : MixUp(p, q)

Next ==
  \/ \E r \in Setup : SetupStep(r) /\ UNCHANGED printVars
  \/ (LoadKek \/ Listen) /\ UNCHANGED printVars
  \/ StopService /\ DropOp
  \/ RemoveKek /\ (\A p \in PrintId : row[p] = None) /\ UNCHANGED printVars
  \/ \E p \in PrintId : PrintStep(p) /\ UNCHANGED bootVars

Spec == Init /\ [][Next]_vars

-----------------------------------------------------------------------------
TypeOK ==
  /\ BootTypeOK
  /\ op \in [step : {"row", "unlink"}, print : PrintId] \cup {Idle}
  /\ row \in [PrintId -> Row \cup {None}]
  /\ file \in [PrintId -> Sealing \cup {Torn, None}]
  /\ content \in [PrintId -> Data \cup {None}]
  /\ disturbed \in SUBSET PrintId

\* storage/src/prints.rs:9-10: "Swapping ciphertext across rows therefore always fails
\* authentication."  Whatever happened to files and columns, a read returns what was
\* given to insert under this id, or an error.
ReadsWhatWasInserted ==
  \A p \in PrintId : ReadBlob(p) # None => ReadBlob(p) = content[p]

\* The service opens every print whose file and row nobody disturbed: failures and
\* ends of the process inside insert, and restarts, leave no row without its whole
\* file, and no row under another key.
StaysReadable ==
  service = "up" /\ ~overlapped =>
    \A p \in PrintId \ disturbed : row[p] # None => Opens(p)

\* The key that the service works with is the one it finds after a restart, and
\* the one that every print was stored under: no print becomes unreadable.  (Two
\* inits that overlap may replace the key of a service that runs already.)
OneKey ==
  ~overlapped =>
    /\ loaded # None => kekFile = loaded
    /\ \A p \in PrintId : row[p] # None => row[p].kek = kekFile
=============================================================================
