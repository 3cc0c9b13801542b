------------------------------ MODULE Bootstrap ------------------------------
(***************************************************************************)
(* The way into service: `cuishare init` (app/init_cmd.rs), step by step,  *)
(* and `cuishare run` (app/main.rs) up to the point where it listens, over *)
(* the key file (crypto/kek.rs) and the users table (storage/users.rs).    *)
(*                                                                         *)
(* Every invocation of init is a process of its own; nothing keeps two of  *)
(* them apart.  It may end after any step, with an error, a mistyped       *)
(* password or a closed window, and what it did until then stays.  A KEK   *)
(* carries the name of the invocation that generated it.                   *)
(***************************************************************************)
EXTENDS FiniteSets

CONSTANTS
  Setup,   \* invocations of cuishare init
  Name,    \* e-mail addresses, apart from how they are written
  Torn,    \* a key file that is not whole, which DPAPI refuses
  None

\* An address as it is typed: in capitals, or as login_post writes it.
Address == [name : Name, capitals : BOOLEAN]
Lowercase(a) == [a EXCEPT !.capitals = FALSE]

ASSUME BootstrapAssumption == Torn # None /\ Torn \notin Setup /\ None \notin Setup \cup Address

VARIABLES
  setup,       \* what each invocation of init does next
  address,     \* its --admin-email
  kekFile,     \* kek.bin: the key in it, Torn, or None for no file
  schema,      \* the database is there, with its tables
  admin,       \* rows of users
  service,     \* "down", "loading" or "up"
  loaded,      \* the key that the service holds in memory
  overlapped   \* history: an init passed its check while another had yet to write

bootVars == <<setup, address, kekFile, schema, admin, service, loaded, overlapped>>

-----------------------------------------------------------------------------
(* cuishare init                                                           *)

InHand(r) == setup[r] \notin {"wait", "done", "failed"}

Proceed(r, step) == setup' = [setup EXCEPT ![r] = step]

\* The arguments are parsed, the config loaded and the directories made.
Begin(r) ==
  /\ setup[r] = "wait"
  /\ \E a \in Address : address' = [address EXCEPT ![r] = a]
  /\ Proceed(r, "check")
  /\ UNCHANGED <<kekFile, schema, admin, service, loaded, overlapped>>

\* No e-mail among the arguments, an unknown flag, or a config that does not parse.
Unusable(r) ==
  /\ setup[r] = "wait"
  /\ Proceed(r, "failed")
  /\ UNCHANGED <<address, kekFile, schema, admin, service, loaded, overlapped>>

\* Mutant of FindNoKek: a key file that is there does not stop it.
FindAnyKek(r) ==
  /\ setup[r] = "check"
  /\ Proceed(r, "write")
  /\ UNCHANGED <<address, kekFile, schema, admin, service, loaded, overlapped>>

\* kek_path.exists() in run, and once more in KekManager::init.
FindNoKek(r) ==
  /\ setup[r] \in {"check", "generate"}
  /\ kekFile = None
  /\ Proceed(r, IF setup[r] = "check" THEN "generate" ELSE "write")
  /\ overlapped' = (overlapped \/ \E q \in Setup \ {r} : setup[q] \in {"generate", "write"})
  /\ UNCHANGED <<address, kekFile, schema, admin, service, loaded>>

FindKek(r) ==
  /\ setup[r] \in {"check", "generate"}
  /\ kekFile # None
  /\ Proceed(r, "failed")
  /\ UNCHANGED <<address, kekFile, schema, admin, service, loaded, overlapped>>

\* fs::write creates the file, or empties the one that is there, ...
TruncateKek(r) ==
  /\ setup[r] = "write"
  /\ kekFile' = Torn
  /\ Proceed(r, "fill")
  /\ UNCHANGED <<address, schema, admin, service, loaded, overlapped>>

\* ... and then writes the sealed key.
FillKek(r) ==
  /\ setup[r] = "fill"
  /\ kekFile' = r
  /\ Proceed(r, "open")
  /\ UNCHANGED <<address, schema, admin, service, loaded, overlapped>>

OpenStore(r) ==
  /\ setup[r] = "open"
  /\ schema' = TRUE
  /\ Proceed(r, "seed")
  /\ UNCHANGED <<address, kekFile, admin, service, loaded, overlapped>>

\* Mutant of SeedAdmin: any error of users::create is let pass.
SeedAnyway(r) ==
  /\ setup[r] = "seed"
  /\ admin' \in {admin, admin \cup {address[r]}}
  /\ Proceed(r, "done")
  /\ UNCHANGED <<address, kekFile, schema, service, loaded, overlapped>>

\* The password is asked for, unless it was an argument, and the row inserted.
SeedAdmin(r) ==
  /\ setup[r] = "seed"
  /\ address[r] \notin admin
  /\ admin' = admin \cup {address[r]}
  /\ Proceed(r, "done")
  /\ UNCHANGED <<address, kekFile, schema, service, loaded, overlapped>>

\* users.email is UNIQUE, to the letter.
AdminExists(r) ==
  /\ setup[r] = "seed"
  /\ address[r] \in admin
  /\ Proceed(r, "failed")
  /\ UNCHANGED <<address, kekFile, schema, admin, service, loaded, overlapped>>

\* An error, a password that is too short or typed differently the second time,
\* or the end of the process, between any two steps.  (After the row was inserted
\* the process may end before it says "Done".)
Ends(r) ==
  /\ InHand(r)
  /\ Proceed(r, "failed")
  /\ \/ UNCHANGED admin
     \/ setup[r] = "seed" /\ admin' = admin \cup {address[r]}
  /\ UNCHANGED <<address, kekFile, schema, service, loaded, overlapped>>

-----------------------------------------------------------------------------
(* cuishare run                                                            *)

\* Mutant of LoadKek: what the file holds is taken for a key.
LoadAnyKek ==
  /\ service = "down"
  /\ kekFile # None
  /\ loaded' = kekFile
  /\ service' = "loading"
  /\ UNCHANGED <<setup, address, kekFile, schema, admin, overlapped>>

\* Once the checks of FIPS mode and config are past and the key file is there it is
\* loaded.  (When it is refused, or torn, the process ends as if never started.)
LoadKek ==
  /\ service = "down"
  /\ kekFile \in Setup
  /\ loaded' = kekFile
  /\ service' = "loading"
  /\ UNCHANGED <<setup, address, kekFile, schema, admin, overlapped>>

\* Store::open applies the schema; the audit log is opened and the port bound.
Listen ==
  /\ service = "loading"
  /\ schema' = TRUE
  /\ service' = "up"
  /\ UNCHANGED <<setup, address, kekFile, admin, loaded, overlapped>>

\* The process ends, before or after it listens.
StopService ==
  /\ service # "down"
  /\ service' = "down"
  /\ loaded' = None
  /\ UNCHANGED <<setup, address, kekFile, schema, admin, overlapped>>

\* "Remove it manually only if you mean to start over": nothing runs, and no init
\* has come to its end.
RemoveKek ==
  /\ service = "down"
  /\ \A r \in Setup : setup[r] \in {"wait", "failed"}
  /\ kekFile # None
  /\ kekFile' = None
  /\ UNCHANGED <<setup, address, schema, admin, service, loaded, overlapped>>

-----------------------------------------------------------------------------
BootInit ==
  /\ setup = [r \in Setup |-> "wait"]
  /\ address = [r \in Setup |-> None]
  /\ kekFile = None
  /\ schema = FALSE
  /\ admin = {}
  /\ service = "down"
  /\ loaded = None
  /\ overlapped = FALSE

SetupStep(r) ==
  \/ Begin(r) \/ Unusable(r)
  \/ FindNoKek(r) \/ FindKek(r) \/ TruncateKek(r) \/ FillKek(r)
  \/ OpenStore(r) \/ SeedAdmin(r) \/ AdminExists(r)
  \/ Ends(r)

-----------------------------------------------------------------------------
SetupSteps == {"wait", "check", "generate", "write", "fill", "open", "seed", "done", "failed"}

BootTypeOK ==
  /\ setup \in [Setup -> SetupSteps]
  /\ address \in [Setup -> Address \cup {None}]
  /\ kekFile \in Setup \cup {Torn, None}
  /\ schema \in BOOLEAN
  /\ admin \in SUBSET Address
  /\ service \in {"down", "loading", "up"}
  /\ loaded \in Setup \cup {None}
  /\ overlapped \in BOOLEAN

\* "Done. Start the service with: cuishare run" (app/init_cmd.rs:49-50) is true: the
\* key is whole and the one that was generated, and the administrator is there.
\* Only an init that ran into another one may have said it in vain.
DoneMeansReady ==
  \A r \in Setup : setup[r] = "done" /\ ~overlapped =>
    kekFile = r /\ schema /\ address[r] \in admin

\* find_by_email, for the address as login_post passes it on.
CanLogIn(a) == Lowercase(a) \in admin

\* app/init_cmd.rs:3-4: init "seeds the first admin user".  Whoever was seeded can
\* log in with the address that was given to init.
SeededCanLogIn == \A r \in Setup : setup[r] = "done" => CanLogIn(address[r])
=============================================================================
