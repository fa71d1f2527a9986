--------------------------- MODULE SnapshotCache ----------------------------
(***************************************************************************)
(* The snapshot files of godoo-testcontainers (snapshot.py, and the parts  *)
(* of container.py that use it).  Pytest workers, processes of their own,  *)
(* start databases with the same configuration over one cache directory:   *)
(* each restores the dump of its key, or builds the database and saves a   *)
(* dump; ODOO_TESTCONTAINERS_SNAPSHOT=disabled makes a worker do neither.  *)
(* Workers may be killed anywhere, dumps and the removal and renaming of   *)
(* files may fail, and a developer edits the addons.                       *)
(*                                                                         *)
(* A key is a hash of the configuration, addons included; it stands for    *)
(* what was hashed.  A database or dump is known by what it was built from *)
(* and by whether it is whole.                                             *)
(***************************************************************************)
EXTENDS Naturals

CONSTANTS
  Workers,
  Sources,    \* the states the addons may be in
  None,
  MaxEdits,   \* bound on edits of the addons
  MaxFaults   \* bound on workers killed and on operations of theirs that raise

Image(s, w) == [of |-> s, whole |-> w]
Images      == [of : Sources, whole : BOOLEAN]

ASSUME SnapshotAssumption ==
  None \notin Sources \cup Images /\ MaxEdits \in Nat /\ MaxFaults \in Nat

VARIABLES
  source,   \* the addons as they are now
  files,    \* the dump files of the cache, by key
  tmp,      \* the temporary file each worker is writing
  left,     \* how many temporary files nobody will touch again
  workerPc,
  key,      \* the key of each worker's snapshot_cfg
  db,       \* the database of each worker
  hit,      \* snapshot_hit
  mixed,    \* the keys under which a worker built from other addons
  edits, faults

snapshotVars == <<source, files, tmp, left, workerPc, key, db, hit, mixed, edits, faults>>

SnapshotInit ==
  /\ source \in Sources
  /\ files = [k \in Sources |-> None]
  /\ tmp = [w \in Workers |-> None]
  /\ workerPc = [w \in Workers |-> "config"]
  /\ key = [w \in Workers |-> None]
  /\ db = [w \in Workers |-> None]
  /\ hit = [w \in Workers |-> FALSE]
  /\ left = 0
  /\ mixed = {}
  /\ edits = 0 /\ faults = 0

Go(w, s) == workerPc' = [workerPc EXCEPT ![w] = s]

-----------------------------------------------------------------------------
(***************************************************************************)
(* start(), up to a usable database.                                       *)
(***************************************************************************)

\* make_snapshot_config: the addons are hashed before anything is started.  The
\* environment may disable snapshots.
MakeConfig(w) ==
  /\ workerPc[w] = "config"
  /\ key' = [key EXCEPT ![w] = source]
  /\ \E enabled \in BOOLEAN : Go(w, IF enabled THEN "check" ELSE "build unsaved")
  /\ UNCHANGED <<source, files, tmp, left, db, hit, mixed, edits, faults>>

\* has_snapshot, once postgres runs.
CheckSnapshot(w) ==
  /\ workerPc[w] = "check"
  /\ Go(w, IF files[key[w]] # None THEN "drop" ELSE "build")
  /\ UNCHANGED <<source, files, tmp, left, key, db, hit, mixed, edits, faults>>

\* dropdb and createdb, then pg_restore, which reads the dump of the key.
\* Any of them may fail, and start() with it.
Restore(w) ==
  /\ \/ /\ workerPc[w] = "drop"
        /\ Go(w, "restore")
        /\ UNCHANGED <<db, hit>>
     \/ /\ workerPc[w] = "restore" /\ files[key[w]] # None
        /\ db' = [db EXCEPT ![w] = files[key[w]]]
        /\ hit' = [hit EXCEPT ![w] = TRUE]
        /\ Go(w, "ready")
     \/ /\ workerPc[w] \in {"drop", "restore"}
        /\ Go(w, "failed")
        /\ UNCHANGED <<db, hit>>
  /\ UNCHANGED <<source, files, tmp, left, key, mixed, edits, faults>>

\* Odoo initialises the database and installs the modules, from the addons as
\* they are by then; or it fails.
Build(w) ==
  /\ workerPc[w] \in {"build", "build unsaved"}
  /\ \/ /\ db' = [db EXCEPT ![w] = Image(source, TRUE)]
        /\ mixed' = IF source = key[w] THEN mixed ELSE mixed \cup {key[w]}
        /\ Go(w, IF workerPc[w] = "build" THEN "save" ELSE "ready")
     \/ Go(w, "failed") /\ UNCHANGED <<db, mixed>>
  /\ UNCHANGED <<source, files, tmp, left, key, hit, edits, faults>>

-----------------------------------------------------------------------------
(***************************************************************************)
(* save_snapshot.  Its failure is not fatal: the database is ready.        *)
(***************************************************************************)

\* The first check, and the start of pg_dump into a temporary file.
StartDump(w) ==
  /\ workerPc[w] = "save"
  /\ IF files[key[w]] # None
     THEN Go(w, "ready") /\ UNCHANGED tmp
     ELSE Go(w, "dump") /\ tmp' = [tmp EXCEPT ![w] = Image(db[w].of, FALSE)]
  /\ UNCHANGED <<source, files, left, key, db, hit, mixed, edits, faults>>

\* The worker is done with its temporary file, which is gone.
Gone(w) == tmp' = [tmp EXCEPT ![w] = None] /\ UNCHANGED <<left, faults>>

\* The worker is done with its temporary file, which stays where it is: something
\* raised.
Stays(w) ==
  /\ faults < MaxFaults
  /\ faults' = faults + 1
  /\ tmp' = [tmp EXCEPT ![w] = None]
  /\ left' = left + 1

\* unlink(missing_ok=True), whose failure is suppressed.
Unlink(w) == Gone(w) \/ Stays(w)

\* Mutant: a failed dump leaves its file.
DumpFailsLittering(w) ==
  /\ workerPc[w] = "dump"
  /\ tmp' = [tmp EXCEPT ![w] = None]
  /\ left' = left + 1
  /\ Go(w, "ready")
  /\ UNCHANGED <<source, files, key, db, hit, mixed, edits, faults>>

\* pg_dump fails: its file is removed, and the exception swallowed.
DumpFails(w) ==
  /\ workerPc[w] = "dump"
  /\ Unlink(w)
  /\ Go(w, "ready")
  /\ UNCHANGED <<source, files, key, db, hit, mixed, edits>>

\* The call itself raises, as Docker fails: nobody removes the file.
DumpBreaksOff(w) ==
  /\ workerPc[w] = "dump"
  /\ Stays(w)
  /\ Go(w, "ready")
  /\ UNCHANGED <<source, files, key, db, hit, mixed, edits>>

\* Mutant: the file is renamed whether pg_dump succeeded or not.
DumpedUnchecked(w) ==
  /\ workerPc[w] = "dump"
  /\ \E ok \in BOOLEAN : tmp' = [tmp EXCEPT ![w] = Image(db[w].of, ok)]
  /\ Go(w, "recheck")
  /\ UNCHANGED <<source, files, left, key, db, hit, mixed, edits, faults>>

Dumped(w) ==
  /\ workerPc[w] = "dump"
  /\ tmp' = [tmp EXCEPT ![w] = Image(db[w].of, TRUE)]
  /\ Go(w, "recheck")
  /\ UNCHANGED <<source, files, left, key, db, hit, mixed, edits, faults>>

\* Mutant: a duplicate makes the worker remove the file of the key.
RecheckRemoving(w) ==
  /\ workerPc[w] = "recheck"
  /\ IF files[key[w]] # None
     THEN files' = [files EXCEPT ![key[w]] = None] /\ Unlink(w) /\ Go(w, "ready")
     ELSE UNCHANGED <<files, tmp, left, faults>> /\ Go(w, "rename")
  /\ UNCHANGED <<source, key, db, hit, mixed, edits>>

\* The second check: another worker was faster, the duplicate goes.
Recheck(w) ==
  /\ workerPc[w] = "recheck"
  /\ IF files[key[w]] # None
     THEN Unlink(w) /\ Go(w, "ready")
     ELSE UNCHANGED <<tmp, left, faults>> /\ Go(w, "rename")
  /\ UNCHANGED <<source, files, key, db, hit, mixed, edits>>

\* Mutant: the key is computed again from the addons as they are now.
RenameRecomputed(w) ==
  /\ workerPc[w] = "rename"
  /\ \/ files' = [files EXCEPT ![source] = tmp[w]] /\ Gone(w)
     \/ UNCHANGED files /\ Stays(w)
  /\ Go(w, "ready")
  /\ UNCHANGED <<source, key, db, hit, mixed, edits>>

\* os.replace, which replaces what another worker may have put there since; or it
\* raises, which start() swallows.
Rename(w) ==
  /\ workerPc[w] = "rename"
  /\ \/ files' = [files EXCEPT ![key[w]] = tmp[w]] /\ Gone(w)
     \/ UNCHANGED files /\ Stays(w)
  /\ Go(w, "ready")
  /\ UNCHANGED <<source, key, db, hit, mixed, edits>>

-----------------------------------------------------------------------------
(***************************************************************************)
(* Everybody else.                                                         *)
(***************************************************************************)

\* The worker starts another container with the same configuration.
StartAgain(w) ==
  /\ workerPc[w] \in {"ready", "failed"}
  /\ Go(w, "config")
  /\ key' = [key EXCEPT ![w] = None]
  /\ db' = [db EXCEPT ![w] = None]
  /\ hit' = [hit EXCEPT ![w] = FALSE]
  /\ UNCHANGED <<source, files, tmp, left, mixed, edits, faults>>

\* A worker is killed, or cancelled while pg_dump runs; its temporary file,
\* whole or not, stays.
Kill(w) ==
  /\ workerPc[w] \notin {"ready", "failed", "killed"}
  /\ faults < MaxFaults
  /\ faults' = faults + 1
  /\ tmp' = [tmp EXCEPT ![w] = None]
  /\ left' = IF tmp[w] # None THEN left + 1 ELSE left
  /\ Go(w, "killed")
  /\ UNCHANGED <<source, files, key, db, hit, mixed, edits>>

EditAddons(s) ==
  /\ edits < MaxEdits
  /\ s # source
  /\ source' = s
  /\ edits' = edits + 1
  /\ UNCHANGED <<files, tmp, left, workerPc, key, db, hit, mixed, faults>>

WorkerStep(w) ==
  \/ MakeConfig(w) \/ CheckSnapshot(w) \/ Restore(w) \/ Build(w)
  \/ StartDump(w) \/ DumpFails(w) \/ DumpBreaksOff(w) \/ Dumped(w) \/ Recheck(w) \/ Rename(w)

SnapshotNext ==
  \/ \E w \in Workers : WorkerStep(w) \/ StartAgain(w) \/ Kill(w)
  \/ \E s \in Sources : EditAddons(s)

SnapshotSpec == SnapshotInit /\ [][SnapshotNext]_snapshotVars

-----------------------------------------------------------------------------
(***************************************************************************)
(* Properties.                                                             *)
(***************************************************************************)

SnapshotTypes ==
  /\ source \in Sources
  /\ files \in [Sources -> Images \cup {None}]
  /\ tmp \in [Workers -> Images \cup {None}]
  /\ workerPc \in [Workers ->
       {"config", "check", "drop", "restore", "build", "build unsaved", "save", "dump",
        "recheck", "rename", "ready", "failed", "killed"}]
  /\ key \in [Workers -> Sources \cup {None}]
  /\ db \in [Workers -> Images \cup {None}]
  /\ hit \in [Workers -> BOOLEAN]
  /\ mixed \in SUBSET Sources
  /\ left \in Nat /\ faults \in Nat

\* Whatever workers do at once and wherever they are killed, no dump that is
\* not whole ever stands under a key, and so none is restored.
DumpsWhole ==
  /\ \A k \in Sources : files[k] # None => files[k].whole
  /\ \A w \in Workers : db[w] # None => db[w].whole

\* Warm or cold: a database that is ready was built from the addons its key
\* was made of, unless somebody edited them between the hash and a build.
WarmAsCold ==
  \A w \in Workers : workerPc[w] = "ready" => db[w].of = key[w] \/ key[w] \in mixed

\* A dump, once there, stays, and what another worker puts in its place was
\* built from the same addons, unless they were edited during a build.
Published ==
  [][\A k \in Sources : files[k] # None =>
       files'[k] # None /\ (files'[k].of = files[k].of \/ k \in mixed)]_snapshotVars

\* Whoever loses the race for a key, fails or is killed: a worker that is through
\* with saving has no temporary file, and at most one is left for good for each
\* worker killed and each pg_dump call, unlink or replace that raised.
NoLitter ==
  /\ \A w \in Workers : workerPc[w] \notin {"dump", "recheck", "rename"} => tmp[w] = None
  /\ left <= faults

-----------------------------------------------------------------------------
(***************************************************************************)
(* The inductive invariant.                                                *)
(***************************************************************************)

\* An image is whole and was built from the addons of its key, unless they were
\* edited during a build.
Fits(image, k) == image \in Images /\ image.whole /\ (image.of = k \/ k \in mixed)

FilesFit == \A k \in Sources : files[k] # None => Fits(files[k], k)

\* What a worker has by the time it is where it is.
WorkerFits(w) ==
  /\ workerPc[w] \notin {"config", "killed"} => key[w] \in Sources
  /\ workerPc[w] \in {"save", "dump", "recheck", "rename", "ready"} => Fits(db[w], key[w])
  /\ db[w] # None => db[w].whole
  /\ workerPc[w] \in {"recheck", "rename"} => tmp[w] = db[w]
  /\ workerPc[w] \notin {"dump", "recheck", "rename"} => tmp[w] = None

SnapshotIInv == SnapshotTypes /\ FilesFit /\ left <= faults /\ \A w \in Workers : WorkerFits(w)
=============================================================================
