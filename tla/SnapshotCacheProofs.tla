------------------------ MODULE SnapshotCacheProofs ------------------------
(***************************************************************************)
(* The snapshot files are what they stand for, for any number of workers,  *)
(* of states of the addons, of edits and of faults.                        *)
(***************************************************************************)
EXTENDS SnapshotCache, TLAPS

\* Nobody has started anything.
LEMMA InitIInv == SnapshotInit => SnapshotIInv
BY SnapshotAssumption DEF SnapshotInit, SnapshotIInv, SnapshotTypes, FilesFit, WorkerFits

\* A step of one worker leaves what the others have as it is.
LEMMA OthersFit ==
  ASSUME SnapshotIInv, NEW w \in Workers, NEW v \in Workers \ {w},
         tmp'[v] = tmp[v], workerPc'[v] = workerPc[v], key'[v] = key[v], db'[v] = db[v],
         mixed \subseteq mixed'
  PROVE  WorkerFits(v)'
BY DEF SnapshotIInv, WorkerFits, Fits

\* The files of the cache stay as they are, and more keys may become mixed.
LEMMA SameFilesFit ==
  ASSUME SnapshotIInv, files' = files, mixed \subseteq mixed'
  PROVE  FilesFit'
BY DEF SnapshotIInv, FilesFit, Fits

\* Of the temporary file nothing is left, or it is left for a fault.
LEMMA TmpIsLeft ==
  ASSUME SnapshotIInv, NEW w \in Workers, Gone(w) \/ Stays(w)
  PROVE  /\ tmp' \in [Workers -> Images \cup {None}] /\ tmp'[w] = None
         /\ \A v \in Workers \ {w} : tmp'[v] = tmp[v]
         /\ left' \in Nat /\ faults' \in Nat /\ left' <= faults'
<1>1. SnapshotTypes /\ left <= faults
  BY DEF SnapshotIInv
<1>2. left' \in Nat /\ faults' \in Nat /\ left' <= faults'
  <2>1. left \in Nat /\ faults \in Nat
    BY <1>1 DEF SnapshotTypes
  <2>2. \/ left' = left /\ faults' = faults
        \/ left' = left + 1 /\ faults' = faults + 1
    BY DEF Gone, Stays
  <2> QED
    BY <1>1, <2>1, <2>2
<1>3. tmp' = [tmp EXCEPT ![w] = None] /\ tmp \in [Workers -> Images \cup {None}]
  BY <1>1 DEF SnapshotTypes, Gone, Stays
<1> QED
  BY <1>2, <1>3

\* The key is taken.
LEMMA MakeConfigIInv == ASSUME SnapshotIInv, NEW w \in Workers, MakeConfig(w) PROVE SnapshotIInv'
<1> USE DEF MakeConfig, Go
<1>1. SnapshotTypes'
  BY SnapshotAssumption DEF SnapshotIInv, SnapshotTypes, FilesFit, WorkerFits, Fits, Images, Image
<1>2. FilesFit'
  BY SameFilesFit
<1>3. WorkerFits(w)'
  <2>1. workerPc'[w] \in {"check", "build unsaved"} /\ key'[w] \in Sources /\ tmp'[w] = None
    BY DEF SnapshotIInv, SnapshotTypes, WorkerFits
  <2>2. db' = db /\ (db[w] # None => db[w].whole)
    BY DEF SnapshotIInv, WorkerFits
  <2> QED
    BY <2>1, <2>2 DEF WorkerFits
<1>4. ASSUME NEW v \in Workers \ {w} PROVE WorkerFits(v)'
  BY OthersFit DEF SnapshotIInv, SnapshotTypes
<1>5. (left <= faults)'
  BY DEF SnapshotIInv, SnapshotTypes
<1> QED
  BY <1>1, <1>2, <1>3, <1>4, <1>5 DEF SnapshotIInv

\* Nothing is taken from the cache yet.
LEMMA CheckSnapshotIInv ==
  ASSUME SnapshotIInv, NEW w \in Workers, CheckSnapshot(w) PROVE SnapshotIInv'
<1> USE DEF CheckSnapshot, Go
<1>1. SnapshotTypes'
  BY SnapshotAssumption DEF SnapshotIInv, SnapshotTypes, FilesFit, WorkerFits, Fits, Images, Image
<1>2. FilesFit'
  BY SameFilesFit
<1>3. WorkerFits(w)'
  BY SnapshotAssumption DEF SnapshotIInv, SnapshotTypes, FilesFit, WorkerFits, Fits, Images, Image
<1>4. ASSUME NEW v \in Workers \ {w} PROVE WorkerFits(v)'
  BY OthersFit DEF SnapshotIInv, SnapshotTypes
<1>5. (left <= faults)'
  BY DEF SnapshotIInv, SnapshotTypes
<1> QED
  BY <1>1, <1>2, <1>3, <1>4, <1>5 DEF SnapshotIInv

\* The dump that is restored fits its key.
LEMMA RestoreIInv == ASSUME SnapshotIInv, NEW w \in Workers, Restore(w) PROVE SnapshotIInv'
<1> USE DEF Restore, Go
<1>1. SnapshotTypes'
  BY SnapshotAssumption DEF SnapshotIInv, SnapshotTypes, FilesFit, WorkerFits, Fits, Images, Image
<1>2. FilesFit'
  BY SameFilesFit
<1>3. WorkerFits(w)'
  <2>0. SnapshotTypes /\ FilesFit /\ WorkerFits(w) /\ key[w] \in Sources /\ tmp[w] = None
    BY DEF SnapshotIInv, WorkerFits
  <2>1. CASE workerPc'[w] = "ready" /\ db'[w] = files[key[w]] /\ files[key[w]] # None
    BY <2>0, <2>1 DEF FilesFit, WorkerFits, Fits
  <2>2. CASE workerPc'[w] \in {"restore", "failed"} /\ db' = db
    BY <2>0, <2>2 DEF WorkerFits
  <2> QED
    BY <2>0, <2>1, <2>2 DEF SnapshotTypes
<1>4. ASSUME NEW v \in Workers \ {w} PROVE WorkerFits(v)'
  BY OthersFit DEF SnapshotIInv, SnapshotTypes
<1>5. (left <= faults)'
  BY DEF SnapshotIInv, SnapshotTypes
<1> QED
  BY <1>1, <1>2, <1>3, <1>4, <1>5 DEF SnapshotIInv

\* The database is whole, and its key mixed if it was built from other addons.
LEMMA BuildIInv == ASSUME SnapshotIInv, NEW w \in Workers, Build(w) PROVE SnapshotIInv'
<1>0. /\ SnapshotTypes /\ workerPc[w] \in {"build", "build unsaved"} /\ key[w] \in Sources
      /\ UNCHANGED <<source, files, tmp, left, key, hit, edits, faults>>
  BY DEF Build, SnapshotIInv, WorkerFits
<1>1. CASE Go(w, "failed") /\ UNCHANGED <<db, mixed>>
  <2>1. SnapshotTypes'
    BY <1>0, <1>1 DEF SnapshotTypes, Go
  <2>2. FilesFit' /\ (left <= faults)' /\ \A v \in Workers : WorkerFits(v)'
    BY <1>0, <1>1 DEF SnapshotIInv, SnapshotTypes, FilesFit, WorkerFits, Fits, Go
  <2> QED
    BY <2>1, <2>2 DEF SnapshotIInv
<1>2. CASE /\ db' = [db EXCEPT ![w] = Image(source, TRUE)]
           /\ mixed' = IF source = key[w] THEN mixed ELSE mixed \cup {key[w]}
           /\ Go(w, IF workerPc[w] = "build" THEN "save" ELSE "ready")
  <2>1. /\ Image(source, TRUE) \in Images
        /\ Image(source, TRUE).whole /\ Image(source, TRUE).of = source
    BY <1>0 DEF Image, Images, SnapshotTypes
  <2>2. /\ mixed \subseteq mixed' /\ mixed' \in SUBSET Sources
        /\ source = key[w] \/ key[w] \in mixed'
    BY <1>0, <1>2 DEF SnapshotTypes
  <2>3. /\ db' \in [Workers -> Images \cup {None}] /\ db'[w] = Image(source, TRUE)
        /\ \A v \in Workers \ {w} : db'[v] = db[v]
    BY <1>0, <1>2, <2>1 DEF SnapshotTypes
  <2>4. SnapshotTypes'
    BY <1>0, <1>2, <2>2, <2>3 DEF SnapshotTypes, Go
  <2>5. FilesFit'
    BY <1>0, <2>2, SameFilesFit
  <2>6. WorkerFits(w)'
    BY <1>0, <1>2, <2>1, <2>2, <2>3 DEF SnapshotIInv, SnapshotTypes, WorkerFits, Fits, Go
  <2>7. ASSUME NEW v \in Workers \ {w} PROVE WorkerFits(v)'
    BY <1>0, <1>2, <2>2, <2>3, OthersFit DEF SnapshotTypes, Go
  <2>8. (left <= faults)'
    BY <1>0 DEF SnapshotIInv
  <2> QED
    BY <2>4, <2>5, <2>6, <2>7, <2>8 DEF SnapshotIInv
<1> QED
  BY <1>1, <1>2 DEF Build

\* The temporary file is begun.
LEMMA StartDumpIInv == ASSUME SnapshotIInv, NEW w \in Workers, StartDump(w) PROVE SnapshotIInv'
<1> USE DEF StartDump, Go
<1>0. Image(db[w].of, FALSE) \in Images
  BY DEF SnapshotIInv, WorkerFits, Fits, Image, Images
<1>1. SnapshotTypes'
  BY <1>0 DEF SnapshotIInv, SnapshotTypes
<1>2. FilesFit'
  BY SameFilesFit
<1>3. WorkerFits(w)'
  BY SnapshotAssumption DEF SnapshotIInv, SnapshotTypes, FilesFit, WorkerFits, Fits, Images, Image
<1>4. ASSUME NEW v \in Workers \ {w} PROVE WorkerFits(v)'
  BY OthersFit DEF SnapshotIInv, SnapshotTypes
<1>5. (left <= faults)'
  BY DEF SnapshotIInv, SnapshotTypes
<1> QED
  BY <1>1, <1>2, <1>3, <1>4, <1>5 DEF SnapshotIInv

\* The temporary file is removed, or left for a fault.
LEMMA DumpFailsIInv == ASSUME SnapshotIInv, NEW w \in Workers, DumpFails(w) PROVE SnapshotIInv'
<1> USE DEF DumpFails, Go
<1>0. /\ tmp' \in [Workers -> Images \cup {None}] /\ tmp'[w] = None
      /\ \A v \in Workers \ {w} : tmp'[v] = tmp[v]
      /\ left' \in Nat /\ faults' \in Nat /\ left' <= faults'
  BY TmpIsLeft DEF Unlink
<1>1. SnapshotTypes'
  BY <1>0 DEF SnapshotIInv, SnapshotTypes
<1>2. FilesFit'
  BY SameFilesFit
<1>3. WorkerFits(w)'
  BY <1>0 DEF SnapshotIInv, SnapshotTypes, WorkerFits, Fits
<1>4. ASSUME NEW v \in Workers \ {w} PROVE WorkerFits(v)'
  BY <1>0, OthersFit DEF SnapshotIInv, SnapshotTypes
<1>5. (left <= faults)'
  BY <1>0
<1> QED
  BY <1>1, <1>2, <1>3, <1>4, <1>5 DEF SnapshotIInv

\* The file is left for a fault.
LEMMA DumpBreaksOffIInv ==
  ASSUME SnapshotIInv, NEW w \in Workers, DumpBreaksOff(w) PROVE SnapshotIInv'
<1> USE DEF DumpBreaksOff, Go
<1>0. /\ tmp' \in [Workers -> Images \cup {None}] /\ tmp'[w] = None
      /\ \A v \in Workers \ {w} : tmp'[v] = tmp[v]
      /\ left' \in Nat /\ faults' \in Nat /\ left' <= faults'
  BY TmpIsLeft DEF Unlink
<1>1. SnapshotTypes'
  BY <1>0 DEF SnapshotIInv, SnapshotTypes
<1>2. FilesFit'
  BY SameFilesFit
<1>3. WorkerFits(w)'
  BY <1>0 DEF SnapshotIInv, SnapshotTypes, WorkerFits, Fits
<1>4. ASSUME NEW v \in Workers \ {w} PROVE WorkerFits(v)'
  BY <1>0, OthersFit DEF SnapshotIInv, SnapshotTypes
<1>5. (left <= faults)'
  BY <1>0
<1> QED
  BY <1>1, <1>2, <1>3, <1>4, <1>5 DEF SnapshotIInv

\* The temporary file is an image of the database.
LEMMA DumpedIInv == ASSUME SnapshotIInv, NEW w \in Workers, Dumped(w) PROVE SnapshotIInv'
<1> USE DEF Dumped, Go
<1>1. SnapshotTypes'
  BY SnapshotAssumption DEF SnapshotIInv, SnapshotTypes, FilesFit, WorkerFits, Fits, Images, Image
<1>2. FilesFit'
  BY SameFilesFit
<1>3. WorkerFits(w)'
  BY SnapshotAssumption DEF SnapshotIInv, SnapshotTypes, FilesFit, WorkerFits, Fits, Images, Image
<1>4. ASSUME NEW v \in Workers \ {w} PROVE WorkerFits(v)'
  BY OthersFit DEF SnapshotIInv, SnapshotTypes
<1>5. (left <= faults)'
  BY DEF SnapshotIInv, SnapshotTypes
<1> QED
  BY <1>1, <1>2, <1>3, <1>4, <1>5 DEF SnapshotIInv

\* A duplicate is removed, or left for a fault.
LEMMA RecheckIInv == ASSUME SnapshotIInv, NEW w \in Workers, Recheck(w) PROVE SnapshotIInv'
<1>0. SnapshotTypes /\ left <= faults /\ WorkerFits(w) /\ workerPc[w] = "recheck"
  BY DEF SnapshotIInv, Recheck
<1>1. UNCHANGED <<source, files, key, db, hit, mixed, edits>> /\ FilesFit'
  BY SameFilesFit DEF Recheck
<1>2. CASE Unlink(w) /\ Go(w, "ready")
  <2>1. /\ tmp' \in [Workers -> Images \cup {None}] /\ tmp'[w] = None
        /\ \A v \in Workers \ {w} : tmp'[v] = tmp[v]
        /\ left' \in Nat /\ faults' \in Nat /\ left' <= faults'
    BY <1>2, TmpIsLeft DEF Unlink
  <2>2. SnapshotTypes'
    BY <1>0, <1>1, <1>2, <2>1 DEF SnapshotTypes, Go
  <2>3. WorkerFits(w)'
    BY <1>0, <1>1, <1>2, <2>1 DEF SnapshotTypes, WorkerFits, Fits, Go
  <2>4. ASSUME NEW v \in Workers \ {w} PROVE WorkerFits(v)'
    BY <1>0, <1>1, <1>2, <2>1, OthersFit DEF SnapshotTypes, Go
  <2> QED
    BY <1>1, <2>1, <2>2, <2>3, <2>4 DEF SnapshotIInv
<1>3. CASE UNCHANGED <<tmp, left, faults>> /\ Go(w, "rename")
  <2>1. SnapshotTypes' /\ (left <= faults)'
    BY <1>0, <1>1, <1>3 DEF SnapshotTypes, Go
  <2>2. WorkerFits(w)'
    BY <1>0, <1>1, <1>3 DEF SnapshotTypes, WorkerFits, Fits, Go
  <2>3. ASSUME NEW v \in Workers \ {w} PROVE WorkerFits(v)'
    BY <1>0, <1>1, <1>3, OthersFit DEF SnapshotTypes, Go
  <2> QED
    BY <1>1, <2>1, <2>2, <2>3 DEF SnapshotIInv
<1> QED
  BY <1>2, <1>3 DEF Recheck

\* What comes into the cache, if the file can be renamed, is an image of the
\* database, which fits its key.
LEMMA RenameIInv == ASSUME SnapshotIInv, NEW w \in Workers, Rename(w) PROVE SnapshotIInv'
<1> USE DEF Rename, Go
<1>0. /\ tmp' \in [Workers -> Images \cup {None}] /\ tmp'[w] = None
      /\ \A v \in Workers \ {w} : tmp'[v] = tmp[v]
      /\ left' \in Nat /\ faults' \in Nat /\ left' <= faults'
  BY TmpIsLeft
<1>1. Fits(tmp[w], key[w]) /\ key[w] \in Sources
  BY DEF SnapshotIInv, WorkerFits
<1>2. files' = [files EXCEPT ![key[w]] = tmp[w]] \/ files' = files
  OBVIOUS
<1>3. SnapshotTypes'
  BY <1>0, <1>1, <1>2 DEF SnapshotIInv, SnapshotTypes, Fits
<1>4. FilesFit'
  BY <1>1, <1>2 DEF SnapshotIInv, SnapshotTypes, FilesFit, Fits
<1>5. WorkerFits(w)'
  BY <1>0 DEF SnapshotIInv, SnapshotTypes, WorkerFits, Fits
<1>6. ASSUME NEW v \in Workers \ {w} PROVE WorkerFits(v)'
  BY <1>0, OthersFit DEF SnapshotIInv, SnapshotTypes
<1> QED
  BY <1>0, <1>3, <1>4, <1>5, <1>6 DEF SnapshotIInv

\* A worker begins anew.
LEMMA StartAgainIInv == ASSUME SnapshotIInv, NEW w \in Workers, StartAgain(w) PROVE SnapshotIInv'
<1> USE DEF StartAgain, Go
<1>1. SnapshotTypes'
  BY SnapshotAssumption DEF SnapshotIInv, SnapshotTypes, FilesFit, WorkerFits, Fits, Images, Image
<1>2. FilesFit'
  BY SameFilesFit
<1>3. WorkerFits(w)'
  BY SnapshotAssumption DEF SnapshotIInv, SnapshotTypes, FilesFit, WorkerFits, Fits, Images, Image
<1>4. ASSUME NEW v \in Workers \ {w} PROVE WorkerFits(v)'
  BY OthersFit DEF SnapshotIInv, SnapshotTypes
<1>5. (left <= faults)'
  BY DEF SnapshotIInv, SnapshotTypes
<1> QED
  BY <1>1, <1>2, <1>3, <1>4, <1>5 DEF SnapshotIInv

\* A worker that is killed leaves its temporary file, if it was writing one.
LEMMA KillIInv == ASSUME SnapshotIInv, NEW w \in Workers, Kill(w) PROVE SnapshotIInv'
<1> USE DEF Kill, Go
<1>0. left' \in Nat /\ faults' \in Nat /\ left' <= faults'
  <2>1. left \in Nat /\ faults \in Nat /\ left <= faults
    BY DEF SnapshotIInv, SnapshotTypes
  <2>2. faults' = faults + 1 /\ (left' = left \/ left' = left + 1)
    OBVIOUS
  <2> QED
    BY <2>1, <2>2
<1>1. SnapshotTypes'
  BY <1>0 DEF SnapshotIInv, SnapshotTypes
<1>2. FilesFit'
  BY SameFilesFit
<1>3. WorkerFits(w)'
  BY SnapshotAssumption DEF SnapshotIInv, SnapshotTypes, FilesFit, WorkerFits, Fits, Images, Image
<1>4. ASSUME NEW v \in Workers \ {w} PROVE WorkerFits(v)'
  BY OthersFit DEF SnapshotIInv, SnapshotTypes
<1>5. (left <= faults)'
  BY <1>0
<1> QED
  BY <1>1, <1>2, <1>3, <1>4, <1>5 DEF SnapshotIInv

\* The invariant is inductive.
LEMMA StepIInv == SnapshotIInv /\ [SnapshotNext]_snapshotVars => SnapshotIInv'
<1> SUFFICES ASSUME SnapshotIInv, [SnapshotNext]_snapshotVars PROVE SnapshotIInv'
  OBVIOUS
<1>1. CASE \E w \in Workers : WorkerStep(w)
  BY <1>1, MakeConfigIInv, CheckSnapshotIInv, RestoreIInv, BuildIInv, StartDumpIInv, DumpFailsIInv,
     DumpBreaksOffIInv, DumpedIInv, RecheckIInv, RenameIInv DEF WorkerStep
<1>2. CASE \E w \in Workers : StartAgain(w) \/ Kill(w)
  BY <1>2, StartAgainIInv, KillIInv
<1>3. CASE \E s \in Sources : EditAddons(s)
  BY <1>3 DEF EditAddons, SnapshotIInv, SnapshotTypes, FilesFit, WorkerFits, Fits
<1>4. CASE UNCHANGED snapshotVars
  BY <1>4 DEF snapshotVars, SnapshotIInv, SnapshotTypes, FilesFit, WorkerFits, Fits
<1> QED
  BY <1>1, <1>2, <1>3, <1>4 DEF SnapshotNext

\* The inductive invariant holds in every reachable state.
THEOREM Invariance == SnapshotSpec => []SnapshotIInv
BY InitIInv, StepIInv, PTL DEF SnapshotSpec

\* No dump that is not whole stands under a key or is restored, wherever workers
\* are killed and dumps fail.
THEOREM OnlyWholeDumps == SnapshotSpec => []DumpsWhole
<1>1. SnapshotIInv => DumpsWhole
  BY DEF SnapshotIInv, FilesFit, WorkerFits, Fits, DumpsWhole
<1> QED
  BY <1>1, Invariance, PTL

\* A database that is ready, restored or built, is the one its key stands for,
\* unless addons were edited during a build of that key.
THEOREM RestoredAsBuilt == SnapshotSpec => []WarmAsCold
<1>1. SnapshotIInv => WarmAsCold
  BY DEF SnapshotIInv, WorkerFits, Fits, WarmAsCold
<1> QED
  BY <1>1, Invariance, PTL

\* A temporary file left for good is the trace of a worker killed, of a pg_dump call
\* that raised, or of an unlink or replace that failed: races between workers leave
\* none.
THEOREM CleanedUp == SnapshotSpec => []NoLitter
<1>1. SnapshotIInv => NoLitter
  BY DEF SnapshotIInv, WorkerFits, NoLitter
<1> QED
  BY <1>1, Invariance, PTL

\* A dump is only ever replaced by one of the same addons: workers that all missed
\* the cache may rename in any order.
THEOREM PublishedForGood == SnapshotSpec => Published
<1>1. ASSUME SnapshotIInv, [SnapshotNext]_snapshotVars
      PROVE  [\A k \in Sources : files[k] # None =>
                files'[k] # None /\ (files'[k].of = files[k].of \/ k \in mixed)]_snapshotVars
  <2>1. CASE \E w \in Workers : Rename(w)
    <3>1. PICK w \in Workers : Rename(w)
      BY <2>1
    <3>2. Fits(tmp[w], key[w]) /\ key[w] \in Sources
      BY <1>1, <3>1 DEF SnapshotIInv, WorkerFits, Rename
    <3>3. tmp[w] # None
      BY <3>2, SnapshotAssumption DEF Fits
    <3> QED
      BY <1>1, <3>1, <3>2, <3>3 DEF Rename, SnapshotIInv, SnapshotTypes, FilesFit, Fits
  <2>2. CASE UNCHANGED files
    BY <2>2
  <2>3. CASE ~\E w \in Workers : Rename(w)
    BY <1>1, <2>2, <2>3 DEF SnapshotNext, WorkerStep, MakeConfig, CheckSnapshot, Restore, Build,
       StartDump, DumpFails, DumpBreaksOff, Dumped, Recheck, StartAgain, Kill, EditAddons,
       snapshotVars
  <2> QED
    BY <2>1, <2>3
<1> QED
  BY <1>1, Invariance, PTL DEF SnapshotSpec, Published
=============================================================================
