--------------------------- MODULE ServicesProofs ---------------------------
(***************************************************************************)
(* Theorems about Updater, VerdictSupervisor, Compression and Estimates,   *)
(* each for any number of what it counts, and about MCServices, which has  *)
(* them side by side.                                                      *)
(***************************************************************************)
EXTENDS MCServices, FiniteSetTheorems, TLAPS

-----------------------------------------------------------------------------
(* The updater, for any number of processes and of releases.  The          *)
(* invariant adds to the types who holds the lock, and what is in the      *)
(* three files at each stage of a run.                                     *)

(* Past the first stage a run holds the lock. *)
HoldsLock(p) == runs[p] # Null /\ runs[p].at # "lock" => lock = p

(* What a run has staged, and the files it works on. *)
StagedWhole(p) ==
    /\ RunAt(p, "fetch") => runs[p].target \in Versions
    /\ RunAt(p, "write") => runs[p].built \in Released
    /\ RunAt(p, "clear") \/ RunAt(p, "back up") \/ RunAt(p, "swap") => staged \in Released

PlaceHeld(p) ==
    /\ RunAt(p, "clear") \/ RunAt(p, "back up") => dest # Null
    /\ RunAt(p, "swap") \/ RunAt(p, "put back") => dest = Null
    /\ RunAt(p, "try installed") \/ RunAt(p, "roll back") \/ RunAt(p, "remove") => previous # Null

PastKept ==
    /\ Installed # Null /\ Installed \in past
    /\ previous \in past \cup {Null}

UpdaterInv ==
    /\ UpdaterTypeOK
    /\ WholeProgramsOnly
    /\ PastKept
    /\ \A p \in Updaters : HoldsLock(p) /\ StagedWhole(p) /\ PlaceHeld(p)

-----------------------------------------------------------------------------
LEMMA ReleaseType == \A v \in Versions : Release(v) \in Released
  BY DEF Release, Released

(* A release, a build of the owner's, and what is not a whole program are  *)
(* told apart.                                                             *)
LEMMA ProgramsAreFiles ==
  /\ Programs \subseteq Files
  /\ Null \notin Programs
  /\ Null \in Files
  /\ Null \notin Released
  /\ Released \subseteq Programs
  /\ Mangled \notin Released /\ Mangled \in Files /\ Partial \in Files
  /\ Partial \notin Released /\ Partial \notin Programs /\ Mangled \notin Programs
  /\ Partial # Mangled
<1>1. /\ Mangled \notin Programs /\ Partial \notin Programs
  BY DEF Mangled, Partial, Programs, Released, OwnBuilds
<1>2. Partial # Mangled
  BY DEF Mangled, Partial
<1> QED BY <1>1, <1>2, UpdaterAssumption DEF Files, Programs, Spoiled

LEMMA InitInv == UpdaterInit => UpdaterInv
<1> SUFFICES ASSUME UpdaterInit PROVE UpdaterInv  OBVIOUS
<1>1. dest \in Programs /\ dest \in Files /\ dest # Null
  <2>1. 1 \in Versions BY UpdaterAssumption DEF Versions
  <2>2. Release(1) \in Programs BY <2>1, ReleaseType DEF Programs
  <2>3. [version |-> 1, bytes |-> "own build"] \in Programs BY <2>1 DEF Programs, OwnBuilds
  <2> QED BY <2>2, <2>3, ProgramsAreFiles DEF UpdaterInit
<1>2. UpdaterTypeOK
  <2>1. latest \in Versions /\ runs \in [Updaters -> Run \cup {Null}]
    <3>1. 1 \in Versions BY UpdaterAssumption DEF Versions
    <3> QED BY <3>1 DEF UpdaterInit
  <2>2. mishaps \subseteq Mishaps /\ past \subseteq Programs /\ running \in Files
    BY <1>1, ProgramsAreFiles DEF UpdaterInit
  <2> QED BY <1>1, <2>1, <2>2, ProgramsAreFiles DEF UpdaterInit, UpdaterTypeOK
<1> QED
  BY <1>1, <1>2 DEF UpdaterInit, UpdaterInv, WholeProgramsOnly, PastKept, Installed, HoldsLock,
     StagedWhole, PlaceHeld, RunAt

-----------------------------------------------------------------------------
(* A run of p past the first stage works alone: every other run waits for  *)
(* the lock.                                                               *)
LEMMA WorksAlone ==
  ASSUME UpdaterInv, NEW p \in Updaters, runs[p] # Null, runs[p].at # "lock"
  PROVE  \A q \in Updaters : q # p => runs[q] = Null \/ runs[q].at = "lock"
  BY DEF UpdaterInv, HoldsLock

(* The invariant of q is kept by a step of another process that leaves the *)
(* files alone, and by any step of another while q waits or does not run.  *)
LEMMA OthersUndisturbed ==
  ASSUME UpdaterInv, NEW q \in Updaters, runs'[q] = runs[q],
         \/ UNCHANGED files /\ (lock = q => lock' = q)
         \/ runs[q] = Null \/ runs[q].at = "lock"
  PROVE  (HoldsLock(q) /\ StagedWhole(q) /\ PlaceHeld(q))'
  BY DEF UpdaterInv, HoldsLock, StagedWhole, PlaceHeld, RunAt, files

(* A process that does not run has nothing to keep.                        *)
LEMMA NothingToKeep ==
  ASSUME NEW q \in Updaters, runs'[q] = Null
  PROVE  (HoldsLock(q) /\ StagedWhole(q) /\ PlaceHeld(q))'
  BY DEF HoldsLock, StagedWhole, PlaceHeld, RunAt

(* The installed program and its history where dest and previous stay.     *)
LEMMA PastStays ==
  ASSUME UpdaterInv, UNCHANGED <<dest, previous>>, past' = past \cup {Installed'}
  PROVE  PastKept' /\ WholeProgramsOnly' /\ past' = past
  BY DEF UpdaterInv, PastKept, Installed, WholeProgramsOnly

(* A step of p keeps the whole invariant when it keeps the types, what is  *)
(* installed, and p's own part of it.                                      *)
LEMMA StepOf ==
  ASSUME UpdaterInv, NEW p \in Updaters,
         \A q \in Updaters \ {p} : runs'[q] = runs[q],
         \/ UNCHANGED files /\ \A q \in Updaters \ {p} : lock = q => lock' = q
         \/ runs[p] # Null /\ runs[p].at # "lock",
         UpdaterTypeOK', WholeProgramsOnly', PastKept',
         (HoldsLock(p) /\ StagedWhole(p) /\ PlaceHeld(p))'
  PROVE  UpdaterInv'
<1>1. ASSUME NEW q \in Updaters, q # p
      PROVE  (HoldsLock(q) /\ StagedWhole(q) /\ PlaceHeld(q))'
  <2>1. CASE UNCHANGED files /\ \A r \in Updaters \ {p} : lock = r => lock' = r
    BY <1>1, <2>1, OthersUndisturbed
  <2>2. CASE runs[p] # Null /\ runs[p].at # "lock"
    BY <1>1, <2>2, OthersUndisturbed, WorksAlone
  <2> QED BY <2>1, <2>2
<1> QED BY <1>1 DEF UpdaterInv

-----------------------------------------------------------------------------
(* What a step of p does to its run.                                       *)
Runs == [Updaters -> Run \cup {Null}]

LEMMA Moved ==
  ASSUME runs \in Runs, NEW p \in Updaters, NEW from, RunAt(p, from),
         NEW stage \in Stages, Goes(p, stage)
  PROVE  /\ runs' \in Runs /\ \A q \in Updaters \ {p} : runs'[q] = runs[q]
         /\ runs'[p] # Null /\ runs'[p].at = stage /\ runs'[p].built = runs[p].built
         /\ runs'[p].target = runs[p].target /\ runs'[p].backed = runs[p].backed
<1>1. runs[p] \in Run
  BY DEF Runs, RunAt
<1>2. [runs[p] EXCEPT !.at = stage] \in Run
  BY <1>1 DEF Run
<1> QED BY <1>1, <1>2, UpdaterAssumption DEF Runs, Goes, Run

LEMMA Ended ==
  ASSUME runs \in Runs, lock \in Updaters \cup {Null}, NEW p \in Updaters, Ends(p)
  PROVE  /\ runs' \in Runs /\ \A q \in Updaters \ {p} : runs'[q] = runs[q] /\ (lock = q => lock' = q)
         /\ runs'[p] = Null /\ lock' \in Updaters \cup {Null}
  BY DEF Runs, Ends

-----------------------------------------------------------------------------
(* Steps that leave the program and its backup where they are.             *)

LEMMA KeepsStart ==
  ASSUME UpdaterInv, NEW p \in Updaters, NEW options \in SUBSET {"force", "dry run"}, Start(p, options), past' = past \cup {Installed'}
  PROVE  UpdaterInv'
<1>1. PastKept' /\ WholeProgramsOnly' /\ past' = past
  BY PastStays DEF Start, files
<1>2. runs \in Runs /\ lock \in Updaters \cup {Null} /\ latest \in Versions
  BY DEF UpdaterInv, UpdaterTypeOK, Runs
<1> DEFINE r == [at |-> "lock", own |-> dest.version, options |-> options,
                 target |-> Null, built |-> Null, backed |-> FALSE]
<1>0. r \in Run /\ r.at = "lock" /\ runs' = [runs EXCEPT ![p] = r]
  <2>1. dest.version \in Versions
    BY DEF Start, Programs, Released, OwnBuilds
  <2>2. r \in Run
    BY <2>1 DEF Run, Stages
  <2> QED BY <2>2 DEF Start
<1> HIDE DEF r
<1>3. /\ runs' \in Runs /\ \A q \in Updaters \ {p} : runs'[q] = runs[q]
      /\ lock' \in Updaters \cup {Null}
      /\ UNCHANGED files => \A q \in Updaters \ {p} : lock = q => lock' = q
  <2>1. CASE Ends(p)
    BY <1>2, <2>1, Ended
  <2>2. CASE ~(Ends(p))
    BY <1>2, <1>0, <2>2 DEF Start, Runs
  <2> QED BY <2>1, <2>2
<1>4. UpdaterTypeOK'
  BY <1>1, <1>3, ProgramsAreFiles, UpdaterAssumption DEF Start, UpdaterInv, UpdaterTypeOK, Runs, files
<1>5. (HoldsLock(p) /\ StagedWhole(p) /\ PlaceHeld(p))'
  <2>1. CASE Ends(p)
    BY <1>2, <2>1, Ended, NothingToKeep
  <2>2. CASE ~(Ends(p))
    BY <1>1, <1>2, <1>0, <2>2 DEF Start, UpdaterInv, HoldsLock, StagedWhole, PlaceHeld, RunAt, Runs
  <2> QED BY <2>1, <2>2
<1> QED BY <1>1, <1>3, <1>4, <1>5, StepOf DEF Start, RunAt, files

LEMMA KeepsAcquireLock ==
  ASSUME UpdaterInv, NEW p \in Updaters, AcquireLock(p), past' = past \cup {Installed'}
  PROVE  UpdaterInv'
<1>1. PastKept' /\ WholeProgramsOnly' /\ past' = past
  BY PastStays DEF AcquireLock, files
<1>2. runs \in Runs /\ lock \in Updaters \cup {Null}
  BY DEF UpdaterInv, UpdaterTypeOK, Runs
<1>3. /\ runs' \in Runs /\ \A q \in Updaters \ {p} : runs'[q] = runs[q]
      /\ lock' \in Updaters \cup {Null}
      /\ UNCHANGED files => \A q \in Updaters \ {p} : lock = q => lock' = q
  <2>1. CASE LockIsFree(p)
    BY <1>2, <2>1, Moved, UpdaterAssumption DEF AcquireLock, LockIsFree, Stages
  <2>2. CASE ~LockIsFree(p)
    BY <1>2, <2>2, Ended DEF AcquireLock
  <2> QED BY <2>1, <2>2
<1>4. UpdaterTypeOK'
  BY <1>1, <1>3, ProgramsAreFiles DEF AcquireLock, LockIsFree, UpdaterInv, UpdaterTypeOK, Runs, files, Mishaps
<1>5. (HoldsLock(p) /\ StagedWhole(p) /\ PlaceHeld(p))'
  BY <1>1, <1>2, Moved, Ended, NothingToKeep, ProgramsAreFiles DEF AcquireLock, LockIsFree, Stages, UpdaterInv, HoldsLock, StagedWhole, PlaceHeld, RunAt, files, PastKept, Installed
<1> QED BY <1>1, <1>3, <1>4, <1>5, StepOf DEF AcquireLock, LockIsFree, RunAt

LEMMA KeepsFetchManifest ==
  ASSUME UpdaterInv, NEW p \in Updaters, FetchManifest(p), past' = past \cup {Installed'}
  PROVE  UpdaterInv'
<1>1. PastKept' /\ WholeProgramsOnly' /\ past' = past
  BY PastStays DEF FetchManifest, files
<1>2. runs \in Runs /\ lock \in Updaters \cup {Null} /\ latest \in Versions
  BY DEF UpdaterInv, UpdaterTypeOK, Runs
<1> DEFINE r == [runs[p] EXCEPT !.at = "fetch", !.target = latest]
<1>0. r \in Run /\ r.at = "fetch" /\ r.target = latest
      /\ (~Ends(p) => runs' = [runs EXCEPT ![p] = r] /\ lock' = lock)
  <2>1. runs[p] \in Run /\ "fetch" \in Stages
    BY <1>2 DEF FetchManifest, RunAt, Runs, Stages
  <2>2. r \in Run /\ r.at = "fetch" /\ r.target = latest
    BY <1>2, <2>1 DEF Run
  <2> QED BY <2>2 DEF FetchManifest
<1> HIDE DEF r
<1>3. /\ runs' \in Runs /\ \A q \in Updaters \ {p} : runs'[q] = runs[q]
      /\ lock' \in Updaters \cup {Null}
      /\ UNCHANGED files => \A q \in Updaters \ {p} : lock = q => lock' = q
  <2>1. CASE Ends(p)
    BY <1>2, <2>1, Ended
  <2>2. CASE ~(Ends(p))
    BY <1>2, <1>0, <2>2 DEF FetchManifest, Runs
  <2> QED BY <2>1, <2>2
<1>4. UpdaterTypeOK'
  BY <1>1, <1>3, ProgramsAreFiles, UpdaterAssumption DEF FetchManifest, UpdaterInv, UpdaterTypeOK, Runs, files
<1>5. (HoldsLock(p) /\ StagedWhole(p) /\ PlaceHeld(p))'
  <2>1. CASE Ends(p)
    BY <1>2, <2>1, Ended, NothingToKeep
  <2>2. CASE ~(Ends(p))
    BY <1>1, <1>2, <1>0, <2>2 DEF FetchManifest, UpdaterInv, HoldsLock, StagedWhole, PlaceHeld, RunAt, Runs
  <2> QED BY <2>1, <2>2
<1> QED BY <1>1, <1>3, <1>4, <1>5, StepOf DEF FetchManifest, RunAt, files

LEMMA KeepsFetchAsset ==
  ASSUME UpdaterInv, NEW p \in Updaters, FetchAsset(p), past' = past \cup {Installed'}
  PROVE  UpdaterInv'
<1>1. PastKept' /\ WholeProgramsOnly' /\ past' = past
  BY PastStays DEF FetchAsset, files
<1>2. runs \in Runs /\ lock \in Updaters \cup {Null} /\ latest \in Versions
  BY DEF UpdaterInv, UpdaterTypeOK, Runs
<1> DEFINE r == [runs[p] EXCEPT !.at = "write", !.built = Release(runs[p].target)]
<1>0. r \in Run /\ r.at = "write" /\ r.built \in Released
      /\ (~Ends(p) => runs' = [runs EXCEPT ![p] = r] /\ lock' = lock)
  <2>1. runs[p] \in Run /\ "write" \in Stages
    BY <1>2 DEF FetchAsset, RunAt, Runs, Stages
  <2>2. Release(runs[p].target) \in Released
    BY ReleaseType DEF FetchAsset, UpdaterInv, StagedWhole
  <2>3. r \in Run /\ r.at = "write" /\ r.built \in Released
    BY <2>1, <2>2 DEF Run
  <2> QED BY <2>3 DEF FetchAsset, HashFits
<1> HIDE DEF r
<1>3. /\ runs' \in Runs /\ \A q \in Updaters \ {p} : runs'[q] = runs[q]
      /\ lock' \in Updaters \cup {Null}
      /\ UNCHANGED files => \A q \in Updaters \ {p} : lock = q => lock' = q
  <2>1. CASE Ends(p)
    BY <1>2, <2>1, Ended
  <2>2. CASE ~(Ends(p))
    BY <1>2, <1>0, <2>2 DEF FetchAsset, HashFits, Runs
  <2> QED BY <2>1, <2>2
<1>4. UpdaterTypeOK'
  BY <1>1, <1>3, ProgramsAreFiles, UpdaterAssumption DEF FetchAsset, HashFits, UpdaterInv, UpdaterTypeOK, Runs, files
<1>5. (HoldsLock(p) /\ StagedWhole(p) /\ PlaceHeld(p))'
  <2>1. CASE Ends(p)
    BY <1>2, <2>1, Ended, NothingToKeep
  <2>2. CASE ~(Ends(p))
    BY <1>1, <1>2, <1>0, <2>2 DEF FetchAsset, HashFits, UpdaterInv, HoldsLock, StagedWhole, PlaceHeld, RunAt, Runs
  <2> QED BY <2>1, <2>2
<1> QED BY <1>1, <1>3, <1>4, <1>5, StepOf DEF FetchAsset, HashFits, RunAt, files

LEMMA KeepsWriteStaged ==
  ASSUME UpdaterInv, NEW p \in Updaters, WriteStaged(p), past' = past \cup {Installed'}
  PROVE  UpdaterInv'
<1>1. PastKept' /\ WholeProgramsOnly' /\ past' = past
  BY PastStays DEF WriteStaged
<1>2. runs \in Runs /\ lock \in Updaters \cup {Null} /\ staged' \in Released
  BY DEF UpdaterInv, UpdaterTypeOK, Runs, WriteStaged, StagedWhole
<1>3. /\ runs' \in Runs /\ \A q \in Updaters \ {p} : runs'[q] = runs[q]
      /\ lock' \in Updaters \cup {Null}
  BY <1>2, Moved, Ended DEF WriteStaged, Stages
<1>4. UpdaterTypeOK'
  BY <1>1, <1>2, <1>3 DEF WriteStaged, UpdaterInv, UpdaterTypeOK, Runs
<1>5. (HoldsLock(p) /\ StagedWhole(p) /\ PlaceHeld(p))'
  BY <1>2, Moved, Ended, NothingToKeep DEF WriteStaged, Stages, UpdaterInv, HoldsLock, StagedWhole, PlaceHeld, RunAt
<1> QED BY <1>1, <1>3, <1>4, <1>5, StepOf DEF WriteStaged, RunAt

LEMMA KeepsFails ==
  ASSUME UpdaterInv, NEW p \in Updaters, Fails(p), past' = past \cup {Installed'}
  PROVE  UpdaterInv'
<1>1. PastKept' /\ WholeProgramsOnly' /\ past' = past
  BY PastStays DEF Fails, files
<1>2. runs \in Runs /\ lock \in Updaters \cup {Null}
  BY DEF UpdaterInv, UpdaterTypeOK, Runs
<1>3. /\ runs' \in Runs /\ \A q \in Updaters \ {p} : runs'[q] = runs[q]
      /\ lock' \in Updaters \cup {Null}
      /\ UNCHANGED files => \A q \in Updaters \ {p} : lock = q => lock' = q
  BY <1>2, Moved, Ended, UpdaterAssumption DEF Fails, Stages, UpdaterInv, HoldsLock
<1>4. UpdaterTypeOK'
  BY <1>1, <1>3, ProgramsAreFiles DEF Fails, UpdaterInv, UpdaterTypeOK, Runs, files, Mishaps
<1>5. (HoldsLock(p) /\ StagedWhole(p) /\ PlaceHeld(p))'
  BY <1>1, <1>2, Moved, Ended, NothingToKeep, ProgramsAreFiles DEF Fails, Stages, UpdaterInv, HoldsLock, StagedWhole, PlaceHeld, RunAt, files, PastKept, Installed
<1> QED BY <1>1, <1>3, <1>4, <1>5, StepOf DEF Fails, RunAt

LEMMA KeepsTryStaged ==
  ASSUME UpdaterInv, NEW p \in Updaters, TryStaged(p), past' = past \cup {Installed'}
  PROVE  UpdaterInv'
<1>1. PastKept' /\ WholeProgramsOnly' /\ past' = past
  BY PastStays DEF TryStaged, files
<1>2. runs \in Runs /\ lock \in Updaters \cup {Null}
  BY DEF UpdaterInv, UpdaterTypeOK, Runs
<1> DEFINE stage == IF dest # Null THEN "clear" ELSE "swap"
           r == [runs[p] EXCEPT !.at = stage, !.backed = dest # Null]
<1>0. r \in Run /\ r.at = stage /\ runs' = [runs EXCEPT ![p] = r]
  <2>1. runs[p] \in Run /\ stage \in Stages /\ (dest # Null) \in BOOLEAN
    BY <1>2 DEF TryStaged, RunAt, Runs, Stages
  <2>2. r \in Run /\ r.at = stage
    BY <2>1 DEF Run
  <2>3. runs' = [runs EXCEPT ![p] = r]
    BY DEF TryStaged
  <2> QED BY <2>2, <2>3
<1> HIDE DEF r
<1>3. /\ runs' \in Runs /\ \A q \in Updaters \ {p} : runs'[q] = runs[q]
      /\ lock' \in Updaters \cup {Null}
      /\ UNCHANGED files => \A q \in Updaters \ {p} : lock = q => lock' = q
  BY <1>2, <1>0 DEF TryStaged, Runs, RunAt
<1>4. UpdaterTypeOK'
  BY <1>1, <1>3, ProgramsAreFiles DEF TryStaged, MayRunStaged, UpdaterInv, UpdaterTypeOK, Runs, files, Mishaps
<1>5. (HoldsLock(p) /\ StagedWhole(p) /\ PlaceHeld(p))'
  <2>1. runs'[p].at = stage /\ UNCHANGED <<files, lock>>
    BY <1>2, <1>0 DEF TryStaged, Runs
  <2>2. staged \in Released
    BY ProgramsAreFiles, UpdaterAssumption DEF TryStaged, MayRunStaged, UpdaterInv, UpdaterTypeOK, Spoiled
  <2>3. lock = p
    BY DEF TryStaged, RunAt, UpdaterInv, HoldsLock
  <2> QED BY <2>1, <2>2, <2>3 DEF HoldsLock, StagedWhole, PlaceHeld, RunAt, files
<1> QED BY <1>1, <1>3, <1>4, <1>5, StepOf DEF TryStaged, MayRunStaged, RunAt

LEMMA KeepsTryInstalled ==
  ASSUME UpdaterInv, NEW p \in Updaters, TryInstalled(p), past' = past \cup {Installed'}
  PROVE  UpdaterInv'
<1>1. PastKept' /\ WholeProgramsOnly' /\ past' = past
  BY PastStays DEF TryInstalled, files
<1>2. runs \in Runs /\ lock \in Updaters \cup {Null}
  BY DEF UpdaterInv, UpdaterTypeOK, Runs
<1>3. /\ runs' \in Runs /\ \A q \in Updaters \ {p} : runs'[q] = runs[q]
      /\ lock' \in Updaters \cup {Null}
      /\ UNCHANGED files => \A q \in Updaters \ {p} : lock = q => lock' = q
  BY <1>2, Moved, Ended, UpdaterAssumption DEF TryInstalled, AfterFailedTrial, Stages, UpdaterInv, HoldsLock
<1>4. UpdaterTypeOK'
  BY <1>1, <1>3, ProgramsAreFiles DEF TryInstalled, AfterFailedTrial, UpdaterInv, UpdaterTypeOK, Runs, files, Mishaps
<1>5. (HoldsLock(p) /\ StagedWhole(p) /\ PlaceHeld(p))'
  BY <1>1, <1>2, Moved, Ended, NothingToKeep, ProgramsAreFiles DEF TryInstalled, AfterFailedTrial, Stages, UpdaterInv, HoldsLock, StagedWhole, PlaceHeld, RunAt, files, PastKept, Installed
<1> QED BY <1>1, <1>3, <1>4, <1>5, StepOf DEF TryInstalled, AfterFailedTrial, RunAt

LEMMA KeepsRenameFails ==
  ASSUME UpdaterInv, NEW p \in Updaters, RenameFails(p), past' = past \cup {Installed'}
  PROVE  UpdaterInv'
<1>1. PastKept' /\ WholeProgramsOnly' /\ past' = past
  BY PastStays DEF RenameFails, files
<1>2. runs \in Runs /\ lock \in Updaters \cup {Null}
  BY DEF UpdaterInv, UpdaterTypeOK, Runs
<1>3. /\ runs' \in Runs /\ \A q \in Updaters \ {p} : runs'[q] = runs[q]
      /\ lock' \in Updaters \cup {Null}
      /\ UNCHANGED files => \A q \in Updaters \ {p} : lock = q => lock' = q
  BY <1>2, Moved, Ended, UpdaterAssumption DEF RenameFails, Stages, UpdaterInv, HoldsLock
<1>4. UpdaterTypeOK'
  BY <1>1, <1>3, ProgramsAreFiles DEF RenameFails, UpdaterInv, UpdaterTypeOK, Runs, files, Mishaps
<1>5. (HoldsLock(p) /\ StagedWhole(p) /\ PlaceHeld(p))'
  BY <1>1, <1>2, Moved, Ended, NothingToKeep, ProgramsAreFiles DEF RenameFails, Stages, UpdaterInv, HoldsLock, StagedWhole, PlaceHeld, RunAt, files, PastKept, Installed
<1> QED BY <1>1, <1>3, <1>4, <1>5, StepOf DEF RenameFails, RunAt

LEMMA KeepsKilled ==
  ASSUME UpdaterInv, NEW p \in Updaters, Killed(p), past' = past \cup {Installed'}
  PROVE  UpdaterInv'
<1>1. PastKept' /\ WholeProgramsOnly' /\ past' = past
  BY PastStays DEF Killed, files
<1>2. runs \in Runs /\ lock \in Updaters \cup {Null}
  BY DEF UpdaterInv, UpdaterTypeOK, Runs
<1>3. /\ runs' \in Runs /\ \A q \in Updaters \ {p} : runs'[q] = runs[q]
      /\ lock' \in Updaters \cup {Null}
      /\ UNCHANGED files => \A q \in Updaters \ {p} : lock = q => lock' = q
  BY <1>2, Moved, Ended, UpdaterAssumption DEF Killed, Stages, UpdaterInv, HoldsLock
<1>4. UpdaterTypeOK'
  BY <1>1, <1>3, ProgramsAreFiles DEF Killed, UpdaterInv, UpdaterTypeOK, Runs, files, Mishaps
<1>5. (HoldsLock(p) /\ StagedWhole(p) /\ PlaceHeld(p))'
  BY <1>1, <1>2, Moved, Ended, NothingToKeep, ProgramsAreFiles DEF Killed, Stages, UpdaterInv, HoldsLock, StagedWhole, PlaceHeld, RunAt, files, PastKept, Installed
<1> QED BY <1>1, <1>3, <1>4, <1>5, StepOf DEF Killed, RunAt

LEMMA KeepsRestartDaemon ==
  ASSUME UpdaterInv, NEW p \in Updaters, RestartDaemon(p), past' = past \cup {Installed'}
  PROVE  UpdaterInv'
<1>1. PastKept' /\ WholeProgramsOnly' /\ past' = past
  BY PastStays DEF RestartDaemon, files
<1>2. runs \in Runs /\ lock \in Updaters \cup {Null}
  BY DEF UpdaterInv, UpdaterTypeOK, Runs
<1>3. /\ runs' \in Runs /\ \A q \in Updaters \ {p} : runs'[q] = runs[q]
      /\ lock' \in Updaters \cup {Null}
      /\ UNCHANGED files => \A q \in Updaters \ {p} : lock = q => lock' = q
  BY <1>2, Moved, Ended, UpdaterAssumption DEF RestartDaemon, Restarted, Stages, UpdaterInv, HoldsLock
<1>4. UpdaterTypeOK'
  BY <1>1, <1>3, ProgramsAreFiles DEF RestartDaemon, Restarted, UpdaterInv, UpdaterTypeOK, Runs, files, Mishaps
<1>5. (HoldsLock(p) /\ StagedWhole(p) /\ PlaceHeld(p))'
  BY <1>1, <1>2, Moved, Ended, NothingToKeep, ProgramsAreFiles DEF RestartDaemon, Restarted, Stages, UpdaterInv, HoldsLock, StagedWhole, PlaceHeld, RunAt, files, PastKept, Installed
<1> QED BY <1>1, <1>3, <1>4, <1>5, StepOf DEF RestartDaemon, Restarted, RunAt

-----------------------------------------------------------------------------
(* Steps that move them.                                                   *)

LEMMA KeepsClearBackup ==
  ASSUME UpdaterInv, NEW p \in Updaters, ClearBackup(p), past' = past \cup {Installed'}
  PROVE  UpdaterInv'
<1>1. PastKept' /\ WholeProgramsOnly' /\ past' \subseteq Programs
  BY ProgramsAreFiles DEF ClearBackup, UpdaterInv, UpdaterTypeOK, PastKept, Installed, WholeProgramsOnly, PlaceHeld, StagedWhole, RunAt
<1>2. runs \in Runs /\ lock \in Updaters \cup {Null}
  BY DEF UpdaterInv, UpdaterTypeOK, Runs
<1>3. /\ runs' \in Runs /\ \A q \in Updaters \ {p} : runs'[q] = runs[q]
      /\ lock' \in Updaters \cup {Null}
      /\ UNCHANGED files => \A q \in Updaters \ {p} : lock = q => lock' = q
  BY <1>2, Moved, Ended, UpdaterAssumption DEF ClearBackup, Stages, UpdaterInv, HoldsLock
<1>4. UpdaterTypeOK'
  BY <1>1, <1>3, ProgramsAreFiles DEF ClearBackup, UpdaterInv, UpdaterTypeOK, Runs, files, Mishaps
<1>5. (HoldsLock(p) /\ StagedWhole(p) /\ PlaceHeld(p))'
  BY <1>1, <1>2, Moved, Ended, NothingToKeep, ProgramsAreFiles DEF ClearBackup, Stages, UpdaterInv, HoldsLock, StagedWhole, PlaceHeld, RunAt, files, PastKept, Installed
<1> QED BY <1>1, <1>3, <1>4, <1>5, StepOf DEF ClearBackup, RunAt

LEMMA KeepsBackUp ==
  ASSUME UpdaterInv, NEW p \in Updaters, BackUp(p), past' = past \cup {Installed'}
  PROVE  UpdaterInv'
<1>1. PastKept' /\ WholeProgramsOnly' /\ past' \subseteq Programs
  BY ProgramsAreFiles DEF BackUp, UpdaterInv, UpdaterTypeOK, PastKept, Installed, WholeProgramsOnly, PlaceHeld, StagedWhole, RunAt
<1>2. runs \in Runs /\ lock \in Updaters \cup {Null}
  BY DEF UpdaterInv, UpdaterTypeOK, Runs
<1>3. /\ runs' \in Runs /\ \A q \in Updaters \ {p} : runs'[q] = runs[q]
      /\ lock' \in Updaters \cup {Null}
      /\ UNCHANGED files => \A q \in Updaters \ {p} : lock = q => lock' = q
  BY <1>2, Moved, Ended, UpdaterAssumption DEF BackUp, Stages, UpdaterInv, HoldsLock
<1>4. UpdaterTypeOK'
  BY <1>1, <1>3, ProgramsAreFiles DEF BackUp, UpdaterInv, UpdaterTypeOK, Runs, files, Mishaps
<1>5. (HoldsLock(p) /\ StagedWhole(p) /\ PlaceHeld(p))'
  BY <1>1, <1>2, Moved, Ended, NothingToKeep, ProgramsAreFiles DEF BackUp, Stages, UpdaterInv, HoldsLock, StagedWhole, PlaceHeld, RunAt, files, PastKept, Installed
<1> QED BY <1>1, <1>3, <1>4, <1>5, StepOf DEF BackUp, RunAt

LEMMA KeepsSwap ==
  ASSUME UpdaterInv, NEW p \in Updaters, Swap(p), past' = past \cup {Installed'}
  PROVE  UpdaterInv'
<1>1. PastKept' /\ WholeProgramsOnly' /\ past' \subseteq Programs
  BY ProgramsAreFiles DEF Swap, UpdaterInv, UpdaterTypeOK, PastKept, Installed, WholeProgramsOnly, PlaceHeld, StagedWhole, RunAt
<1>2. runs \in Runs /\ lock \in Updaters \cup {Null}
  BY DEF UpdaterInv, UpdaterTypeOK, Runs
<1>3. /\ runs' \in Runs /\ \A q \in Updaters \ {p} : runs'[q] = runs[q]
      /\ lock' \in Updaters \cup {Null}
      /\ UNCHANGED files => \A q \in Updaters \ {p} : lock = q => lock' = q
  BY <1>2, Moved, Ended, UpdaterAssumption DEF Swap, Stages, UpdaterInv, HoldsLock
<1>4. UpdaterTypeOK'
  BY <1>1, <1>3, ProgramsAreFiles DEF Swap, UpdaterInv, UpdaterTypeOK, Runs, files, Mishaps
<1>5. (HoldsLock(p) /\ StagedWhole(p) /\ PlaceHeld(p))'
  BY <1>1, <1>2, Moved, Ended, NothingToKeep, ProgramsAreFiles DEF Swap, Stages, UpdaterInv, HoldsLock, StagedWhole, PlaceHeld, RunAt, files, PastKept, Installed
<1> QED BY <1>1, <1>3, <1>4, <1>5, StepOf DEF Swap, RunAt

LEMMA KeepsPutBack ==
  ASSUME UpdaterInv, NEW p \in Updaters, PutBack(p), past' = past \cup {Installed'}
  PROVE  UpdaterInv'
<1>1. PastKept' /\ WholeProgramsOnly' /\ past' \subseteq Programs
  BY ProgramsAreFiles DEF PutBack, UpdaterInv, UpdaterTypeOK, PastKept, Installed, WholeProgramsOnly, PlaceHeld, StagedWhole, RunAt
<1>2. runs \in Runs /\ lock \in Updaters \cup {Null}
  BY DEF UpdaterInv, UpdaterTypeOK, Runs
<1>3. /\ runs' \in Runs /\ \A q \in Updaters \ {p} : runs'[q] = runs[q]
      /\ lock' \in Updaters \cup {Null}
      /\ UNCHANGED files => \A q \in Updaters \ {p} : lock = q => lock' = q
  BY <1>2, Moved, Ended, UpdaterAssumption DEF PutBack, Stages, UpdaterInv, HoldsLock
<1>4. UpdaterTypeOK'
  BY <1>1, <1>3, ProgramsAreFiles DEF PutBack, UpdaterInv, UpdaterTypeOK, Runs, files, Mishaps
<1>5. (HoldsLock(p) /\ StagedWhole(p) /\ PlaceHeld(p))'
  BY <1>1, <1>2, Moved, Ended, NothingToKeep, ProgramsAreFiles DEF PutBack, Stages, UpdaterInv, HoldsLock, StagedWhole, PlaceHeld, RunAt, files, PastKept, Installed
<1> QED BY <1>1, <1>3, <1>4, <1>5, StepOf DEF PutBack, RunAt

LEMMA KeepsRemove ==
  ASSUME UpdaterInv, NEW p \in Updaters, Remove(p), past' = past \cup {Installed'}
  PROVE  UpdaterInv'
<1>1. PastKept' /\ WholeProgramsOnly' /\ past' \subseteq Programs
  BY ProgramsAreFiles DEF Remove, UpdaterInv, UpdaterTypeOK, PastKept, Installed, WholeProgramsOnly, PlaceHeld, StagedWhole, RunAt
<1>2. runs \in Runs /\ lock \in Updaters \cup {Null}
  BY DEF UpdaterInv, UpdaterTypeOK, Runs
<1>3. /\ runs' \in Runs /\ \A q \in Updaters \ {p} : runs'[q] = runs[q]
      /\ lock' \in Updaters \cup {Null}
      /\ UNCHANGED files => \A q \in Updaters \ {p} : lock = q => lock' = q
  BY <1>2, Moved, Ended, UpdaterAssumption DEF Remove, Stages, UpdaterInv, HoldsLock
<1>4. UpdaterTypeOK'
  BY <1>1, <1>3, ProgramsAreFiles DEF Remove, UpdaterInv, UpdaterTypeOK, Runs, files, Mishaps
<1>5. (HoldsLock(p) /\ StagedWhole(p) /\ PlaceHeld(p))'
  BY <1>1, <1>2, Moved, Ended, NothingToKeep, ProgramsAreFiles DEF Remove, Stages, UpdaterInv, HoldsLock, StagedWhole, PlaceHeld, RunAt, files, PastKept, Installed
<1> QED BY <1>1, <1>3, <1>4, <1>5, StepOf DEF Remove, RunAt


-----------------------------------------------------------------------------
LEMMA NextInv == UpdaterInv /\ [UpdaterNext]_updaterVars => UpdaterInv'
<1> SUFFICES ASSUME UpdaterInv, [UpdaterNext]_updaterVars PROVE UpdaterInv'
  OBVIOUS
<1>1. ASSUME NEW p \in Updaters, RunStep(p), past' = past \cup {Installed'} PROVE UpdaterInv'
  BY <1>1, KeepsAcquireLock, KeepsFetchManifest, KeepsFetchAsset, KeepsWriteStaged, KeepsFails,
     KeepsTryStaged, KeepsClearBackup, KeepsBackUp, KeepsSwap, KeepsRenameFails, KeepsPutBack,
     KeepsTryInstalled, KeepsRemove, KeepsRestartDaemon DEF RunStep
<1>2. ASSUME NEW p \in Updaters, Killed(p), past' = past \cup {Installed'} PROVE UpdaterInv'
  BY <1>2, KeepsKilled
<1>3. ASSUME NEW p \in Updaters, NEW o \in SUBSET {"force", "dry run"}, Start(p, o),
             past' = past \cup {Installed'} PROVE UpdaterInv'
  BY <1>3, KeepsStart
<1>4. ASSUME Publish \/ DaemonTurns, past' = past \cup {Installed'} PROVE UpdaterInv'
  <2>1. UNCHANGED <<files, lock, runs>>
    BY <1>4 DEF Publish, DaemonTurns
  <2>2. PastKept' /\ WholeProgramsOnly' /\ past' = past
    BY <1>4, <2>1, PastStays DEF files
  <2>3. latest' \in Versions /\ running' \in Files /\ mishaps' \subseteq Mishaps
    <3>1. CASE Publish
      BY <3>1, UpdaterAssumption DEF Publish, UpdaterInv, UpdaterTypeOK, Versions
    <3>2. CASE DaemonTurns
      BY <3>2, ProgramsAreFiles DEF DaemonTurns, UpdaterInv, UpdaterTypeOK, Mishaps
    <3> QED BY <1>4, <3>1, <3>2
  <2>4. UpdaterTypeOK'
    BY <2>1, <2>2, <2>3 DEF UpdaterInv, UpdaterTypeOK, files
  <2>5. \A p \in Updaters : (HoldsLock(p) /\ StagedWhole(p) /\ PlaceHeld(p))'
    BY <2>1, OthersUndisturbed
  <2> QED BY <2>2, <2>4, <2>5 DEF UpdaterInv
<1>5. ASSUME UNCHANGED updaterVars PROVE UpdaterInv'
  BY <1>5 DEF UpdaterInv, updaterVars, files, UpdaterTypeOK, WholeProgramsOnly, PastKept, Installed, HoldsLock,
     StagedWhole, PlaceHeld, RunAt
<1> QED BY <1>1, <1>2, <1>3, <1>4, <1>5 DEF UpdaterNext

(* Types, and with them that only a whole release is ever staged.          *)
THEOREM UpdaterIsTyped == UpdaterSpec => []UpdaterTypeOK
<1>1. UpdaterInv => UpdaterTypeOK  BY DEF UpdaterInv
<1> QED BY <1>1, InitInv, NextInv, PTL DEF UpdaterSpec

(* Whatever the interleaving of any number of updates, and wherever they   *)
(* are killed, the installed program and the backup are whole programs.    *)
THEOREM ProgramsStayWhole == UpdaterSpec => []WholeProgramsOnly
<1>1. UpdaterInv => WholeProgramsOnly  BY DEF UpdaterInv
<1> QED BY <1>1, InitInv, NextInv, PTL DEF UpdaterSpec

(* swap_with_rollback implements the replacement of a program in one step: *)
(* the installed one, or the backup while its place is empty, changes only *)
(* to a release or to a program that was installed before.                 *)
THEOREM SwapImplementsSlot == UpdaterSpec => ImplementsSlot
<1>1. UpdaterInit => Slot!Init
  <2> SUFFICES ASSUME UpdaterInit PROVE Slot!Init
    OBVIOUS
  <2>1. dest \in Programs /\ dest # Null
    BY InitInv, UpdaterAssumption DEF UpdaterInv, UpdaterInit, WholeProgramsOnly, PastKept, Installed
  <2> QED BY <2>1 DEF UpdaterInit, Slot!Init, Installed, Programs
<1>2. UpdaterInv /\ [UpdaterNext]_updaterVars => [Slot!Next]_<<Installed, past>>
  <2> SUFFICES ASSUME UpdaterInv, UpdaterNext, ~UNCHANGED <<Installed, past>> PROVE Slot!Next
    BY DEF updaterVars, files, Installed
  <2>1. past' = past \cup {Installed'}
    BY DEF UpdaterNext
  <2>2. Installed' \in Released \cup past
    <3>1. CASE UNCHANGED <<dest, previous>>
      BY <3>1 DEF Installed, UpdaterInv, PastKept
    <3>2. ASSUME NEW p \in Updaters, ClearBackup(p) \/ BackUp(p) PROVE Installed' = Installed
      BY <3>2 DEF ClearBackup, BackUp, UpdaterInv, PlaceHeld, Installed
    <3>3. ASSUME NEW p \in Updaters, Swap(p) PROVE Installed' \in Released
      BY <3>3, ProgramsAreFiles DEF Swap, UpdaterInv, StagedWhole, Installed
    <3>4. ASSUME NEW p \in Updaters, PutBack(p) \/ Remove(p) PROVE Installed' \in past
      BY <3>4 DEF PutBack, Remove, UpdaterInv, PlaceHeld, PastKept, Installed, RunAt
    <3>5. \/ UNCHANGED <<dest, previous>>
          \/ \E p \in Updaters : ClearBackup(p) \/ BackUp(p) \/ Swap(p) \/ PutBack(p) \/ Remove(p)
      BY DEF UpdaterNext, RunStep, AcquireLock, FetchManifest, FetchAsset, WriteStaged, Fails, TryStaged,
         RenameFails, TryInstalled, RestartDaemon, Killed, Start, Publish, DaemonTurns, files
    <3> QED BY <3>1, <3>2, <3>3, <3>4, <3>5 DEF UpdaterInv, PastKept
  <2> QED BY <2>1, <2>2 DEF Slot!Next, Slot!Install, Slot!Restore
<1> QED BY <1>1, <1>2, InitInv, NextInv, PTL DEF UpdaterSpec, ImplementsSlot, Slot!Spec

-----------------------------------------------------------------------------
(* That a program that runs is in place.  While a run has it moved away,   *)
(* the backup is one that runs, and the daemon was started from that one.  *)
Good(file) == file # Null /\ MayRunInstalled(file)

Clean == mishaps \cap {"killed", "rename"} = {}

AllSettled == \A p \in Updaters : ~Unsettled(p)

NoneRestarts == \A p \in Updaters : ~RunAt(p, "restart")

GoodPlace == Clean /\ AllSettled => Good(dest)

GoodBackup(p) ==
    Clean => /\ RunAt(p, "clear") \/ RunAt(p, "back up") => runs[p].backed
             /\ Unsettled(p) => runs[p].backed /\ Good(previous) /\ ~RunAt(p, "remove")

DaemonFits ==
    mishaps = {} /\ AllSettled /\ NoneRestarts => running \in {dest, Null}

DaemonWaits(p) == mishaps = {} /\ Unsettled(p) => running \in {previous, Null}

Sound ==
    /\ GoodPlace /\ DaemonFits
    /\ \A p \in Updaters : GoodBackup(p) /\ DaemonWaits(p)

(* Steps before anything is moved, or after the run.                       *)
LEMMA SoundWhileQuiet ==
  ASSUME UpdaterInv, Sound, NEW p \in Updaters,
         \A q \in Updaters \ {p} : runs'[q] = runs[q],
         UNCHANGED <<dest, previous, running, mishaps>>,
         ~Unsettled(p), ~RunAt(p, "restart"),
         runs'[p] = Null \/ runs'[p].at \in {"lock", "manifest", "fetch", "write", "try staged"}
  PROVE  Sound'
<1>1. /\ ~Unsettled(p)' /\ ~RunAt(p, "restart")' /\ ~RunAt(p, "clear")' /\ ~RunAt(p, "back up")'
  BY DEF Unsettled, RunAt
<1>2. \A q \in Updaters \ {p} : (GoodBackup(q) /\ DaemonWaits(q))'
  BY DEF Sound, GoodBackup, DaemonWaits, Unsettled, RunAt, Clean, Good
<1>3. AllSettled' => AllSettled
  BY <1>1 DEF AllSettled, Unsettled, RunAt
<1>4. NoneRestarts' => NoneRestarts
  BY DEF NoneRestarts, RunAt
<1> QED BY <1>1, <1>2, <1>3, <1>4 DEF Sound, GoodPlace, GoodBackup, DaemonFits, DaemonWaits, Clean, Good

(* Steps of the run that holds the lock: no other has moved anything.      *)
LEMMA SoundWhileHeld ==
  ASSUME UpdaterInv, Sound, NEW p \in Updaters, runs[p] # Null, runs[p].at # "lock",
         \A q \in Updaters \ {p} : runs'[q] = runs[q]
  PROVE  /\ AllSettled <=> ~Unsettled(p)
         /\ AllSettled' <=> ~Unsettled(p)'
         /\ NoneRestarts <=> ~RunAt(p, "restart")
         /\ NoneRestarts' <=> ~RunAt(p, "restart")'
         /\ \A q \in Updaters \ {p} : (GoodBackup(q) /\ DaemonWaits(q))'
<1>1. \A q \in Updaters \ {p} : /\ ~Unsettled(q) /\ ~Unsettled(q)'
                                /\ ~RunAt(q, "restart") /\ ~RunAt(q, "restart")'
                                /\ ~RunAt(q, "clear")' /\ ~RunAt(q, "back up")'
  BY WorksAlone DEF Unsettled, RunAt
<1> QED BY <1>1 DEF AllSettled, NoneRestarts, GoodBackup, DaemonWaits

LEMMA UnsettledStages ==
  ASSUME NEW p \in Updaters
  PROVE  /\ Unsettled(p) <=> /\ runs[p] # Null
                            /\ runs[p].at \in {"swap", "put back", "try installed", "roll back", "remove"}
         /\ Unsettled(p)' <=> /\ runs'[p] # Null
                             /\ runs'[p].at \in {"swap", "put back", "try installed", "roll back", "remove"}
  BY DEF Unsettled, RunAt

LEMMA SoundClearBackup ==
  ASSUME UpdaterInv, Sound, NEW p \in Updaters, ClearBackup(p)
  PROVE  Sound'
<1>1. runs \in Runs /\ lock \in Updaters \cup {Null} /\ runs[p] # Null /\ runs[p].at # "lock"
  BY DEF UpdaterInv, UpdaterTypeOK, Runs, ClearBackup, RunAt
<1>2. \A q \in Updaters \ {p} : runs'[q] = runs[q]
  BY <1>1, Moved, Ended DEF ClearBackup, Stages
<1>3. runs'[p] # Null /\ runs'[p].at = "back up" /\ runs'[p].backed = runs[p].backed
  BY <1>1, Moved, Ended DEF ClearBackup, Stages
<1>4. /\ AllSettled <=> ~Unsettled(p)
      /\ AllSettled' <=> ~Unsettled(p)'
      /\ NoneRestarts <=> ~RunAt(p, "restart")
      /\ NoneRestarts' <=> ~RunAt(p, "restart")'
      /\ \A q \in Updaters \ {p} : (GoodBackup(q) /\ DaemonWaits(q))'
  BY <1>1, <1>2, SoundWhileHeld
<1>5. GoodPlace /\ GoodBackup(p) /\ DaemonFits /\ DaemonWaits(p) /\ PlaceHeld(p)
  BY DEF Sound, UpdaterInv
<1>6. GoodPlace'
  BY <1>1, <1>3, <1>4, <1>5, UnsettledStages DEF ClearBackup, GoodPlace, GoodBackup, Clean, Good, MayRunInstalled, MayRunStaged, RunAt, files
<1>7. GoodBackup(p)'
  BY <1>1, <1>3, <1>4, <1>5, UnsettledStages DEF ClearBackup, GoodPlace, GoodBackup, Clean, Good, MayRunInstalled, MayRunStaged, RunAt, files
<1>8. DaemonFits' /\ DaemonWaits(p)'
  BY <1>1, <1>3, <1>4, <1>5, UnsettledStages DEF ClearBackup, DaemonFits, DaemonWaits, GoodBackup, Clean, RunAt, files
<1> QED BY <1>4, <1>6, <1>7, <1>8 DEF Sound

LEMMA SoundBackUp ==
  ASSUME UpdaterInv, Sound, NEW p \in Updaters, BackUp(p)
  PROVE  Sound'
<1>1. runs \in Runs /\ lock \in Updaters \cup {Null} /\ runs[p] # Null /\ runs[p].at # "lock"
  BY DEF UpdaterInv, UpdaterTypeOK, Runs, BackUp, RunAt
<1>2. \A q \in Updaters \ {p} : runs'[q] = runs[q]
  BY <1>1, Moved, Ended DEF BackUp, Stages
<1>3. runs'[p] # Null /\ runs'[p].at = "swap" /\ runs'[p].backed = runs[p].backed
  BY <1>1, Moved, Ended DEF BackUp, Stages
<1>4. /\ AllSettled <=> ~Unsettled(p)
      /\ AllSettled' <=> ~Unsettled(p)'
      /\ NoneRestarts <=> ~RunAt(p, "restart")
      /\ NoneRestarts' <=> ~RunAt(p, "restart")'
      /\ \A q \in Updaters \ {p} : (GoodBackup(q) /\ DaemonWaits(q))'
  BY <1>1, <1>2, SoundWhileHeld
<1>5. GoodPlace /\ GoodBackup(p) /\ DaemonFits /\ DaemonWaits(p) /\ PlaceHeld(p)
  BY DEF Sound, UpdaterInv
<1>6. GoodPlace'
  BY <1>1, <1>3, <1>4, <1>5, UnsettledStages DEF BackUp, GoodPlace, GoodBackup, Clean, Good, MayRunInstalled, MayRunStaged, RunAt, files
<1>7. GoodBackup(p)'
  BY <1>1, <1>3, <1>4, <1>5, UnsettledStages DEF BackUp, GoodPlace, GoodBackup, Clean, Good, MayRunInstalled, MayRunStaged, RunAt, files
<1>8. DaemonFits' /\ DaemonWaits(p)'
  BY <1>1, <1>3, <1>4, <1>5, UnsettledStages DEF BackUp, DaemonFits, DaemonWaits, GoodBackup, Clean, RunAt, files
<1> QED BY <1>4, <1>6, <1>7, <1>8 DEF Sound

LEMMA SoundSwap ==
  ASSUME UpdaterInv, Sound, NEW p \in Updaters, Swap(p)
  PROVE  Sound'
<1>1. runs \in Runs /\ lock \in Updaters \cup {Null} /\ runs[p] # Null /\ runs[p].at # "lock"
  BY DEF UpdaterInv, UpdaterTypeOK, Runs, Swap, RunAt
<1>2. \A q \in Updaters \ {p} : runs'[q] = runs[q]
  BY <1>1, Moved, Ended DEF Swap, Stages
<1>3. runs'[p] # Null /\ runs'[p].at = "try installed" /\ runs'[p].backed = runs[p].backed
  BY <1>1, Moved, Ended DEF Swap, Stages
<1>4. /\ AllSettled <=> ~Unsettled(p)
      /\ AllSettled' <=> ~Unsettled(p)'
      /\ NoneRestarts <=> ~RunAt(p, "restart")
      /\ NoneRestarts' <=> ~RunAt(p, "restart")'
      /\ \A q \in Updaters \ {p} : (GoodBackup(q) /\ DaemonWaits(q))'
  BY <1>1, <1>2, SoundWhileHeld
<1>5. GoodPlace /\ GoodBackup(p) /\ DaemonFits /\ DaemonWaits(p) /\ PlaceHeld(p)
  BY DEF Sound, UpdaterInv
<1>6. GoodPlace'
  BY <1>1, <1>3, <1>4, <1>5, UnsettledStages DEF Swap, GoodPlace, GoodBackup, Clean, Good, MayRunInstalled, MayRunStaged, RunAt, files
<1>7. GoodBackup(p)'
  BY <1>1, <1>3, <1>4, <1>5, UnsettledStages DEF Swap, GoodPlace, GoodBackup, Clean, Good, MayRunInstalled, MayRunStaged, RunAt, files
<1>8. DaemonFits' /\ DaemonWaits(p)'
  BY <1>1, <1>3, <1>4, <1>5, UnsettledStages DEF Swap, DaemonFits, DaemonWaits, GoodBackup, Clean, RunAt, files
<1> QED BY <1>4, <1>6, <1>7, <1>8 DEF Sound

LEMMA SoundPutBack ==
  ASSUME UpdaterInv, Sound, NEW p \in Updaters, PutBack(p)
  PROVE  Sound'
<1>1. runs \in Runs /\ lock \in Updaters \cup {Null} /\ runs[p] # Null /\ runs[p].at # "lock"
  BY DEF UpdaterInv, UpdaterTypeOK, Runs, PutBack, RunAt
<1>2. \A q \in Updaters \ {p} : runs'[q] = runs[q]
  BY <1>1, Moved, Ended DEF PutBack, Stages
<1>3. runs'[p] = Null
  BY <1>1, Moved, Ended DEF PutBack, Stages
<1>4. /\ AllSettled <=> ~Unsettled(p)
      /\ AllSettled' <=> ~Unsettled(p)'
      /\ NoneRestarts <=> ~RunAt(p, "restart")
      /\ NoneRestarts' <=> ~RunAt(p, "restart")'
      /\ \A q \in Updaters \ {p} : (GoodBackup(q) /\ DaemonWaits(q))'
  BY <1>1, <1>2, SoundWhileHeld
<1>5. GoodPlace /\ GoodBackup(p) /\ DaemonFits /\ DaemonWaits(p) /\ PlaceHeld(p)
  BY DEF Sound, UpdaterInv
<1>6. GoodPlace'
  BY <1>1, <1>3, <1>4, <1>5, UnsettledStages DEF PutBack, GoodPlace, GoodBackup, Clean, Good, MayRunInstalled, MayRunStaged, RunAt, files
<1>7. GoodBackup(p)'
  BY <1>1, <1>3, <1>4, <1>5, UnsettledStages DEF PutBack, GoodPlace, GoodBackup, Clean, Good, MayRunInstalled, MayRunStaged, RunAt, files
<1>8. DaemonFits' /\ DaemonWaits(p)'
  BY <1>1, <1>3, <1>4, <1>5, UnsettledStages DEF PutBack, DaemonFits, DaemonWaits, GoodBackup, Clean, RunAt, files
<1> QED BY <1>4, <1>6, <1>7, <1>8 DEF Sound

LEMMA SoundTryInstalled ==
  ASSUME UpdaterInv, Sound, NEW p \in Updaters, TryInstalled(p)
  PROVE  Sound'
<1>1. runs \in Runs /\ lock \in Updaters \cup {Null} /\ runs[p] # Null /\ runs[p].at # "lock"
  BY DEF UpdaterInv, UpdaterTypeOK, Runs, TryInstalled, AfterFailedTrial, RunAt
<1>2. \A q \in Updaters \ {p} : runs'[q] = runs[q]
  BY <1>1, Moved, Ended DEF TryInstalled, AfterFailedTrial, Stages
<1>3. /\ runs'[p] # Null
      /\ \/ MayRunInstalled(dest) /\ runs'[p].at = "restart"
         \/ runs'[p].at = (IF runs[p].backed THEN "roll back" ELSE "remove") /\ runs'[p].backed = runs[p].backed
  BY <1>1, Moved, Ended DEF TryInstalled, AfterFailedTrial, Stages
<1>4. /\ AllSettled <=> ~Unsettled(p)
      /\ AllSettled' <=> ~Unsettled(p)'
      /\ NoneRestarts <=> ~RunAt(p, "restart")
      /\ NoneRestarts' <=> ~RunAt(p, "restart")'
      /\ \A q \in Updaters \ {p} : (GoodBackup(q) /\ DaemonWaits(q))'
  BY <1>1, <1>2, SoundWhileHeld
<1>5. GoodPlace /\ GoodBackup(p) /\ DaemonFits /\ DaemonWaits(p) /\ PlaceHeld(p)
  BY DEF Sound, UpdaterInv
<1>6. GoodPlace'
  BY <1>1, <1>3, <1>4, <1>5, UnsettledStages, UpdaterAssumption DEF TryInstalled, AfterFailedTrial, GoodPlace, GoodBackup, Clean, Good, MayRunInstalled, MayRunStaged, RunAt, files, Spoiled
<1>7. GoodBackup(p)'
  BY <1>1, <1>3, <1>4, <1>5, UnsettledStages, UpdaterAssumption DEF TryInstalled, AfterFailedTrial, GoodPlace, GoodBackup, Clean, Good, MayRunInstalled, MayRunStaged, RunAt, files, Spoiled
<1>8. DaemonFits' /\ DaemonWaits(p)'
  BY <1>1, <1>3, <1>4, <1>5, UnsettledStages DEF TryInstalled, AfterFailedTrial, DaemonFits, DaemonWaits, GoodBackup, Clean, RunAt, files
<1> QED BY <1>4, <1>6, <1>7, <1>8 DEF Sound

LEMMA SoundRenameFails ==
  ASSUME UpdaterInv, Sound, NEW p \in Updaters, RenameFails(p)
  PROVE  Sound'
<1>1. runs \in Runs /\ lock \in Updaters \cup {Null} /\ runs[p] # Null /\ runs[p].at # "lock"
  BY DEF UpdaterInv, UpdaterTypeOK, Runs, RenameFails, RunAt
<1>2. \A q \in Updaters \ {p} : runs'[q] = runs[q]
  BY <1>1, Moved, Ended DEF RenameFails, Stages
<1>3. IF RunAt(p, "swap") /\ runs[p].backed THEN runs'[p] # Null /\ runs'[p].at = "put back" /\ runs'[p].backed = runs[p].backed ELSE runs'[p] = Null
  BY <1>1, Moved, Ended DEF RenameFails, Stages
<1>4. /\ AllSettled <=> ~Unsettled(p)
      /\ AllSettled' <=> ~Unsettled(p)'
      /\ NoneRestarts <=> ~RunAt(p, "restart")
      /\ NoneRestarts' <=> ~RunAt(p, "restart")'
      /\ \A q \in Updaters \ {p} : (GoodBackup(q) /\ DaemonWaits(q))'
  BY <1>1, <1>2, SoundWhileHeld
<1>5. GoodPlace /\ GoodBackup(p) /\ DaemonFits /\ DaemonWaits(p) /\ PlaceHeld(p)
  BY DEF Sound, UpdaterInv
<1>6. GoodPlace'
  BY <1>1, <1>3, <1>4, <1>5, UnsettledStages DEF RenameFails, GoodPlace, GoodBackup, Clean, Good, MayRunInstalled, MayRunStaged, RunAt, files
<1>7. GoodBackup(p)'
  BY <1>1, <1>3, <1>4, <1>5, UnsettledStages DEF RenameFails, GoodPlace, GoodBackup, Clean, Good, MayRunInstalled, MayRunStaged, RunAt, files
<1>8. DaemonFits' /\ DaemonWaits(p)'
  BY <1>1, <1>3, <1>4, <1>5, UnsettledStages DEF RenameFails, DaemonFits, DaemonWaits, GoodBackup, Clean, RunAt, files
<1> QED BY <1>4, <1>6, <1>7, <1>8 DEF Sound

LEMMA SoundRemove ==
  ASSUME UpdaterInv, Sound, NEW p \in Updaters, Remove(p)
  PROVE  Sound'
<1>1. runs \in Runs /\ lock \in Updaters \cup {Null} /\ runs[p] # Null /\ runs[p].at # "lock"
  BY DEF UpdaterInv, UpdaterTypeOK, Runs, Remove, RunAt
<1>2. \A q \in Updaters \ {p} : runs'[q] = runs[q]
  BY <1>1, Moved, Ended DEF Remove, Stages
<1>3. runs'[p] = Null
  BY <1>1, Moved, Ended DEF Remove, Stages
<1>4. /\ AllSettled <=> ~Unsettled(p)
      /\ AllSettled' <=> ~Unsettled(p)'
      /\ NoneRestarts <=> ~RunAt(p, "restart")
      /\ NoneRestarts' <=> ~RunAt(p, "restart")'
      /\ \A q \in Updaters \ {p} : (GoodBackup(q) /\ DaemonWaits(q))'
  BY <1>1, <1>2, SoundWhileHeld
<1>5. GoodPlace /\ GoodBackup(p) /\ DaemonFits /\ DaemonWaits(p) /\ PlaceHeld(p)
  BY DEF Sound, UpdaterInv
<1>6. GoodPlace'
  BY <1>1, <1>3, <1>4, <1>5, UnsettledStages DEF Remove, GoodPlace, GoodBackup, Clean, Good, MayRunInstalled, MayRunStaged, RunAt, files
<1>7. GoodBackup(p)'
  BY <1>1, <1>3, <1>4, <1>5, UnsettledStages DEF Remove, GoodPlace, GoodBackup, Clean, Good, MayRunInstalled, MayRunStaged, RunAt, files
<1>8. DaemonFits' /\ DaemonWaits(p)'
  BY <1>1, <1>3, <1>4, <1>5, UnsettledStages DEF Remove, DaemonFits, DaemonWaits, GoodBackup, Clean, RunAt, files
<1> QED BY <1>4, <1>6, <1>7, <1>8 DEF Sound

LEMMA SoundRestartDaemon ==
  ASSUME UpdaterInv, Sound, NEW p \in Updaters, RestartDaemon(p)
  PROVE  Sound'
<1>1. runs \in Runs /\ lock \in Updaters \cup {Null} /\ runs[p] # Null /\ runs[p].at # "lock"
  BY DEF UpdaterInv, UpdaterTypeOK, Runs, RestartDaemon, Restarted, RunAt
<1>2. \A q \in Updaters \ {p} : runs'[q] = runs[q]
  BY <1>1, Moved, Ended DEF RestartDaemon, Restarted, Stages
<1>3. runs'[p] = Null
  BY <1>1, Moved, Ended DEF RestartDaemon, Restarted, Stages
<1>4. /\ AllSettled <=> ~Unsettled(p)
      /\ AllSettled' <=> ~Unsettled(p)'
      /\ NoneRestarts <=> ~RunAt(p, "restart")
      /\ NoneRestarts' <=> ~RunAt(p, "restart")'
      /\ \A q \in Updaters \ {p} : (GoodBackup(q) /\ DaemonWaits(q))'
  BY <1>1, <1>2, SoundWhileHeld
<1>5. GoodPlace /\ GoodBackup(p) /\ DaemonFits /\ DaemonWaits(p) /\ PlaceHeld(p)
  BY DEF Sound, UpdaterInv
<1>6. GoodPlace'
  BY <1>1, <1>3, <1>4, <1>5, UnsettledStages DEF RestartDaemon, Restarted, GoodPlace, GoodBackup, Clean, Good, MayRunInstalled, MayRunStaged, RunAt, files
<1>7. GoodBackup(p)'
  BY <1>1, <1>3, <1>4, <1>5, UnsettledStages DEF RestartDaemon, Restarted, GoodPlace, GoodBackup, Clean, Good, MayRunInstalled, MayRunStaged, RunAt, files
<1>8. DaemonFits' /\ DaemonWaits(p)'
  BY <1>1, <1>3, <1>4, <1>5, UnsettledStages DEF RestartDaemon, Restarted, DaemonFits, DaemonWaits, GoodBackup, Clean, RunAt, files
<1> QED BY <1>4, <1>6, <1>7, <1>8 DEF Sound

LEMMA SoundTryStaged ==
  ASSUME UpdaterInv, Sound, NEW p \in Updaters, TryStaged(p)
  PROVE  Sound'
<1> DEFINE stage == IF dest # Null THEN "clear" ELSE "swap"
           r == [runs[p] EXCEPT !.at = stage, !.backed = dest # Null]
<1>1. runs[p] # Null /\ runs[p].at # "lock" /\ runs[p] \in Run
  BY DEF UpdaterInv, UpdaterTypeOK, TryStaged, RunAt
<1>2. r \in Run /\ r.at = stage /\ r.backed = (dest # Null)
  <2>1. stage \in Stages /\ (dest # Null) \in BOOLEAN
    BY DEF Stages
  <2> QED BY <1>1, <2>1 DEF Run
<1>3. /\ \A q \in Updaters \ {p} : runs'[q] = runs[q]
      /\ runs'[p] # Null /\ runs'[p].at = stage /\ runs'[p].backed = (dest # Null)
  <2>1. runs' = [runs EXCEPT ![p] = r]
    BY DEF TryStaged
  <2> HIDE DEF r
  <2> QED BY <1>2, <2>1, UpdaterAssumption DEF UpdaterInv, UpdaterTypeOK
<1>4. AllSettled /\ NoneRestarts
  BY <1>1, <1>3, SoundWhileHeld, UnsettledStages DEF TryStaged, RunAt
<1>5. Clean => dest # Null
  BY <1>4 DEF Sound, GoodPlace, Good
<1>6. Clean => ~Unsettled(p)'
  BY <1>3, <1>5, UnsettledStages
<1>7. UNCHANGED <<dest, previous, running, mishaps>>
  BY DEF TryStaged, files
<1>8. GoodPlace' /\ GoodBackup(p)'
  BY <1>3, <1>4, <1>5, <1>6, <1>7 DEF Sound, GoodPlace, GoodBackup, Clean, Good, MayRunInstalled, MayRunStaged, RunAt
<1>9. DaemonFits' /\ DaemonWaits(p)'
  BY <1>4, <1>6, <1>7 DEF Sound, DaemonFits, DaemonWaits, Clean
<1> QED BY <1>1, <1>3, <1>8, <1>9, SoundWhileHeld DEF Sound

LEMMA SoundKilled ==
  ASSUME UpdaterInv, Sound, NEW p \in Updaters, Killed(p)
  PROVE  Sound'
<1>1. /\ runs'[p] = Null /\ \A q \in Updaters \ {p} : runs'[q] = runs[q]
      /\ UNCHANGED <<dest, previous, running>>
  BY Ended DEF UpdaterInv, UpdaterTypeOK, Runs, Killed, files
<1>2. CASE ~Unsettled(p) /\ ~RunAt(p, "restart")
  BY <1>1, <1>2, SoundWhileQuiet DEF Killed
<1>3. CASE Unsettled(p) \/ RunAt(p, "restart")
  <2>1. runs[p] # Null /\ runs[p].at # "lock"
    BY <1>3, UnsettledStages DEF RunAt
  <2>2. mishaps' # {} /\ (Clean' => Clean /\ ~Unsettled(p))
    BY <1>3 DEF Killed, Clean
  <2>3. ~Unsettled(p)' /\ ~RunAt(p, "clear")' /\ ~RunAt(p, "back up")'
    BY <1>1, UnsettledStages DEF RunAt
  <2>4. GoodPlace'
    BY <1>1, <2>1, <2>2, SoundWhileHeld DEF Sound, GoodPlace, Good, MayRunInstalled, MayRunStaged
  <2>5. GoodBackup(p)' /\ DaemonFits' /\ DaemonWaits(p)'
    BY <2>2, <2>3 DEF GoodBackup, DaemonFits, DaemonWaits
  <2> QED BY <1>1, <2>1, <2>4, <2>5, SoundWhileHeld DEF Sound
<1> QED BY <1>2, <1>3

LEMMA SoundStart ==
  ASSUME UpdaterInv, Sound, NEW p \in Updaters, NEW options \in SUBSET {"force", "dry run"}, Start(p, options)
  PROVE  Sound'
<1>1. ~Unsettled(p) /\ ~RunAt(p, "restart")
  BY UnsettledStages DEF Start, RunAt
<1>2. runs'[p].at = "lock" /\ \A q \in Updaters \ {p} : runs'[q] = runs[q]
  BY DEF Start, UpdaterInv, UpdaterTypeOK
<1> QED BY <1>1, <1>2, SoundWhileQuiet DEF Start, files

LEMMA SoundBeforeTrial ==
  ASSUME UpdaterInv, Sound, NEW p \in Updaters,
         AcquireLock(p) \/ FetchManifest(p) \/ FetchAsset(p) \/ WriteStaged(p) \/ Fails(p)
  PROVE  Sound'
<1>1. ~Unsettled(p) /\ ~RunAt(p, "restart")
  BY UnsettledStages DEF AcquireLock, FetchManifest, FetchAsset, WriteStaged, Fails, RunAt
<1>2. UNCHANGED <<dest, previous, running, mishaps>>
  BY DEF AcquireLock, FetchManifest, FetchAsset, WriteStaged, Fails, files
<1>3. runs \in Runs /\ lock \in Updaters \cup {Null}
  BY DEF UpdaterInv, UpdaterTypeOK, Runs
<1>4. \A q \in Updaters \ {p} : runs'[q] = runs[q]
  BY <1>3, Ended DEF Runs, Goes, AcquireLock, FetchManifest, FetchAsset, WriteStaged, Fails
<1>5. runs'[p] = Null \/ runs'[p].at \in {"lock", "manifest", "fetch", "write", "try staged"}
  <2>1. CASE AcquireLock(p) \/ WriteStaged(p) \/ Fails(p)
    BY <1>3, <2>1, Moved, Ended DEF AcquireLock, WriteStaged, Fails, Stages
  <2>2. CASE FetchManifest(p) \/ FetchAsset(p)
    <3>1. runs[p] \in Run
      BY <1>3, <2>2 DEF FetchManifest, FetchAsset, RunAt, Runs
    <3>2. Ends(p) \/ runs'[p].at = "fetch" \/ runs'[p].at = "write"
      BY <1>3, <2>2, <3>1 DEF FetchManifest, FetchAsset, Runs, Run
    <3> QED BY <1>3, <3>2, Ended
  <2> QED BY <2>1, <2>2
<1> QED BY <1>1, <1>2, <1>4, <1>5, SoundWhileQuiet

(* The daemon starts again from the program in place: one that runs, and   *)
(* where a run may still take it back, the start is counted as "early".    *)
LEMMA SoundAround ==
  ASSUME UpdaterInv, Sound, Publish \/ DaemonTurns
  PROVE  Sound'
<1>1. UNCHANGED <<dest, previous, runs>> /\ mishaps \subseteq mishaps' /\ (Clean' <=> Clean)
  BY DEF Publish, DaemonTurns, files, Clean
<1>2. /\ AllSettled' <=> AllSettled
      /\ NoneRestarts' <=> NoneRestarts
      /\ \A p \in Updaters : Unsettled(p)' <=> Unsettled(p)
  BY <1>1 DEF AllSettled, NoneRestarts, Unsettled, RunAt
<1>3. GoodPlace' /\ \A p \in Updaters : GoodBackup(p)'
  BY <1>1, <1>2 DEF Sound, GoodPlace, GoodBackup, Good, MayRunInstalled, MayRunStaged, RunAt
<1>4. DaemonFits'
  BY <1>1, <1>2 DEF Sound, DaemonFits, Publish, DaemonTurns
<1>5. ASSUME NEW p \in Updaters PROVE DaemonWaits(p)'
  <2>1. CASE running' \in {running, Null}
    BY <1>1, <1>2, <2>1 DEF Sound, DaemonWaits
  <2>2. CASE running = Null /\ MayRunInstalled(dest) /\ running' = dest
             /\ mishaps' = mishaps \cup (IF \E q \in Updaters : RunAt(q, "try installed") \/ RunAt(q, "roll back")
                                         THEN {"early"} ELSE {})
    <3> SUFFICES ASSUME mishaps' = {}, Unsettled(p) PROVE FALSE
      BY <1>2 DEF DaemonWaits
    <3>1. dest # Null
      BY <2>2, UpdaterAssumption DEF MayRunInstalled, MayRunStaged, Spoiled
    <3>2. RunAt(p, "swap") \/ RunAt(p, "put back") \/ RunAt(p, "remove")
      BY <2>2, UnsettledStages DEF RunAt
    <3>3. ~RunAt(p, "remove")
      BY <1>1 DEF Sound, GoodBackup, Clean
    <3> QED BY <3>1, <3>2, <3>3 DEF UpdaterInv, PlaceHeld
  <2> QED BY <2>1, <2>2 DEF Publish, DaemonTurns
<1> QED BY <1>3, <1>4, <1>5 DEF Sound

LEMMA SoundThroughout == UpdaterSpec => []Sound
<1>1. UpdaterInit => Sound
  <2> SUFFICES ASSUME UpdaterInit PROVE Sound
    OBVIOUS
  <2>1. \A p \in Updaters : ~Unsettled(p) /\ ~RunAt(p, "clear") /\ ~RunAt(p, "back up")
    BY DEF UpdaterInit, Unsettled, RunAt
  <2>2. Good(dest)
    <3>1. dest \in Programs /\ dest # Null
      BY InitInv, UpdaterAssumption DEF UpdaterInv, UpdaterInit, WholeProgramsOnly, PastKept, Installed
    <3>2. dest.version = 1
      <4>1. CASE dest = Release(1)
        BY <4>1 DEF Release
      <4>2. CASE dest = [version |-> 1, bytes |-> "own build"]
        BY <4>2
      <4> QED BY <4>1, <4>2 DEF UpdaterInit
    <3>3. 1 \notin Quirky
      BY UpdaterAssumption
    <3> QED BY <3>1, <3>2, <3>3 DEF Good, MayRunInstalled, MayRunStaged
  <2> QED BY <2>1, <2>2 DEF Sound, GoodPlace, GoodBackup, DaemonFits, DaemonWaits, UpdaterInit
<1>2. UpdaterInv /\ Sound /\ [UpdaterNext]_updaterVars => Sound'
  <2> SUFFICES ASSUME UpdaterInv, Sound, [UpdaterNext]_updaterVars PROVE Sound'
    OBVIOUS
  <2>1. ASSUME NEW p \in Updaters, RunStep(p) PROVE Sound'
    BY <2>1, SoundBeforeTrial, SoundTryStaged, SoundClearBackup, SoundBackUp, SoundSwap, SoundRenameFails,
       SoundPutBack, SoundTryInstalled, SoundRemove, SoundRestartDaemon DEF RunStep
  <2>2. CASE UNCHANGED updaterVars
    BY <2>2 DEF updaterVars, files, Sound, GoodPlace, GoodBackup, DaemonFits, DaemonWaits, Clean, Good,
       MayRunInstalled, MayRunStaged, AllSettled, NoneRestarts, Unsettled, RunAt
  <2> QED BY <2>1, <2>2, SoundKilled, SoundStart, SoundAround DEF UpdaterNext
<1> QED BY <1>1, <1>2, InitInv, NextInv, PTL DEF UpdaterSpec

LEMMA NothingMovedWithoutLock == UpdaterInv /\ lock = Null => AllSettled /\ NoneRestarts
  BY UpdaterAssumption, UnsettledStages DEF UpdaterInv, HoldsLock, AllSettled, NoneRestarts, RunAt

(* "The user is never left with a broken worklog", whatever the releases,  *)
(* the number of processes and the steps at which they are killed, but for *)
(* the two mishaps the property names.                                     *)
THEOREM UserIsNeverLeftBroken == UpdaterSpec => []NeverLeftBroken
<1>1. UpdaterInv /\ Sound => NeverLeftBroken
  BY NothingMovedWithoutLock DEF Sound, GoodPlace, Clean, Good, NeverLeftBroken
<1> QED BY <1>1, SoundThroughout, InitInv, NextInv, PTL DEF UpdaterSpec

(* After any updates that met no mishap the daemon runs what is installed. *)
THEOREM DaemonFollows == UpdaterSpec => []DaemonRunsInstalled
<1>1. UpdaterInv /\ Sound => DaemonRunsInstalled
  BY NothingMovedWithoutLock DEF Sound, DaemonFits, DaemonRunsInstalled
<1> QED BY <1>1, SoundThroughout, InitInv, NextInv, PTL DEF UpdaterSpec


-----------------------------------------------------------------------------
(* The supervisor: any number of requests under way, any ration of restarts.*)

(* A daemon that is not there owns no helper and has no request under way. *)
DownIsEmpty ==
    daemon = "down" => /\ ~enabled /\ proc = "none" /\ failed = "none" /\ relaunched = {}
                       /\ \A r \in Requests : requests[r] = Idle

SupervisorInv == SupervisorTypeOK /\ NeverStuck /\ OneHelper /\ DownIsEmpty

LEMMA IdleIsRequest == Idle \in Request
  BY DEF Idle, Request, Switch

LEMMA AgesShift == \A ages : Older(ages) \subseteq Ages
  BY DEF Older

LEMMA SupervisorInitInv == SupervisorInit => SupervisorInv
  BY IdleIsRequest DEF SupervisorInit, SupervisorInv, SupervisorTypeOK, NeverStuck, OneHelper, DownIsEmpty, Failures

-----------------------------------------------------------------------------
(* launch leaves a helper or a failure, and no helper beside its own.      *)
LEMMA Launched ==
  ASSUME SupervisorInv, proc = "none", Launch
  PROVE  /\ proc' \in {"alive", "none"} /\ failed' \in Failures \cup {"none"} /\ orphan' \in BOOLEAN
         /\ proc' # "none" \/ failed' \in Failures
         /\ proc' # "none" => failed' = "none" /\ ~orphan'
  BY DEF SupervisorInv, SupervisorTypeOK, Launch, Failures

(* What set_enabled does to the supervisor.                                *)
LEMMA Switched ==
  ASSUME SupervisorInv, NEW on \in BOOLEAN, SetEnabled(on)
  PROVE  /\ enabled' = on /\ proc' \in {"alive", "exited", "none"}
         /\ failed' \in Failures \cup {"none"} /\ orphan' \in BOOLEAN
         /\ restarts' \subseteq Ages /\ relaunched' \subseteq Ages
         /\ on => proc' # "none" \/ failed' \in Failures
         /\ proc' # "none" => on /\ failed' = "none"
         /\ proc' = "alive" => ~orphan'
<1>1. CASE ~on
  BY <1>1 DEF SetEnabled, Kill, SupervisorInv, SupervisorTypeOK
<1>2. CASE on /\ proc = "none"
  BY <1>2, Launched DEF SetEnabled
<1>3. CASE on /\ proc # "none"
  BY <1>3 DEF SetEnabled, SupervisorInv, SupervisorTypeOK, OneHelper
<1> QED BY <1>1, <1>2, <1>3

LEMMA TickInv == SupervisorInv /\ Tick => SupervisorInv'
<1> SUFFICES ASSUME SupervisorInv, Tick PROVE SupervisorInv'
  OBVIOUS
<1>1. UNCHANGED <<env, daemon, enabled, requests>> /\ daemon = "up"
  BY DEF Tick
<1>2. restarts' \subseteq Ages /\ relaunched' \subseteq Ages
  <2>1. Recent \subseteq Ages /\ 0 \in Ages
    BY AgesShift, SupervisorAssumption DEF Recent, Ages
  <2> QED BY <2>1, AgesShift DEF Tick, GiveUp, Relaunch, Ages
<1>3. CASE ~Exited
  BY <1>1, <1>2, <1>3 DEF Tick, SupervisorInv, SupervisorTypeOK, NeverStuck, MayRetry, OneHelper, DownIsEmpty
<1>4. CASE Exited
  <2>1. /\ proc' \in {"alive", "none"} /\ failed' \in Failures \cup {"none"} /\ orphan' \in BOOLEAN
        /\ proc' # "none" \/ failed' \in Failures
        /\ proc' # "none" => failed' = "none" /\ ~orphan'
    BY <1>4 DEF Tick, GiveUp, Relaunch, Failures, SupervisorInv, SupervisorTypeOK
  <2>2. enabled
    BY <1>4 DEF Exited, SupervisorInv, OneHelper
  <2> QED BY <1>1, <1>2, <2>1, <2>2 DEF SupervisorInv, SupervisorTypeOK, NeverStuck, MayRetry, OneHelper, DownIsEmpty
<1> QED BY <1>3, <1>4

LEMMA RetryInv == SupervisorInv /\ Retry => SupervisorInv'
<1> SUFFICES ASSUME SupervisorInv, Retry PROVE SupervisorInv'
  OBVIOUS
<1>1. proc = "none" /\ enabled
  BY DEF Retry, MayRetry, SupervisorInv, OneHelper, Failures
<1>2. /\ UNCHANGED <<env, daemon, enabled, requests>> /\ daemon # "down"
      /\ restarts' = {} /\ relaunched' = {}
  BY DEF Retry
<1> QED BY <1>1, <1>2, Launched
  DEF Retry, SupervisorInv, SupervisorTypeOK, NeverStuck, MayRetry, OneHelper, DownIsEmpty

LEMMA RequestInv ==
  ASSUME SupervisorInv, NEW r \in Requests, RequestStep(r) \/ \E does \in {"on", "off", "other"} : Ask(r, does)
  PROVE  SupervisorInv'
<1>1. requests' \in [Requests -> Request] /\ env' \in Switch
  <2>1. requests[r] \in Request
    BY DEF SupervisorInv, SupervisorTypeOK
  <2>2. CASE \E does \in {"on", "off", "other"} : Ask(r, does)
    BY <2>2 DEF Ask, SupervisorInv, SupervisorTypeOK, Request, Switch
  <2>3. CASE ReadFile(r)
    <3>1. [requests[r] EXCEPT !.at = "create", !.seen = env] \in Request
      BY <2>1 DEF Request, SupervisorInv, SupervisorTypeOK
    <3>2. requests' = [requests EXCEPT ![r] = [requests[r] EXCEPT !.at = "create", !.seen = env]]
      BY <2>3 DEF ReadFile, SupervisorInv, SupervisorTypeOK
    <3> QED BY <2>3, <3>1, <3>2 DEF ReadFile, SupervisorInv, SupervisorTypeOK
  <2>4. CASE CreateFile(r)
    <3>1. [requests[r] EXCEPT !.at = "write"] \in Request
      BY <2>1 DEF Request
    <3> QED BY <2>4, <3>1 DEF CreateFile, SupervisorInv, SupervisorTypeOK, Switch
  <2>5. CASE WriteFile(r)
    <3>1. [requests[r] EXCEPT !.at = "apply", !.seen = "missing"] \in Request
      BY <2>1 DEF Request, Switch
    <3>2. Upserted(requests[r].seen, requests[r].does) \in Switch
      BY <2>1 DEF Upserted, Request, Switch
    <3> QED BY <2>5, <3>1, <3>2, IdleIsRequest DEF WriteFile, SupervisorInv, SupervisorTypeOK
  <2>6. CASE Apply(r)
    BY <2>6, IdleIsRequest DEF Apply, SupervisorInv, SupervisorTypeOK
  <2>7. CASE UpsertFails(r)
    BY <2>7, IdleIsRequest DEF UpsertFails, SupervisorInv, SupervisorTypeOK
  <2> QED BY <2>2, <2>3, <2>4, <2>5, <2>6, <2>7 DEF RequestStep
<1>2. daemon # "down" /\ daemon' = daemon
  BY DEF Ask, RequestStep, ReadFile, CreateFile, WriteFile, UpsertFails, Apply, AskedAt,
     SupervisorInv, DownIsEmpty, Idle
<1>3. CASE UNCHANGED <<supervisor, orphan, relaunched>>
  BY <1>1, <1>2, <1>3 DEF supervisor, SupervisorInv, SupervisorTypeOK, NeverStuck, MayRetry, OneHelper, DownIsEmpty
<1>4. CASE Apply(r)
  <2>1. SetEnabled(requests[r].does = "on")
    BY <1>4 DEF Apply
  <2> QED BY <1>1, <1>2, <2>1, Switched
    DEF SupervisorInv, SupervisorTypeOK, NeverStuck, MayRetry, OneHelper, DownIsEmpty
<1> QED BY <1>3, <1>4 DEF Ask, RequestStep, ReadFile, CreateFile, WriteFile, UpsertFails

LEMMA LifeInv ==
  ASSUME SupervisorInv, HelperExits \/ DaemonStarts \/ DaemonStops \/ DaemonExits \/ DaemonDies
  PROVE  SupervisorInv'
<1>1. CASE HelperExits
  BY <1>1 DEF HelperExits, SupervisorInv, SupervisorTypeOK, NeverStuck, MayRetry, OneHelper, DownIsEmpty
<1>2. CASE DaemonStarts
  <2>1. proc = "none" /\ failed = "none"
    BY <1>2 DEF DaemonStarts, SupervisorInv, DownIsEmpty
  <2>2. CASE env # "off"
    BY <1>2, <2>1, <2>2, Launched
    DEF DaemonStarts, SupervisorInv, SupervisorTypeOK, NeverStuck, MayRetry, OneHelper, DownIsEmpty
  <2>3. CASE env = "off"
    BY <1>2, <2>1, <2>3
    DEF DaemonStarts, SupervisorInv, SupervisorTypeOK, NeverStuck, MayRetry, OneHelper, DownIsEmpty
  <2> QED BY <2>2, <2>3
<1>3. CASE DaemonStops
  BY <1>3 DEF DaemonStops, Kill, SupervisorInv, SupervisorTypeOK, NeverStuck, MayRetry, OneHelper, DownIsEmpty
<1>4. CASE DaemonExits \/ DaemonDies
  BY <1>4, IdleIsRequest DEF DaemonExits, DaemonDies, Gone, SupervisorInv, SupervisorTypeOK, NeverStuck, OneHelper,
     DownIsEmpty
<1> QED BY <1>1, <1>2, <1>3, <1>4

LEMMA SupervisorNextInv == SupervisorInv /\ [SupervisorNext]_supervisorVars => SupervisorInv'
<1>1. SupervisorInv /\ UNCHANGED supervisorVars => SupervisorInv'
  BY DEF supervisorVars, supervisor, SupervisorInv, SupervisorTypeOK, NeverStuck, MayRetry, OneHelper, DownIsEmpty
<1> QED BY <1>1, TickInv, RetryInv, RequestInv, LifeInv DEF SupervisorNext

(* Types.                                                                  *)
THEOREM SupervisorIsTyped == SupervisorSpec => []SupervisorTypeOK
<1>1. SupervisorInv => SupervisorTypeOK  BY DEF SupervisorInv
<1> QED BY <1>1, SupervisorInitInv, SupervisorNextInv, PTL DEF SupervisorSpec

(* The owner can always get the helper back: it runs, its end is about to  *)
(* be noticed, or Retry answers.                                           *)
THEOREM OwnerIsNeverStuck == SupervisorSpec => []NeverStuck
<1>1. SupervisorInv => NeverStuck  BY DEF SupervisorInv
<1> QED BY <1>1, SupervisorInitInv, SupervisorNextInv, PTL DEF SupervisorSpec

(* Never a helper against the switch, nor two of them.                     *)
THEOREM HelperIsAlone == SupervisorSpec => []OneHelper
<1>1. SupervisorInv => OneHelper  BY DEF SupervisorInv
<1> QED BY <1>1, SupervisorInitInv, SupervisorNextInv, PTL DEF SupervisorSpec

-----------------------------------------------------------------------------
(* The ration of restarts.  What is inside the window only gets less as    *)
(* time passes, and the supervisor remembers every restart of its own that *)
(* is still inside it.                                                     *)
Within(ages) == {a \in ages : a < RESTART_WINDOW}

Rationed ==
    /\ Cardinality(Within(relaunched)) <= RESTART_LIMIT
    /\ Within(relaunched) \subseteq restarts

LEMMA AgesAreFinite ==
  ASSUME NEW ages, ages \subseteq Ages
  PROVE  IsFiniteSet(ages) /\ IsFiniteSet(Within(ages)) /\ Cardinality(Within(ages)) \in Nat
<1>1. IsFiniteSet(Ages)
  BY FS_Interval, SupervisorAssumption DEF Ages
<1> QED BY <1>1, FS_Subset, FS_CardinalityType DEF Within

LEMMA WindowOnlyCloses ==
  ASSUME NEW ages, ages \subseteq Ages
  PROVE  Cardinality(Within(Older(ages))) <= Cardinality(Within(ages))
<1> DEFINE younger == [a \in Within(Older(ages)) |-> a - 1]
<1>1. younger \in Injection(Within(Older(ages)), Within(ages))
  <2>1. \A a \in Within(Older(ages)) : a \in Nat /\ a - 1 \in Within(ages)
    BY SupervisorAssumption DEF Within, Older, Ages
  <2>2. \A a, b \in Within(Older(ages)) : a - 1 = b - 1 => a = b
    BY <2>1
  <2> QED BY <2>1, <2>2 DEF Injection, IsInjective
<1>2. IsFiniteSet(Within(ages))
  BY AgesAreFinite
<1> QED BY <1>1, <1>2, FS_Injection

LEMMA TickRations == SupervisorTypeOK /\ Rationed /\ Tick => Rationed'
<1> SUFFICES ASSUME SupervisorTypeOK, Rationed, Tick PROVE Rationed'
  OBVIOUS
<1>1. /\ relaunched \subseteq Ages /\ restarts \subseteq Ages /\ 0 < RESTART_WINDOW
      /\ RESTART_LIMIT \in Nat
  BY SupervisorAssumption DEF SupervisorTypeOK
<1>2. Within(Older(relaunched)) \subseteq Recent
  BY <1>1, SupervisorAssumption DEF Rationed, Within, Older, Recent, Ages
<1>3. /\ Cardinality(Within(Older(relaunched))) <= RESTART_LIMIT
      /\ Cardinality(Within(Older(relaunched))) \in Nat /\ Cardinality(Within(relaunched)) \in Nat
  BY <1>1, AgesShift, AgesAreFinite, WindowOnlyCloses DEF Rationed
<1>4. CASE relaunched' = Older(relaunched) /\ (restarts' = Older(restarts) \/ restarts' = Recent)
  BY <1>2, <1>3, <1>4 DEF Rationed, Recent
<1>5. CASE /\ relaunched' = Older(relaunched) \cup {0} /\ restarts' = Recent \cup {0}
           /\ ~BudgetSpent
  <2>1. Within(relaunched') = Within(Older(relaunched)) \cup {0}
    BY <1>1, <1>5 DEF Within
  <2>2. IsFiniteSet(Recent) /\ Cardinality(Recent) \in Nat
    <3>1. Recent \subseteq Ages
      BY AgesShift DEF Recent
    <3>2. IsFiniteSet(Recent)
      BY <3>1, AgesAreFinite
    <3> QED BY <3>2, FS_CardinalityType
  <2>3. Cardinality(Within(Older(relaunched))) <= Cardinality(Recent)
    BY <1>2, <2>2, FS_Subset
  <2>4. Cardinality(Recent) < RESTART_LIMIT
    BY <1>1, <1>5, <2>2 DEF BudgetSpent
  <2>5. IsFiniteSet(Within(Older(relaunched)))
    BY <1>2, <2>2, FS_Subset
  <2>6. Cardinality(Within(relaunched')) <= Cardinality(Within(Older(relaunched))) + 1
    BY <1>3, <2>1, <2>5, FS_AddElement
  <2>7. Cardinality(Within(relaunched')) \in Nat
    BY <2>1, <2>5, FS_AddElement, FS_CardinalityType
  <2>8. Cardinality(Within(relaunched')) <= RESTART_LIMIT
    BY <1>1, <1>3, <2>2, <2>3, <2>4, <2>6, <2>7
  <2>9. Within(relaunched') \subseteq restarts'
    BY <1>2, <1>5, <2>1
  <2> QED BY <2>8, <2>9 DEF Rationed, Within
<1> QED BY <1>4, <1>5 DEF Tick, GiveUp, Relaunch

(* A step at the owner's word, or the end of the daemon.                   *)
LEMMA FreshRation ==
  ASSUME relaunched' = {} \/ UNCHANGED <<restarts, relaunched>>, Rationed
  PROVE  Rationed'
<1>1. Within({}) = {} /\ Cardinality({}) = 0
  BY FS_EmptySet DEF Within
<1> QED BY <1>1, SupervisorAssumption DEF Rationed, Within

(* A helper that keeps crashing is restarted at most RESTART_LIMIT times   *)
(* within any window, whoever else writes the settings or stops the daemon.*)
THEOREM RestartsStayRationed == SupervisorSpec => []RestartsAreRationed
<1>1. SupervisorInit => Rationed
  <2>1. Within({}) = {} /\ Cardinality({}) = 0
    BY FS_EmptySet DEF Within
  <2> QED BY <2>1, SupervisorAssumption DEF SupervisorInit, Rationed
<1>2. SupervisorInv /\ Rationed /\ [SupervisorNext]_supervisorVars => Rationed'
  <2> SUFFICES ASSUME SupervisorInv, Rationed, [SupervisorNext]_supervisorVars PROVE Rationed'
    OBVIOUS
  <2>1. CASE Tick
    BY <2>1, TickRations DEF SupervisorInv
  <2>2. ASSUME NEW r \in Requests, Apply(r) PROVE relaunched' = {} \/ UNCHANGED <<restarts, relaunched>>
    BY <2>2 DEF Apply, SetEnabled
  <2>3. CASE ~Tick
    <3>1. relaunched' = {} \/ UNCHANGED <<restarts, relaunched>>
      BY <2>2, <2>3 DEF SupervisorNext, Retry, RequestStep, ReadFile, CreateFile, WriteFile, UpsertFails, Ask, HelperExits,
         DaemonStarts, DaemonStops, DaemonExits, DaemonDies, Gone, supervisor, supervisorVars, SupervisorInv, DownIsEmpty
    <3> QED BY <3>1, FreshRation
  <2> QED BY <2>1, <2>3
<1>3. Rationed => RestartsAreRationed
  BY DEF Rationed, RestartsAreRationed, Within
<1> QED BY <1>1, <1>2, <1>3, SupervisorInitInv, SupervisorNextInv, PTL DEF SupervisorSpec

-----------------------------------------------------------------------------
(* The compression: any processes, blocks, events and days.                *)

(* the foreign key of block_events *)
LinksAreThere == \A s \in Slots : Live(s) => rows[s].links \subseteq events

(* the daemon compresses up to a horizon there was *)
LatchIsCutoff ==
    (\E stage \in {"clear", "snapshot", "delete", "latch"} : IsAt(Daemon, stage))
        => doing[Daemon].day \in Cutoffs

CompressionInv == CompressionTypeOK /\ LinksAreThere /\ LatchIsCutoff

LEMMA AtRestIsDoing == AtRest \in Doing
  BY DEF AtRest, Doing

LEMMA CompressionInitInv == CompressionInit => CompressionInv
<1> SUFFICES ASSUME CompressionInit PROVE CompressionInv
  OBVIOUS
<1>1. horizon \in 1 .. LastHorizon /\ 0 \in 0 .. MaxCommands /\ 0 \in 0 .. MaxFailures
  BY CompressionAssumption DEF CompressionInit
<1>2. doing \in [Processes -> Doing] /\ doing[Daemon].at = "idle"
  BY AtRestIsDoing DEF CompressionInit, Processes, AtRest
<1>3. CompressionTypeOK
  <2>1. rows \in [Slots -> Block \cup {None}] /\ events \in SUBSET Events
    BY DEF CompressionInit
  <2>2. /\ horizon \in 1 .. LastHorizon /\ commands \in 0 .. MaxCommands /\ failures \in 0 .. MaxFailures
        /\ preprune \in (SUBSET Events) \cup {None} /\ latch \in Cutoffs \cup {None}
    BY <1>1 DEF CompressionInit
  <2> QED BY <1>2, <2>1, <2>2 DEF CompressionTypeOK
<1> QED BY <1>2, <1>3 DEF CompressionInit, CompressionInv, LinksAreThere, LatchIsCutoff, Live, IsAt

-----------------------------------------------------------------------------
(* What a step of p does to what p does.                                   *)
DoingOK == doing \in [Processes -> Doing] /\ LatchIsCutoff

LEMMA Begun ==
  ASSUME DoingOK, NEW p \in Processes, NEW date \in Nat, NEW seen \in SUBSET Events,
         NEW stage \in {"clear", "check", "collect"}, Begins(p, stage, date, seen),
         p = Daemon /\ stage = "clear" => date \in Cutoffs
  PROVE  DoingOK'
<1>1. [at |-> stage, day |-> date, seen |-> seen] \in Doing
  BY DEF Doing
<1>2. doing' \in [Processes -> Doing]
  BY <1>1 DEF DoingOK, Begins
<1> QED BY <1>2 DEF DoingOK, Begins, LatchIsCutoff, IsAt, Processes

LEMMA Continued ==
  ASSUME DoingOK, NEW p \in Processes, NEW stage \in {"snapshot", "delete", "latch", "write"},
         Continues(p, stage),
         stage = "write" \/ IsAt(p, "clear") \/ IsAt(p, "snapshot") \/ IsAt(p, "delete")
  PROVE  DoingOK'
<1>1. [doing[p] EXCEPT !.at = stage] \in Doing
  BY DEF DoingOK, Doing
<1>2. doing' = [doing EXCEPT ![p] = [doing[p] EXCEPT !.at = stage]]
  BY DEF Continues
<1>3. doing' \in [Processes -> Doing]
  BY <1>1, <1>2 DEF DoingOK
<1>4. p = Daemon => doing'[p].at = stage /\ doing'[p].day = doing[p].day
  BY <1>2 DEF DoingOK, Doing
<1>5. LatchIsCutoff'
  <2>1. CASE p = Daemon
    BY <1>4, <2>1 DEF DoingOK, LatchIsCutoff, IsAt
  <2>2. CASE p # Daemon
    BY <1>2, <2>2 DEF DoingOK, LatchIsCutoff, IsAt, Processes
  <2> QED BY <2>1, <2>2
<1> QED BY <1>3, <1>5 DEF DoingOK

LEMMA Finished ==
  ASSUME DoingOK, NEW p \in Processes, Finishes(p)
  PROVE  DoingOK' /\ doing'[p] = AtRest
<1>1. doing' \in [Processes -> Doing] /\ doing'[p] = AtRest
  BY AtRestIsDoing DEF DoingOK, Finishes
<1> QED BY <1>1 DEF DoingOK, Finishes, LatchIsCutoff, IsAt, AtRest, Processes

LEMMA Unmoved == DoingOK /\ doing' = doing => DoingOK'
  BY DEF DoingOK, LatchIsCutoff, IsAt

-----------------------------------------------------------------------------
(* The counters and the clock.                                             *)
Counted == commands \in 0 .. MaxCommands /\ failures \in 0 .. MaxFailures

LEMMA CountersAreKept ==
  ASSUME Counted, Commanded \/ commands' = commands,
         failures' = failures \/ (failures < MaxFailures /\ failures' = failures + 1)
  PROVE  Counted'
  BY CompressionAssumption DEF Counted, Commanded

(* Steps that leave events and blocks alone.                               *)
LEMMA AsideInv ==
  ASSUME CompressionInv, DoingOK', Counted', UNCHANGED <<events, rows>>, horizon' \in 1 .. LastHorizon,
         preprune' \in (SUBSET Events) \cup {None}, latch' \in Cutoffs \cup {None}
  PROVE  CompressionInv'
  BY DEF CompressionInv, CompressionTypeOK, LinksAreThere, Live, DoingOK, Counted

(* Steps that change them.                                                 *)
LEMMA RowsInv ==
  ASSUME CompressionInv, DoingOK', Counted', UNCHANGED <<horizon, preprune, latch>>, events' \in SUBSET Events,
         rows' \in [Slots -> Block \cup {None}],
         \A s \in Slots : rows'[s] # None => rows'[s].links \subseteq events'
  PROVE  CompressionInv'
  BY DEF CompressionInv, CompressionTypeOK, LinksAreThere, Live, DoingOK, Counted

LEMMA InvParts == CompressionInv => DoingOK /\ Counted
  BY DEF CompressionInv, CompressionTypeOK, DoingOK, Counted

-----------------------------------------------------------------------------
LEMMA PruneInv ==
  ASSUME CompressionInv, PruneIfDue \/ SetLatch \/ \E p \in Processes : ClearSnapshot(p) \/ TakeSnapshot(p) \/ PruneFails(p)
  PROVE  CompressionInv'
<1>0. Daemon \in Processes /\ DoingOK /\ Counted
  BY InvParts DEF Processes
<1>1. horizon \in Nat /\ horizon \in Cutoffs
  BY CompressionAssumption DEF CompressionInv, CompressionTypeOK, Cutoffs
<1>2. DoingOK'
  <2>1. CASE PruneIfDue
    BY <1>0, <1>1, <2>1, Begun DEF PruneIfDue
  <2>2. CASE SetLatch
    BY <1>0, <2>2, Finished DEF SetLatch
  <2>3. ASSUME NEW p \in Processes, ClearSnapshot(p) \/ TakeSnapshot(p) \/ PruneFails(p) PROVE DoingOK'
    BY <1>0, <2>3, Continued, Finished DEF ClearSnapshot, TakeSnapshot, PruneFails
  <2> QED BY <2>1, <2>2, <2>3
<1>3. Counted'
  BY <1>0, CountersAreKept DEF PruneIfDue, SetLatch, ClearSnapshot, TakeSnapshot, PruneFails
<1>4. UNCHANGED <<events, rows, horizon>>
  BY DEF PruneIfDue, SetLatch, ClearSnapshot, TakeSnapshot, PruneFails
<1>5. preprune' \in (SUBSET Events) \cup {None} /\ latch' \in Cutoffs \cup {None}
  <2>1. SetLatch => doing[Daemon].day \in Cutoffs
    BY <1>0 DEF SetLatch, DoingOK, LatchIsCutoff
  <2>2. ASSUME NEW p \in Processes, TakeSnapshot(p) PROVE preprune' \in {preprune, events} /\ latch' = latch
    BY <2>2 DEF TakeSnapshot
  <2>3. ASSUME NEW p \in Processes, ClearSnapshot(p) \/ PruneFails(p)
        PROVE  preprune' \in {preprune, None} /\ latch' = latch
    BY <2>3 DEF ClearSnapshot, PruneFails
  <2>4. SetLatch => preprune' = preprune /\ latch' \in Cutoffs
    BY <2>1 DEF SetLatch
  <2>5. PruneIfDue => preprune' = preprune /\ latch' = latch
    BY DEF PruneIfDue
  <2> QED BY <2>2, <2>3, <2>4, <2>5 DEF CompressionInv, CompressionTypeOK
<1> QED BY <1>2, <1>3, <1>4, <1>5, AsideInv DEF CompressionInv, CompressionTypeOK

LEMMA PurgeRowsInv ==
  ASSUME CompressionInv, NEW p \in Processes, PurgeRows(p)
  PROVE  CompressionInv'
<1> DEFINE gone == Expired(doing[p].day)
           left(s) == [links |-> rows[s].links \ gone, card |-> CardOf(s, doing[p].day)]
<1>1. DoingOK' /\ Counted'
  BY InvParts, Continued, Finished, CountersAreKept DEF PurgeRows
<1>2. events' = events \ gone /\ rows' = [s \in Slots |-> IF Live(s) THEN left(s) ELSE None]
  BY DEF PurgeRows
<1>3. ASSUME NEW s \in Slots, Live(s) PROVE left(s) \in Block /\ left(s).links \subseteq events \ gone
  BY <1>3 DEF CardOf, CompressionInv, CompressionTypeOK, LinksAreThere, Live, Block
<1>4. rows' \in [Slots -> Block \cup {None}] /\ \A s \in Slots : rows'[s] # None => rows'[s].links \subseteq events'
  <2> HIDE DEF left, gone
  <2> QED BY <1>2, <1>3
<1>5. UNCHANGED <<horizon, preprune, latch>> /\ events' \in SUBSET Events
  BY DEF PurgeRows, CompressionInv, CompressionTypeOK
<1> QED BY <1>1, <1>4, <1>5, RowsInv

LEMMA RebuildInv ==
  ASSUME CompressionInv, NEW p \in Processes, RebuildStep(p) \/ \E d \in Days : Rebuild(p, d)
  PROVE  CompressionInv'
<1>0. DoingOK /\ Counted
  BY InvParts
<1>1. \A d \in Days : d \in Nat
  BY CompressionAssumption DEF Days
<1>2. DoingOK'
  BY <1>0, <1>1, Begun, Continued, Finished DEF RebuildStep, CheckDay, WriteDay, Rebuild, CompressionInv, CompressionTypeOK
<1>3. Counted'
  BY <1>0, CountersAreKept DEF RebuildStep, CheckDay, WriteDay, Rebuild
<1>4. CASE WriteDay(p)
  <2>1. doing[p].seen \subseteq Events
    BY <1>0 DEF DoingOK, Doing
  <2>2. /\ rows' \in [Slots -> Block \cup {None}]
        /\ \A s \in Slots : rows'[s] # None => rows'[s].links \subseteq events
    <3> DEFINE links(s) == LinksOf(p, s) \cap events
               row(s) == [links |-> links(s), card |-> None]
    <3>1. \A s \in Slots : row(s) \in Block /\ row(s).links \subseteq events
      BY DEF CompressionInv, CompressionTypeOK, Block
    <3>2. \A s \in Slots : rows[s] \in Block \cup {None} /\ (rows[s] # None => rows[s].links \subseteq events)
      BY DEF CompressionInv, CompressionTypeOK, LinksAreThere, Live
    <3>3. rows' = [s \in Slots |-> IF s.day # doing[p].day \/ ~LinksHold(p) THEN rows[s]
                                  ELSE IF LinksOf(p, s) = {} THEN None ELSE row(s)]
      BY <1>4 DEF WriteDay
    <3> HIDE DEF row
    <3> QED BY <3>1, <3>2, <3>3
  <2> QED BY <1>2, <1>3, <1>4, <2>2, RowsInv DEF WriteDay, CompressionInv, CompressionTypeOK
<1>5. CASE CheckDay(p) \/ \E d \in Days : Rebuild(p, d)
  BY <1>2, <1>3, <1>5, AsideInv DEF CheckDay, Rebuild, CompressionInv, CompressionTypeOK
<1> QED BY <1>4, <1>5 DEF RebuildStep

LEMMA CommandInv ==
  ASSUME CompressionInv,
         \/ \E p \in Terminals : (\E c \in Cutoffs : Purge(p, c)) \/ (\E d \in Days : Collect(p, d))
         \/ \E p \in Processes : CollectEnds(p) \/ \E e \in Events : CollectEvent(p, e)
         \/ Midnight
  PROVE  CompressionInv'
<1>0. DoingOK /\ Counted /\ horizon \in Nat
  BY InvParts DEF CompressionInv, CompressionTypeOK
<1>1. /\ \A d \in Days : d \in Nat
      /\ \A c \in Cutoffs : c \in Nat
      /\ \A p \in Terminals : p \in Processes /\ p # Daemon
  BY CompressionAssumption DEF Days, Cutoffs, Processes
<1>2. DoingOK'
  <2>1. ASSUME NEW p \in Terminals, NEW c \in Cutoffs, Purge(p, c) PROVE DoingOK'
    BY <1>0, <1>1, <2>1, Begun DEF Purge
  <2>2. ASSUME NEW p \in Terminals, NEW d \in Days, Collect(p, d) PROVE DoingOK'
    BY <1>0, <1>1, <2>2, Begun DEF Collect
  <2>3. ASSUME NEW p \in Processes, CollectEnds(p) PROVE DoingOK'
    BY <1>0, <2>3, Finished DEF CollectEnds
  <2>4. CASE Midnight \/ \E p \in Processes, e \in Events : CollectEvent(p, e)
    BY <1>0, <2>4, Unmoved DEF Midnight, CollectEvent
  <2> QED BY <2>1, <2>2, <2>3, <2>4
<1>3. Counted'
  BY <1>0, CountersAreKept DEF Purge, Collect, CollectEnds, CollectEvent, Midnight
<1>4. CASE \E p \in Processes, e \in Events : CollectEvent(p, e)
  <2>1. events \subseteq events' /\ events' \in SUBSET Events
    BY <1>4 DEF CollectEvent, CompressionInv, CompressionTypeOK
  <2> QED BY <1>2, <1>3, <1>4, <2>1, RowsInv DEF CollectEvent, CompressionInv, CompressionTypeOK, LinksAreThere, Live
<1>5. CASE Midnight
  <2>1. horizon' \in 1 .. LastHorizon
    BY <1>5, CompressionAssumption DEF Midnight, CompressionInv, CompressionTypeOK
  <2> QED BY <1>2, <1>3, <1>5, <2>1, AsideInv DEF Midnight, CompressionInv, CompressionTypeOK
<1>6. CASE UNCHANGED <<horizon, events, rows, preprune, latch>>
  BY <1>2, <1>3, <1>6, AsideInv DEF CompressionInv, CompressionTypeOK
<1> QED BY <1>4, <1>5, <1>6 DEF Purge, Collect, CollectEnds

LEMMA OwnerInv ==
  ASSUME CompressionInv, NEW s \in Slots,
         DeleteBlock(s) \/ (\E t \in Slots : MergeBlocks(s, t)) \/ (\E e \in Events : MoveIntoBlock(e, s))
  PROVE  CompressionInv'
<1>1. DoingOK' /\ Counted'
  BY InvParts, Unmoved, CountersAreKept DEF DeleteBlock, MergeBlocks, MoveIntoBlock
<1>2. UNCHANGED <<horizon, events, preprune, latch>>
  BY DEF DeleteBlock, MergeBlocks, MoveIntoBlock
<1>3. /\ rows' \in [Slots -> Block \cup {None}]
      /\ \A t \in Slots : rows'[t] # None => rows'[t].links \subseteq events
  <2>1. CASE DeleteBlock(s)
    BY <2>1 DEF DeleteBlock, CompressionInv, CompressionTypeOK, LinksAreThere, Live
  <2>2. ASSUME NEW links \in SUBSET events, Live(s) PROVE [rows[s] EXCEPT !.links = links] \in Block
    BY <2>2 DEF CompressionInv, CompressionTypeOK, Live, Block
  <2>3. ASSUME NEW t \in Slots, MergeBlocks(s, t)
        PROVE  /\ rows' \in [Slots -> Block \cup {None}]
               /\ \A u \in Slots : rows'[u] # None => rows'[u].links \subseteq events
    <3> DEFINE row == [rows[s] EXCEPT !.links = rows[s].links \cup rows[t].links]
    <3>1. Live(s) /\ Live(t) /\ s # t /\ rows' = [rows EXCEPT ![s] = row, ![t] = None]
      BY <2>3 DEF MergeBlocks, CompressionInv, CompressionTypeOK
    <3>2. row \in Block /\ row.links = rows[s].links \cup rows[t].links
      BY <2>2, <3>1 DEF CompressionInv, LinksAreThere, CompressionTypeOK, Live, Block
    <3> HIDE DEF row
    <3> QED BY <3>1, <3>2 DEF CompressionInv, CompressionTypeOK, LinksAreThere, Live
  <2>4. ASSUME NEW e \in Events, MoveIntoBlock(e, s)
        PROVE  /\ rows' \in [Slots -> Block \cup {None}]
               /\ \A u \in Slots : rows'[u] # None => rows'[u].links \subseteq events
    <3> DEFINE row == [rows[s] EXCEPT !.links = rows[s].links \cup {e}]
    <3>1. Live(s) /\ e \in events /\ rows' = [rows EXCEPT ![s] = row]
      BY <2>4 DEF MoveIntoBlock, CompressionInv, CompressionTypeOK
    <3>2. row \in Block /\ row.links = rows[s].links \cup {e}
      BY <2>2, <3>1 DEF CompressionInv, LinksAreThere, CompressionTypeOK, Live, Block
    <3> HIDE DEF row
    <3> QED BY <3>1, <3>2 DEF CompressionInv, CompressionTypeOK, LinksAreThere, Live
  <2> QED BY <2>1, <2>3, <2>4
<1> QED BY <1>1, <1>2, <1>3, RowsInv DEF CompressionInv, CompressionTypeOK

LEMMA CompressionNextInv == CompressionInv /\ [CompressionNext]_compressionVars => CompressionInv'
<1>1. CompressionInv /\ UNCHANGED compressionVars => CompressionInv'
  BY DEF compressionVars, CompressionInv, CompressionTypeOK, LinksAreThere, LatchIsCutoff, Live, IsAt
<1> QED BY <1>1, PruneInv, PurgeRowsInv, RebuildInv, CommandInv, OwnerInv DEF CompressionNext, PruneStep

(* Types: also that the latch only ever names a horizon there was.         *)
THEOREM CompressionIsTyped == CompressionSpec => []CompressionTypeOK
<1>1. CompressionInv => CompressionTypeOK  BY DEF CompressionInv
<1> QED BY <1>1, CompressionInitInv, CompressionNextInv, PTL DEF CompressionSpec

-----------------------------------------------------------------------------
(* Nothing but the deletion takes an event away.                           *)
LEMMA OnlyPurgeDeletes ==
  ASSUME CompressionInv, [CompressionNext]_compressionVars, \A p \in Processes : ~PurgeRows(p)
  PROVE  events \subseteq events'
  BY DEF CompressionNext, PruneStep, RebuildStep, PruneIfDue, SetLatch, Midnight, ClearSnapshot, TakeSnapshot,
     PruneFails, CheckDay, WriteDay, CollectEnds, CollectEvent, Rebuild, Purge, Collect, DeleteBlock,
     MergeBlocks, MoveIntoBlock, compressionVars

(* Events are deleted only from under blocks that keep a card of them, at  *)
(* any interleaving of compressions, rebuilds, collections and the owner.  *)
THEOREM CardsHoldWhatIsDeleted == CompressionSpec => EvidenceOutlivesEvents
<1> DEFINE Kept == \A s \in Slots :
          LET lost == rows[s].links \ events'
          IN  Live(s) /\ Live(s)' /\ lost # {} =>
                 /\ Carded(s)'
                 /\ Carded(s) \/ lost \subseteq rows'[s].card
<1>1. CompressionInv /\ [CompressionNext]_compressionVars => [Kept]_compressionVars
  <2> SUFFICES ASSUME CompressionInv, [CompressionNext]_compressionVars, NEW s \in Slots, Live(s), Live(s)',
                      rows[s].links \ events' # {}
               PROVE  /\ Carded(s)'
                      /\ Carded(s) \/ (rows[s].links \ events') \subseteq rows'[s].card
    OBVIOUS
  <2>1. rows[s].links \subseteq events
    BY DEF CompressionInv, LinksAreThere
  <2>2. PICK p \in Processes : PurgeRows(p)
    BY <2>1, OnlyPurgeDeletes
  <2>3. /\ events' = events \ Expired(doing[p].day)
        /\ rows'[s].card = CardOf(s, doing[p].day)
    BY <2>2 DEF PurgeRows
  <2>4. s.day < doing[p].day
    <3>1. PICK e \in rows[s].links : e \in Expired(doing[p].day)
      BY <2>1, <2>3
    <3>2. ~(s.day >= doing[p].day)
      BY <3>1 DEF Expired
    <3> QED BY <3>2, CompressionAssumption DEF CompressionInv, CompressionTypeOK, Doing
  <2>5. CASE Carded(s)
    BY <2>3, <2>5 DEF CardOf, Carded, Live
  <2>6. CASE ~Carded(s)
    <3>1. rows'[s].card = rows[s].links
      BY <2>3, <2>4, <2>6 DEF CardOf
    <3>2. rows[s].links # None
      BY CompressionAssumption, <2>1 DEF CompressionInv, CompressionTypeOK
    <3> QED BY <3>1, <3>2 DEF Carded
  <2> QED BY <2>5, <2>6
<1> QED BY <1>1, CompressionInitInv, CompressionNextInv, PTL DEF CompressionSpec, EvidenceOutlivesEvents

(* A rebuild that read events which a compression has deleted since does   *)
(* not replace the card the compression made of them.                      *)
THEOREM RebuildsRespectCards == CompressionSpec => CompressionIsNotUndone
<1> DEFINE Kept == \A p \in Processes, s \in Slots :
          (/\ IsAt(p, "write") /\ doing'[p] = AtRest /\ Carded(s)
           /\ \E e \in (rows[s].card \cap doing[p].seen) \ events :
                 e.slot.day = doing[p].day /\ s.day = doing[p].day)
          => rows'[s] = rows[s]
<1>1. CompressionInv /\ [CompressionNext]_compressionVars => [Kept]_compressionVars
  <2> SUFFICES ASSUME CompressionInv, CompressionNext, NEW p \in Processes, NEW s \in Slots, IsAt(p, "write"),
                      doing'[p] = AtRest,
                      NEW e \in (rows[s].card \cap doing[p].seen) \ events, e.slot.day = doing[p].day
               PROVE  rows'[s] = rows[s]
    OBVIOUS
  <2>1. doing \in [Processes -> Doing] /\ doing[p] # AtRest
    BY DEF CompressionInv, CompressionTypeOK, IsAt, AtRest
  <2>2. UNCHANGED rows \/ WriteDay(p)
    <3>1. \A q \in Processes : q # p => /\ ~PurgeRows(q) /\ ~WriteDay(q)
      BY <2>1 DEF PurgeRows, WriteDay, Continues, Finishes
    <3>2. ~PurgeRows(p)
      BY DEF PurgeRows, IsAt
    <3>3. doing' # doing
      BY <2>1
    <3> QED BY <3>1, <3>2, <3>3 DEF CompressionNext, PruneStep, RebuildStep, PruneIfDue, SetLatch, Midnight,
        ClearSnapshot, TakeSnapshot, PruneFails, CheckDay, CollectEnds, CollectEvent, Rebuild, Purge, Collect,
        DeleteBlock, MergeBlocks, MoveIntoBlock
  <2>3. ~LinksHold(p)
    <3>1. e \in Events /\ e \in doing[p].seen /\ e \notin events
      BY <2>1 DEF Doing
    <3>2. e.slot \in Slots
      BY <3>1, CompressionAssumption
    <3> QED BY <3>1, <3>2 DEF LinksHold, LinksOf
  <2> QED BY <2>2, <2>3 DEF WriteDay, CompressionInv, CompressionTypeOK
<1> QED BY <1>1, CompressionInitInv, CompressionNextInv, PTL DEF CompressionSpec, CompressionIsNotUndone

-----------------------------------------------------------------------------
(* The estimates: any number of blocks, batches, single estimates and edits.*)

(* The mark that protects the owner's words is there, or a failed reply    *)
(* has put another in its place.                                           *)
Protected(b) == b # Absent /\ b.mine => b.by \in {"manual", "gap"}

EstimatesInv == EstimatesTypeOK /\ \A i \in Blocks : Protected(day[i])

(* What a step that is not the owner's may do to a row.                    *)
Keeps(old, new, asked) ==
    old # Absent /\ new # Absent =>
        /\ old.mine /\ ~new.mine => old.by = "gap" \/ asked
        /\ old.origin = "manual" => new.origin = "manual" /\ new.ticket = old.ticket

Asked(i) == \E j \in Singles : singles[j] = i /\ singles'[j] = Absent

RowOK(b) == b \in Estimable \cup {Absent} /\ Protected(b)

Steps ==
    /\ day' \in Day
    /\ \A i \in Blocks : Protected(day'[i])
    /\ edits' = edits => \A i \in Blocks : Keeps(day[i], day'[i], Asked(i))

LEMMA NotAbsent ==
    /\ Absent \notin Estimable /\ Absent \notin Batch /\ Absent \notin Blocks /\ Absent \notin Keys
    /\ Absent \notin {"manual", "claude_p", "gap", "auto", "event"} /\ 1 \in Blocks
  BY EstimatesAssumption DEF Blocks

LEMMA RowsAre == EstimatesInv => \A i \in Blocks : RowOK(day[i])
  BY DEF EstimatesInv, EstimatesTypeOK, Day, RowOK

LEMMA DayStays == EstimatesInv /\ UNCHANGED day => Steps
  BY DEF EstimatesInv, EstimatesTypeOK, Steps, Keeps

(* A step that writes one row.                                             *)
LEMMA OneRowStep ==
  ASSUME EstimatesInv, NEW i \in Blocks, NEW new, RowOK(new), day' = [day EXCEPT ![i] = new],
         edits' = edits => Keeps(day[i], new, Asked(i))
  PROVE  Steps
  BY DEF EstimatesInv, EstimatesTypeOK, Day, Steps, Keeps, RowOK

(* An estimate's UPDATE: for a row still open, or one the owner named.     *)
LEMMA DescribedKeeps ==
  ASSUME NEW b \in Estimable, Protected(b), NEW key \in Keys \cup {Absent}, NEW asked \in BOOLEAN,
         StillOpen(b) \/ asked
  PROVE  RowOK(Described(b, key)) /\ Keeps(b, Described(b, key), asked)
<1> DEFINE ticket == IF TicketIsKept(b) THEN b.ticket ELSE key
           origin == IF TicketIsKept(b) \/ key = b.ticket THEN b.origin
                     ELSE IF key = Absent THEN Absent ELSE "auto"
           new == [b EXCEPT !.mine = FALSE, !.by = "claude_p", !.ticket = ticket, !.origin = origin]
<1>1. ticket \in Keys \cup {Absent} /\ origin \in {"manual", "auto", "event", Absent}
  BY DEF Estimable
<1>2. b.origin = "manual" => origin = "manual" /\ ticket = b.ticket
  BY DEF TicketIsKept
<1>3. Described(b, key) = new
  BY DEF Described
<1> HIDE DEF ticket, origin
<1>4. new \in Estimable /\ ~new.mine /\ new.by = "claude_p" /\ new.ticket = ticket /\ new.origin = origin
  BY <1>1 DEF Estimable
<1> HIDE DEF new
<1>5. RowOK(new)
  BY <1>4 DEF RowOK, Protected
<1>6. b.mine => b.by = "gap" \/ asked
  BY NotAbsent DEF Protected, StillOpen
<1>7. Keeps(b, new, asked)
  BY <1>2, <1>4, <1>6 DEF Keeps
<1> QED BY <1>3, <1>5, <1>7

-----------------------------------------------------------------------------
(* The writes of a batch. *)

LEMMA MeetingSteps ==
  ASSUME EstimatesInv, NEW r \in Batches, NEW i \in Blocks, DescribeMeeting(r, i)
  PROVE  Steps
<1>1. RowOK(day[i])
  BY RowsAre
<1>2. CASE Exists(i) /\ day[i].by # "manual"
  <2> DEFINE new == [day[i] EXCEPT !.mine = FALSE, !.by = "claude_p"]
  <2>1. day' = [day EXCEPT ![i] = new] /\ day[i] \in Estimable /\ Protected(day[i])
    BY <1>1, <1>2 DEF DescribeMeeting, Exists, RowOK
  <2>2. /\ new \in Estimable /\ ~new.mine /\ new.ticket = day[i].ticket
        /\ new.origin = day[i].origin
    BY <2>1 DEF Estimable
  <2> HIDE DEF new
  <2>3. RowOK(new)
    BY <2>2 DEF RowOK, Protected
  <2>4. Keeps(day[i], new, Asked(i))
    BY <1>2, <2>1, <2>2 DEF Keeps, Protected
  <2> QED BY <2>1, <2>3, <2>4, OneRowStep
<1>3. CASE ~(Exists(i) /\ day[i].by # "manual")
  <2>1. UNCHANGED day
    BY <1>3 DEF DescribeMeeting, EstimatesInv, EstimatesTypeOK, Day
  <2> QED BY <2>1, DayStays
<1> QED BY <1>2, <1>3

LEMMA ReplySteps ==
  ASSUME EstimatesInv, NEW r \in Batches, NEW i \in Blocks, NEW key \in Keys \cup {Absent},
         ApplyReply(r, i, key)
  PROVE  Steps
<1>1. RowOK(day[i])
  BY RowsAre
<1>2. CASE Exists(i) /\ StillOpen(day[i])
  <2>1. day' = [day EXCEPT ![i] = Described(day[i], key)] /\ day[i] \in Estimable /\ Protected(day[i])
    BY <1>1, <1>2 DEF ApplyReply, Exists, RowOK
  <2>2. RowOK(Described(day[i], key)) /\ Keeps(day[i], Described(day[i], key), FALSE)
    BY <1>2, <2>1, DescribedKeeps
  <2>3. Keeps(day[i], Described(day[i], key), Asked(i))
    BY <2>2 DEF Keeps
  <2> QED BY <2>1, <2>2, <2>3, OneRowStep
<1>3. CASE ~(Exists(i) /\ StillOpen(day[i]))
  <2>1. UNCHANGED day
    BY <1>3 DEF ApplyReply, EstimatesInv, EstimatesTypeOK, Day
  <2> QED BY <2>1, DayStays
<1> QED BY <1>2, <1>3

LEMMA GapSteps ==
  ASSUME EstimatesInv, NEW r \in Batches, NEW i \in Blocks, MarkGap(r, i)
  PROVE  Steps
<1>1. RowOK(day[i])
  BY RowsAre
<1>2. CASE Exists(i)
  <2> DEFINE new == [day[i] EXCEPT !.by = "gap"]
  <2>1. day' = [day EXCEPT ![i] = new] /\ day[i] \in Estimable
    BY <1>1, <1>2 DEF MarkGap, Exists, RowOK
  <2>2. /\ new \in Estimable /\ new.mine = day[i].mine /\ new.by = "gap"
        /\ new.ticket = day[i].ticket /\ new.origin = day[i].origin
    BY <2>1 DEF Estimable
  <2> HIDE DEF new
  <2>3. RowOK(new) /\ Keeps(day[i], new, Asked(i))
    BY <2>2 DEF RowOK, Protected, Keeps
  <2> QED BY <2>1, <2>3, OneRowStep
<1>3. CASE ~Exists(i)
  <2>1. UNCHANGED day
    BY <1>3 DEF MarkGap, EstimatesInv, EstimatesTypeOK, Day
  <2> QED BY <2>1, DayStays
<1> QED BY <1>2, <1>3

LEMMA PickSteps ==
  ASSUME EstimatesInv, NEW r \in Batches, NEW i \in Blocks, NEW key \in Keys \cup {Absent},
         VerdictPicks(r, i, key)
  PROVE  Steps
<1>1. RowOK(day[i])
  BY RowsAre
<1> DEFINE open == /\ key # Absent /\ Exists(i) /\ day[i].origin \in {Absent, "auto"}
                   /\ <<day[i].ticket, day[i].origin>> # <<key, "auto">>
<1>2. CASE open
  <2> DEFINE new == [day[i] EXCEPT !.ticket = key, !.origin = "auto"]
  <2>1. day' = [day EXCEPT ![i] = new]
    BY <1>2 DEF VerdictPicks, EstimatesInv, EstimatesTypeOK, Day
  <2>2. day[i] \in Estimable /\ day[i].origin # "manual" /\ Protected(day[i]) /\ key \in Keys
    BY <1>1, <1>2, NotAbsent DEF Exists, RowOK
  <2>3. new \in Estimable /\ new.mine = day[i].mine /\ new.by = day[i].by
    BY <2>2 DEF Estimable
  <2> HIDE DEF new
  <2>4. RowOK(new) /\ Keeps(day[i], new, Asked(i))
    BY <2>2, <2>3, NotAbsent DEF RowOK, Protected, Keeps
  <2> QED BY <2>1, <2>4, OneRowStep
<1>3. CASE ~open
  <2>1. UNCHANGED day
    BY <1>3 DEF VerdictPicks
  <2> QED BY <2>1, DayStays
<1> QED BY <1>2, <1>3

LEMMA FoldSteps ==
  ASSUME EstimatesInv, NEW r \in Batches, batches[r] \in Batch, FoldNext(r)
  PROVE  Steps
<1> DEFINE a == batches[r].pos
<1>1. CASE UNCHANGED day
  BY <1>1, DayStays
<1>2. CASE ~UNCHANGED day
  <2>1. PICK b \in Following(r) :
           /\ ~RowMissing(r, a, b) /\ Foldable(r, a, b)
           /\ day' = [day EXCEPT ![a].origin = IF day[b].origin = "manual" THEN "manual" ELSE @,
                                 ![b] = Absent]
    BY <1>2 DEF FoldNext
  <2>2. a \in Blocks /\ b \in Blocks /\ a # b
    <3>1. a \in Blocks
      BY DEF Batch
    <3>2. b \in Blocks /\ b > a
      BY DEF Following
    <3>3. a \in Nat /\ b \in Nat
      BY <3>1, <3>2, EstimatesAssumption DEF Blocks
    <3> QED BY <3>1, <3>2, <3>3
  <2>3. RowOK(day[a]) /\ Exists(a) /\ day[a] \in Estimable
    BY <2>1, <2>2, RowsAre DEF RowMissing, Foldable, Exists, RowOK
  <2> DEFINE origin == IF day[b].origin = "manual" THEN "manual" ELSE day[a].origin
             new == [day[a] EXCEPT !.origin = origin]
  <2>4. day' = [[day EXCEPT ![a] = new] EXCEPT ![b] = Absent]
    BY <2>1, <2>2, <2>3 DEF EstimatesInv, EstimatesTypeOK, Day
  <2>5. /\ new \in Estimable /\ new.mine = day[a].mine /\ new.by = day[a].by
        /\ new.ticket = day[a].ticket /\ (day[a].origin = "manual" => new.origin = "manual")
    BY <2>3 DEF Estimable
  <2> HIDE DEF new
  <2>6. Protected(new) /\ Keeps(day[a], new, Asked(a)) /\ Protected(Absent)
    BY <2>3, <2>5 DEF Protected, Keeps, RowOK, Exists
  <2>7. \A i \in Blocks : day'[i] = IF i = b THEN Absent ELSE IF i = a THEN new ELSE day[i]
    BY <2>2, <2>4 DEF EstimatesInv, EstimatesTypeOK, Day
  <2>8. day' \in Day
    BY <2>2, <2>4, <2>5 DEF EstimatesInv, EstimatesTypeOK, Day
  <2>9. \A i \in Blocks : Protected(day'[i]) /\ Keeps(day[i], day'[i], Asked(i))
    BY <2>6, <2>7 DEF EstimatesInv, Keeps
  <2> QED BY <2>8, <2>9 DEF Steps
<1> QED BY <1>1, <1>2

-----------------------------------------------------------------------------
(* The single estimates and the owner. *)

LEMMA CommitSteps ==
  ASSUME EstimatesInv, NEW j \in Singles, NEW key \in Keys \cup {Absent}, CommitSingle(j, key)
  PROVE  Steps
<1> DEFINE i == singles[j]
<1>1. i \in Blocks /\ RowOK(day[i])
  BY RowsAre DEF CommitSingle, EstimatesInv, EstimatesTypeOK
<1>2. Asked(i)
  BY DEF CommitSingle, Asked, EstimatesInv, EstimatesTypeOK
<1>3. CASE Exists(i)
  <2>1. day' = [day EXCEPT ![i] = Described(day[i], key)] /\ day[i] \in Estimable /\ Protected(day[i])
    BY <1>1, <1>3 DEF CommitSingle, Exists, RowOK
  <2>2. RowOK(Described(day[i], key)) /\ Keeps(day[i], Described(day[i], key), TRUE)
    BY <2>1, DescribedKeeps
  <2>3. Keeps(day[i], Described(day[i], key), Asked(i))
    BY <1>2, <2>2 DEF Keeps
  <2> QED BY <1>1, <2>1, <2>2, <2>3, OneRowStep
<1>4. CASE ~Exists(i)
  <2>1. UNCHANGED day
    BY <1>4 DEF CommitSingle, EstimatesInv, EstimatesTypeOK, Day
  <2> QED BY <2>1, DayStays
<1> QED BY <1>3, <1>4

LEMMA OwnerSteps ==
  ASSUME EstimatesInv, NEW i \in Blocks, OwnerEdits(i)
  PROVE  Steps /\ edits' \in 0 .. MaxEdits /\ UNCHANGED <<batches, singles>>
<1>1. PICK row : OwnerSets(i, row) /\ RowOK(row)
  <2>1. ASSUME Exists(i)
        PROVE  /\ RowOK([day[i] EXCEPT !.mine = TRUE, !.by = "manual"])
               /\ RowOK([day[i] EXCEPT !.by = "manual"])
               /\ \A key \in Keys : RowOK([day[i] EXCEPT !.ticket = key, !.origin = "manual",
                                                         !.personal = FALSE])
               /\ RowOK([day[i] EXCEPT !.ticket = Absent, !.origin = "manual"])
               /\ \A p \in BOOLEAN : RowOK([day[i] EXCEPT !.personal = p])
               /\ RowOK([day[i] EXCEPT !.sent = TRUE])
               /\ RowOK([day[i] EXCEPT !.split = TRUE])
    <3>1. day[i] \in Estimable /\ Protected(day[i])
      BY <2>1, RowsAre DEF Exists, RowOK
    <3>2. day[i].mine => day[i].by \in {"manual", "gap"}
      BY <3>1, NotAbsent DEF Protected
    <3> QED BY <3>1, <3>2 DEF RowOK, Protected, Estimable
  <2>2. RowOK(Absent)
    BY DEF RowOK, Protected
  <2>3. \A row : OwnerSets(i, row) => Exists(i)
    BY DEF OwnerSets
  <2> QED BY <2>1, <2>2, <2>3 DEF OwnerEdits
<1>2. edits \in 0 .. MaxEdits /\ MaxEdits \in Nat /\ edits < MaxEdits /\ edits' = edits + 1
  BY <1>1, EstimatesAssumption DEF OwnerSets, EstimatesInv, EstimatesTypeOK
<1>3. edits' # edits /\ edits' \in 0 .. MaxEdits
  BY <1>2
<1> QED BY <1>1, <1>3, OneRowStep DEF OwnerSets

-----------------------------------------------------------------------------
(* Runs. *)

RunsOK == batches' \in [Batches -> Batch \cup {Absent}]

LEMMA PutRun ==
  ASSUME EstimatesInv, NEW r \in Batches, NEW run \in Batch \cup {Absent},
         batches' = [batches EXCEPT ![r] = run]
  PROVE  RunsOK
  BY DEF EstimatesInv, EstimatesTypeOK, RunsOK

LEMMA BatchTyped ==
  ASSUME EstimatesInv, NEW r \in Batches, BatchStep(r)
  PROVE  RunsOK /\ UNCHANGED <<singles, edits>>
<1>1. batches \in [Batches -> Batch \cup {Absent}] /\ 1 \in Blocks
  BY NotAbsent DEF EstimatesInv, EstimatesTypeOK
<1>2. UNCHANGED <<singles, edits>>
  BY DEF BatchStep, StartBatch, StartFold, FoldNext, EndFold, StopBatch, DescribeMeeting, MarkGap,
         ApplyReply, VerdictPicks
<1>3. ASSUME NEW i \in Blocks, batches[r] # Absent, batches' = Later(r, i) PROVE RunsOK
  BY <1>1, <1>3 DEF Later, Batch, RunsOK
<1>4. CASE StartBatch(r)
  <2> DEFINE todo == {i \in Blocks : Exists(i) /\ ~day[i].personal /\ StillOpen(day[i])}
             new == [at |-> "replies", pos |-> 1, picked |-> FALSE, seen |-> Nothing, todo |-> todo]
  <2>1. todo \in SUBSET Blocks /\ Nothing \in [Blocks -> Read \cup {Absent}]
    BY DEF Nothing
  <2>2. batches' = [batches EXCEPT ![r] = new]
    BY <1>4 DEF StartBatch
  <2> HIDE DEF todo
  <2>3. new \in Batch
    BY <1>1, <2>1 DEF Batch
  <2> HIDE DEF new
  <2> QED BY <1>2, <2>2, <2>3, PutRun
<1>5. CASE StartFold(r)
  <2>1. batches[r] \in Batch
    BY <1>1, <1>5 DEF StartFold
  <2>2. AsRead \in [Blocks -> Read \cup {Absent}]
    BY RowsAre DEF AsRead, Read, Exists, RowOK, Estimable
  <2> HIDE DEF AsRead
  <2>3. ASSUME NEW at \in {"fold", "fold again"}
        PROVE  [batches[r] EXCEPT !.at = at, !.seen = AsRead, !.pos = 1] \in Batch
    BY <1>1, <2>1, <2>2 DEF Batch
  <2>4. \/ batches' = [batches EXCEPT ![r] = [batches[r] EXCEPT !.at = "fold", !.seen = AsRead, !.pos = 1]]
        \/ batches' = [batches EXCEPT ![r] = [batches[r] EXCEPT !.at = "fold again", !.seen = AsRead,
                                                               !.pos = 1]]
        \/ batches' = [batches EXCEPT ![r] = Absent]
    BY <1>1, <1>5, <2>1 DEF StartFold
  <2> DEFINE run(at) == [batches[r] EXCEPT !.at = at, !.seen = AsRead, !.pos = 1]
  <2>5. /\ run("fold") \in Batch /\ run("fold again") \in Batch
        /\ \/ batches' = [batches EXCEPT ![r] = run("fold")]
           \/ batches' = [batches EXCEPT ![r] = run("fold again")]
           \/ batches' = [batches EXCEPT ![r] = Absent]
    BY <2>3, <2>4
  <2> HIDE DEF run
  <2> QED BY <1>2, <2>5, PutRun
<1>6. CASE FoldNext(r)
  <2>1. batches[r] \in Batch
    BY <1>1, <1>6 DEF FoldNext, Folding, InBatch
  <2>2. PICK b \in Blocks :
           \/ batches' = [batches EXCEPT ![r] = Absent]
           \/ batches' = [batches EXCEPT ![r].seen[b] = Absent]
           \/ batches' = [batches EXCEPT ![r].pos = b]
    BY <1>6 DEF FoldNext, Following
  <2> DEFINE skipped == [batches[r] EXCEPT !.seen[b] = Absent]
             moved == [batches[r] EXCEPT !.pos = b]
  <2>3. skipped \in Batch /\ moved \in Batch
    BY <2>1 DEF Batch
  <2>4. \/ batches' = [batches EXCEPT ![r] = Absent]
        \/ batches' = [batches EXCEPT ![r] = skipped]
        \/ batches' = [batches EXCEPT ![r] = moved]
    BY <1>1, <2>1, <2>2
  <2> HIDE DEF skipped, moved
  <2> QED BY <1>2, <2>3, <2>4, PutRun
<1>7. CASE EndFold(r)
  <2> DEFINE todo == {i \in Blocks : Exists(i) /\ ~day[i].personal /\ ~day[i].sent}
             new == [batches[r] EXCEPT !.at = "verdict", !.seen = Nothing, !.pos = 1, !.todo = todo]
  <2>1. batches[r] \in Batch
    BY <1>1, <1>7 DEF EndFold, Folding, InBatch
  <2>2. todo \in SUBSET Blocks /\ Nothing \in [Blocks -> Read \cup {Absent}]
    BY DEF Nothing
  <2>3. batches' = [batches EXCEPT ![r] = Absent] \/ batches' = [batches EXCEPT ![r] = new]
    BY <1>1, <1>7, <2>1 DEF EndFold
  <2> HIDE DEF todo
  <2>4. new \in Batch
    BY <1>1, <2>1, <2>2 DEF Batch
  <2> HIDE DEF new
  <2> QED BY <1>2, <2>3, <2>4, PutRun
<1>8. CASE StopBatch(r)
  BY <1>1, <1>8 DEF StopBatch, RunsOK
<1>9. ASSUME NEW i \in Blocks, DescribeMeeting(r, i) \/ MarkGap(r, i) PROVE RunsOK
  BY <1>3, <1>9 DEF DescribeMeeting, MarkGap, AtReply, InBatch
<1>10. ASSUME NEW i \in Blocks, NEW key \in Keys \cup {Absent}, ApplyReply(r, i, key) PROVE RunsOK
  BY <1>3, <1>10 DEF ApplyReply, AtReply, InBatch
<1>11. ASSUME NEW i \in Blocks, NEW key \in Keys \cup {Absent}, VerdictPicks(r, i, key) PROVE RunsOK
  <2>1. batches[r] \in Batch
    BY <1>1, <1>11 DEF VerdictPicks, InBatch
  <2>2. PICK p \in BOOLEAN : batches' = [batches EXCEPT ![r].todo = @ \ {i}, ![r].picked = p]
    <3>1. CASE batches[r].picked
      BY <2>1, <1>11, <3>1 DEF VerdictPicks, Batch
    <3>2. CASE ~batches[r].picked
      BY <2>1, <1>11, <3>2 DEF VerdictPicks, Batch
    <3> QED BY <3>1, <3>2
  <2>3. [batches[r] EXCEPT !.todo = @ \ {i}, !.picked = p] \in Batch
    BY <2>1 DEF Batch
  <2> QED BY <1>1, <2>2, <2>3 DEF RunsOK
<1> QED BY <1>2, <1>4, <1>5, <1>6, <1>7, <1>8, <1>9, <1>10, <1>11 DEF BatchStep

LEMMA BatchSteps ==
  ASSUME EstimatesInv, NEW r \in Batches, BatchStep(r)
  PROVE  Steps
<1>1. FoldNext(r) => batches[r] \in Batch
  BY DEF FoldNext, Folding, InBatch, EstimatesInv, EstimatesTypeOK
<1>2. CASE StartBatch(r) \/ StartFold(r) \/ EndFold(r) \/ StopBatch(r)
  BY <1>2, DayStays DEF StartBatch, StartFold, EndFold, StopBatch
<1> QED BY <1>1, <1>2, FoldSteps, MeetingSteps, GapSteps, ReplySteps, PickSteps DEF BatchStep

LEMMA SingleSteps ==
  ASSUME EstimatesInv, NEW j \in Singles, SingleStep(j)
  PROVE  Steps /\ singles' \in [Singles -> Blocks \cup {Absent}] /\ UNCHANGED <<batches, edits>>
<1>1. CASE SingleFails(j) \/ \E i \in Blocks : PrepareSingle(j, i)
  BY <1>1, DayStays DEF SingleFails, PrepareSingle, EstimatesInv, EstimatesTypeOK
<1>2. ASSUME NEW key \in Keys \cup {Absent}, CommitSingle(j, key)
      PROVE  Steps /\ singles' \in [Singles -> Blocks \cup {Absent}] /\ UNCHANGED <<batches, edits>>
  BY <1>2, CommitSteps DEF CommitSingle, EstimatesInv, EstimatesTypeOK
<1> QED BY <1>1, <1>2 DEF SingleStep

LEMMA NextSteps ==
  ASSUME EstimatesInv, EstimatesNext
  PROVE  EstimatesInv' /\ Steps
<1>1. CASE \E r \in Batches : BatchStep(r)
  BY <1>1, BatchTyped, BatchSteps DEF EstimatesInv, EstimatesTypeOK, Steps, RunsOK
<1>2. CASE \E j \in Singles : SingleStep(j)
  BY <1>2, SingleSteps DEF EstimatesInv, EstimatesTypeOK, Steps
<1>3. CASE \E i \in Blocks : OwnerEdits(i)
  BY <1>3, OwnerSteps DEF EstimatesInv, EstimatesTypeOK, Steps
<1> QED BY <1>1, <1>2, <1>3 DEF EstimatesNext

LEMMA EstimatesInitInv == EstimatesInit => EstimatesInv
  BY EstimatesAssumption DEF EstimatesInit, Unestimated, EstimatesInv, EstimatesTypeOK, Day, Protected

LEMMA EstimatesNextInv == EstimatesInv /\ [EstimatesNext]_estimateVars => EstimatesInv'
<1>1. EstimatesInv /\ UNCHANGED estimateVars => EstimatesInv'
  BY DEF estimateVars, EstimatesInv, EstimatesTypeOK
<1> QED BY <1>1, NextSteps

LEMMA EstimatesSpecInv == EstimatesSpec => []EstimatesInv
  BY EstimatesInitInv, EstimatesNextInv, PTL DEF EstimatesSpec

(* Every value stays in its type.                                          *)
THEOREM EstimatesAreTyped == EstimatesSpec => []EstimatesTypeOK
<1>1. EstimatesInv => EstimatesTypeOK
  BY DEF EstimatesInv
<1> QED BY <1>1, EstimatesSpecInv, PTL

(* However many batches and estimates run while the owner edits, his words *)
(* and tickets are replaced only as OwnerEditsSurvive allows (estimate.rs, *)
(* the WHERE and CASE of its UPDATEs).                                     *)
THEOREM OwnersEditsSurvive == EstimatesSpec => OwnerEditsSurvive
<1> DEFINE Kept(i) == day[i] # Absent /\ day'[i] # Absent /\ edits' = edits =>
              /\ day[i].mine /\ ~day'[i].mine =>
                    day[i].by = "gap" \/ \E j \in Singles : singles[j] = i /\ singles'[j] = Absent
              /\ day[i].origin = "manual" => day'[i].origin = "manual" /\ day'[i].ticket = day[i].ticket
<1>1. EstimatesInv /\ [EstimatesNext]_estimateVars => [\A i \in Blocks : Kept(i)]_estimateVars
  BY NextSteps DEF Steps, Keeps, Asked
<1> QED BY <1>1, EstimatesSpecInv, PTL DEF EstimatesSpec, OwnerEditsSurvive

-----------------------------------------------------------------------------
(* The four together. *)

ServicesInv == UpdaterInv /\ SupervisorInv /\ CompressionInv /\ EstimatesInv

LEMMA ServicesStart == MCInit => ServicesInv
<1> SUFFICES ASSUME MCInit PROVE ServicesInv
  OBVIOUS
<1>1. UpdaterInit /\ SupervisorInit /\ CompressionInit /\ EstimatesInit
  BY DEF MCInit
<1> QED BY <1>1, InitInv, SupervisorInitInv, CompressionInitInv, EstimatesInitInv DEF ServicesInv

LEMMA ServicesStep == ServicesInv /\ [MCNext]_mcVars => ServicesInv'
<1> SUFFICES ASSUME ServicesInv, [MCNext]_mcVars PROVE ServicesInv'
  OBVIOUS
<1>1. /\ [UpdaterNext]_updaterVars /\ [SupervisorNext]_supervisorVars
      /\ [CompressionNext]_compressionVars /\ [EstimatesNext]_estimateVars
  BY DEF MCNext, UpdaterPart, SupervisorPart, CompressionPart, EstimatesPart, mcVars
<1> QED BY <1>1, NextInv, SupervisorNextInv, CompressionNextInv, EstimatesNextInv DEF ServicesInv

(* Whichever part acts, updater, supervisor, compression or estimator, the *)
(* state of all four keeps its types, for any constants of theirs.         *)
THEOREM ServicesAreTyped == MCSpec => []TypeOK
<1>1. ServicesInv => TypeOK
  BY DEF ServicesInv, TypeOK, UpdaterInv, SupervisorInv, CompressionInv, EstimatesInv
<1> QED BY <1>1, ServicesStart, ServicesStep, PTL DEF MCSpec
=============================================================================
