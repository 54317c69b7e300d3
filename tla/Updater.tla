------------------------------ MODULE Updater ------------------------------
(***************************************************************************)
(* `worklog self-update` (updater/mod.rs, install.rs, manifest.rs): under  *)
(* a file lock it fetches the signed manifest, stages the new program from *)
(* the full asset or from a patch of the installed one, tries it, moves    *)
(* the installed one to `.previous`, the staged one into its place, tries  *)
(* it again, and puts `.previous` back if it does not run.  Two terminals  *)
(* may run it; a process may be killed between any two steps.              *)
(***************************************************************************)
EXTENDS Naturals

CONSTANTS
    Null,
    Updaters,      \* processes that may run self-update
    LastVersion,   \* bound: releases
    Patches,       \* <<from, to>> for which the manifest has a usable patch
    Quirky         \* releases that run when staged and not when installed

Versions == 1 .. LastVersion

Released == [version : Versions, bytes : {"release"}]

OwnBuilds == [version : Versions, bytes : {"own build"}]

Programs == Released \cup OwnBuilds

(* the result of a patch on bytes it was not made for; a file half written *)
Mangled == [version |-> 0, bytes |-> "mangled"]

Partial == [version |-> 0, bytes |-> "partial"]

Spoiled == {Mangled, Partial}

Stages == {"lock", "manifest", "fetch", "write", "try staged", "clear", "back up",
           "swap", "put back", "try installed", "roll back", "remove", "restart"}

Run == [at : Stages,
        own : Versions,                  \* the version compiled into the process
        options : SUBSET {"force", "dry run"},
        target : Versions \cup {Null},   \* manifest.version
        built : Released \cup {Null},     \* what is written to the staged file
        backed : BOOLEAN]                \* had_previous

ASSUME UpdaterAssumption ==
    /\ LastVersion \in Nat \ {0} /\ Null \notin Updaters \cup Versions
    /\ Patches \subseteq (1 .. LastVersion) \X (1 .. LastVersion)
    /\ Null \notin Programs \cup Spoiled /\ Null \notin Run
    /\ Quirky \subseteq 2 .. LastVersion

VARIABLES
    latest,      \* the version the manifest names
    dest,        \* the files: the program's place,
    previous,    \*   its backup `.previous`,
    staged,      \*   and `worklog.new` in the work directory
    lock,        \* who holds `update.lock`
    runs,        \* updater -> its run, or Null
    running,     \* the program the daemon was started from, or Null
    mishaps,     \* what the code has no answer to and has happened
    past         \* the programs that were installed: a history

files == <<dest, previous, staged>>

updaterVars == <<latest, files, lock, runs, running, mishaps, past>>

Files == Programs \cup Spoiled \cup {Null}

Release(v) == [version |-> v, bytes |-> "release"]

(* "killed": while the program's place was empty or held an untried one;   *)
(* "rename": a rename failed; "kick": the daemon could not be restarted;   *)
(* "early": the daemon restarted by itself on a program not yet tried      *)
Mishaps == {"killed", "rename", "kick", "early"}

UpdaterTypeOK ==
    /\ latest \in Versions
    /\ dest \in Files /\ previous \in Files /\ staged \in Released \cup {Partial, Null}
    /\ lock \in Updaters \cup {Null}
    /\ runs \in [Updaters -> Run \cup {Null}]
    /\ running \in Files
    /\ mishaps \subseteq Mishaps
    /\ past \subseteq Programs

(* while its place is empty the program is in the backup *)
Installed == IF dest # Null THEN dest ELSE previous

UpdaterInit ==
    /\ latest = 1
    /\ dest \in {Release(1), [version |-> 1, bytes |-> "own build"]}
    /\ previous = Null /\ staged = Null /\ lock = Null
    /\ runs = [p \in Updaters |-> Null]
    /\ running \in {dest, Null}
    /\ mishaps = {}
    /\ past = {dest}

-----------------------------------------------------------------------------
(* smoke_test: `--version` exits with success in ten seconds.  It may fail *)
(* on a program that runs, when the machine is slow.                       *)
MayRunStaged(file) == file \in Programs \cup {Mangled}

MayRunInstalled(file) ==
    MayRunStaged(file) /\ (file \in Released => file.version \notin Quirky)

RunAt(p, stage) == runs[p] # Null /\ runs[p].at = stage

Goes(p, stage) == runs' = [runs EXCEPT ![p].at = stage]

(* the guard of the lock is dropped, whatever the outcome *)
Ends(p) ==
    /\ runs' = [runs EXCEPT ![p] = Null]
    /\ lock' = IF lock = p THEN Null ELSE lock

-----------------------------------------------------------------------------
(* Up to the staged file. *)

(* The process is started from the installed program. *)
Start(p, options) ==
    /\ runs[p] = Null /\ MayRunInstalled(dest) /\ dest \in Programs
    /\ runs' = [runs EXCEPT ![p] = [at |-> "lock", own |-> dest.version,
                   options |-> options, target |-> Null, built |-> Null, backed |-> FALSE]]
    /\ UNCHANGED <<latest, files, lock, running, mishaps>>

LockIsIgnored(p) == TRUE   \* mutant

LockIsFree(p) == lock = Null

(* acquire_update_lock: never waits *)
AcquireLock(p) ==
    /\ RunAt(p, "lock")
    /\ IF LockIsFree(p) THEN lock' = p /\ Goes(p, "manifest") ELSE Ends(p)
    /\ UNCHANGED <<latest, files, running, mishaps>>

UpToDate(run) == latest = run.own /\ "force" \notin run.options

FetchManifest(p) ==
    /\ RunAt(p, "manifest")
    /\ IF UpToDate(runs[p]) THEN Ends(p)
       ELSE /\ runs' = [runs EXCEPT ![p].at = "fetch", ![p].target = latest]
            /\ UNCHANGED lock
    /\ UNCHANGED <<latest, files, running, mishaps>>

(* apply_patch does not look at what it patches *)
Patched(from, to) == IF dest = Release(from) THEN Release(to) ELSE Mangled

AnyHash(file, to) == TRUE   \* mutant

(* the SHA256 of the rebuilt bytes against result_sha256 *)
HashFits(file, to) == file = Release(to)

(* pick_asset, fetch_and_verify_asset; the patch is applied in memory *)
FetchAsset(p) ==
    /\ RunAt(p, "fetch")
    /\ LET run == runs[p]
           delta == <<run.own, run.target>> \in Patches
           built == IF delta THEN Patched(run.own, run.target) ELSE Release(run.target)
       IN  IF delta /\ (dest = Null \/ ~HashFits(built, run.target)) THEN Ends(p) /\ UNCHANGED staged
           ELSE /\ runs' = [runs EXCEPT ![p].at = "write", ![p].built = built]
                /\ staged' = Partial /\ UNCHANGED lock
    /\ UNCHANGED <<latest, dest, previous, running, mishaps>>

WriteStaged(p) ==
    /\ RunAt(p, "write")
    /\ staged' = runs[p].built
    /\ IF "dry run" \in runs[p].options THEN Ends(p) ELSE Goes(p, "try staged") /\ UNCHANGED lock
    /\ UNCHANGED <<latest, dest, previous, running, mishaps>>

(* no network, a signature or a hash that does not fit, a full disk *)
Fails(p) ==
    /\ \E stage \in {"manifest", "fetch", "write", "try staged"} : RunAt(p, stage)
    /\ Ends(p)
    /\ UNCHANGED <<latest, files, running, mishaps>>

-----------------------------------------------------------------------------
(* swap_with_rollback *)

TryStaged(p) ==
    /\ RunAt(p, "try staged") /\ MayRunStaged(staged)
    /\ runs' = [runs EXCEPT ![p].at = IF dest # Null THEN "clear" ELSE "swap",
                            ![p].backed = dest # Null]
    /\ UNCHANGED <<latest, files, lock, running, mishaps>>

(* the old backup goes *)
ClearBackup(p) ==
    /\ RunAt(p, "clear")
    /\ previous' = Null
    /\ Goes(p, "back up")
    /\ UNCHANGED <<latest, dest, staged, lock, running, mishaps>>

ClearAfterBackUp(p) ==   \* mutant
    /\ RunAt(p, "back up")
    /\ previous' = Null /\ dest' = Null
    /\ Goes(p, "swap")
    /\ UNCHANGED <<latest, staged, lock, running, mishaps>>

BackUp(p) ==
    /\ RunAt(p, "back up")
    /\ previous' = dest /\ dest' = Null
    /\ Goes(p, "swap")
    /\ UNCHANGED <<latest, staged, lock, running, mishaps>>

Swap(p) ==
    /\ RunAt(p, "swap")
    /\ dest' = staged /\ staged' = Null
    /\ Goes(p, "try installed")
    /\ UNCHANGED <<latest, previous, lock, running, mishaps>>

(* a rename fails: of the backup, or into the program's place *)
RenameFails(p) ==
    /\ \E stage \in {"back up", "swap", "put back", "roll back"} : RunAt(p, stage)
    /\ IF RunAt(p, "swap") /\ runs[p].backed THEN Goes(p, "put back") /\ UNCHANGED lock
       ELSE Ends(p)
    /\ mishaps' = IF RunAt(p, "put back") \/ RunAt(p, "roll back")
                  THEN mishaps \cup {"rename"} ELSE mishaps
    /\ UNCHANGED <<latest, files, running>>

PutBack(p) ==
    /\ RunAt(p, "put back") \/ RunAt(p, "roll back")
    /\ dest' = previous /\ previous' = Null
    /\ Ends(p)
    /\ UNCHANGED <<latest, staged, running, mishaps>>

FailureReported(p) == Ends(p)   \* mutant

AfterFailedTrial(p) ==
    /\ Goes(p, IF runs[p].backed THEN "roll back" ELSE "remove")
    /\ UNCHANGED lock

TryInstalled(p) ==
    /\ RunAt(p, "try installed")
    /\ \/ MayRunInstalled(dest) /\ Goes(p, "restart") /\ UNCHANGED lock
       \/ AfterFailedTrial(p)
    /\ UNCHANGED <<latest, files, running, mishaps>>

(* no backup of this run's: the program that does not run is taken away *)
Remove(p) ==
    /\ RunAt(p, "remove")
    /\ dest' = Null
    /\ Ends(p)
    /\ UNCHANGED <<latest, previous, staged, running, mishaps>>

OldProcessStays == running   \* mutant

Restarted == IF running = Null THEN Null ELSE dest

(* daemon_service::restart_if_running *)
RestartDaemon(p) ==
    /\ RunAt(p, "restart")
    /\ \/ running' = Restarted /\ mishaps' = mishaps
       \/ running' = running /\ mishaps' = mishaps \cup {"kick"}
    /\ Ends(p)
    /\ UNCHANGED <<latest, files>>

-----------------------------------------------------------------------------
(* Around it. *)

Unsettled(p) ==
    \E stage \in {"swap", "put back", "try installed", "roll back", "remove"} : RunAt(p, stage)

(* the process is killed; the kernel frees its lock *)
Killed(p) ==
    /\ runs[p] # Null
    /\ mishaps' = mishaps \cup (IF Unsettled(p) THEN {"killed"} ELSE {})
                          \cup (IF RunAt(p, "restart") THEN {"kick"} ELSE {})
    /\ Ends(p)
    /\ UNCHANGED <<latest, files, running>>

Publish ==
    /\ latest < LastVersion /\ latest' = latest + 1
    /\ UNCHANGED <<files, lock, runs, running, mishaps>>

(* the service manager starts the daemon again, or it is stopped *)
DaemonTurns ==
    /\ \/ running # Null /\ running' = Null /\ mishaps' = mishaps
       \/ /\ running = Null /\ MayRunInstalled(dest) /\ running' = dest
          /\ mishaps' = mishaps \cup (IF \E p \in Updaters : RunAt(p, "try installed") \/ RunAt(p, "roll back")
                                      THEN {"early"} ELSE {})
    /\ UNCHANGED <<latest, files, lock, runs>>

RunStep(p) ==
    \/ AcquireLock(p) \/ FetchManifest(p) \/ FetchAsset(p) \/ WriteStaged(p) \/ Fails(p)
    \/ TryStaged(p) \/ ClearBackup(p) \/ BackUp(p) \/ Swap(p) \/ RenameFails(p) \/ PutBack(p)
    \/ TryInstalled(p) \/ Remove(p) \/ RestartDaemon(p)

UpdaterNext ==
    /\ \/ \E p \in Updaters : RunStep(p) \/ Killed(p) \/ \E o \in SUBSET {"force", "dry run"} : Start(p, o)
       \/ Publish \/ DaemonTurns
    /\ past' = past \cup {Installed'}

UpdaterSpec == UpdaterInit /\ [][UpdaterNext]_updaterVars

-----------------------------------------------------------------------------
(* Nothing but whole programs is ever installed or kept as the backup:     *)
(* neither a file another process is still writing nor the result of a     *)
(* patch on a program it was not made for (the lock; result_sha256).       *)
WholeProgramsOnly == dest \in Programs \cup {Null} /\ previous \in Programs \cup {Null}

(* "The user is never left with a broken worklog": when no update is under *)
(* way, the installed program runs, unless a process was killed while the  *)
(* place was unsettled or a rename that was to restore it failed.  Being   *)
(* killed at any other step does no harm.                                  *)
NeverLeftBroken ==
    lock = Null /\ mishaps \cap {"killed", "rename"} = {} => dest # Null /\ MayRunInstalled(dest)

(* After an update the daemon runs the installed program, also after two   *)
(* updates in two terminals, one of them rolled back (restart_if_running). *)
DaemonRunsInstalled ==
    lock = Null /\ mishaps = {} => running \in {dest, Null}

Slot == INSTANCE ProgramSlot WITH program <- Installed, Others <- OwnBuilds

(* The two renames, the trials and the lock implement the promise, also    *)
(* when a process is killed between them and another one takes over        *)
(* (swap_with_rollback).                                                   *)
ImplementsSlot == Slot!Spec
=============================================================================
