------------------------------ MODULE Updater ------------------------------
(* `tarmy update` (cmd/tarmy/update.go): resolve a release, download its     *)
(* archive and its checksums into a temporary directory, verify, extract,    *)
(* and replace the installed binary by a copy made beside it and renamed.    *)
(* Several updates may run at once and each may be killed at any point.      *)
EXTENDS UpdaterState

Stages == {"new", "fetch", "verify", "extract", "stage", "copy", "rename",
           "done", "killed"}
Running(u) == run[u].at \notin {"new", "done", "killed"}

\* os.MkdirTemp and os.CreateTemp give every process a name of its own.
SharedWorkDir(u) == CHOOSE v \in Updaters : TRUE
WorkDir(u) == u
SharedTemp(u) == CHOOSE v \in Updaters : TRUE
TempFile(u) == u

\* chooseUpdateInstallDir: the flag, else the binary's own directory when it
\* is writable, else the user's.
InstallDirs == Dirs \union {IF Exe \in writable THEN Exe ELSE Fallback}

At(u, stage) == [run EXCEPT ![u].at = stage]

\* Every return runs the deferred removals of the files made so far.
Exit(u) ==
  /\ run' = At(u, "done")
  /\ work' = [work EXCEPT ![WorkDir(u)] = Absent]
  /\ aside' = [aside EXCEPT ![TempFile(u)] = Absent]
  /\ UNCHANGED installed

Init ==
  /\ \E t \in Tags : /\ installed = [d \in Dirs |->
                          IF d = Exe
                            THEN [tag |-> t, intact |-> TRUE, compared |-> TRUE]
                            ELSE Absent]
                     /\ run = [u \in Updaters |-> [at |-> "new", tag |-> t, dir |-> Exe,
                                            compared |-> FALSE]]
  /\ writable \in {Dirs, Dirs \ {Exe}}
  /\ work = [u \in Updaters |-> Absent]
  /\ aside = [u \in Updaters |-> Absent]

\* resolveLatestRelease: whatever is the latest just then; it may also fail.
Resolvable == Tags

\* --to may name any release too; run.tag is version.Version until then.
Begin(u) ==
  /\ run[u].at = "new"
  /\ \/ run' = At(u, "done")
     \/ \E tag \in Resolvable, force \in BOOLEAN, dir \in InstallDirs :
          IF tag = run[u].tag /\ ~force
            THEN run' = At(u, "done")
            ELSE run' = [run EXCEPT ![u] = [at |-> "fetch", tag |-> tag, dir |-> dir,
                                            compared |-> FALSE]]
  /\ UNCHANGED <<installed, writable, work, aside>>

\* A download that reports success may still hold other bytes than those
\* published; one that fails ends the update.
Fetch(u) ==
  /\ run[u].at = "fetch"
  /\ \/ Exit(u)
     \/ \E intact \in BOOLEAN :
          /\ work' = [work EXCEPT ![WorkDir(u)] =
                        [tag |-> run[u].tag, intact |-> intact, compared |-> FALSE]]
          /\ run' = At(u, "verify")
          /\ UNCHANGED <<installed, aside>>
  /\ UNCHANGED writable

\* checksums.txt cannot be fetched or does not list the archive: no check.
VerifySkipped(u) ==
  /\ run[u].at = "verify"
  /\ run' = At(u, "extract")
  /\ UNCHANGED <<installed, writable, work, aside>>

\* sha256File against the published sum.
Matches(content) == content \in Contents /\ content.intact

VerifyCompared(u) ==
  /\ run[u].at = "verify"
  /\ IF Matches(work[WorkDir(u)])
       THEN /\ run' = [run EXCEPT ![u].at = "extract", ![u].compared = TRUE]
            /\ UNCHANGED <<installed, work, aside>>
       ELSE Exit(u)
  /\ UNCHANGED writable

\* A damaged archive may fail to decompress or lack the binary.
Extract(u) ==
  /\ run[u].at = "extract"
  /\ \/ Exit(u)
     \/ /\ work[WorkDir(u)] \in Contents
        /\ run' = At(u, "stage")
        /\ UNCHANGED <<installed, work, aside>>
  /\ UNCHANGED writable

\* installBinary: CreateTemp beside the destination fails in a directory that
\* is not writable.
Stage(u) ==
  /\ run[u].at = "stage"
  /\ IF run[u].dir \in writable
       THEN /\ aside' = [aside EXCEPT ![TempFile(u)] = Torn]
            /\ run' = At(u, "copy")
            /\ UNCHANGED <<installed, work>>
       ELSE Exit(u)
  /\ UNCHANGED writable

\* The whole copy, its mode and its close, or an error on the way.
Copy(u) ==
  /\ run[u].at = "copy"
  /\ \/ Exit(u)
     \/ /\ aside' = [aside EXCEPT ![TempFile(u)] =
                       [work[WorkDir(u)] EXCEPT !.compared = run[u].compared]]
        /\ run' = At(u, "rename")
        /\ UNCHANGED <<installed, work>>
  /\ UNCHANGED writable

\* os.Rename replaces the destination in one step.
Rename(u) ==
  /\ run[u].at = "rename"
  /\ installed' = [installed EXCEPT ![run[u].dir] = aside[TempFile(u)]]
  /\ run' = At(u, "done")
  /\ aside' = [aside EXCEPT ![TempFile(u)] = Absent]
  /\ work' = [work EXCEPT ![WorkDir(u)] = Absent]
  /\ UNCHANGED writable

\* The process is killed: its deferred removals never run.
Kill(u) ==
  /\ Running(u)
  /\ run' = At(u, "killed")
  /\ UNCHANGED <<installed, writable, work, aside>>

Next ==
  \E u \in Updaters :
    \/ Begin(u) \/ Fetch(u) \/ VerifySkipped(u) \/ VerifyCompared(u)
    \/ Extract(u) \/ Stage(u) \/ Copy(u) \/ Rename(u) \/ Kill(u)

Spec == Init /\ [][Next]_updaterVars

----------------------------------------------------------------------------
TypeOK ==
  /\ installed \in [Dirs -> Contents \union {Absent}]
  /\ writable \subseteq Dirs
  /\ work \in [Updaters -> Contents \union {Absent}]
  /\ aside \in [Updaters -> Contents \union {Absent, Torn}]
  /\ run \in [Updaters -> [at : Stages, tag : Tags, dir : Dirs, compared : BOOLEAN]]
=============================================================================
