---------------------------- MODULE UpdaterState ----------------------------
(* The files that `tarmy update` (cmd/tarmy/update.go) reads and writes, the  *)
(* updates that run, and what they promise.  Updater has their steps.        *)
(* A file's content is the release it holds, whether its bytes are those     *)
(* that were published, and whether the update that installed it compared    *)
(* its archive's checksum; a file being written is Torn.                     *)
CONSTANTS
  Updaters,   \* runs of the command
  Tags,       \* tags of the releases
  Dirs,       \* directories a binary may be installed in
  Exe,        \* that of the running binary
  Fallback    \* the user's own

ASSUME UpdaterConstantsOK ==
  /\ {Exe, Fallback} \subseteq Dirs
  /\ {"absent", "torn"} \cap Tags = {}

VARIABLES
  installed,   \* directory -> the content of its tarmy binary, or Absent
  writable,    \* the directories this user may write
  work,        \* temporary directory -> the archive or binary in it, or Absent
  aside,       \* temporary file beside the destination -> its content
  run          \* updater -> [at, tag, dir, compared]; compared: the checksum of
               \* its archive was compared

updaterVars == <<installed, writable, work, aside, run>>

Absent == [tag |-> "absent", intact |-> FALSE, compared |-> FALSE]
Torn == [tag |-> "torn", intact |-> FALSE, compared |-> FALSE]
Contents == [tag : Tags, intact : BOOLEAN, compared : BOOLEAN]

\* The running binary's directory always holds a whole binary, and no other
\* ever holds a part of one, whatever update is half way, was killed or runs
\* beside another (installBinary).
BinaryWhole ==
  /\ installed[Exe] \in Contents
  /\ \A d \in Dirs : installed[d] # Torn

\* A binary for which a checksum was compared is the published one, although
\* updates of other releases ran between the comparison and the rename.
ComparedIsIntact ==
  \A d \in Dirs :
    installed[d] \in Contents /\ installed[d].compared => installed[d].intact

\* An update that succeeds has installed the release it resolved, whatever
\* other updates downloaded, compared, unpacked and renamed meanwhile.
InstallsItsRelease ==
  [][\A u \in Updaters :
       run[u].at = "rename" /\ run'[u].at = "done" =>
         installed'[run[u].dir].tag = run[u].tag]_updaterVars
=============================================================================
