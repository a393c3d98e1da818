----------------------------- MODULE WriterSave -----------------------------
(***************************************************************************)
(* Writer.save (writer.ml): the contents go through a writer to a new      *)
(* temporary file, which is then renamed to the target.  Any step may      *)
(* fail, and the machine may crash at any time: then the file has on disk  *)
(* what was synced, and perhaps more of what was written.  The client of   *)
(* the writer is a save, or any other that uses it freely.                 *)
(***************************************************************************)
EXTENDS Writer

CONSTANTS
  Clients,     \* "save", "other", or both
  SaveLength   \* the length of the contents

ASSUME SaveAssumption == SaveLength \in 1..MaxBytes

VARIABLES
  step,     \* how far save has come
  do_fsync, \* its argument
  synced,   \* the bytes of the temporary file that are on disk for sure
  renamed,  \* the target's name leads to the new file
  survived  \* the bytes in the new file after a crash

saveVars == <<step, do_fsync, synced, renamed, survived>>
allVars  == <<writerVars, saveVars>>

\* save creates its writer with the defaults, for a file.
SaveSet == [supports_nonblock |-> FALSE, periodic |-> FALSE, limited |-> TRUE]

SaveInit ==
  /\ InitWriter
  /\ step \in {IF c = "save" THEN "write" ELSE "none" : c \in Clients}
  /\ step = "write" => set = SaveSet
  /\ do_fsync \in IF step = "write" THEN BOOLEAN ELSE {FALSE}
  /\ synced = 0 /\ renamed = FALSE /\ survived = 0

SaveWrite ==
  /\ step = "write"
  /\ Write(SaveLength)
  /\ step' = "chmod"
  /\ UNCHANGED <<do_fsync, synced, renamed, survived>>

\* with_close runs f, closes whether it raised or not, and raises again.
\* fchmod and fsync are made in threads: they return in a later cycle than
\* the one at whose end the background writer starts.
SaveChmod(ok) ==
  /\ step = "chmod" /\ t.job # "start"
  /\ step' = IF ~ok THEN "close raising" ELSE IF do_fsync THEN "fsync" ELSE "close"
  /\ UNCHANGED <<writerVars, do_fsync, synced, renamed, survived>>

SaveFsync(ok) ==
  /\ step = "fsync"
  /\ step' = IF ok THEN "close" ELSE "close raising"
  /\ synced' = IF ok THEN Len(file) ELSE synced
  /\ UNCHANGED <<writerVars, do_fsync, renamed, survived>>

SaveClose ==
  /\ step \in {"close", "close raising"} /\ closing = "no"
  /\ Close(FALSE)
  /\ UNCHANGED saveVars

SaveRaises ==
  /\ step = "close raising" /\ closing = "finished"
  /\ step' = "raised"
  /\ UNCHANGED <<writerVars, do_fsync, synced, renamed, survived>>

\* The rename; if it fails the temporary file is removed.
MayRenameAtOnce == closing # "no"  \* mutant of MayRename
MayRename == closing = "finished"
SaveRename(ok) ==
  /\ step = "close" /\ MayRename
  /\ renamed' = ok
  /\ step' = IF ok THEN "saved" ELSE "raised"
  /\ UNCHANGED <<writerVars, do_fsync, synced, survived>>

\* The rename may or may not have reached the disk.
Crash ==
  /\ step \notin {"none", "crashed"}
  /\ step' = "crashed"
  /\ survived' \in synced..Len(file)
  /\ renamed' \in {FALSE, renamed}
  /\ UNCHANGED <<writerVars, do_fsync, synced>>

SaveStep ==
  \/ SaveWrite \/ SaveClose \/ SaveRaises
  \/ \E ok \in BOOLEAN : SaveChmod(ok) \/ SaveFsync(ok) \/ SaveRename(ok)

SaveNext ==
  \/ step = "none" /\ ClientStep /\ UNCHANGED saveVars
  \/ step # "crashed" /\ WriterStep /\ UNCHANGED saveVars
  \/ SaveStep
  \/ Crash

SaveSpec == SaveInit /\ [][SaveNext]_allVars /\ Fairness
-----------------------------------------------------------------------------
\* The target is replaced by the whole contents ("atomically replaces",
\* writer.mli:196), as far as other processes see it and also when this one
\* ends in the middle: the rename waits for the close, the close for the
\* flush, the flush for the last partial write.  Not so when close was
\* chosen for the age of the data, after a write that failed or a slow one.
ReplacesWithWhole ==
  renamed /\ step # "crashed" => Len(file) = SaveLength \/ too_old

\* With fsync, "the target file will always be in a sound state, even after
\* a machine crash" (writer.mli:202-204).
SoundAfterCrash ==
  step = "crashed" /\ do_fsync /\ renamed => survived = SaveLength
=============================================================================
