------------------------------ MODULE Applier ------------------------------
(***************************************************************************)
(* defaultApplier.Apply and moveFile (updates/apply.go): the renames and,  *)
(* across devices, the copy that replace the running executable, each of   *)
(* which can fail.  A file holds a version, or nothing, or a copy that is  *)
(* not complete.  The application applies one update at a time.            *)
(***************************************************************************)
EXTENDS Integers

CONSTANTS
  Versions,   \* of the application
  Missing,    \* no file
  Torn        \* a copy not yet complete, or given up

ASSUME ApplierAssumption ==
  Missing \notin Versions /\ Torn \notin Versions /\ Missing # Torn

VARIABLES
  exe,     \* currentPath
  old,     \* currentPath.old
  new,     \* newPath, in the directory of the extracted archive
  step,    \* where Apply is, or how it ended
  before,  \* history: the executable when Apply was called
  stuck    \* history: the old executable could not be restored

applierVars == <<exe, old, new, step, before, stuck>>

ApplierInit ==
  /\ exe \in Versions
  /\ old = Missing
  /\ new = Missing
  /\ step = "none"
  /\ before = exe
  /\ stuck = FALSE

Whole(x) == x \in Versions

CallApply(v) ==
  /\ new' = v
  /\ before' = exe
  /\ step' = "chmod"
  /\ UNCHANGED <<exe, old, stuck>>

\* The new binary cannot be made executable, or the old one not set aside.
ApplyFails ==
  /\ step \in {"chmod", "backup"}
  /\ step' = "failed"
  /\ UNCHANGED <<exe, old, new, before, stuck>>

\* The new binary is made executable; a previous .old is removed, if it can be.
RemoveOld ==
  /\ step = "chmod"
  /\ old' \in {Missing, old}
  /\ step' = "backup"
  /\ UNCHANGED <<exe, new, before, stuck>>

\* Mutant of Backup: the old binary is removed, not set aside.
BackupRemoves ==
  /\ step = "backup"
  /\ exe # Missing
  /\ old' = Missing
  /\ exe' = Missing
  /\ step' = "move"
  /\ UNCHANGED <<new, before, stuck>>

Backup ==
  /\ step = "backup"
  /\ exe # Missing
  /\ old' = exe
  /\ exe' = Missing
  /\ step' = "move"
  /\ UNCHANGED <<new, before, stuck>>

Move ==
  /\ step = "move"
  /\ exe' = new
  /\ new' = Missing
  /\ step' = "cleanup"
  /\ UNCHANGED <<old, before, stuck>>

\* The rename crosses devices: the new binary is copied, then removed.
CopyBegins ==
  /\ step = "move"
  /\ exe' = Torn
  /\ step' = "copy"
  /\ UNCHANGED <<old, new, before, stuck>>

CopyEnds ==
  /\ step = "copy"
  /\ exe' = new
  /\ step' = "unlink"
  /\ UNCHANGED <<old, new, before, stuck>>

Unlink ==
  /\ step = "unlink"
  /\ new' = Missing
  /\ step' = "cleanup"
  /\ UNCHANGED <<exe, old, before, stuck>>

\* The rename, the copy or the removal of the source fails.
MoveFails ==
  /\ step \in {"move", "copy", "unlink"}
  /\ step' = "restore"
  /\ UNCHANGED <<exe, old, new, before, stuck>>

\* Mutant of Restore: an executable that is in place is left there.
RestoreKeeps ==
  /\ step = "restore"
  /\ IF exe = Missing THEN exe' = old /\ old' = Missing ELSE UNCHANGED <<exe, old>>
  /\ step' = "failed"
  /\ UNCHANGED <<new, before, stuck>>

Restore ==
  /\ step = "restore"
  /\ exe' = old
  /\ old' = Missing
  /\ step' = "failed"
  /\ UNCHANGED <<new, before, stuck>>

RestoreFails ==
  /\ step = "restore"
  /\ step' = "failed"
  /\ stuck' = TRUE
  /\ UNCHANGED <<exe, old, new, before>>

Cleanup ==
  /\ step = "cleanup"
  /\ old' \in {Missing, old}
  /\ step' = "applied"
  /\ UNCHANGED <<exe, new, before, stuck>>

ApplyStep ==
  \/ ApplyFails \/ RemoveOld \/ Backup
  \/ Move \/ CopyBegins \/ CopyEnds \/ Unlink \/ MoveFails
  \/ Restore \/ RestoreFails \/ Cleanup
-----------------------------------------------------------------------------
(* Properties *)

\* At every moment, and so after a crash at any, the executable or the one set
\* aside is whole, unless the old one could not be restored once before.
AlwaysRecoverable == Whole(exe) \/ Whole(old) \/ stuck

\* Apply that succeeds leaves the new version, Apply that fails the one there was,
\* also when the new one was already copied into place.
ApplyAllOrNothing ==
  /\ step = "applied" => Whole(exe)
  /\ step = "failed" /\ ~ stuck => exe = before
=============================================================================
