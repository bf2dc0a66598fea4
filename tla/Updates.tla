------------------------------ MODULE Updates ------------------------------
(***************************************************************************)
(* updates.Service (updates/service.go): goroutines that check for and     *)
(* download releases, while the application applies what is downloaded     *)
(* (Applier), crashes and starts again.  The service's mutex guards two    *)
(* fields, each read and written once per call; in between come the        *)
(* network and the disk.  What GitHub answers is any release.              *)
(***************************************************************************)
EXTENDS Applier

CONSTANTS
  Workers,        \* goroutines that check and download
  Signed,         \* the versions whose .sig asset verifies the binary
  NoFile,         \* downloadPath is ""
  MaxDownloads,   \* bound: downloads begun
  MaxRestarts     \* bound: restarts of the application

ASSUME UpdatesAssumption ==
  /\ Signed \subseteq Versions
  /\ MaxDownloads \in Nat /\ MaxRestarts \in Nat

Files == 1 .. MaxDownloads

ASSUME NoFileAssumption == NoFile \notin Files

VARIABLES
  verifies,       \* a public key is set and verification is not skipped
  latestRelease,  \* s.latestRelease, Missing for nil
  downloadPath,   \* s.downloadPath
  disk,           \* temporary file -> what it holds
  created,        \* temporary files created so far
  pc,             \* worker -> where it is
  rel,            \* worker -> the release it works with
  path,           \* worker -> the file it downloads to
  applying,       \* the file ApplyUpdate works with, or NoFile
  trusted,        \* history: the versions the application was installed as
  restarts

serviceVars == <<verifies, latestRelease, downloadPath, disk, created, pc, rel,
                 path, applying, trusted, restarts>>
updatesVars == <<applierVars, serviceVars>>
fields == <<verifies, latestRelease, downloadPath>>
worker == <<pc, rel, path>>
others == <<verifies, trusted, restarts>>

UpdatesInit ==
  /\ ApplierInit
  /\ verifies \in BOOLEAN
  /\ latestRelease = Missing
  /\ downloadPath = NoFile
  /\ disk = [f \in Files |-> Missing]
  /\ created = 0
  /\ pc = [g \in Workers |-> "idle"]
  /\ rel = [g \in Workers |-> Missing]
  /\ path = [g \in Workers |-> NoFile]
  /\ applying = NoFile
  /\ trusted = {exe}
  /\ restarts = 0
-----------------------------------------------------------------------------
(* CheckForUpdate *)

\* GitHub answers; the goroutine has yet to take the lock.
Answered(g) ==
  /\ pc[g] = "idle"
  /\ \E v \in Versions : rel' = [rel EXCEPT ![g] = v]
  /\ pc' = [pc EXCEPT ![g] = "answered"]
  /\ UNCHANGED <<applierVars, fields, disk, created, path, applying, trusted, restarts>>

\* The release is kept, also one that is not newer.
KeepLatest(g) ==
  /\ pc[g] = "answered"
  /\ latestRelease' = rel[g]
  /\ pc' = [pc EXCEPT ![g] = "idle"]
  /\ rel' = [rel EXCEPT ![g] = Missing]
  /\ UNCHANGED <<applierVars, verifies, downloadPath, disk, created, path, applying,
                 trusted, restarts>>
-----------------------------------------------------------------------------
(* DownloadUpdate *)

\* The release is read, its asset found and a temporary file created.
BeginDownload(g) ==
  /\ pc[g] = "idle"
  /\ latestRelease # Missing
  /\ created < MaxDownloads
  /\ created' = created + 1
  /\ rel' = [rel EXCEPT ![g] = latestRelease]
  /\ path' = [path EXCEPT ![g] = created']
  /\ disk' = [disk EXCEPT ![created'] = Torn]
  /\ pc' = [pc EXCEPT ![g] = "download"]
  /\ UNCHANGED <<applierVars, fields, applying, trusted, restarts>>

EndDownload(g) ==
  /\ pc[g] = "download"
  /\ disk' = [disk EXCEPT ![path[g]] = rel[g]]
  /\ pc' = [pc EXCEPT ![g] = "verify"]
  /\ UNCHANGED <<applierVars, fields, created, rel, path, applying, trusted, restarts>>

\* The download or the verification fails: the file is removed.
DownloadFails(g) ==
  /\ pc[g] \in {"download", "verify"}
  /\ disk' = [disk EXCEPT ![path[g]] = Missing]
  /\ pc' = [pc EXCEPT ![g] = "idle"]
  /\ rel' = [rel EXCEPT ![g] = Missing]
  /\ path' = [path EXCEPT ![g] = NoFile]
  /\ UNCHANGED <<applierVars, fields, created, applying, trusted, restarts>>

\* Mutant of Verified: the release last checked for is looked up, not the one that
\* was downloaded.
VerifiedLatest(g) == verifies => latestRelease \in Signed

\* verifyDownload: the release has a signature and it fits what was downloaded.
Verified(g) == verifies => disk[path[g]] \in Signed

Verify(g) ==
  /\ pc[g] = "verify"
  /\ Verified(g)
  /\ pc' = [pc EXCEPT ![g] = "verified"]
  /\ UNCHANGED <<applierVars, fields, disk, created, rel, path, applying, trusted, restarts>>

\* The download is recorded, in place of any other, and announced as ready.
RecordDownload(g) ==
  /\ pc[g] = "verified"
  /\ downloadPath' = path[g]
  /\ pc' = [pc EXCEPT ![g] = "idle"]
  /\ rel' = [rel EXCEPT ![g] = Missing]
  /\ path' = [path EXCEPT ![g] = NoFile]
  /\ UNCHANGED <<applierVars, verifies, latestRelease, disk, created, applying,
                 trusted, restarts>>
-----------------------------------------------------------------------------
(* ApplyUpdate *)

BeginApply ==
  /\ applying = NoFile
  /\ downloadPath # NoFile
  /\ applying' = downloadPath
  /\ UNCHANGED <<applierVars, fields, disk, created, worker, trusted, restarts>>

\* The archive is extracted and the binary found.
Extract ==
  /\ applying # NoFile
  /\ step = "none"
  /\ Whole(disk[applying])
  /\ CallApply(disk[applying])
  /\ UNCHANGED <<fields, disk, created, worker, applying, trusted, restarts>>

\* It is not: the file is gone, the archive is bad or holds no such binary.
ExtractFails ==
  /\ applying # NoFile
  /\ step = "none"
  /\ applying' = NoFile
  /\ UNCHANGED <<applierVars, fields, disk, created, worker, trusted, restarts>>

\* The error is returned; the download stays for another try.
ApplyReturnsError ==
  /\ step = "failed"
  /\ step' = "none"
  /\ new' = Missing
  /\ applying' = NoFile
  /\ UNCHANGED <<exe, old, before, stuck, fields, disk, created, worker, trusted, restarts>>

RemoveDownload ==
  /\ step = "applied"
  /\ step' = "removed"
  /\ disk' = [disk EXCEPT ![applying] = Missing]
  /\ UNCHANGED <<exe, old, new, before, stuck, fields, created, worker, applying,
                 trusted, restarts>>

\* Whatever download is recorded by now is forgotten.
ForgetDownload ==
  /\ step = "removed"
  /\ step' = "none"
  /\ new' = Missing
  /\ downloadPath' = NoFile
  /\ applying' = NoFile
  /\ UNCHANGED <<exe, old, before, stuck, verifies, latestRelease, disk, created,
                 worker, trusted, restarts>>
-----------------------------------------------------------------------------
\* The application ends, by a crash or not, and starts again if its executable is
\* there. The temporary files stay.
Restart ==
  /\ restarts < MaxRestarts
  /\ restarts' = restarts + 1
  /\ Whole(exe)
  /\ step' = "none" /\ new' = Missing /\ before' = exe
  /\ latestRelease' = Missing
  /\ downloadPath' = NoFile
  /\ applying' = NoFile
  /\ pc' = [g \in Workers |-> "idle"]
  /\ rel' = [g \in Workers |-> Missing]
  /\ path' = [g \in Workers |-> NoFile]
  /\ UNCHANGED <<exe, old, stuck, verifies, disk, created, trusted>>

WorkerStep(g) ==
  \/ Answered(g) \/ KeepLatest(g)
  \/ BeginDownload(g) \/ EndDownload(g) \/ DownloadFails(g)
  \/ Verify(g) \/ RecordDownload(g)

ApplyUpdateStep ==
  \/ BeginApply \/ Extract \/ ExtractFails
  \/ ApplyStep /\ UNCHANGED serviceVars
  \/ ApplyReturnsError \/ RemoveDownload \/ ForgetDownload

UpdatesNext == (\E g \in Workers : WorkerStep(g)) \/ ApplyUpdateStep \/ Restart

UpdatesSpec == UpdatesInit /\ [][UpdatesNext]_updatesVars
-----------------------------------------------------------------------------
(* Properties *)

Contents == Versions \cup {Missing, Torn}

UpdatesTypeOK ==
  /\ exe \in Contents /\ old \in Contents
  /\ new \in Versions \cup {Missing}
  /\ step \in {"none", "chmod", "backup", "move", "copy", "unlink", "restore",
               "cleanup", "applied", "failed", "removed"}
  /\ before \in Contents
  /\ stuck \in BOOLEAN /\ verifies \in BOOLEAN
  /\ latestRelease \in Versions \cup {Missing}
  /\ downloadPath \in (1 .. created) \cup {NoFile}
  /\ disk \in [Files -> Contents]
  /\ pc \in [Workers -> {"idle", "answered", "download", "verify", "verified"}]
  /\ rel \in [Workers -> Versions \cup {Missing}]
  /\ path \in [Workers -> (1 .. created) \cup {NoFile}]
  /\ applying \in (1 .. created) \cup {NoFile}

\* With a public key the executable, and the one set aside, are always of a version
\* that was installed at first or whose signature verified, whatever was checked
\* for, downloaded or applied at the same time.
OnlyVerifiedRuns ==
  verifies => {exe, old} \subseteq trusted \cup Signed \cup {Missing, Torn}
=============================================================================
