---------------------------- MODULE UpgradeProofs ----------------------------
(***************************************************************************)
(* Proofs about what an upgrade does: to the executable, modules Updates   *)
(* and Applier, for any number of workers, downloads and restarts and any  *)
(* versions; to the database, for any releases and any baseline; and about *)
(* the order of versions by which a release is chosen, for any tags.       *)
(***************************************************************************)
EXTENDS Updates, Database, VersionOrder, WellFoundedInduction, TLAPS

(* Updates: an executable or its copy is always whole, Apply does all or nothing, *)
(* and with a public key only what was verified is ever run.                      *)

\* Apply, wherever it is: what it moves is whole, what it has set aside is what it
\* found, and what it leaves is whole unless the old executable could not be restored.
ApplierInv ==
  /\ step \in {"chmod", "backup", "move", "copy"} => new \in Versions
  /\ step \in {"unlink", "cleanup", "applied", "removed"} => exe \in Versions
  /\ step \in {"none", "chmod", "backup", "failed"} => exe \in Versions \/ stuck
  /\ step \in {"move", "copy", "unlink", "restore"} =>
       (old \in Versions /\ old = before) \/ stuck
  /\ step \in {"chmod", "backup", "failed"} => exe = before \/ stuck

\* The types of what Apply works with.
ApplierTypeInv ==
  /\ exe \in Contents /\ old \in Contents /\ before \in Contents
  /\ new \in Versions \cup {Missing}
  /\ step \in {"none", "chmod", "backup", "move", "copy", "unlink", "restore",
               "cleanup", "applied", "failed", "removed"}
  /\ stuck \in BOOLEAN

\* The types of what the service keeps.
FilesTypeInv ==
  /\ verifies \in BOOLEAN
  /\ latestRelease \in Versions \cup {Missing}
  /\ created \in Nat /\ created <= MaxDownloads
  /\ downloadPath \in (1 .. created) \cup {NoFile}
  /\ applying \in (1 .. created) \cup {NoFile}
  /\ disk \in [Files -> Contents]
  /\ pc \in [Workers -> {"idle", "answered", "download", "verify", "verified"}]
  /\ rel \in [Workers -> Versions \cup {Missing}]
  /\ path \in [Workers -> (1 .. created) \cup {NoFile}]

\* Each worker that downloads has a file of its own, which is neither recorded nor read.
FilesInv ==
  /\ \A g \in Workers : pc[g] \in {"download", "verify", "verified"} =>
       /\ path[g] \in 1 .. created
       /\ rel[g] \in Versions
       /\ path[g] # downloadPath /\ path[g] # applying
       /\ \A h \in Workers : path[h] = path[g] => h = g
  /\ \A g \in Workers : pc[g] = "answered" => rel[g] \in Versions

\* With a public key, what was verified stays what it was, or is gone.
SignedInv ==
  verifies =>
    /\ \A g \in Workers : pc[g] = "verified" => disk[path[g]] \in Signed \cup {Missing}
    /\ downloadPath # NoFile => disk[downloadPath] \in Signed \cup {Missing}
    /\ applying # NoFile => disk[applying] \in Signed \cup {Missing}
    /\ new \in Signed \cup {Missing}
    /\ exe \in trusted \cup Signed \cup {Missing, Torn}
    /\ old \in trusted \cup Signed \cup {Missing, Torn}

UpdatesInv == ApplierTypeInv /\ ApplierInv /\ FilesTypeInv /\ FilesInv /\ SignedInv

LEMMA UpdatesInvInit == UpdatesInit => UpdatesInv
<1> SUFFICES ASSUME UpdatesInit PROVE UpdatesInv
  OBVIOUS
<1>1. ApplierTypeInv /\ ApplierInv
  BY DEF UpdatesInit, ApplierInit, ApplierTypeInv, ApplierInv, Contents
<1>2. FilesTypeInv
  BY UpdatesAssumption DEF UpdatesInit, FilesTypeInv, Contents
<1>3. FilesInv /\ SignedInv
  BY DEF UpdatesInit, ApplierInit, FilesInv, SignedInv
<1> QED BY <1>1, <1>2, <1>3 DEF UpdatesInv

\* A step of Apply keeps what is said of the executable.
LEMMA ApplyStepKeeps ==
  ASSUME ApplierTypeInv, ApplierInv, ApplyStep
  PROVE  ApplierTypeInv' /\ ApplierInv'
<1> USE DEF ApplierTypeInv, ApplierInv, Contents
<1>1. CASE ApplyFails   BY <1>1 DEF ApplyFails
<1>2. CASE RemoveOld    BY <1>2 DEF RemoveOld
<1>3. CASE Backup       BY <1>3 DEF Backup
<1>4. CASE Move         BY <1>4 DEF Move
<1>5. CASE CopyBegins   BY <1>5 DEF CopyBegins
<1>6. CASE CopyEnds     BY <1>6 DEF CopyEnds
<1>7. CASE Unlink       BY <1>7 DEF Unlink
<1>8. CASE MoveFails    BY <1>8 DEF MoveFails
<1>9. CASE Restore      BY <1>9 DEF Restore
<1>10. CASE RestoreFails BY <1>10 DEF RestoreFails
<1>11. CASE Cleanup     BY <1>11 DEF Cleanup
<1> QED
  BY <1>1, <1>2, <1>3, <1>4, <1>5, <1>6, <1>7, <1>8, <1>9, <1>10, <1>11 DEF ApplyStep

\* A step of Apply moves what is trusted to where it may be, and adds nothing.
LEMMA ApplyStepTrusted ==
  ASSUME NEW Good, ApplyStep, Missing \in Good, Torn \in Good,
         exe \in Good, old \in Good, new \in Good
  PROVE  exe' \in Good /\ old' \in Good /\ new' \in {new, Missing}
BY DEF ApplyStep, ApplyFails, RemoveOld, Backup, Move, CopyBegins, CopyEnds, Unlink,
  MoveFails, Restore, RestoreFails, Cleanup

\* A step of a worker leaves the applier alone, and concerns its own file only.
LEMMA WorkerKeepsApplier ==
  ASSUME ApplierTypeInv, ApplierInv, UNCHANGED applierVars
  PROVE  ApplierTypeInv' /\ ApplierInv'
BY DEF ApplierTypeInv, ApplierInv, applierVars

\* The steps of a worker.
LEMMA WorkerStepKeeps ==
  ASSUME UpdatesInv, NEW g \in Workers, WorkerStep(g)
  PROVE  UpdatesInv'
<1> USE UpdatesAssumption DEF UpdatesInv, FilesTypeInv
<1>f. /\ 1 .. created \subseteq Files
      /\ NoFile \notin 1 .. created
  BY NoFileAssumption DEF Files
<1>1. CASE Answered(g)
  <2>1. FilesTypeInv'
    BY <1>1 DEF Answered, fields
  <2>2. FilesInv'
    BY <1>1 DEF Answered, fields, FilesInv
  <2>3. SignedInv'
    BY <1>1 DEF Answered, fields, applierVars, SignedInv
  <2> QED BY <1>1, <2>1, <2>2, <2>3, WorkerKeepsApplier DEF Answered
<1>2. CASE KeepLatest(g)
  <2>1. FilesTypeInv'
    BY <1>2 DEF KeepLatest, FilesInv
  <2>2. FilesInv'
    BY <1>2 DEF KeepLatest, FilesInv
  <2>3. SignedInv'
    BY <1>2 DEF KeepLatest, applierVars, SignedInv
  <2> QED BY <1>2, <2>1, <2>2, <2>3, WorkerKeepsApplier DEF KeepLatest
<1>3. CASE BeginDownload(g)
  <2>1. created' = created + 1 /\ created' \in Files /\ created' \notin 1 .. created
    BY <1>3 DEF BeginDownload, Files
  <2>2. FilesTypeInv'
    BY <1>3, <1>f, <2>1 DEF BeginDownload, fields, Contents
  <2>3. created' # NoFile
    BY <2>1, NoFileAssumption
  <2>4. FilesInv'
    BY <1>3, <1>f, <2>1, <2>3 DEF BeginDownload, fields, FilesInv
  <2>5. SignedInv'
    BY <1>3, <1>f, <2>1, <2>3 DEF BeginDownload, fields, applierVars, SignedInv, FilesInv
  <2> QED BY <1>3, <2>2, <2>4, <2>5, WorkerKeepsApplier DEF BeginDownload
<1>4. CASE EndDownload(g)
  <2>1. path[g] \in Files /\ rel[g] \in Versions
    BY <1>4, <1>f DEF EndDownload, FilesInv
  <2>2. FilesTypeInv'
    BY <1>4, <2>1 DEF EndDownload, fields, Contents
  <2>3. FilesInv'
    BY <1>4 DEF EndDownload, fields, FilesInv
  <2>4. SignedInv'
    BY <1>4, <1>f DEF EndDownload, fields, applierVars, SignedInv, FilesInv
  <2> QED BY <1>4, <2>2, <2>3, <2>4, WorkerKeepsApplier DEF EndDownload
<1>5. CASE DownloadFails(g)
  <2>1. path[g] \in Files
    BY <1>5, <1>f DEF DownloadFails, FilesInv
  <2>2. FilesTypeInv'
    BY <1>5, <2>1 DEF DownloadFails, fields, Contents
  <2>3. FilesInv'
    BY <1>5, <1>f DEF DownloadFails, fields, FilesInv
  <2>4. SignedInv'
    BY <1>5, <1>f DEF DownloadFails, fields, applierVars, SignedInv, FilesInv
  <2> QED BY <1>5, <2>2, <2>3, <2>4, WorkerKeepsApplier DEF DownloadFails
<1>6. CASE Verify(g)
  <2>1. FilesTypeInv'
    BY <1>6 DEF Verify, fields
  <2>2. FilesInv'
    BY <1>6 DEF Verify, fields, FilesInv
  <2>3. SignedInv'
    BY <1>6 DEF Verify, Verified, fields, applierVars, SignedInv
  <2> QED BY <1>6, <2>1, <2>2, <2>3, WorkerKeepsApplier DEF Verify
<1>7. CASE RecordDownload(g)
  <2>1. FilesTypeInv'
    BY <1>7 DEF RecordDownload, FilesInv
  <2>2. FilesInv'
    BY <1>7, <1>f DEF RecordDownload, FilesInv
  <2>3. SignedInv'
    BY <1>7 DEF RecordDownload, applierVars, SignedInv
  <2> QED BY <1>7, <2>1, <2>2, <2>3, WorkerKeepsApplier DEF RecordDownload
<1> QED BY <1>1, <1>2, <1>3, <1>4, <1>5, <1>6, <1>7 DEF WorkerStep

\* The steps of ApplyUpdate.
LEMMA ApplyUpdateStepKeeps ==
  ASSUME UpdatesInv, ApplyUpdateStep
  PROVE  UpdatesInv'
<1> USE UpdatesAssumption, ApplierAssumption DEF UpdatesInv, FilesTypeInv
<1>f. /\ 1 .. created \subseteq Files
      /\ NoFile \notin 1 .. created
  BY NoFileAssumption DEF Files
<1>1. CASE BeginApply
  <2>1. FilesTypeInv' /\ FilesInv'
    BY <1>1 DEF BeginApply, fields, worker, FilesInv
  <2>2. SignedInv'
    BY <1>1 DEF BeginApply, fields, worker, applierVars, SignedInv
  <2> QED BY <1>1, <2>1, <2>2, WorkerKeepsApplier DEF BeginApply
<1>2. CASE Extract
  <2>1. disk[applying] \in Versions
    BY <1>2 DEF Extract, Whole
  <2>2. /\ step = "none" /\ step' = "chmod" /\ new' = disk[applying] /\ before' = exe
        /\ UNCHANGED <<exe, old, stuck>>
    BY <1>2 DEF Extract, CallApply
  <2>3. ApplierTypeInv' /\ ApplierInv'
    BY <2>1, <2>2 DEF ApplierTypeInv, ApplierInv
  <2>4. FilesTypeInv' /\ FilesInv'
    BY <1>2 DEF Extract, fields, worker, FilesInv
  <2>5. SignedInv'
    BY <1>2, <2>2 DEF Extract, fields, worker, SignedInv
  <2> QED BY <2>3, <2>4, <2>5
<1>3. CASE ExtractFails
  <2>1. FilesTypeInv' /\ FilesInv'
    BY <1>3, <1>f DEF ExtractFails, fields, worker, FilesInv
  <2>2. SignedInv'
    BY <1>3 DEF ExtractFails, fields, worker, applierVars, SignedInv
  <2> QED BY <1>3, <2>1, <2>2, WorkerKeepsApplier DEF ExtractFails
<1>4. CASE ApplyStep /\ UNCHANGED serviceVars
  <2>1. FilesTypeInv' /\ FilesInv'
    BY <1>4 DEF serviceVars, FilesInv
  <2>2. ASSUME verifies
        PROVE  /\ exe' \in trusted \cup Signed \cup {Missing, Torn}
               /\ old' \in trusted \cup Signed \cup {Missing, Torn}
               /\ new' \in {new, Missing}
    <3> DEFINE Good == trusted \cup Signed \cup {Missing, Torn}
    <3>1. exe \in Good /\ old \in Good /\ new \in Good /\ Missing \in Good /\ Torn \in Good
      BY <2>2 DEF SignedInv
    <3> HIDE DEF Good
    <3>2. exe' \in Good /\ old' \in Good /\ new' \in {new, Missing}
      BY <1>4, <3>1, ApplyStepTrusted
    <3> QED BY <3>2 DEF Good
  <2>3. SignedInv'
    BY <1>4, <2>2 DEF serviceVars, SignedInv
  <2> QED BY <1>4, <2>1, <2>3, ApplyStepKeeps
<1>5. CASE ApplyReturnsError
  <2>1. ApplierTypeInv' /\ ApplierInv'
    BY <1>5 DEF ApplyReturnsError, ApplierTypeInv, ApplierInv
  <2>2. FilesTypeInv' /\ FilesInv'
    BY <1>5, <1>f DEF ApplyReturnsError, fields, worker, FilesInv
  <2>3. SignedInv'
    BY <1>5 DEF ApplyReturnsError, fields, worker, SignedInv
  <2> QED BY <2>1, <2>2, <2>3
<1>6. CASE RemoveDownload
  <2>1. ApplierTypeInv' /\ ApplierInv'
    BY <1>6 DEF RemoveDownload, ApplierTypeInv, ApplierInv
  <2>2. FilesTypeInv' /\ FilesInv'
    BY <1>6 DEF RemoveDownload, fields, worker, FilesInv, Contents
  <2>3. SignedInv'
    BY <1>6, <1>f DEF RemoveDownload, fields, worker, SignedInv, FilesInv
  <2> QED BY <2>1, <2>2, <2>3
<1>7. CASE ForgetDownload
  <2>1. ApplierTypeInv' /\ ApplierInv'
    BY <1>7 DEF ForgetDownload, ApplierTypeInv, ApplierInv
  <2>2. FilesTypeInv' /\ FilesInv'
    BY <1>7, <1>f DEF ForgetDownload, worker, FilesInv
  <2>3. SignedInv'
    BY <1>7 DEF ForgetDownload, worker, SignedInv
  <2> QED BY <2>1, <2>2, <2>3
<1> QED BY <1>1, <1>2, <1>3, <1>4, <1>5, <1>6, <1>7 DEF ApplyUpdateStep

LEMMA RestartKeeps ==
  ASSUME UpdatesInv, Restart
  PROVE  UpdatesInv'
<1> USE DEF UpdatesInv, FilesTypeInv, Restart, Whole
<1>1. ApplierTypeInv' /\ ApplierInv'
  BY DEF ApplierTypeInv, ApplierInv, Contents
<1>2. FilesTypeInv' /\ FilesInv'
  BY DEF FilesInv
<1>3. SignedInv'
  BY DEF SignedInv
<1> QED BY <1>1, <1>2, <1>3

LEMMA UpdatesInvStep == UpdatesInv /\ [UpdatesNext]_updatesVars => UpdatesInv'
<1> SUFFICES ASSUME UpdatesInv, [UpdatesNext]_updatesVars PROVE UpdatesInv'
  OBVIOUS
<1>1. CASE UNCHANGED updatesVars
  <2>1. FilesTypeInv' /\ FilesInv'
    BY <1>1 DEF updatesVars, serviceVars, UpdatesInv, FilesTypeInv, FilesInv
  <2>2. SignedInv'
    BY <1>1 DEF updatesVars, serviceVars, applierVars, UpdatesInv, SignedInv
  <2> QED BY <1>1, <2>1, <2>2, WorkerKeepsApplier DEF updatesVars, UpdatesInv
<1> QED
  BY <1>1, WorkerStepKeeps, ApplyUpdateStepKeeps, RestartKeeps DEF UpdatesNext

LEMMA UpdatesInvariant == UpdatesSpec => []UpdatesInv
BY UpdatesInvInit, UpdatesInvStep, PTL DEF UpdatesSpec

\* Every variable of the service and of the applier has its type.
THEOREM UpdatesTypeCorrect == UpdatesSpec => []UpdatesTypeOK
<1>1. UpdatesInv => UpdatesTypeOK
  BY DEF UpdatesInv, ApplierTypeInv, FilesTypeInv, UpdatesTypeOK
<1> QED BY <1>1, UpdatesInvariant, PTL

\* With a public key, whatever is checked for, downloaded, applied or lost in a crash at
\* the same time, the executable and the one set aside are of a version that was
\* installed at first or whose signature verified (service.go:225-372).
THEOREM UpdatesOnlyVerifiedRuns == UpdatesSpec => []OnlyVerifiedRuns
<1>1. UpdatesInv => OnlyVerifiedRuns
  BY DEF UpdatesInv, SignedInv, OnlyVerifiedRuns
<1> QED BY <1>1, UpdatesInvariant, PTL

\* At every step of Apply, so also when the application crashes there, a whole
\* executable is in place or set aside, unless one could not be restored (apply.go).
THEOREM UpdatesAlwaysRecoverable == UpdatesSpec => []AlwaysRecoverable
<1>1. UpdatesInv => AlwaysRecoverable
  BY DEF UpdatesInv, ApplierTypeInv, ApplierInv, AlwaysRecoverable, Whole
<1> QED BY <1>1, UpdatesInvariant, PTL

\* Apply that reports success has put a whole executable in place, and Apply that
\* reports failure has put back the one it found (apply.go).
THEOREM UpdatesApplyAllOrNothing == UpdatesSpec => []ApplyAllOrNothing
<1>1. UpdatesInv => ApplyAllOrNothing
  BY DEF UpdatesInv, ApplierTypeInv, ApplierInv, ApplyAllOrNothing, Whole
<1> QED BY <1>1, UpdatesInvariant, PTL
-----------------------------------------------------------------------------
(* Database *)

\* The types of what the invariants below speak of.
DatabaseTypeInv ==
  /\ schema \in Nat
  /\ rows = NoTable \/ rows \subseteq Nat
  /\ userVersion \in Releases \cup {0}
  /\ app \in Releases
  /\ opening \in {"closed", "baseline", "rows", "guard", "backup", "vacuum", "up", "open"}
  /\ unstamped \in BOOLEAN /\ torn \in BOOLEAN

\* Without the table the database is fresh, or one that New has yet to baseline.
UntrackedInv ==
  /\ rows = NoTable => schema \in {0, Baseline}
  /\ rows = NoTable /\ schema # 0 => opening \in {"closed", "baseline"}

\* While the baseline is stamped, and for good when that was given up, the rows are
\* those below some version of it.
BaselineInv ==
  /\ opening = "rows" => ~ torn
  /\ opening = "rows" \/ torn =>
       schema = Baseline /\ schema > 0 /\ \E v \in Stamps : rows = 0 .. (v - 1)

\* What is neither stamped nor about to be is in every release.
StampInv ==
  /\ opening \in {"backup", "vacuum", "up", "open"} => userVersion <= app
  /\ unstamped \/ schema <= userVersion \/ schema <= Baseline

DatabaseInv == DatabaseTypeInv /\ UntrackedInv /\ BaselineInv /\ VersionTellsSchema /\ StampInv

\* Between a release and its migrations: the numbers are natural.
LEMMA ReleaseFacts ==
  \A a \in Releases : a \in Nat /\ a >= 1 /\ a >= Baseline /\ Baseline \in Nat
BY DatabaseAssumption

\* The set of the first rows is not the mark of a missing table.
LEMMA RowsAreTracked ==
  ASSUME NEW a \in Releases, NEW n \in 0 .. a
  PROVE  NoTable # 0 .. n /\ NoTable # {}
BY DatabaseAssumption

\* The database has no table, or an application's schema, at first.
LEMMA DatabaseInvInit == DatabaseInit => DatabaseInv
<1> SUFFICES ASSUME DatabaseInit PROVE DatabaseInv
  OBVIOUS
<1>1. DatabaseTypeInv
  <2>1. app \in Releases /\ schema \in {0, Baseline} /\ rows = NoTable /\ opening = "closed"
        /\ userVersion = 0
    BY DEF DatabaseInit
  <2>2. schema \in Nat
    BY <2>1, ReleaseFacts
  <2>3. unstamped \in BOOLEAN /\ torn \in BOOLEAN
    BY Zenon DEF DatabaseInit
  <2> QED BY <2>1, <2>2, <2>3 DEF DatabaseTypeInv
<1>2. UntrackedInv /\ BaselineInv /\ VersionTellsSchema
  BY DEF DatabaseInit, UntrackedInv, BaselineInv, VersionTellsSchema
<1>3. StampInv
  BY ReleaseFacts DEF DatabaseInit, StampInv
<1> QED BY <1>1, <1>2, <1>3 DEF DatabaseInv

\* The next row keeps the rows an initial segment of the versions.
LEMMA StampRowKeeps == DatabaseInv /\ StampRow => DatabaseInv'
<1> SUFFICES ASSUME DatabaseInv, StampRow PROVE DatabaseInv'
  OBVIOUS
<1> USE DEF DatabaseInv
<1>0. /\ schema = Baseline /\ schema > 0 /\ ~ torn
      /\ Baseline \in Nat /\ app \in Releases /\ app >= Baseline /\ app \in Nat
  BY ReleaseFacts DEF StampRow, BaselineInv, DatabaseTypeInv
<1>1. PICK v \in Stamps : /\ rows = 0 .. (v - 1)
                          /\ rows' = rows \cup {v}
                          /\ opening' = IF v = Baseline THEN "guard" ELSE "rows"
  BY DEF StampRow
<1>2. v \in Nat /\ v <= Baseline
  BY <1>0 DEF Stamps
<1>3. rows' = 0 .. v
  BY <1>1, <1>2
<1>4. rows' # NoTable
  <2>1. v \in 0 .. app
    BY <1>0, <1>2
  <2> QED BY <1>0, <1>3, <2>1, RowsAreTracked
<1>5. UNCHANGED <<schema, userVersion, app, unstamped, torn>>
  BY DEF StampRow, history
<1>6. DatabaseTypeInv'
  BY <1>1, <1>2, <1>3, <1>5 DEF DatabaseTypeInv
<1>7. UntrackedInv'
  BY <1>4 DEF UntrackedInv
<1>8. BaselineInv'
  <2> SUFFICES ASSUME opening' = "rows" PROVE  \E w \in Stamps : rows' = 0 .. (w - 1)
    BY <1>0, <1>5 DEF BaselineInv, Stamps
  <2>1. v # Baseline
    BY <1>1
  <2>2. v + 1 \in Stamps /\ rows' = 0 .. ((v + 1) - 1)
    BY <1>0, <1>2, <1>3, <2>1 DEF Stamps
  <2> QED BY <2>2
<1>9. VersionTellsSchema'
  BY <1>0, <1>1, <1>3, <1>5 DEF VersionTellsSchema
<1>10. StampInv'
  BY <1>1, <1>5 DEF StampInv
<1> QED BY <1>6, <1>7, <1>8, <1>9, <1>10

\* A migration runs on the schema before it, and its row extends the rows.
LEMMA RunMigrationKeeps == DatabaseInv /\ RunMigration => DatabaseInv'
<1> SUFFICES ASSUME DatabaseInv, RunMigration PROVE DatabaseInv'
  OBVIOUS
<1> USE DEF DatabaseInv
<1>0. opening = "up" /\ app \in Releases /\ app \in Nat /\ app >= Baseline /\ schema \in Nat
  BY ReleaseFacts DEF RunMigration, DatabaseTypeInv
<1>1. PICK v \in Pending :
        /\ \A w \in Pending : v <= w
        /\ schema = v - 1
        /\ schema' = v
        /\ rows' = (IF rows = NoTable THEN {0} ELSE rows) \cup {v}
  BY DEF RunMigration
<1>2. v \in 1 .. app
  BY <1>1 DEF Pending
<1>3. UNCHANGED <<userVersion, app, opening, torn>> /\ unstamped' = TRUE
  BY DEF RunMigration
<1>4. ~ torn
  <2> SUFFICES ASSUME torn PROVE FALSE
    OBVIOUS
  <2>1. PICK k \in Stamps : rows = 0 .. (k - 1)
    BY DEF BaselineInv
  <2>2. k \in Nat /\ k <= Baseline /\ Baseline \in Nat /\ schema = Baseline /\ Baseline > 0
    BY <1>0, ReleaseFacts DEF Stamps, BaselineInv
  <2>3. rows # NoTable
    <3>1. CASE k = 0
      BY <1>0, <2>1, <3>1, RowsAreTracked
    <3>2. CASE k # 0
      <4>1. k - 1 \in 0 .. app
        BY <1>0, <2>2, <3>2
      <4> QED BY <1>0, <2>1, <4>1, RowsAreTracked
    <3> QED BY <3>1, <3>2
  <2>4. Baseline \in 1 .. app /\ Baseline \notin rows
    BY <1>0, <2>1, <2>2
  <2>5. v <= Baseline
    BY <1>1, <2>3, <2>4 DEF Pending
  <2> QED BY <1>1, <1>2, <2>2, <2>5
<1>5. rows' = 0 .. v
  <2>1. CASE rows = NoTable
    <3>1. schema = 0
      BY <1>0, <2>1 DEF UntrackedInv
    <3>2. v = 1
      BY <1>1, <1>2, <3>1
    <3> QED BY <1>1, <2>1, <3>2
  <2>2. CASE rows # NoTable
    <3>1. rows = 0 .. (v - 1)
      BY <1>0, <1>1, <1>4, <2>2 DEF VersionTellsSchema
    <3> QED BY <1>1, <1>2, <2>2, <3>1
  <2> QED BY <2>1, <2>2
<1>6. rows' # NoTable
  <2>1. v \in 0 .. app
    BY <1>0, <1>2
  <2> QED BY <1>0, <1>5, <2>1, RowsAreTracked
<1>7. DatabaseTypeInv'
  BY <1>1, <1>2, <1>3, <1>5, <1>0 DEF DatabaseTypeInv
<1>8. UntrackedInv'
  BY <1>6 DEF UntrackedInv
<1>9. BaselineInv'
  BY <1>0, <1>3, <1>4 DEF BaselineInv
<1>10. VersionTellsSchema'
  BY <1>1, <1>5 DEF VersionTellsSchema
<1>11. StampInv'
  BY <1>3 DEF StampInv
<1> QED BY <1>7, <1>8, <1>9, <1>10, <1>11

\* Every other step leaves the schema alone, and the rows but for the table.
LEMMA DatabaseInvStep == DatabaseInv /\ [DatabaseNext]_databaseVars => DatabaseInv'
<1> SUFFICES ASSUME DatabaseInv, [DatabaseNext]_databaseVars PROVE DatabaseInv'
  OBVIOUS
<1> USE DEF DatabaseInv
<1>0. app \in Releases /\ app \in Nat /\ app >= 1 /\ app >= Baseline /\ Baseline \in Nat
  BY ReleaseFacts DEF DatabaseTypeInv
<1>1. ASSUME NEW a \in Releases, New(a) PROVE DatabaseInv'
  BY <1>1 DEF New, file, DatabaseTypeInv, UntrackedInv, BaselineInv, VersionTellsSchema, StampInv
<1>2. CASE SkipBaseline
  BY <1>2 DEF SkipBaseline, file, history, DatabaseTypeInv, UntrackedInv, BaselineInv,
              VersionTellsSchema, StampInv
<1>3. CASE CreateTable
  <2>1. UNCHANGED <<schema, userVersion, app, unstamped, torn>> /\ rows' = {} /\ opening' = "rows"
    BY <1>3 DEF CreateTable, history
  <2>2. schema = Baseline /\ schema > 0 /\ rows = NoTable /\ opening = "baseline"
    BY <1>3 DEF CreateTable, UntrackedInv
  <2>3. ~ torn
    <3> SUFFICES ASSUME torn PROVE FALSE
      OBVIOUS
    <3>1. PICK k \in Stamps : rows = 0 .. (k - 1)
      BY DEF BaselineInv
    <3>2. k = 0 \/ k - 1 \in 0 .. app
      BY <1>0 DEF Stamps
    <3>3. 0 .. (0 - 1) = {}
      OBVIOUS
    <3> QED BY <1>0, <2>2, <3>1, <3>2, <3>3, RowsAreTracked
  <2>4. BaselineInv'
    <3>1. 0 \in Stamps /\ rows' = 0 .. (0 - 1)
      BY <1>0, <2>1 DEF Stamps
    <3> QED BY <2>1, <2>2, <2>3, <3>1 DEF BaselineInv
  <2>5. NoTable # {}
    BY DatabaseAssumption
  <2>6. DatabaseTypeInv' /\ UntrackedInv' /\ VersionTellsSchema' /\ StampInv'
    BY <2>1, <2>5 DEF DatabaseTypeInv, UntrackedInv, VersionTellsSchema, StampInv
  <2> QED BY <2>4, <2>6
<1>4. CASE StampRow
  BY <1>4, StampRowKeeps
<1>5. CASE GuardRejects
  BY <1>5 DEF GuardRejects, file, history, DatabaseTypeInv, UntrackedInv, BaselineInv,
              VersionTellsSchema, StampInv
<1>6. CASE Guard
  BY <1>6 DEF Guard, Supported, file, history, DatabaseTypeInv, UntrackedInv, BaselineInv,
              VersionTellsSchema, StampInv
<1>7. CASE BackupBegins
  BY <1>7 DEF BackupBegins, file, history, DatabaseTypeInv, UntrackedInv, BaselineInv,
              VersionTellsSchema, StampInv
<1>8. CASE BackupEnds
  BY <1>8 DEF BackupEnds, file, history, DatabaseTypeInv, UntrackedInv, BaselineInv,
              VersionTellsSchema, StampInv
<1>9. CASE RunMigration
  BY <1>9, RunMigrationKeeps
<1>10. CASE Stamp
  <2>1. DatabaseTypeInv' /\ UntrackedInv' /\ BaselineInv' /\ VersionTellsSchema'
    BY <1>10 DEF Stamp, DatabaseTypeInv, UntrackedInv, BaselineInv, VersionTellsSchema
  <2>2. StampInv'
    BY <1>0, <1>10 DEF Stamp, StampInv, DatabaseTypeInv
  <2> QED BY <2>1, <2>2
<1>11. CASE Stop
  BY <1>11 DEF Stop, file, DatabaseTypeInv, UntrackedInv, BaselineInv, VersionTellsSchema, StampInv
<1>12. CASE UNCHANGED databaseVars
  BY <1>12 DEF databaseVars, DatabaseTypeInv, UntrackedInv, BaselineInv, VersionTellsSchema, StampInv
<1> QED BY <1>1, <1>2, <1>3, <1>4, <1>5, <1>6, <1>7, <1>8, <1>9, <1>10, <1>11, <1>12
           DEF DatabaseNext

LEMMA DatabaseInvariant == DatabaseSpec => []DatabaseInv
BY DatabaseInvInit, DatabaseInvStep, PTL DEF DatabaseSpec

\* What goose has recorded is what the database has, after any failures, crashes,
\* upgrades and downgrades of any releases, unless a baseline was given up half-way.
THEOREM DatabaseVersionTellsSchema == DatabaseSpec => []VersionTellsSchema
<1>1. DatabaseInv => VersionTellsSchema
  BY DEF DatabaseInv
<1> QED BY <1>1, DatabaseInvariant, PTL

\* No release opens the database of a newer one, unless migrations were run and
\* their stamp was not.
THEOREM DatabaseDowngradeRefused == DatabaseSpec => []DowngradeRefused
<1>1. DatabaseInv => DowngradeRefused
  BY ReleaseFacts DEF DatabaseInv, DatabaseTypeInv, StampInv, DowngradeRefused
<1> QED BY <1>1, DatabaseInvariant, PTL

\* No release lowers the stamp by which older ones are refused.
THEOREM DatabaseStampNeverFalls == DatabaseSpec => StampNeverFalls
<1>1. DatabaseInv /\ [DatabaseNext]_databaseVars => [userVersion' >= userVersion]_userVersion
  <2> SUFFICES ASSUME DatabaseInv, [DatabaseNext]_databaseVars
               PROVE  userVersion' >= userVersion \/ userVersion' = userVersion
    OBVIOUS
  <2>1. CASE Stamp
    BY <2>1, ReleaseFacts DEF Stamp, DatabaseInv, DatabaseTypeInv, StampInv
  <2>2. CASE ~ Stamp
    BY <2>2 DEF DatabaseNext, databaseVars, New, SkipBaseline, CreateTable, StampRow,
                GuardRejects, Guard, BackupBegins, BackupEnds, RunMigration, Stop, file
  <2> QED BY <2>1, <2>2
<1> QED BY <1>1, DatabaseInvariant, PTL DEF DatabaseSpec, StampNeverFalls

\* A backup is named after a stamp; when it is done it has the schema it was made of.
SavedBackup == [version : Releases \cup {0}, schema : Nat \cup {Partial}]

\* The newest backup is the database as New found it.
FoundIsBackedUp ==
  /\ backups # <<>> /\ Len(backups) <= MaxBackups
  /\ backups[Len(backups)] = [version |-> found.userVersion, schema |-> found.schema]

\* Until its migrations New leaves the database as it found it, but for the rows; from
\* then on there was no need of a backup, or there is one.
BackupInv ==
  /\ backups \in Seq(SavedBackup)
  /\ opening \in {"baseline", "rows", "guard", "backup", "vacuum"} =>
       found.schema = schema /\ found.userVersion = userVersion
  /\ opening = "vacuum" =>
       backups # <<>> /\ backups[Len(backups)].version = userVersion
  /\ opening \in {"up", "open"} =>
       \/ ~ WithBackup
       \/ ~ found.userVersion > 0
       \/ Pending = {} /\ schema = found.schema
       \/ FoundIsBackedUp

LEMMA WithoutType ==
  ASSUME NEW s \in Seq(SavedBackup), NEW version
  PROVE  Without(s, version) \in Seq(SavedBackup)
<1> DEFINE named == {k \in DOMAIN s : s[k].version = version}
           k == CHOOSE i \in named : TRUE
<1>1. CASE named = {}
  BY <1>1 DEF Without
<1>2. CASE named # {}
  <2>1. k \in 1 .. Len(s)
    BY <1>2
  <2>2. Without(s, version) = SubSeq(s, 1, k - 1) \o SubSeq(s, k + 1, Len(s))
    BY <1>2 DEF Without
  <2> HIDE DEF k, named
  <2>3. SubSeq(s, 1, k - 1) \in Seq(SavedBackup) /\ SubSeq(s, k + 1, Len(s)) \in Seq(SavedBackup)
    BY <2>1
  <2>4. QED
    BY <2>2, <2>3
<1>3. QED
  BY <1>1, <1>2

\* What cleanOldBackups leaves ends in the newest backup.
LEMMA NewestKeepsLast ==
  ASSUME NEW s \in Seq(SavedBackup), s # <<>>, NEW n \in Nat \ {0}
  PROVE  /\ Newest(s, n) \in Seq(SavedBackup) /\ Newest(s, n) # <<>> /\ Len(Newest(s, n)) <= n
         /\ Newest(s, n)[Len(Newest(s, n))] = s[Len(s)]
<1>1. CASE Len(s) <= n
  BY <1>1 DEF Newest
<1>2. CASE ~ Len(s) <= n
  <2> DEFINE t == SubSeq(s, Len(s) - n + 1, Len(s))
  <2>1. Len(s) \in Nat /\ Len(s) - n + 1 \in 1 .. Len(s)
    BY <1>2
  <2>2. t \in Seq(SavedBackup) /\ Len(t) = n /\ \A i \in 1 .. n : t[i] = s[Len(s) - n + i]
    BY <2>1
  <2>3. Newest(s, n) = t
    BY <1>2 DEF Newest
  <2> HIDE DEF t
  <2>4. t[n] = s[Len(s)] /\ t # <<>>
    BY <2>1, <2>2
  <2>5. QED
    BY <2>2, <2>3, <2>4
<1>3. QED
  BY <1>1, <1>2

LEMMA BackupInvInit == DatabaseInit => BackupInv
BY DEF DatabaseInit, BackupInv

LEMMA BackupInvStep ==
  ASSUME DatabaseTypeInv, BackupInv, [DatabaseNext]_databaseVars
  PROVE  BackupInv'
<1>1. ASSUME NEW a \in Releases, New(a) PROVE BackupInv'
  BY <1>1 DEF New, file, BackupInv
<1>2. CASE SkipBaseline \/ CreateTable \/ StampRow \/ GuardRejects \/ Stop
  <2>1. /\ UNCHANGED <<schema, userVersion, backups, found>>
        /\ \/ opening \in {"baseline", "rows", "guard"}
              /\ opening' \in {"rows", "guard", "closed"}
           \/ opening' = "closed"
    BY <1>2 DEF SkipBaseline, CreateTable, StampRow, GuardRejects, Stop, file, history
  <2>2. QED
    BY <2>1 DEF BackupInv
<1>3. CASE Guard
  <2>1. /\ UNCHANGED <<schema, userVersion, rows, app, backups, found>>
        /\ opening = "guard" /\ opening' = IF NeedsBackup THEN "backup" ELSE "up"
    BY <1>3 DEF Guard, file, history
  <2>2. Pending' = Pending
    BY <2>1 DEF Pending
  <2>3. QED
    BY <2>1, <2>2 DEF BackupInv, NeedsBackup
<1>4. CASE BackupBegins
  <2> DEFINE s == Without(backups, userVersion)
             b == [version |-> userVersion, schema |-> Partial]
  <2>1. s \in Seq(SavedBackup) /\ b \in SavedBackup /\ b.version = userVersion
    BY WithoutType DEF BackupInv, SavedBackup, DatabaseTypeInv
  <2>2. /\ backups' = Append(s, b) /\ opening' = "vacuum" /\ opening = "backup"
        /\ UNCHANGED <<schema, userVersion, found>>
    BY <1>4 DEF BackupBegins, file, history
  <2> HIDE DEF s, b
  <2>3. /\ Append(s, b) \in Seq(SavedBackup) /\ Append(s, b) # <<>>
        /\ Append(s, b)[Len(Append(s, b))] = b
    BY <2>1
  <2>4. QED
    BY <2>1, <2>2, <2>3 DEF BackupInv
<1>5. CASE BackupEnds
  <2> DEFINE last == [backups[Len(backups)] EXCEPT !.schema = schema]
             s == [backups EXCEPT ![Len(backups)] = last]
  <2>1. /\ backups \in Seq(SavedBackup) /\ backups # <<>>
        /\ backups[Len(backups)].version = userVersion
        /\ found.schema = schema /\ found.userVersion = userVersion
        /\ schema \in Nat /\ MaxBackups \in Nat \ {0}
    BY <1>5, DatabaseAssumption DEF BackupEnds, BackupInv, DatabaseTypeInv
  <2>2. backups[Len(backups)] \in SavedBackup /\ Len(backups) \in 1 .. Len(backups)
    BY <2>1
  <2>3. last = [version |-> userVersion, schema |-> schema] /\ last \in SavedBackup
    BY <2>1, <2>2 DEF SavedBackup
  <2>4. backups' = Newest(s, MaxBackups) /\ opening' = "up" /\ UNCHANGED <<schema, found>>
    BY <1>5 DEF BackupEnds, file, history
  <2> HIDE DEF last
  <2>5. s \in Seq(SavedBackup) /\ s # <<>> /\ s[Len(s)] = last
    BY <2>1, <2>2, <2>3
  <2> HIDE DEF s
  <2>6. FoundIsBackedUp' /\ backups' \in Seq(SavedBackup)
    BY <2>1, <2>3, <2>4, <2>5, NewestKeepsLast DEF FoundIsBackedUp
  <2>7. QED
    BY <2>4, <2>6 DEF BackupInv
<1>6. CASE RunMigration
  <2>1. opening = "up" /\ opening' = "up" /\ Pending # {} /\ UNCHANGED <<backups, found>>
    BY <1>6 DEF RunMigration
  <2>2. QED
    BY <2>1 DEF BackupInv, FoundIsBackedUp
<1>7. CASE Stamp
  <2>1. /\ opening = "up" /\ opening' = "open"
        /\ UNCHANGED <<schema, rows, app, backups, found>>
    BY <1>7 DEF Stamp
  <2>2. Pending' = Pending
    BY <2>1 DEF Pending
  <2>3. QED
    BY <2>1, <2>2 DEF BackupInv, FoundIsBackedUp
<1>8. CASE UNCHANGED databaseVars
  <2>1. Pending' = Pending
    BY <1>8 DEF databaseVars, Pending
  <2>2. QED
    BY <1>8, <2>1 DEF databaseVars, BackupInv, FoundIsBackedUp
<1>9. QED
  BY <1>1, <1>2, <1>3, <1>4, <1>5, <1>6, <1>7, <1>8 DEF DatabaseNext

\* Migrations change a stamped database only after it was copied, and the copy is the
\* newest of as many as are kept (Database.BackedUp), whatever failed or crashed before.
THEOREM DatabaseBackedUp == DatabaseSpec => []BackedUp
<1>1. BackupInv => BackedUp
  BY DEF BackupInv, BackedUp, FoundIsBackedUp
<1>2. DatabaseInv => DatabaseTypeInv
  BY DEF DatabaseInv
<1>3. DatabaseTypeInv /\ BackupInv /\ [DatabaseNext]_databaseVars => BackupInv'
  BY BackupInvStep
<1>4. QED
  BY BackupInvInit, DatabaseInvariant, <1>1, <1>2, <1>3, PTL DEF DatabaseSpec
-----------------------------------------------------------------------------
(* VersionOrder: "newer than" is an order, and the release chosen is the newest. *)

\* Every set of numbers with an element has a least one.
LEMMA LeastOf ==
  ASSUME NEW T \in SUBSET Nat, NEW t \in T
  PROVE  \E i \in T : \A j \in T : i <= j
<1>1. PICK i \in T : \A j \in T : ~ (<<j, i>> \in OpToRel(<, Nat))
  BY NatLessThanWellFounded, WFMin
<1>2. ASSUME NEW j \in T PROVE i <= j
  <2>1. i \in Nat /\ j \in Nat
    BY <1>1
  <2>2. ~(j < i)
    BY <1>1, <2>1 DEF OpToRel
  <2>3. QED
    BY <2>1, <2>2
<1>3. QED
  BY <1>2

\* What FirstNonZero finds: the value at the first place that is not zero, if any.
LEMMA FirstFound ==
  ASSUME NEW n \in Nat, NEW s, DOMAIN s = 1 .. n, \A k \in 1 .. n : s[k] \in Int
  PROVE  \/ FirstNonZero(s) = 0 /\ \A k \in 1 .. n : s[k] = 0
         \/ \E k \in 1 .. n : /\ FirstNonZero(s) = s[k] /\ s[k] # 0
                              /\ \A j \in 1 .. k - 1 : s[j] = 0
<1> DEFINE T == {k \in 1 .. n : s[k] # 0}
<1>1. CASE T = {}
  <2>1. \A k \in 1 .. n : s[k] = 0
    BY <1>1
  <2>2. FirstNonZero(s) = 0
    BY <2>1 DEF FirstNonZero, IsFirst
  <2>3. QED
    BY <2>1, <2>2
<1>2. CASE T # {}
  <2>1. T \in SUBSET Nat
    OBVIOUS
  <2>2. PICK t : t \in T
    BY <1>2
  <2>3. PICK k \in T : \A j \in T : k <= j
    BY <2>1, <2>2, LeastOf
  <2>4. k \in DOMAIN s /\ IsFirst(s, k)
    BY <2>3 DEF IsFirst
  <2> DEFINE f == CHOOSE i \in DOMAIN s : IsFirst(s, i)
  <2>5. f \in DOMAIN s /\ IsFirst(s, f)
    BY <2>4
  <2>6. FirstNonZero(s) = s[f]
    BY <2>4 DEF FirstNonZero
  <2> HIDE DEF f
  <2>7. QED
    BY <2>5, <2>6 DEF IsFirst
<1>3. QED
  BY <1>1, <1>2

\* Three comparisons, of a first with a second, of that with a third, and of the first
\* with the third, go together when the third is what the two say.
Follows(p, q, r) ==
  p >= 0 /\ q >= 0 => r >= 0 /\ (r > 0 <=> p > 0 \/ q > 0)

\* Places that go together, each with its like, make comparisons that go together.
LEMMA FirstsFollow ==
  ASSUME NEW n \in Nat, NEW p, NEW q, NEW r,
         DOMAIN p = 1 .. n, DOMAIN q = 1 .. n, DOMAIN r = 1 .. n,
         \A k \in 1 .. n : /\ p[k] \in Int /\ q[k] \in Int /\ r[k] \in Int
                           /\ Follows(p[k], q[k], r[k])
  PROVE  Follows(FirstNonZero(p), FirstNonZero(q), FirstNonZero(r))
<1> DEFINE P == FirstNonZero(p)
           Q == FirstNonZero(q)
           R == FirstNonZero(r)
<1>1. /\ \/ P = 0 /\ \A k \in 1 .. n : p[k] = 0
         \/ \E k \in 1 .. n : P = p[k] /\ p[k] # 0 /\ \A j \in 1 .. k - 1 : p[j] = 0
      /\ \/ Q = 0 /\ \A k \in 1 .. n : q[k] = 0
         \/ \E k \in 1 .. n : Q = q[k] /\ q[k] # 0 /\ \A j \in 1 .. k - 1 : q[j] = 0
      /\ \/ R = 0 /\ \A k \in 1 .. n : r[k] = 0
         \/ \E k \in 1 .. n : R = r[k] /\ r[k] # 0 /\ \A j \in 1 .. k - 1 : r[j] = 0
  BY FirstFound
<1> HIDE DEF P, Q, R
<1>0. P \in Int /\ Q \in Int /\ R \in Int
  BY <1>1
<1>2. SUFFICES ASSUME P >= 0, Q >= 0 PROVE R >= 0 /\ (R > 0 <=> P > 0 \/ Q > 0)
  BY DEF Follows, P, Q, R
<1>3. \A k \in 1 .. n : p[k] = 0 /\ q[k] = 0 => r[k] = 0
  BY DEF Follows
<1>4. CASE (\A k \in 1 .. n : p[k] = 0) /\ (\A k \in 1 .. n : q[k] = 0)
  <2>1. P = 0 /\ Q = 0
    BY <1>1, <1>4
  <2>2. R = 0
    BY <1>1, <1>3, <1>4
  <2>3. QED
    BY <2>1, <2>2
<1>5. ASSUME NEW m \in 1 .. n, \A k \in 1 .. m - 1 : p[k] = 0 /\ q[k] = 0,
             p[m] >= 0, q[m] >= 0, p[m] > 0 \/ q[m] > 0
      PROVE  R > 0
  <2>1. r[m] > 0
    BY <1>5 DEF Follows
  <2>2. \A k \in 1 .. m - 1 : r[k] = 0
    BY <1>3, <1>5
  <2>3. PICK k \in 1 .. n : R = r[k] /\ r[k] # 0 /\ \A j \in 1 .. k - 1 : r[j] = 0
    BY <1>1, <2>1
  <2>4. k = m
    <3>1. CASE k < m
      BY <2>2, <2>3, <3>1
    <3>2. CASE m < k
      BY <2>1, <2>3, <3>2
    <3>3. QED
      BY <3>1, <3>2
  <2>5. QED
    BY <2>1, <2>3, <2>4
<1>6. CASE \E k \in 1 .. n : P = p[k] /\ p[k] # 0 /\ \A j \in 1 .. k - 1 : p[j] = 0
  <2>1. PICK i \in 1 .. n : P = p[i] /\ p[i] # 0 /\ \A j \in 1 .. i - 1 : p[j] = 0
    BY <1>6
  <2>2. P > 0 /\ p[i] > 0
    BY <1>2, <2>1
  <2>3. CASE \A k \in 1 .. n : q[k] = 0
    <3>1. q[i] = 0 /\ \A k \in 1 .. i - 1 : p[k] = 0 /\ q[k] = 0
      BY <2>1, <2>3
    <3>2. R > 0
      BY <1>5, <2>2, <3>1
    <3>3. QED
      BY <1>0, <2>2, <3>2
  <2>4. CASE \E k \in 1 .. n : Q = q[k] /\ q[k] # 0 /\ \A j \in 1 .. k - 1 : q[j] = 0
    <3>1. PICK j \in 1 .. n : Q = q[j] /\ q[j] # 0 /\ \A k \in 1 .. j - 1 : q[k] = 0
      BY <2>4
    <3>2. q[j] > 0
      BY <1>2, <3>1
    <3>3. CASE i <= j
      <4>1. q[i] >= 0 /\ \A k \in 1 .. i - 1 : p[k] = 0 /\ q[k] = 0
        BY <2>1, <3>1, <3>2, <3>3
      <4>2. R > 0
        BY <1>5, <2>2, <4>1
      <4>3. QED
        BY <1>0, <2>2, <4>2
    <3>4. CASE j < i
      <4>1. p[j] >= 0 /\ \A k \in 1 .. j - 1 : p[k] = 0 /\ q[k] = 0
        BY <2>1, <3>1, <3>2, <3>4
      <4>2. R > 0
        BY <1>5, <3>2, <4>1
      <4>3. QED
        BY <1>0, <2>2, <4>2
    <3>5. QED
      BY <3>3, <3>4
  <2>5. QED
    BY <1>1, <2>3, <2>4
<1>7. CASE /\ \A k \in 1 .. n : p[k] = 0
           /\ \E k \in 1 .. n : Q = q[k] /\ q[k] # 0 /\ \A j \in 1 .. k - 1 : q[j] = 0
  <2>1. PICK j \in 1 .. n : Q = q[j] /\ q[j] # 0 /\ \A k \in 1 .. j - 1 : q[k] = 0
    BY <1>7
  <2>2. Q > 0 /\ q[j] > 0
    BY <1>2, <2>1
  <2>3. R > 0
    BY <1>5, <1>7, <2>1, <2>2
  <2>4. QED
    BY <1>0, <2>2, <2>3
<1>8. QED
  BY <1>1, <1>4, <1>6, <1>7

\* Places that are each the negation of its like make a comparison that is the negation.
LEMMA FirstsNegated ==
  ASSUME NEW n \in Nat, NEW p, NEW q, DOMAIN p = 1 .. n, DOMAIN q = 1 .. n,
         \A k \in 1 .. n : p[k] \in Int /\ q[k] \in Int /\ p[k] = - q[k]
  PROVE  FirstNonZero(p) = - FirstNonZero(q)
<1> DEFINE P == FirstNonZero(p)
           Q == FirstNonZero(q)
<1>1. /\ \/ P = 0 /\ \A k \in 1 .. n : p[k] = 0
         \/ \E k \in 1 .. n : P = p[k] /\ p[k] # 0 /\ \A j \in 1 .. k - 1 : p[j] = 0
      /\ \/ Q = 0 /\ \A k \in 1 .. n : q[k] = 0
         \/ \E k \in 1 .. n : Q = q[k] /\ q[k] # 0 /\ \A j \in 1 .. k - 1 : q[j] = 0
  BY FirstFound
<1> HIDE DEF P, Q
<1>2. \A k \in 1 .. n : p[k] = 0 <=> q[k] = 0
  OBVIOUS
<1>3. CASE \A k \in 1 .. n : p[k] = 0
  BY <1>1, <1>2, <1>3 DEF P, Q
<1>4. CASE ~ \A k \in 1 .. n : p[k] = 0
  <2>1. PICK i \in 1 .. n : P = p[i] /\ p[i] # 0 /\ \A j \in 1 .. i - 1 : p[j] = 0
    BY <1>1, <1>4
  <2>2. PICK k \in 1 .. n : Q = q[k] /\ q[k] # 0 /\ \A j \in 1 .. k - 1 : q[j] = 0
    BY <1>1, <1>2, <1>4
  <2>3. i = k
    <3>1. CASE i < k
      BY <1>2, <2>1, <2>2, <3>1
    <3>2. CASE k < i
      BY <1>2, <2>1, <2>2, <3>2
    <3>3. QED
      BY <3>1, <3>2
  <2>4. P = - Q
    BY <2>1, <2>2, <2>3
  <2>5. QED
    BY <2>4 DEF P, Q
<1>5. QED
  BY <1>3, <1>4

\* cmpInt orders numbers.
LEMMA IntsFollow ==
  ASSUME NEW a \in Int, NEW b \in Int, NEW c \in Int
  PROVE  /\ cmpInt(a, b) \in Int /\ cmpInt(a, b) = - cmpInt(b, a) /\ cmpInt(a, a) = 0
         /\ Follows(cmpInt(a, b), cmpInt(b, c), cmpInt(a, c))
BY DEF cmpInt, Follows

\* Numbers come before strings, and each kind is ordered.
LEMMA IdentifiersFollow ==
  ASSUME NEW x \in Identifiers, NEW y \in Identifiers, NEW z \in Identifiers
  PROVE  /\ CompareIdentifiers(x, y) \in Int
         /\ CompareIdentifiers(x, y) = - CompareIdentifiers(y, x)
         /\ CompareIdentifiers(x, x) = 0
         /\ Follows(CompareIdentifiers(x, y), CompareIdentifiers(y, z),
                    CompareIdentifiers(x, z))
<1>1. /\ x.number \in Int \cup {NaN} /\ y.number \in Int \cup {NaN}
      /\ z.number \in Int \cup {NaN} /\ NaN \notin Int
      /\ x.text \in Int /\ y.text \in Int /\ z.text \in Int
  BY VersionAssumption
<1>2. QED
  BY <1>1 DEF CompareIdentifiers, cmpInt, Follows

\* How two pre-releases compare at place k: what ends first is less.
AtPlace(a, b, k) ==
  IF k <= Len(a) THEN IF k <= Len(b) THEN CompareIdentifiers(a[k], b[k]) ELSE 1
  ELSE IF k <= Len(b) THEN -1 ELSE 0

\* At each place pre-releases are ordered.
LEMMA PlacesFollow ==
  ASSUME NEW a \in Seq(Identifiers), NEW b \in Seq(Identifiers), NEW c \in Seq(Identifiers),
         NEW k \in Nat \ {0}
  PROVE  /\ AtPlace(a, b, k) \in Int /\ AtPlace(a, b, k) = - AtPlace(b, a, k)
         /\ AtPlace(a, a, k) = 0
         /\ Follows(AtPlace(a, b, k), AtPlace(b, c, k), AtPlace(a, c, k))
<1>1. /\ Len(a) \in Nat /\ Len(b) \in Nat /\ Len(c) \in Nat
      /\ k <= Len(a) => a[k] \in Identifiers
      /\ k <= Len(b) => b[k] \in Identifiers
      /\ k <= Len(c) => c[k] \in Identifiers
  OBVIOUS
<1>2. k <= Len(a) => CompareIdentifiers(a[k], a[k]) = 0
  BY <1>1, IdentifiersFollow
<1>3. k <= Len(a) /\ k <= Len(b) =>
        /\ CompareIdentifiers(a[k], b[k]) \in Int
        /\ CompareIdentifiers(a[k], b[k]) = - CompareIdentifiers(b[k], a[k])
  BY <1>1, IdentifiersFollow
<1>4. k <= Len(b) /\ k <= Len(c) => CompareIdentifiers(b[k], c[k]) \in Int
  BY <1>1, IdentifiersFollow
<1>5. k <= Len(a) /\ k <= Len(b) /\ k <= Len(c) =>
        Follows(CompareIdentifiers(a[k], b[k]), CompareIdentifiers(b[k], c[k]),
                CompareIdentifiers(a[k], c[k]))
  BY <1>1, IdentifiersFollow
<1>6. k <= Len(a) /\ k <= Len(c) => CompareIdentifiers(a[k], c[k]) \in Int
  BY <1>1, IdentifiersFollow
<1>7. AtPlace(a, b, k) \in Int /\ AtPlace(a, b, k) = - AtPlace(b, a, k) /\ AtPlace(a, a, k) = 0
  <2>1. k <= Len(a) /\ k <= Len(b) => CompareIdentifiers(b[k], a[k]) \in Int
    BY <1>1, IdentifiersFollow
  <2>2. QED
    BY <1>1, <1>2, <1>3, <2>1 DEF AtPlace
<1>8. Follows(AtPlace(a, b, k), AtPlace(b, c, k), AtPlace(a, c, k))
  BY <1>1, <1>3, <1>4, <1>5, <1>6 DEF AtPlace, Follows
<1>9. QED
  BY <1>7, <1>8

\* comparePrerelease compares place by place, over as many places as either has.
Places(a, b, n) == [k \in 1 .. n |-> AtPlace(a, b, k)]

LEMMA PlacesType ==
  ASSUME NEW a \in Seq(Identifiers), NEW b \in Seq(Identifiers), NEW n \in Nat
  PROVE  /\ DOMAIN Places(a, b, n) = 1 .. n
         /\ \A k \in 1 .. n :
              Places(a, b, n)[k] = AtPlace(a, b, k) /\ Places(a, b, n)[k] \in Int
<1>1. \A k \in 1 .. n : AtPlace(a, b, k) \in Int
  BY PlacesFollow
<1>2. QED
  BY <1>1 DEF Places

LEMMA PrereleaseByPlace ==
  ASSUME NEW a \in Seq(Identifiers), NEW b \in Seq(Identifiers), NEW n \in Nat,
         n >= Len(a), n >= Len(b), a # <<>>, b # <<>>
  PROVE  comparePrerelease(a, b) = FirstNonZero(Places(a, b, n))
<1> DEFINE m == IF Len(a) < Len(b) THEN Len(a) ELSE Len(b)
           shared == [k \in 1 .. m |-> CompareIdentifiers(a[k], b[k])]
           s == Append(shared, cmpInt(Len(a), Len(b)))
           p == Places(a, b, n)
<1>1. Len(a) \in Nat /\ Len(b) \in Nat /\ m \in Nat /\ m <= n
  OBVIOUS
<1>2. \A k \in 1 .. m : AtPlace(a, b, k) = CompareIdentifiers(a[k], b[k])
  BY <1>1 DEF AtPlace
<1>3. \A k \in 1 .. n : p[k] = AtPlace(a, b, k) /\ p[k] \in Int
  BY PlacesType
<1>4. DOMAIN p = 1 .. n
  BY PlacesType
<1>5. \A k \in 1 .. m : shared[k] = p[k] /\ shared[k] \in Int
  BY <1>1, <1>2, <1>3
<1>6. shared \in Seq(Int) /\ Len(shared) = m
  <2>1. shared \in [1 .. m -> Int]
    BY <1>5
  <2> HIDE DEF m, shared
  <2>2. QED
    BY <1>1, <2>1
<1>7. cmpInt(Len(a), Len(b)) \in Int
  BY <1>1 DEF cmpInt
<1>8. /\ DOMAIN s = 1 .. m + 1
      /\ \A k \in 1 .. m : s[k] = p[k]
      /\ s[m + 1] = cmpInt(Len(a), Len(b))
      /\ \A k \in 1 .. m + 1 : s[k] \in Int
  <2> DEFINE c == cmpInt(Len(a), Len(b))
  <2>1. c \in Int
    BY <1>7
  <2> HIDE DEF m, shared, c
  <2>2. Append(shared, c) \in Seq(Int) /\ Len(Append(shared, c)) = m + 1
    BY <1>6, <2>1
  <2>3. /\ \A k \in 1 .. m : Append(shared, c)[k] = shared[k]
        /\ Append(shared, c)[m + 1] = c
    BY <1>6, <2>1
  <2>4. QED
    BY <1>1, <1>5, <2>2, <2>3 DEF c
<1>9. a = b => FirstNonZero(p) = 0
  <2>1. a = b => \A k \in 1 .. n : p[k] = 0
    BY <1>3, PlacesFollow
  <2>2. QED
    BY <1>3, <1>4, <2>1, FirstFound
<1>10. a # b => comparePrerelease(a, b) = FirstNonZero(s)
  BY DEF comparePrerelease
<1> HIDE DEF m, shared, s, p
<1>11. FirstNonZero(s) = FirstNonZero(p)
  <2>1. /\ \/ FirstNonZero(s) = 0 /\ \A k \in 1 .. m + 1 : s[k] = 0
           \/ \E k \in 1 .. m + 1 : /\ FirstNonZero(s) = s[k] /\ s[k] # 0
                                    /\ \A j \in 1 .. k - 1 : s[j] = 0
        /\ \/ FirstNonZero(p) = 0 /\ \A k \in 1 .. n : p[k] = 0
           \/ \E k \in 1 .. n : /\ FirstNonZero(p) = p[k] /\ p[k] # 0
                                /\ \A j \in 1 .. k - 1 : p[j] = 0
    <3>1. m + 1 \in Nat
      BY <1>1
    <3>2. QED
      BY <1>3, <1>4, <1>8, <3>1, FirstFound
  <2>2. CASE \E k \in 1 .. m : s[k] # 0
    <3>1. PICK i \in 1 .. m + 1 : /\ FirstNonZero(s) = s[i] /\ s[i] # 0
                                  /\ \A j \in 1 .. i - 1 : s[j] = 0
      BY <1>1, <2>1, <2>2
    <3>2. i \in 1 .. m
      BY <1>1, <2>2, <3>1
    <3>3. PICK k \in 1 .. n : /\ FirstNonZero(p) = p[k] /\ p[k] # 0
                              /\ \A j \in 1 .. k - 1 : p[j] = 0
      BY <1>1, <1>8, <2>1, <3>1, <3>2
    <3>4. k = i
      <4>1. CASE k < i
        BY <1>1, <1>8, <3>1, <3>2, <3>3, <4>1
      <4>2. CASE i < k
        BY <1>1, <1>8, <3>1, <3>2, <3>3, <4>2
      <4>3. QED
        BY <4>1, <4>2
    <3>5. QED
      BY <1>8, <3>1, <3>2, <3>3, <3>4
  <2>3. CASE \A k \in 1 .. m : s[k] = 0
    <3>1. FirstNonZero(s) = s[m + 1]
      BY <1>1, <2>1, <2>3
    <3>2. \A k \in 1 .. m : p[k] = 0
      BY <1>8, <2>3
    <3>3. CASE m = n
      <4>1. Len(a) = Len(b)
        BY <1>1, <3>3 DEF m
      <4>2. s[m + 1] = 0
        BY <1>1, <1>8, <4>1 DEF cmpInt
      <4>3. FirstNonZero(p) = 0
        BY <2>1, <3>2, <3>3
      <4>4. QED
        BY <3>1, <4>2, <4>3
    <3>4. CASE m < n /\ Len(a) = Len(b)
      <4>1. \A k \in 1 .. n : p[k] = 0
        <5>1. ASSUME NEW k \in 1 .. n, k > m PROVE p[k] = 0
          BY <1>1, <1>3, <3>4, <5>1 DEF AtPlace, m
        <5>2. QED
          BY <1>1, <3>2, <5>1
      <4>2. s[m + 1] = 0
        BY <1>1, <1>8, <3>4 DEF cmpInt
      <4>3. QED
        BY <2>1, <3>1, <4>1, <4>2
    <3>5. CASE m < n /\ Len(a) # Len(b)
      <4>1. p[m + 1] = s[m + 1] /\ s[m + 1] # 0 /\ m + 1 \in 1 .. n
        BY <1>1, <1>3, <1>8, <3>5 DEF AtPlace, m, cmpInt
      <4>2. PICK k \in 1 .. n : /\ FirstNonZero(p) = p[k] /\ p[k] # 0
                                /\ \A j \in 1 .. k - 1 : p[j] = 0
        BY <2>1, <4>1
      <4>3. k = m + 1
        BY <1>1, <3>2, <4>1, <4>2
      <4>4. QED
        BY <3>1, <4>1, <4>2, <4>3
    <3>6. QED
      BY <1>1, <3>3, <3>4, <3>5
  <2>4. QED
    BY <2>2, <2>3
<1>12. QED
  <2>1. a = b => comparePrerelease(a, b) = 0
    BY DEF comparePrerelease
  <2>2. QED
    BY <1>9, <1>10, <1>11, <2>1 DEF p

\* A function on the first numbers is a sequence.
LEMMA SeqOf ==
  ASSUME NEW S, NEW n \in Nat, NEW s \in [1 .. n -> S]
  PROVE  s \in Seq(S) /\ Len(s) = n
OBVIOUS

\* What Append adds and keeps.
LEMMA AppendOf ==
  ASSUME NEW s \in Seq(Int), NEW e \in Int
  PROVE  /\ Append(s, e) \in Seq(Int) /\ Len(Append(s, e)) = Len(s) + 1
         /\ Append(s, e)[Len(s) + 1] = e
         /\ \A k \in 1 .. Len(s) : Append(s, e)[k] = s[k]
OBVIOUS

\* comparePrerelease orders pre-releases, a stable version after all of them.
LEMMA PrereleasesFollow ==
  ASSUME NEW a \in Seq(Identifiers), NEW b \in Seq(Identifiers), NEW c \in Seq(Identifiers)
  PROVE  /\ comparePrerelease(a, b) \in Int
         /\ comparePrerelease(a, b) = - comparePrerelease(b, a)
         /\ Follows(comparePrerelease(a, b), comparePrerelease(b, c),
                    comparePrerelease(a, c))
<1> DEFINE n == Len(a) + Len(b) + Len(c)
<1>1. /\ n \in Nat /\ n >= Len(a) /\ n >= Len(b) /\ n >= Len(c)
  OBVIOUS
<1> HIDE DEF n
<1>2. ASSUME NEW d \in Seq(Identifiers), NEW e \in Seq(Identifiers),
             d # <<>>, e # <<>>, n >= Len(d), n >= Len(e)
      PROVE  /\ comparePrerelease(d, e) = FirstNonZero(Places(d, e, n))
             /\ comparePrerelease(d, e) \in Int
  <2>1. comparePrerelease(d, e) = FirstNonZero(Places(d, e, n))
    BY <1>1, <1>2, PrereleaseByPlace
  <2>2. /\ DOMAIN Places(d, e, n) = 1 .. n
        /\ \A k \in 1 .. n : Places(d, e, n)[k] \in Int
    BY <1>1, PlacesType
  <2>3. FirstNonZero(Places(d, e, n)) \in Int
    BY <1>1, <2>2, FirstFound
  <2>4. QED
    BY <2>1, <2>3
<1>3. \A d, e :
        /\ d = <<>> /\ e = <<>> => comparePrerelease(d, e) = 0
        /\ d = <<>> /\ e # <<>> => comparePrerelease(d, e) = 1
        /\ d # <<>> /\ e = <<>> => comparePrerelease(d, e) = -1
  BY DEF comparePrerelease
<1>4. /\ comparePrerelease(a, b) \in Int /\ comparePrerelease(b, c) \in Int
      /\ comparePrerelease(a, c) \in Int /\ comparePrerelease(b, a) \in Int
  <2>1. ASSUME NEW d \in {a, b, c}, NEW e \in {a, b, c}
        PROVE  comparePrerelease(d, e) \in Int
    <3>1. CASE d # <<>> /\ e # <<>>
      BY <1>1, <1>2, <3>1
    <3>2. CASE d = <<>> \/ e = <<>>
      BY <1>3, <3>2
    <3>3. QED
      BY <3>1, <3>2
  <2>2. QED
    BY <2>1
<1>5. comparePrerelease(a, b) = - comparePrerelease(b, a)
  <2>1. CASE a # <<>> /\ b # <<>>
    <3>1. /\ comparePrerelease(a, b) = FirstNonZero(Places(a, b, n))
          /\ comparePrerelease(b, a) = FirstNonZero(Places(b, a, n))
      BY <1>1, <1>2, <2>1
    <3>2. /\ DOMAIN Places(a, b, n) = 1 .. n /\ DOMAIN Places(b, a, n) = 1 .. n
          /\ \A k \in 1 .. n : /\ Places(a, b, n)[k] = AtPlace(a, b, k)
                               /\ Places(a, b, n)[k] \in Int
                               /\ Places(b, a, n)[k] = AtPlace(b, a, k)
                               /\ Places(b, a, n)[k] \in Int
      BY <1>1, PlacesType
    <3>3. \A k \in 1 .. n : AtPlace(a, b, k) = - AtPlace(b, a, k)
      BY PlacesFollow
    <3> DEFINE p == Places(a, b, n)
               o == Places(b, a, n)
    <3>4. /\ DOMAIN p = 1 .. n /\ DOMAIN o = 1 .. n
          /\ \A k \in 1 .. n : p[k] \in Int /\ o[k] \in Int /\ p[k] = - o[k]
      BY <3>2, <3>3
    <3>5. FirstNonZero(p) = FirstNonZero(Places(a, b, n))
          /\ FirstNonZero(o) = FirstNonZero(Places(b, a, n))
      OBVIOUS
    <3> HIDE DEF p, o
    <3>6. FirstNonZero(p) = - FirstNonZero(o)
      BY <1>1, <3>4, FirstsNegated
    <3>7. QED
      BY <3>1, <3>5, <3>6
  <2>2. CASE a = <<>> \/ b = <<>>
    <3>1. \/ comparePrerelease(a, b) = 0 /\ comparePrerelease(b, a) = 0
          \/ comparePrerelease(a, b) = 1 /\ comparePrerelease(b, a) = -1
          \/ comparePrerelease(a, b) = -1 /\ comparePrerelease(b, a) = 1
      BY <1>3, <2>2
    <3>2. QED
      BY <3>1
  <2>3. QED
    BY <2>1, <2>2
<1>6. Follows(comparePrerelease(a, b), comparePrerelease(b, c), comparePrerelease(a, c))
  <2>1. CASE a # <<>> /\ b # <<>> /\ c # <<>>
    <3> DEFINE p == Places(a, b, n)
               q == Places(b, c, n)
               r == Places(a, c, n)
    <3>1. /\ comparePrerelease(a, b) = FirstNonZero(p)
          /\ comparePrerelease(b, c) = FirstNonZero(q)
          /\ comparePrerelease(a, c) = FirstNonZero(r)
      BY <1>1, <1>2, <2>1
    <3>2. /\ DOMAIN p = 1 .. n /\ DOMAIN q = 1 .. n /\ DOMAIN r = 1 .. n
          /\ \A k \in 1 .. n : p[k] = AtPlace(a, b, k) /\ p[k] \in Int
          /\ \A k \in 1 .. n : q[k] = AtPlace(b, c, k) /\ q[k] \in Int
          /\ \A k \in 1 .. n : r[k] = AtPlace(a, c, k) /\ r[k] \in Int
      BY <1>1, PlacesType
    <3> HIDE DEF p, q, r
    <3>3. \A k \in 1 .. n : Follows(AtPlace(a, b, k), AtPlace(b, c, k), AtPlace(a, c, k))
      BY PlacesFollow
    <3>4. \A k \in 1 .. n : /\ p[k] \in Int /\ q[k] \in Int /\ r[k] \in Int
                            /\ Follows(p[k], q[k], r[k])
      BY <3>2, <3>3
    <3>5. Follows(FirstNonZero(p), FirstNonZero(q), FirstNonZero(r))
      BY <1>1, <3>2, <3>4, FirstsFollow
    <3>6. QED
      BY <3>1, <3>5
  <2>2. CASE a = <<>>
    BY <1>3, <1>4, <2>2 DEF Follows
  <2>3. CASE a # <<>> /\ b = <<>>
    BY <1>3, <1>4, <2>3 DEF Follows
  <2>4. CASE b # <<>> /\ c = <<>>
    BY <1>3, <1>4, <2>4 DEF Follows
  <2>5. QED
    BY <2>1, <2>2, <2>3, <2>4
<1>7. QED
  BY <1>4, <1>5, <1>6

\* What ParseVersion makes of a tag that is a version.
SemVersions == {v \in [core : Seq(Int), prerelease : Seq(Identifiers)] : Len(v.core) = 3}

LEMMA ParsedType ==
  ASSUME NEW tag \in Tags, ParseVersion(tag) # NoVersion
  PROVE  ParseVersion(tag) \in SemVersions
<1>1. tag.numbers \in Seq(Int \cup {NaN}) /\ tag.prerelease \in Seq(Identifiers)
  BY VersionAssumption
<1>2. Len(tag.numbers) = 3 /\ \A k \in 1 .. 3 : tag.numbers[k] # NaN
  BY DEF ParseVersion
<1>3. ParseVersion(tag) = [core |-> tag.numbers, prerelease |-> tag.prerelease]
  BY DEF ParseVersion
<1>4. \A k \in 1 .. Len(tag.numbers) : tag.numbers[k] \in Int
  BY <1>1, <1>2
<1>5. tag.numbers \in [1 .. 3 -> Int] /\ 3 \in Nat
  BY <1>1, <1>2, <1>4
<1>6. tag.numbers \in Seq(Int)
  BY ONLY <1>5, SeqOf
<1>7. QED
  BY <1>1, <1>2, <1>3, <1>6 DEF SemVersions

\* The four comparisons of two versions.
Parts(v, w) ==
  Append([k \in 1 .. 3 |-> cmpInt(v.core[k], w.core[k])],
         comparePrerelease(v.prerelease, w.prerelease))

LEMMA PartsType ==
  ASSUME NEW v \in SemVersions, NEW w \in SemVersions
  PROVE  /\ DOMAIN Parts(v, w) = 1 .. 4
         /\ \A k \in 1 .. 3 : Parts(v, w)[k] = cmpInt(v.core[k], w.core[k])
         /\ Parts(v, w)[4] = comparePrerelease(v.prerelease, w.prerelease)
         /\ \A k \in 1 .. 4 : Parts(v, w)[k] \in Int
<1> DEFINE s == [k \in 1 .. 3 |-> cmpInt(v.core[k], w.core[k])]
           c == comparePrerelease(v.prerelease, w.prerelease)
<1>1. \A k \in 1 .. 3 : v.core[k] \in Int /\ w.core[k] \in Int
  BY DEF SemVersions
<1>2. \A k \in 1 .. 3 : s[k] = cmpInt(v.core[k], w.core[k]) /\ s[k] \in Int
  BY <1>1 DEF cmpInt
<1>3. s \in [1 .. 3 -> Int]
  BY <1>2
<1>4. c \in Int
  BY PrereleasesFollow DEF SemVersions
<1>5. Parts(v, w) = Append(s, c)
  BY DEF Parts
<1> HIDE DEF s, c
<1>6. s \in Seq(Int) /\ Len(s) = 3
  BY ONLY <1>3, 3 \in Nat, SeqOf
<1>7. /\ Append(s, c) \in Seq(Int) /\ Len(Append(s, c)) = 4
      /\ Append(s, c)[4] = c /\ \A k \in 1 .. 3 : Append(s, c)[k] = s[k]
  <2>1. /\ Append(s, c) \in Seq(Int) /\ Len(Append(s, c)) = Len(s) + 1
        /\ Append(s, c)[Len(s) + 1] = c
        /\ \A k \in 1 .. Len(s) : Append(s, c)[k] = s[k]
    BY ONLY <1>4, <1>6, AppendOf
  <2>2. Len(s) + 1 = 4
    BY <1>6
  <2>3. QED
    BY ONLY <1>6, <2>1, <2>2
<1>8. QED
  BY <1>2, <1>4, <1>5, <1>7 DEF c

\* Compare tells versions apart as an order does.
LEMMA VersionsFollow ==
  ASSUME NEW u \in SemVersions, NEW v \in SemVersions, NEW w \in SemVersions
  PROVE  /\ Compare(u, v) \in Int
         /\ Compare(u, v) = - Compare(v, u)
         /\ Follows(Compare(u, v), Compare(v, w), Compare(u, w))
<1>1. \A x, y : Compare(x, y) = FirstNonZero(Parts(x, y))
  BY DEF Compare, Parts
<1>2. /\ u.prerelease \in Seq(Identifiers) /\ v.prerelease \in Seq(Identifiers)
      /\ w.prerelease \in Seq(Identifiers)
      /\ \A k \in 1 .. 3 : u.core[k] \in Int /\ v.core[k] \in Int /\ w.core[k] \in Int
  BY DEF SemVersions
<1> DEFINE p == Parts(u, v)
           o == Parts(v, u)
           q == Parts(v, w)
           r == Parts(u, w)
<1>3. /\ DOMAIN p = 1 .. 4 /\ DOMAIN o = 1 .. 4 /\ DOMAIN q = 1 .. 4 /\ DOMAIN r = 1 .. 4
      /\ \A k \in 1 .. 4 : p[k] \in Int /\ o[k] \in Int /\ q[k] \in Int /\ r[k] \in Int
  BY PartsType
<1>4. \A k \in 1 .. 4 : p[k] = - o[k] /\ Follows(p[k], q[k], r[k])
  <2>1. ASSUME NEW k \in 1 .. 3 PROVE p[k] = - o[k] /\ Follows(p[k], q[k], r[k])
    <3>1. /\ p[k] = cmpInt(u.core[k], v.core[k]) /\ o[k] = cmpInt(v.core[k], u.core[k])
          /\ q[k] = cmpInt(v.core[k], w.core[k]) /\ r[k] = cmpInt(u.core[k], w.core[k])
      BY PartsType
    <3> HIDE DEF p, o, q, r
    <3>2. PICK a \in Int, b \in Int, c \in Int :
            a = u.core[k] /\ b = v.core[k] /\ c = w.core[k]
      BY <1>2
    <3>3. /\ p[k] = cmpInt(a, b) /\ o[k] = cmpInt(b, a) /\ q[k] = cmpInt(b, c)
          /\ r[k] = cmpInt(a, c)
      BY <3>1, <3>2
    <3>4. /\ cmpInt(a, b) = - cmpInt(b, a)
          /\ Follows(cmpInt(a, b), cmpInt(b, c), cmpInt(a, c))
      BY IntsFollow
    <3>5. QED
      BY <3>3, <3>4
  <2>2. p[4] = - o[4] /\ Follows(p[4], q[4], r[4])
    <3>1. /\ p[4] = comparePrerelease(u.prerelease, v.prerelease)
          /\ o[4] = comparePrerelease(v.prerelease, u.prerelease)
          /\ q[4] = comparePrerelease(v.prerelease, w.prerelease)
          /\ r[4] = comparePrerelease(u.prerelease, w.prerelease)
      BY PartsType
    <3> HIDE DEF p, o, q, r
    <3>2. QED
      BY <1>2, <3>1, PrereleasesFollow
  <2> HIDE DEF p, o, q, r
  <2>3. ASSUME NEW k \in 1 .. 4 PROVE p[k] = - o[k] /\ Follows(p[k], q[k], r[k])
    <3>1. CASE k \in 1 .. 3
      BY <2>1, <3>1
    <3>2. CASE k = 4
      BY <2>2, <3>2
    <3>3. QED
      BY <3>1, <3>2
  <2>4. QED
    BY <2>3
<1> HIDE DEF p, o, q, r
<1>n. 4 \in Nat
  OBVIOUS
<1>5. FirstNonZero(p) = - FirstNonZero(o)
  BY ONLY <1>3, <1>4, <1>n, FirstsNegated
<1>6. Follows(FirstNonZero(p), FirstNonZero(q), FirstNonZero(r))
  BY ONLY <1>3, <1>4, <1>n, FirstsFollow
<1>7. FirstNonZero(p) \in Int
  <2>1. \/ FirstNonZero(p) = 0 /\ \A k \in 1 .. 4 : p[k] = 0
        \/ \E k \in 1 .. 4 : /\ FirstNonZero(p) = p[k] /\ p[k] # 0
                             /\ \A j \in 1 .. k - 1 : p[j] = 0
    BY ONLY <1>3, <1>n, FirstFound
  <2>2. QED
    BY ONLY <1>3, <2>1
<1>8. QED
  BY <1>1, <1>5, <1>6, <1>7 DEF p, o, q, r

VersionTypeOK ==
  /\ releases \in Seq(Release)
  /\ seen \in 0 .. Len(releases)
  /\ best = <<>> \/ \E r \in Release : best = <<r>>

VersionInv == VersionTypeOK /\ LatestIsNewest

LEMMA ConsideredVersion ==
  ASSUME VersionTypeOK, NEW n \in 0 .. Len(releases), NEW r \in Among(n)
  PROVE  r \in Release /\ Considered(r) /\ Version(r) \in SemVersions
<1>1. r \in Release /\ Considered(r)
  BY DEF VersionTypeOK, Among
<1>2. r.tag \in Tags /\ ParseVersion(r.tag) # NoVersion
  BY <1>1 DEF Release, Considered
<1>3. QED
  BY <1>1, <1>2, ParsedType DEF Version

LEMMA VersionInvInit == FetchInit => VersionInv
<1> SUFFICES ASSUME FetchInit PROVE VersionInv
  OBVIOUS
<1>1. PICK n \in 0 .. MaxReleases : releases \in [1 .. n -> Release]
  BY DEF FetchInit
<1>2. releases \in Seq(Release) /\ Len(releases) \in Nat
  BY <1>1, VersionAssumption
<1>3. Among(seen) = {} /\ best = <<>> /\ seen = 0
  BY DEF FetchInit, Among
<1>4. QED
  BY <1>2, <1>3 DEF VersionInv, VersionTypeOK, LatestIsNewest

LEMMA VersionInvStep == VersionInv /\ [FetchNext]_versionVars => VersionInv'
<1> SUFFICES ASSUME VersionInv, [FetchNext]_versionVars PROVE VersionInv'
  OBVIOUS
<1>1. CASE UNCHANGED versionVars
  BY <1>1 DEF versionVars, VersionInv, VersionTypeOK, LatestIsNewest, Among
<1>2. CASE Consider
  <2> DEFINE r == releases[seen + 1]
  <2>1. /\ seen + 1 \in 1 .. Len(releases) /\ seen \in 0 .. Len(releases)
        /\ releases' = releases /\ seen' = seen + 1
        /\ best' = IF Considered(r) /\ (best = <<>> \/ NewerThan(Version(r), Version(best[1])))
                   THEN <<r>> ELSE best
    BY <1>2 DEF Consider, VersionInv, VersionTypeOK
  <2>2. r \in Release
    BY <2>1 DEF VersionInv, VersionTypeOK
  <2>3. Among(seen)' = Among(seen + 1)
    BY <2>1 DEF Among
  <2>4. Among(seen + 1) = Among(seen) \cup {x \in {r} : Considered(x)}
    <3>1. {releases[k] : k \in 1 .. seen + 1} = {releases[k] : k \in 1 .. seen} \cup {r}
      BY <2>1
    <3>2. QED
      BY <3>1 DEF Among
  <2>5. VersionTypeOK'
    BY <2>1, <2>2 DEF VersionInv, VersionTypeOK
  <2>6. VersionTypeOK /\ LatestIsNewest
    BY DEF VersionInv
  <2> HIDE DEF r
  <2>7. Considered(r) => Version(r) \in SemVersions /\ ~ NewerThan(Version(r), Version(r))
    <3>1. Considered(r) => r \in Among(seen + 1)
      BY <2>4
    <3>2. Considered(r) => Version(r) \in SemVersions
      BY <2>1, <2>6, <3>1, ConsideredVersion
    <3>3. QED
      BY <3>2, VersionsFollow DEF NewerThan
  <2>8. CASE best = <<>>
    <3>1. Among(seen) = {}
      BY <2>6, <2>8 DEF LatestIsNewest
    <3>2. CASE Considered(r)
      <4>1. best' = <<r>> /\ Among(seen)' = {r}
        BY <2>1, <2>3, <2>4, <2>8, <3>1, <3>2
      <4>2. QED
        BY <2>5, <2>7, <3>2, <4>1 DEF VersionInv, LatestIsNewest
    <3>3. CASE ~ Considered(r)
      <4>1. best' = <<>> /\ Among(seen)' = {}
        BY <2>1, <2>3, <2>4, <2>8, <3>1, <3>3
      <4>2. QED
        BY <2>5, <4>1 DEF VersionInv, LatestIsNewest
    <3>4. QED
      BY <3>2, <3>3
  <2>9. CASE best # <<>>
    <3>1. PICK b \in Release : best = <<b>>
      BY <2>6, <2>9 DEF VersionTypeOK
    <3>2. b \in Among(seen) /\ \A x \in Among(seen) : ~ NewerThan(Version(x), Version(b))
      BY <2>6, <3>1 DEF LatestIsNewest
    <3>3. Version(b) \in SemVersions /\ \A x \in Among(seen) : Version(x) \in SemVersions
      BY <2>1, <2>6, <3>2, ConsideredVersion
    <3>4. best[1] = b
      BY <3>1
    <3>5. CASE Considered(r) /\ NewerThan(Version(r), Version(b))
      <4>1. best' = <<r>> /\ r \in Among(seen)'
        BY <2>1, <2>3, <2>4, <3>4, <3>5
      <4>2. ASSUME NEW x \in Among(seen) PROVE ~ NewerThan(Version(x), Version(r))
        <5>1. /\ Compare(Version(b), Version(x)) = - Compare(Version(x), Version(b))
              /\ Compare(Version(x), Version(b)) \in Int
              /\ Compare(Version(r), Version(b)) \in Int
              /\ Compare(Version(x), Version(r)) \in Int
              /\ Compare(Version(r), Version(x)) = - Compare(Version(x), Version(r))
              /\ Follows(Compare(Version(r), Version(b)), Compare(Version(b), Version(x)),
                         Compare(Version(r), Version(x)))
          BY <2>7, <3>3, <3>5, VersionsFollow
        <5>2. QED
          BY <3>2, <3>5, <5>1 DEF NewerThan, Follows
      <4>3. \A x \in Among(seen)' : ~ NewerThan(Version(x), Version(r))
        BY <2>3, <2>4, <2>7, <3>5, <4>2
      <4>4. QED
        BY <2>5, <4>1, <4>3 DEF VersionInv, LatestIsNewest
    <3>6. CASE ~ (Considered(r) /\ NewerThan(Version(r), Version(b)))
      <4>1. best' = best /\ b \in Among(seen)'
        BY <2>1, <2>3, <2>4, <2>9, <3>2, <3>4, <3>6
      <4>2. \A x \in Among(seen)' : ~ NewerThan(Version(x), Version(b))
        BY <2>3, <2>4, <3>2, <3>6
      <4>3. QED
        BY <2>5, <3>1, <4>1, <4>2 DEF VersionInv, LatestIsNewest
    <3>7. QED
      BY <3>5, <3>6
  <2>10. QED
    BY <2>8, <2>9
<1>3. QED
  BY <1>1, <1>2 DEF FetchNext

LEMMA VersionInvariant == VersionSpec => []VersionInv
BY VersionInvInit, VersionInvStep, PTL DEF VersionSpec

\* Compare orders the versions of any answer (VersionOrder.NewerThanIsOrder), however
\* many identifiers their pre-releases have and whether these are numbers or strings.
THEOREM VersionsAreOrdered == VersionSpec => []NewerThanIsOrder
<1>1. VersionInv => NewerThanIsOrder
  <2> SUFFICES ASSUME VersionInv PROVE NewerThanIsOrder
    OBVIOUS
  <2>1. VersionTypeOK /\ Len(releases) \in 0 .. Len(releases)
    BY DEF VersionInv, VersionTypeOK
  <2>2. {Version(r) : r \in Among(Len(releases))} \subseteq SemVersions
    BY <2>1, ConsideredVersion
  <2>3. \A u, v, w \in SemVersions :
          /\ Compare(u, v) = - Compare(v, u)
          /\ Compare(u, v) >= 0 /\ Compare(v, w) >= 0 =>
               /\ Compare(u, w) >= 0
               /\ NewerThan(u, w) <=> NewerThan(u, v) \/ NewerThan(v, w)
    BY VersionsFollow DEF Follows, NewerThan
  <2>4. QED
    BY <2>2, <2>3 DEF NewerThanIsOrder
<1>2. QED
  BY <1>1, VersionInvariant, PTL

\* Whatever the order of GitHub's answer, the loop's choice is the newest considered
\* release of the part it has seen (VersionOrder.LatestIsNewest).
THEOREM ChosenIsNewest == VersionSpec => []LatestIsNewest
<1>1. VersionInv => LatestIsNewest
  BY DEF VersionInv
<1>2. QED
  BY <1>1, VersionInvariant, PTL
=============================================================================
