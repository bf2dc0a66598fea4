------------------------------- MODULE Bundle -------------------------------
(***************************************************************************)
(* Service.CreateBundle (diagnostics/diagnostics.go) beside goroutines     *)
(* that log, rotate, compress and delete logs (the lumberjack logger of    *)
(* logging/logger.go:78, for one rotation), and panic under RecoverAndLog  *)
(* (diagnostics/panic.go).  A bundle and a crash log are named for the     *)
(* second they are begun in: another in the same second takes the same     *)
(* file.  A log file is its size in lines, a bundle its entries; what they *)
(* say is left out.  The application creates one bundle at a time, and no  *)
(* call touches the bundle of an earlier second: zip is the last one.      *)
(***************************************************************************)
EXTENDS Integers, Sequences, FiniteSets

CONSTANTS
  MaxLogSize,      \* s.maxLogSize
  PasswordKeys,    \* keys of the schema's password fields
  SettingsValues,  \* what GetValues may return
  Collectors,      \* names of the custom collectors, sorted
  CrashLogs,       \* bound: the crash logs, numbered
  MaxLines,        \* bound: the lines of a log, and those that logs gain during a call
  MaxBundles       \* bound: the calls of CreateBundle

ASSUME BundleAssumption ==
  /\ MaxLogSize \in Nat
  /\ CrashLogs \in Nat /\ MaxLines \in Nat /\ MaxBundles \in Nat
  /\ Collectors \in Seq({Collectors[k] : k \in DOMAIN Collectors})

\* The log files: crash-<second>.log, app.log, app-<time>.log and app-<time>.log.gz.
Crash(k) == <<"crash", k>>
App == <<"app", 0>>
Rotated == <<"rotated", 0>>
Packed == <<"packed", 0>>
LogNames == {Crash(k) : k \in 1 .. CrashLogs} \cup {App, Packed, Rotated}

\* Where a name stands in the descending order of the names, counted from the end.
LogOrder(n) ==
  IF n = Rotated THEN 0 ELSE IF n = Packed THEN 1 ELSE IF n = App THEN 2 ELSE n[2] + 2

\* The size of a file that is not there yet, and of one that was deleted.
Absent == -1
Deleted == -2

VARIABLES
  size,       \* log file -> its lines
  step,       \* where CreateBundle is
  names,      \* the manifest it gathers
  logs,       \* the log files it has yet to visit -> the sizes it measured
  total,      \* totalSize
  collect,    \* the collectors it has yet to call
  zip,        \* the file of the last bundle
  bundles,    \* the calls so far
  announced,  \* an EventBundleCreated named it
  reopened,   \* history: a later call emptied it and has not finished it
  copied,     \* history: the lines of logs in the bundle, copied whole or in part
  failed,     \* history: the sizes measured of the logs that were copied in part
  grown       \* history: the lines gained since by logs it had yet to visit

logsVars == <<logs, total, copied, failed>>
toldVars == <<bundles, announced, reopened>>
bundleVars == <<size, step, names, logsVars, collect, zip, toldVars, grown>>

There(n) == size[n] >= 0

NoFile == [entries |-> <<>>, settings |-> {}, manifest |-> <<>>, closed |-> FALSE]

BundleInit ==
  /\ size = [n \in LogNames |-> Absent]
  /\ step = "idle" /\ names = <<>>
  /\ logs = <<>> /\ total = 0 /\ copied = 0 /\ failed = 0 /\ grown = 0
  /\ collect = <<>>
  /\ zip = NoFile
  /\ bundles = 0 /\ announced = FALSE /\ reopened = FALSE
-----------------------------------------------------------------------------
(* The logger and the application's other goroutines *)

idleVars == <<step, names, logsVars, collect, zip, toldVars>>

\* Log file n gains lines; they count while CreateBundle has yet to visit it.
Grow(n, lines) == grown' = IF n \in DOMAIN logs THEN grown + lines ELSE grown

\* The logger appends a line to app.log.
Log ==
  /\ size[App] < MaxLines /\ grown < MaxLines
  /\ size' = [size EXCEPT ![App] = IF @ = Absent THEN 1 ELSE @ + 1]
  /\ Grow(App, 1)
  /\ UNCHANGED idleVars

\* The logger renames a full app.log and begins another one.
Rotate ==
  /\ size[App] > 0 /\ size[Rotated] = Absent
  /\ size' = [size EXCEPT ![Rotated] = size[App], ![App] = 0]
  /\ UNCHANGED <<idleVars, grown>>

\* It compresses the renamed log into another file, beside it and bit by bit.
CompressBegins ==
  /\ There(Rotated) /\ size[Packed] = Absent
  /\ size' = [size EXCEPT ![Packed] = 0]
  /\ UNCHANGED <<idleVars, grown>>

CompressWrites ==
  /\ There(Rotated) /\ There(Packed)
  /\ size[Packed] < MaxLines /\ grown < MaxLines
  /\ size' = [size EXCEPT ![Packed] = @ + 1]
  /\ Grow(Packed, 1)
  /\ UNCHANGED idleVars

\* Then it deletes the renamed log or, when it failed, what it wrote.
CompressEnds ==
  /\ There(Rotated) /\ There(Packed)
  /\ \/ size' = [size EXCEPT ![Rotated] = Deleted]
     \/ size' = [size EXCEPT ![Packed] = Absent]
  /\ UNCHANGED <<idleVars, grown>>

\* It deletes an old log, whose name does not come again.
Prune ==
  /\ \E n \in {Rotated, Packed} :
       /\ There(n) /\ \A m \in {Rotated, Packed} \ {n} : ~ There(m)
       /\ size' = [size EXCEPT ![n] = Deleted]
  /\ UNCHANGED <<idleVars, grown>>

\* RecoverAndLog: a new crash log or, in the same second, the last one over again; the
\* write, whose result nobody looks at, may end early.
RecoverAndLog ==
  \E k \in 1 .. CrashLogs, n \in {0, 1} :
    /\ grown < MaxLines
    /\ \A j \in 1 .. k - 1 : There(Crash(j))
    /\ \A j \in k + 1 .. CrashLogs : ~ There(Crash(j))
    /\ size' = [size EXCEPT ![Crash(k)] = n]
    /\ Grow(Crash(k), n)
    /\ UNCHANGED idleVars
-----------------------------------------------------------------------------
(* CreateBundle *)

\* os.Create: a new file or, in the same second, the last one emptied.
CreateBundle ==
  /\ step = "idle" /\ bundles < MaxBundles
  /\ \/ announced' = FALSE /\ reopened' = FALSE
     \/ bundles > 0 /\ reopened' = announced /\ UNCHANGED announced
  /\ zip' = NoFile
  /\ bundles' = bundles + 1
  /\ step' = "system"
  /\ UNCHANGED <<size, names, logsVars, collect, grown>>

\* An entry goes into the archive, and into the manifest when it is whole.
Add(name, whole) ==
  /\ zip' = [zip EXCEPT !.entries = Append(@, [name |-> name, whole |-> whole])]
  /\ names' = IF whole THEN Append(names, name) ELSE names

writeSystemInfo ==
  /\ step = "system"
  /\ Add(<<"system", 0>>, TRUE)
  /\ step' = "settings"
  /\ UNCHANGED <<size, logsVars, collect, toldVars, grown>>

sanitizeSettings(values) ==
  [k \in DOMAIN values |-> IF k \in PasswordKeys THEN "[REDACTED]" ELSE values[k]]

\* The settings as GetValues returns them, or its error in their place.
writeSettings ==
  /\ step = "settings"
  /\ \E values \in SettingsValues \cup {[k \in {"_error"} |-> "error"]} :
       zip' = [zip EXCEPT
         !.settings = {sanitizeSettings(values)},
         !.entries = Append(@, [name |-> <<"settings", 0>>, whole |-> TRUE])]
  /\ names' = Append(names, <<"settings", 0>>)
  /\ step' = "list"
  /\ UNCHANGED <<size, logsVars, collect, toldVars, grown>>
-----------------------------------------------------------------------------
(* writeLogs *)

\* The directory is read and each file measured; they are sorted by name.
listLogs ==
  /\ step = "list"
  /\ logs' = [n \in {m \in LogNames : There(m)} |-> size[n]]
  /\ grown' = 0
  /\ step' = "logs"
  /\ UNCHANGED <<size, names, total, copied, failed, collect, zip, toldVars>>

\* The next file in the order is n.
VisitLog(n) ==
  /\ step = "logs" /\ n \in DOMAIN logs
  /\ \A m \in DOMAIN logs : LogOrder(m) <= LogOrder(n)
  /\ logs' = [m \in DOMAIN logs \ {n} |-> logs[m]]

Fits(n) == total + logs[n] <= MaxLogSize

\* A file that does not fit, or cannot be opened, is passed over.
skipLog(n) ==
  /\ VisitLog(n)
  /\ UNCHANGED <<size, step, names, total, copied, failed, collect, zip, toldVars,
                 grown>>

\* Mutant of addFileToZip: each file is compared with the size cap by itself.
addFileOfSmallSize(n) ==
  /\ VisitLog(n)
  /\ logs[n] <= MaxLogSize
  /\ There(n)
  /\ Add(n, TRUE)
  /\ total' = total + logs[n]
  /\ copied' = copied + size[n]
  /\ UNCHANGED <<size, step, failed, collect, toldVars, grown>>

\* The file is copied as it is now, and counted as it was measured.
addFileToZip(n) ==
  /\ VisitLog(n)
  /\ Fits(n)
  /\ There(n)
  /\ Add(n, TRUE)
  /\ total' = total + logs[n]
  /\ copied' = copied + size[n]
  /\ UNCHANGED <<size, step, failed, collect, toldVars, grown>>

\* Mutant of addFileInPart: the file is listed all the same.
addFileInPartListed(n) ==
  /\ VisitLog(n)
  /\ Fits(n)
  /\ There(n)
  /\ zip' = [zip EXCEPT !.entries = Append(@, [name |-> n, whole |-> FALSE])]
  /\ names' = Append(names, n)
  /\ \E part \in 0 .. size[n] : copied' = copied + part
  /\ failed' = failed + logs[n]
  /\ UNCHANGED <<size, step, total, collect, toldVars, grown>>

\* The copy fails after the entry was made: what was copied stays in the archive, but
\* is neither listed nor counted.
addFileInPart(n) ==
  /\ VisitLog(n)
  /\ Fits(n)
  /\ There(n)
  /\ Add(n, FALSE)
  /\ \E part \in 0 .. size[n] : copied' = copied + part
  /\ failed' = failed + logs[n]
  /\ UNCHANGED <<size, step, total, collect, toldVars, grown>>

\* writeLogs returns the names; what it counted is local to it.
logsWritten ==
  /\ step = "logs" /\ DOMAIN logs = {}
  /\ logs' = <<>> /\ total' = 0 /\ copied' = 0 /\ failed' = 0 /\ grown' = 0
  /\ collect' = Collectors
  /\ step' = "collectors"
  /\ UNCHANGED <<size, names, zip, toldVars>>
-----------------------------------------------------------------------------
(* The collectors, the manifest and the end *)

\* What a collector returns, or nothing when it fails.
writeCollector ==
  /\ step = "collectors" /\ collect # <<>>
  /\ \/ Add(<<Head(collect), 0>>, TRUE)
     \/ UNCHANGED <<zip, names>>
  /\ collect' = Tail(collect)
  /\ UNCHANGED <<size, step, logsVars, toldVars, grown>>

writeManifest ==
  /\ step = "collectors" /\ collect = <<>>
  /\ zip' = [zip EXCEPT !.manifest = names]
  /\ step' = "close"
  /\ UNCHANGED <<size, names, logsVars, collect, toldVars, grown>>

\* CreateBundle returns.
Return ==
  /\ step' = "idle" /\ names' = <<>>
  /\ logs' = <<>> /\ total' = 0 /\ copied' = 0 /\ failed' = 0 /\ grown' = 0
  /\ collect' = <<>>
  /\ UNCHANGED <<size, bundles>>

\* Mutant of finishBundle: the event is emitted before the archive is closed, which
\* fails.
finishBundleEarly ==
  /\ step = "close"
  /\ announced' = TRUE /\ reopened' = FALSE
  /\ Return
  /\ UNCHANGED zip

\* The archive is closed; its name is announced and returned.
finishBundle ==
  /\ step = "close"
  /\ zip' = [zip EXCEPT !.closed = TRUE]
  /\ announced' = TRUE /\ reopened' = FALSE
  /\ Return

\* A step fails: the deferred Close may still make an archive of what is there.
failBundle ==
  /\ step # "idle"
  /\ \E closed \in BOOLEAN : zip' = [zip EXCEPT !.closed = closed]
  /\ Return
  /\ UNCHANGED <<announced, reopened>>

BundleNext ==
  \/ Log \/ Rotate \/ CompressBegins \/ CompressWrites \/ CompressEnds \/ Prune
  \/ RecoverAndLog
  \/ CreateBundle \/ writeSystemInfo \/ writeSettings
  \/ listLogs
  \/ \E n \in LogNames : skipLog(n) \/ addFileToZip(n) \/ addFileInPart(n)
  \/ logsWritten
  \/ writeCollector \/ writeManifest \/ finishBundle \/ failBundle

BundleSpec == BundleInit /\ [][BundleNext]_bundleVars
-----------------------------------------------------------------------------
(* Properties *)

\* The k-th name of the list is that of the k-th whole entry, and there are no more.
ListsWhole(list, entries) ==
  LET whole == {i \in DOMAIN entries : entries[i].whole}
      rank(i) == Cardinality({j \in whole : j <= i})
  IN  /\ Len(list) = Cardinality(whole)
      /\ \A i \in whole : list[rank(i)] = entries[i].name

\* No password field of the settings shows anything.
Masked(values) ==
  \A k \in DOMAIN values \cap PasswordKeys : values[k] = "[REDACTED]"

\* The manifest is there and lists what the archive holds whole, in this order, and the
\* settings are masked.  A log that was copied in part is in the archive, too, but not
\* in the manifest.
Sound(file) ==
  /\ file.closed /\ file.manifest # <<>>
  /\ ListsWhole(file.manifest, file.entries)
  /\ \A values \in file.settings : Masked(values)

File == INSTANCE BundleFile WITH
  writing <- step # "idle", sound <- Sound(zip), told <- announced, spoiled <- reopened

\* CreateBundle announces a file only when it is an archive whose manifest lists exactly
\* what it holds whole, whatever logs, collectors and steps failed, and only a call in
\* the same second takes that back.  The manifest leaves parts of logs out, although
\* it is said to list all files of the bundle (diagnostics/README.md:100).
ImplementsBundleFile == File!FileSpec

\* What a bundle has of logs, parts of logs included, exceeds the size cap by no more
\* than what they gained between their measuring and their copy, and the measured sizes
\* of those whose copy failed: these fitted, each for itself, but do not count.
LogsWithinCap == copied <= MaxLogSize + failed + grown
=============================================================================
