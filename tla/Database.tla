------------------------------ MODULE Database ------------------------------
(***************************************************************************)
(* database.New (database/database.go) on one SQLite file that releases of *)
(* the application, older and newer ones, open one after the other:        *)
(* baseline, version guard, backup, migrations, stamp.  Any of the steps   *)
(* can fail and the application can crash between any two; every statement *)
(* is a transaction of SQLite.  The migrations are goose's: it runs each   *)
(* pending one in a transaction with the row that records it, and one that *)
(* finds its tables already there fails.                                   *)
(***************************************************************************)
EXTENDS Integers, FiniteSets, Sequences

CONSTANTS
  Releases,      \* release of the application: the version of its last migration
  Baseline,      \* WithBaselineVersion, or 0
  WithBackup,    \* WithBackupBeforeMigration
  MaxBackups,    \* WithMaxBackups
  NoTable,       \* there is no table goose_db_version
  Partial,       \* a backup not yet complete, or given up
  MaxOpens       \* bound: calls of New

\* A baseline is one of the migrations that every release has.
ASSUME DatabaseAssumption ==
  /\ Baseline \in Nat
  /\ \A a \in Releases : a \in Nat /\ a >= 1 /\ a >= Baseline
  /\ WithBackup \in BOOLEAN
  /\ MaxBackups \in Nat \ {0}
  /\ MaxOpens \in Nat
  /\ NoTable # {} /\ \A a \in Releases : \A n \in 0 .. a : NoTable # 0 .. n
  /\ Partial \notin Nat

VARIABLES
  schema,       \* the last migration whose tables are there
  rows,         \* the versions in goose_db_version
  userVersion,  \* PRAGMA user_version
  backups,      \* the backups, the oldest first: name and schema
  app,          \* the release that runs
  opening,      \* where New is
  opens,
  found,        \* history: schema and userVersion when New was called
  unstamped,    \* history: the last migrations were not followed by their stamp
  torn          \* history: a baseline was given up half-way

databaseVars ==
  <<schema, rows, userVersion, backups, app, opening, opens, found, unstamped, torn>>
history == <<found, unstamped, torn>>
file == <<schema, rows, userVersion>>

Stamps == 0 .. Baseline

\* A fresh database, or one of the application from before it used this package.
DatabaseInit ==
  /\ schema \in {0, Baseline}
  /\ rows = NoTable
  /\ userVersion = 0
  /\ backups = <<>>
  /\ app \in Releases
  /\ opening = "closed"
  /\ opens = 0
  /\ found = [schema |-> schema, userVersion |-> 0]
  /\ unstamped = FALSE /\ torn = FALSE

New(a) ==
  /\ opening = "closed"
  /\ opens < MaxOpens
  /\ opens' = opens + 1
  /\ app' = a
  /\ found' = [schema |-> schema, userVersion |-> userVersion]
  /\ opening' = IF Baseline > 0 THEN "baseline" ELSE "guard"
  /\ UNCHANGED <<file, backups, unstamped, torn>>
-----------------------------------------------------------------------------
(* baseline *)

\* Goose tracks the database already, or there are no tables.
SkipBaseline ==
  /\ opening = "baseline"
  /\ rows # NoTable \/ schema = 0
  /\ opening' = "guard"
  /\ UNCHANGED <<file, backups, app, opens, history>>

CreateTable ==
  /\ opening = "baseline"
  /\ rows = NoTable /\ schema > 0
  /\ rows' = {}
  /\ opening' = "rows"
  /\ UNCHANGED <<schema, userVersion, backups, app, opens, history>>

\* Mutant of StampRow: the baseline version itself is left out.
StampRowShort ==
  /\ opening = "rows"
  /\ \E v \in Stamps :
       /\ rows = 0 .. (v - 1)
       /\ rows' = rows \cup {v}
       /\ opening' = IF v >= Baseline - 1 THEN "guard" ELSE "rows"
  /\ UNCHANGED <<schema, userVersion, backups, app, opens, history>>

\* One INSERT, from version 0 on.
StampRow ==
  /\ opening = "rows"
  /\ \E v \in Stamps :
       /\ rows = 0 .. (v - 1)
       /\ rows' = rows \cup {v}
       /\ opening' = IF v = Baseline THEN "guard" ELSE "rows"
  /\ UNCHANGED <<schema, userVersion, backups, app, opens, history>>
-----------------------------------------------------------------------------
(* migrate *)

Pending == IF rows = NoTable THEN 1 .. app ELSE (1 .. app) \ rows

\* Mutant of Supported: the version after this release's last is taken for its own.
SupportedByOne == userVersion <= app + 1

Supported == userVersion <= app

\* The database is of a newer release: New returns the error.
GuardRejects ==
  /\ opening = "guard"
  /\ ~ Supported
  /\ opening' = "closed"
  /\ UNCHANGED <<file, backups, app, opens, history>>

NeedsBackup == WithBackup /\ userVersion > 0 /\ Pending # {}

Guard ==
  /\ opening = "guard"
  /\ Supported
  /\ opening' = IF NeedsBackup THEN "backup" ELSE "up"
  /\ UNCHANGED <<file, backups, app, opens, history>>

\* The backups without the one of this name, if there is one.
Without(s, version) ==
  LET named == {k \in DOMAIN s : s[k].version = version}
      k == CHOOSE i \in named : TRUE
  IN  IF named = {} THEN s ELSE SubSeq(s, 1, k - 1) \o SubSeq(s, k + 1, Len(s))

\* A backup is named after user_version; one of that name is removed first.
BackupBegins ==
  /\ opening = "backup"
  /\ backups' = Append(Without(backups, userVersion),
                       [version |-> userVersion, schema |-> Partial])
  /\ opening' = "vacuum"
  /\ UNCHANGED <<file, app, opens, history>>

\* Mutant of Newest: the backups are sorted the other way.
NewestReversed(s, n) == IF Len(s) <= n THEN s ELSE SubSeq(s, 1, n)

\* cleanOldBackups: the last n of the backups.
Newest(s, n) == IF Len(s) <= n THEN s ELSE SubSeq(s, Len(s) - n + 1, Len(s))

\* VACUUM INTO is done, and old backups are removed.
BackupEnds ==
  /\ opening = "vacuum"
  /\ backups' = Newest([backups EXCEPT ![Len(backups)].schema = schema], MaxBackups)
  /\ opening' = "up"
  /\ UNCHANGED <<file, app, opens, history>>

\* Goose runs the first pending migration and records it.
RunMigration ==
  /\ opening = "up"
  /\ \E v \in Pending :
       /\ \A w \in Pending : v <= w
       /\ schema = v - 1
       /\ schema' = v
       /\ rows' = (IF rows = NoTable THEN {0} ELSE rows) \cup {v}
  /\ unstamped' = TRUE
  /\ UNCHANGED <<userVersion, backups, app, opening, opens, found, torn>>

\* No migration is pending: user_version is stamped, and New returns.
Stamp ==
  /\ opening = "up"
  /\ Pending = {}
  /\ userVersion' = app
  /\ unstamped' = (unstamped /\ schema > app)
  /\ opening' = "open"
  /\ UNCHANGED <<schema, rows, backups, app, opens, found, torn>>

\* A step fails and New returns its error, or the application crashes, or closes
\* the database.
Stop ==
  /\ opening # "closed"
  /\ torn' = (torn \/ opening = "rows")
  /\ opening' = "closed"
  /\ UNCHANGED <<file, backups, app, opens, found, unstamped>>

DatabaseNext ==
  \/ \E a \in Releases : New(a)
  \/ SkipBaseline \/ CreateTable \/ StampRow
  \/ GuardRejects \/ Guard \/ BackupBegins \/ BackupEnds
  \/ RunMigration \/ Stamp \/ Stop

DatabaseSpec == DatabaseInit /\ [][DatabaseNext]_databaseVars
-----------------------------------------------------------------------------
(* Properties *)

\* What goose has recorded is what the database has, through failures, crashes,
\* upgrades and downgrades, unless a baseline was given up half-way: only then is
\* a migration run whose tables are there.
VersionTellsSchema ==
  rows # NoTable /\ opening # "rows" /\ ~ torn => rows = 0 .. schema

\* An older release never opens the database of a newer one, unless migrations were
\* run and their stamp was not.
DowngradeRefused == opening = "open" /\ schema > app => unstamped

\* No release lowers the stamp by which older ones are refused.
StampNeverFalls == [][userVersion' >= userVersion]_userVersion

\* Migrations change a stamped database only after it was copied: the newest backup
\* is the database as New found it, and there are no more than are kept.
BackedUp ==
  /\ WithBackup /\ found.userVersion > 0
  /\ opening \in {"up", "open"} /\ schema # found.schema
  => /\ backups # <<>>
     /\ backups[Len(backups)] =
          [version |-> found.userVersion, schema |-> found.schema]
     /\ Len(backups) <= MaxBackups

\* An older release never opens the database of a newer one.
NoSilentDowngrade == opening = "open" => schema <= app
=============================================================================
