------------------------------ MODULE Settings ------------------------------
(***************************************************************************)
(* settings.Service on its Store and a keyring (settings/service.go,       *)
(* settings/store.go, keyring/os_keyring.go), used by several goroutines:  *)
(* SetValues under the service's mutex, with Store.Save under the store's  *)
(* lock and onChange callbacks at its end, and GetValues, which takes no   *)
(* mutex.  Any step on the keyring or on the disk can fail, and the        *)
(* application can crash between any two.  What a callback does belongs to *)
(* the module that composes this one (ProviderManager).                    *)
(*                                                                         *)
(* Compute functions, which only add to what GetValues returns, are left   *)
(* out.  A string "" stands for no secret: Set never stores it.            *)
(***************************************************************************)
EXTENDS Validation, Integers

CONSTANTS
  Setters,       \* goroutines that call SetValues
  Readers,       \* other goroutines that call GetValues
  Forms,         \* the forms that are submitted
  Mask,          \* SecretMask
  Defaults,      \* key -> default
  Env,           \* password key -> the environment's fallback, or NoSecret
  NoFile, Garbage, Torn,   \* no settings file, one that is no JSON, one half written
  OldFiles,      \* what the file may hold when the application is installed
  Nobody,        \* holds a lock that is free
  MaxCalls,      \* bound: calls of SetValues
  MaxCrashes     \* bound: crashes of the application

Known == {f.key : f \in Fields}
Passwords == {f.key : f \in {g \in Fields : g.type = "password"}}
Computed == {f.key : f \in {g \in Fields : g.type = "computed"}}
Goroutines == Setters \cup Readers

\* The schema has fields: without any, the store would let every key pass.
ASSUME SettingsAssumption ==
  /\ Fields # {}
  /\ Setters \cap Readers = {}
  /\ Nobody \notin Goroutines
  /\ MaxCalls \in Nat /\ MaxCrashes \in Nat

VARIABLES
  file,      \* the settings file
  tmp,       \* the temporary file beside it
  keyring,   \* password key -> its secret, or NoSecret
  mu,        \* who holds the service's mutex
  storeMu,   \* who holds the store's lock for writing
  pc,        \* goroutine -> where it is
  form,      \* goroutine -> the form it submits
  todo,      \* goroutine -> the password keys its loop has yet to visit
  values,    \* goroutine -> what its GetValues has read
  calls, crashes

settingsVars == <<file, tmp, keyring, mu, storeMu, pc, form, todo, values, calls, crashes>>
locks == <<mu, storeMu>>
bounds == <<calls, crashes>>

\* What the keyring holds for a password that is not set.
NoSecret == ""

ASSUME MaskAssumption == Mask # NoSecret

\* The secret that form f submits for k: what is no string clears it, like "".
SecretOf(f, k) == IF IsString(f[k]) THEN f[k] ELSE NoSecret

Only(v, keys) == [k \in DOMAIN v \cap keys |-> v[k]]

Merge(old, new) ==
  [k \in DOMAIN old \cup DOMAIN new |-> IF k \in DOMAIN new THEN new[k] ELSE old[k]]

Empty == [k \in {} |-> NoSecret]

\* What json.Unmarshal finds in a file whose contents are x.
Parsed(x) == IF x \in {NoFile, Garbage, Torn} THEN Empty ELSE Only(x, Known)

\* What a settings file can hold: some of the known keys, with submitted values or
\* values of an old file.
Submitted ==
  UNION {{f[k] : k \in DOMAIN f} : f \in Forms \cup (OldFiles \ {NoFile, Garbage, Torn})}
Contents == UNION {[keys -> Submitted] : keys \in SUBSET Known}

\* A file with settings is not missing and is JSON, and the application that wrote
\* the old one had the same password and computed fields.
ASSUME FilesAssumption ==
  /\ \A x \in {NoFile, Garbage, Torn} : x \notin Contents
  /\ \A x \in OldFiles : DOMAIN Parsed(x) \cap (Passwords \cup Computed) = {}

\* Mutant of Saved: passwords are saved with the other values.
SavedWithPasswords(f) == Only(f, Known \ Computed)

\* The part of a form that goes into the file.
Saved(f) == Only(f, Known \ (Passwords \cup Computed))

\* Mutant of Merged: the values that are not submitted are dropped.
MergedForgets(x, f) == Saved(f)

\* What Save writes when the file holds x.
Merged(x, f) == Merge(Parsed(x), Saved(f))

SettingsInit ==
  /\ file \in OldFiles
  /\ tmp = NoFile
  /\ keyring = [k \in Passwords |-> NoSecret]
  /\ mu = Nobody /\ storeMu = Nobody
  /\ pc = [g \in Goroutines |-> "idle"]
  /\ form = [g \in Goroutines |-> Empty]
  /\ todo = [g \in Goroutines |-> {}]
  /\ values = [g \in Goroutines |-> Empty]
  /\ calls = 0 /\ crashes = 0

Goto(g, l) == pc' = [pc EXCEPT ![g] = l]
-----------------------------------------------------------------------------
(* SetValues *)

SetRejected(f) ==
  /\ mu = Nobody
  /\ calls < MaxCalls
  /\ ~ Accepts(f)
  /\ calls' = calls + 1
  /\ UNCHANGED <<file, tmp, keyring, locks, pc, form, todo, values, crashes>>

\* The form is accepted. A password that is submitted as the mask is passed over.
SetValues(g, f) ==
  /\ pc[g] = "idle"
  /\ mu = Nobody
  /\ calls < MaxCalls
  /\ Accepts(f)
  /\ mu' = g
  /\ form' = [form EXCEPT ![g] = f]
  /\ todo' = [todo EXCEPT ![g] = {k \in DOMAIN f \cap Passwords : SecretOf(f, k) # Mask}]
  /\ Goto(g, "secrets")
  /\ calls' = calls + 1
  /\ UNCHANGED <<file, tmp, keyring, storeMu, values, crashes>>

\* The keyring's Set, or its Delete, succeeds; a map is visited in any order.
WriteSecret(g, k) ==
  /\ pc[g] = "secrets"
  /\ k \in todo[g]
  /\ keyring' = [keyring EXCEPT ![k] = SecretOf(form[g], k)]
  /\ todo' = [todo EXCEPT ![g] = @ \ {k}]
  /\ UNCHANGED <<file, tmp, locks, pc, form, values, bounds>>

\* Delete fails, which the code ignores.
ClearFails(g, k) ==
  /\ pc[g] = "secrets"
  /\ k \in todo[g]
  /\ SecretOf(form[g], k) = NoSecret
  /\ todo' = [todo EXCEPT ![g] = @ \ {k}]
  /\ UNCHANGED <<file, tmp, keyring, locks, pc, form, values, bounds>>

\* Set fails, or Save cannot make the directory: SetValues returns the error.
SetFails(g) ==
  /\ pc[g] = "secrets"
  /\ \/ todo[g] = {}
     \/ \E k \in todo[g] : SecretOf(form[g], k) # NoSecret
  /\ mu' = Nobody
  /\ todo' = [todo EXCEPT ![g] = {}]
  /\ Goto(g, "idle")
  /\ UNCHANGED <<file, tmp, keyring, storeMu, form, values, bounds>>
-----------------------------------------------------------------------------
(* Store.Save *)

\* Save reads the file, merges the form into it and opens the temporary file.
SaveOpens(g) ==
  /\ pc[g] = "secrets"
  /\ todo[g] = {}
  /\ storeMu = Nobody
  /\ storeMu' = g
  /\ tmp' = Torn
  /\ Goto(g, "write")
  /\ UNCHANGED <<file, keyring, mu, form, todo, values, bounds>>

SaveWrites(g) ==
  /\ pc[g] = "write"
  /\ tmp' = Merged(file, form[g])
  /\ Goto(g, "rename")
  /\ UNCHANGED <<file, keyring, locks, form, todo, values, bounds>>

\* The write or the rename fails: Save and SetValues return the error.
SaveFails(g) ==
  /\ pc[g] \in {"write", "rename"}
  /\ storeMu' = Nobody
  /\ mu' = Nobody
  /\ Goto(g, "idle")
  /\ UNCHANGED <<file, tmp, keyring, form, todo, values, bounds>>

\* Mutant of SaveRenames: the service's mutex is released before the callbacks.
SaveRenamesUnlocks(g) ==
  /\ pc[g] = "rename"
  /\ file' = tmp
  /\ tmp' = NoFile
  /\ storeMu' = Nobody
  /\ mu' = Nobody
  /\ Goto(g, "notify")
  /\ UNCHANGED <<keyring, form, todo, values, bounds>>

SaveRenames(g) ==
  /\ pc[g] = "rename"
  /\ file' = tmp
  /\ tmp' = NoFile
  /\ storeMu' = Nobody
  /\ Goto(g, "notify")
  /\ UNCHANGED <<keyring, mu, form, todo, values, bounds>>

\* The callbacks have returned.
SetReturns(g) ==
  /\ pc[g] = "notified"
  /\ mu' = Nobody
  /\ Goto(g, "idle")
  /\ UNCHANGED <<file, tmp, keyring, storeMu, form, todo, values, bounds>>
-----------------------------------------------------------------------------
(* GetValues, begun by a goroutine at "load" *)

\* The file, or the defaults.
Loaded == Merge(Defaults, Parsed(file))

\* Mutant of LoadFile: GetValues takes the service's mutex.
LoadFileLocks(g) ==
  /\ pc[g] = "load"
  /\ mu = Nobody
  /\ storeMu = Nobody
  /\ file \notin {Garbage, Torn}
  /\ values' = [values EXCEPT ![g] = Loaded]
  /\ todo' = [todo EXCEPT ![g] = Passwords]
  /\ Goto(g, "has")
  /\ UNCHANGED <<file, tmp, keyring, locks, form, bounds>>

LoadFile(g) ==
  /\ pc[g] = "load"
  /\ storeMu = Nobody
  /\ file \notin {Garbage, Torn}
  /\ values' = [values EXCEPT ![g] = Loaded]
  /\ todo' = [todo EXCEPT ![g] = Passwords]
  /\ Goto(g, "has")
  /\ UNCHANGED <<file, tmp, keyring, locks, form, bounds>>

\* Has: the keyring, and the environment when the keyring has no secret or fails.
ReadSecret(g, k) ==
  /\ pc[g] = "has"
  /\ k \in todo[g]
  /\ \E found \in {keyring[k] # NoSecret, FALSE} :
       values' = [values EXCEPT ![g] =
                    Merge(@, [j \in {k} |->
                                IF found \/ Env[k] # NoSecret THEN Mask ELSE NoSecret])]
  /\ todo' = [todo EXCEPT ![g] = @ \ {k}]
  /\ UNCHANGED <<file, tmp, keyring, locks, pc, form, bounds>>
-----------------------------------------------------------------------------
\* The application dies and starts again.
Crash ==
  /\ crashes < MaxCrashes
  /\ crashes' = crashes + 1
  /\ mu' = Nobody /\ storeMu' = Nobody
  /\ pc' = [g \in Goroutines |-> "idle"]
  /\ form' = [g \in Goroutines |-> Empty]
  /\ todo' = [g \in Goroutines |-> {}]
  /\ values' = [g \in Goroutines |-> Empty]
  /\ UNCHANGED <<file, tmp, keyring, calls>>

SetStep(g) ==
  \/ \E k \in Passwords : WriteSecret(g, k) \/ ClearFails(g, k)
  \/ SetFails(g)
  \/ SaveOpens(g) \/ SaveWrites(g) \/ SaveFails(g) \/ SaveRenames(g)
  \/ SetReturns(g)

GetStep(g) == LoadFile(g) \/ \E k \in Passwords : ReadSecret(g, k)

SettingsStep ==
  \/ \E f \in Forms : SetRejected(f)
  \/ \E g \in Setters : SetStep(g) \/ \E f \in Forms : SetValues(g, f)
  \/ \E g \in Goroutines : GetStep(g)
-----------------------------------------------------------------------------
(* Properties *)

\* Secrets are never written to the disk, whatever the forms submit and whatever
\* step fails: neither file gets a password key or a computed one.
NoSecretsOnDisk ==
  \A x \in {file, tmp} \ (OldFiles \cup {NoFile, Torn}) :
    DOMAIN x \cap (Passwords \cup Computed) = {}

\* Any sequence of saves, failures and crashes leaves the saved settings as they
\* were, or with all the values of one accepted form merged into them.
Disk == INSTANCE SavedSettings WITH
          saved <- Parsed(file),
          Contents <- {Parsed(x) : x \in OldFiles},
          Saves <- {Saved(f) : f \in {g \in Forms : Accepts(g)}}
ImplementsSavedSettings == Disk!Spec

\* A callback that reads the settings sees all that it is told was saved, though
\* other goroutines wait to save theirs.
CallbackSeesSave ==
  \A g \in Setters : pc[g] = "has" =>
    \A k \in DOMAIN Saved(form[g]) : values[g][k] = form[g][k]
=============================================================================
