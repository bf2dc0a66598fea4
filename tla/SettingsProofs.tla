--------------------------- MODULE SettingsProofs ---------------------------
(***************************************************************************)
(* Proofs about the settings service and the provider manager on it        *)
(* (modules Settings and ProviderManager), for any schema, forms and       *)
(* goroutines: type correctness, that no secret gets to the disk, that     *)
(* Save is atomic (SavedSettings), that a callback sees what was saved     *)
(* and that the provider is current when no SetValues runs.                *)
(***************************************************************************)
EXTENDS ProviderManager, TLAPS

\* What GetValues can return.
Shown == Submitted \cup {Defaults[k] : k \in DOMAIN Defaults} \cup {Mask, NoSecret}
Views == UNION {[keys -> Shown] : keys \in SUBSET (DOMAIN Defaults \cup Known)}

SetterPCs == {"idle", "secrets", "write", "rename", "notify", "load", "has", "notified"}
ReaderPCs == {"idle", "load", "has"}

TypeOK ==
  /\ file \in OldFiles \cup Contents
  /\ tmp \in {NoFile, Torn} \cup Contents
  /\ keyring \in [Passwords -> Submitted \cup {NoSecret}]
  /\ mu \in Setters \cup {Nobody}
  /\ storeMu \in Setters \cup {Nobody}
  /\ managerMu \in Goroutines \cup {Nobody}
  /\ pc \in [Goroutines -> SetterPCs]
  /\ form \in [Goroutines -> Forms \cup {Empty}]
  /\ todo \in [Goroutines -> SUBSET Passwords]
  /\ values \in [Goroutines -> Views]
  /\ calls \in 0 .. MaxCalls /\ crashes \in 0 .. MaxCrashes

\* Who holds which lock follows from where the goroutines are.
LocksHeld ==
  /\ \A g \in Readers : pc[g] \in ReaderPCs
  /\ \A g \in Setters : mu = g <=> pc[g] # "idle"
  /\ \A g \in Setters : storeMu = g <=> pc[g] \in {"write", "rename"}
  /\ \A g \in Goroutines : managerMu = g <=> pc[g] \in {"load", "has"}

SetterPlaces == {"secrets", "write", "rename"}
Told == {"notify", "load", "has"}

\* The file holds what the form g has saved.
Holds(g) ==
  \A k \in DOMAIN Saved(form[g]) :
    k \in DOMAIN Parsed(file) /\ Parsed(file)[k] = form[g][k]

\* A SetValues that is under way has an accepted form, and its own part of it: it
\* visits passwords of the form, renames what merges the form into the file as it
\* is, and finds the form in the file until its callbacks have returned.
SetsItsForm ==
  \A g \in Setters :
    /\ pc[g] \in SetterPlaces => form[g] \in Forms /\ Accepts(form[g])
    /\ pc[g] = "secrets" => todo[g] \subseteq DOMAIN form[g]
    /\ pc[g] = "rename" => tmp = Merged(file, form[g])
    /\ pc[g] \in Told => Holds(g)
    /\ pc[g] = "has" => \A k \in DOMAIN Saved(form[g]) :
                          k \in DOMAIN values[g] /\ values[g][k] = form[g][k]

\* No settings hold a password or a computed field.
NoSecrets ==
  /\ DOMAIN Parsed(file) \cap (Passwords \cup Computed) = {}
  /\ tmp \in Contents => DOMAIN tmp \cap (Passwords \cup Computed) = {}

SettingsInv == TypeOK /\ LocksHeld /\ SetsItsForm /\ NoSecrets

\* The values v choose the provider and the model that the file chooses.
Fresh(v) == Transport(v) = Transport(Loaded) /\ ModelID(v) = ModelID(Loaded)

Readable == file \notin {Garbage, Torn}

\* What is read or built from older settings is read again by a callback to come.
Current ==
  /\ Readable /\ provider # NoProvider /\ Transport(Loaded) \in Registered =>
       \/ provider.transport = Transport(Loaded) /\ provider.model = ModelID(Loaded)
       \/ \E g \in Setters : pc[g] \in Told
  /\ \A g \in Goroutines : pc[g] = "has" =>
       Fresh(values[g]) \/ \E s \in Setters : pc[s] = "notify"
-----------------------------------------------------------------------------
(* Files and forms *)

LEMMA ContentsFunctions ==
  ASSUME NEW c
  PROVE  c \in Contents <=>
           /\ c = [k \in DOMAIN c |-> c[k]] /\ DOMAIN c \subseteq Known
           /\ \A k \in DOMAIN c : c[k] \in Submitted
<1>1. ASSUME c \in Contents
      PROVE  /\ c = [k \in DOMAIN c |-> c[k]] /\ DOMAIN c \subseteq Known
             /\ \A k \in DOMAIN c : c[k] \in Submitted
  <2>1. PICK keys \in SUBSET Known : c \in [keys -> Submitted]
    BY <1>1 DEF Contents
  <2>2. QED
    BY <2>1
<1>2. ASSUME c = [k \in DOMAIN c |-> c[k]], DOMAIN c \subseteq Known,
             \A k \in DOMAIN c : c[k] \in Submitted
      PROVE  c \in Contents
  <2>1. c \in [DOMAIN c -> Submitted]
    BY <1>2
  <2>2. QED
    BY <1>2, <2>1 DEF Contents
<1>3. QED
  BY <1>1, <1>2

\* Reading a file that the store wrote gives what was written.
LEMMA ParsedFile ==
  ASSUME NEW x \in OldFiles \cup Contents
  PROVE  Parsed(x) \in Contents /\ (x \in Contents => Parsed(x) = x)
<1>1. Empty \in Contents
  <2>1. DOMAIN Empty = {} /\ Empty = [k \in DOMAIN Empty |-> Empty[k]]
    BY DEF Empty
  <2>2. QED
    BY <2>1, ContentsFunctions
<1>2. CASE x \in Contents
  <2>1. x \notin {NoFile, Garbage, Torn}
    BY <1>2, FilesAssumption
  <2>2. /\ x = [k \in DOMAIN x |-> x[k]] /\ DOMAIN x \subseteq Known
    BY <1>2, ContentsFunctions
  <2>3. DOMAIN x \cap Known = DOMAIN x
    BY <2>2
  <2>4. Only(x, Known) = x
    BY <2>2, <2>3 DEF Only
  <2>5. QED
    BY <1>2, <2>1, <2>4 DEF Parsed
<1>3. CASE x \in {NoFile, Garbage, Torn}
  BY <1>1, <1>3, FilesAssumption DEF Parsed
<1>4. CASE x \in OldFiles \ {NoFile, Garbage, Torn} /\ x \notin Contents
  <2>1. \A k \in DOMAIN x : x[k] \in Submitted
    BY <1>4 DEF Submitted
  <2>2. Only(x, Known) \in [DOMAIN x \cap Known -> Submitted]
    BY <2>1 DEF Only
  <2>3. QED
    BY <1>4, <2>2 DEF Parsed, Contents
<1>5. QED
  BY <1>2, <1>3, <1>4

LEMMA SavedForm ==
  ASSUME NEW f \in Forms
  PROVE  /\ Saved(f) \in Contents
         /\ DOMAIN Saved(f) \subseteq DOMAIN f
         /\ DOMAIN Saved(f) \cap (Passwords \cup Computed) = {}
         /\ \A k \in DOMAIN Saved(f) : Saved(f)[k] = f[k]
<1>1. DOMAIN Saved(f) = DOMAIN f \cap (Known \ (Passwords \cup Computed))
  BY DEF Saved, Only
<1>2. \A k \in DOMAIN Saved(f) : Saved(f)[k] = f[k]
  BY DEF Saved, Only
<1>3. \A k \in DOMAIN f : f[k] \in Submitted
  BY DEF Submitted
<1>4. Saved(f) = [k \in DOMAIN Saved(f) |-> Saved(f)[k]]
  BY DEF Saved, Only
<1>5. QED
  BY <1>1, <1>2, <1>3, <1>4, ContentsFunctions

\* What Save writes: all the form's values over all the file's.
LEMMA MergedFile ==
  ASSUME NEW x \in OldFiles \cup Contents, NEW f \in Forms
  PROVE  /\ Merged(x, f) \in Contents
         /\ DOMAIN Merged(x, f) = DOMAIN Parsed(x) \cup DOMAIN Saved(f)
         /\ \A k \in DOMAIN Saved(f) : Merged(x, f)[k] = f[k]
<1>1. /\ DOMAIN Merged(x, f) = DOMAIN Parsed(x) \cup DOMAIN Saved(f)
      /\ Merged(x, f) = [k \in DOMAIN Merged(x, f) |-> Merged(x, f)[k]]
  BY DEF Merged, Merge
<1>2. \A k \in DOMAIN Merged(x, f) :
        Merged(x, f)[k] = IF k \in DOMAIN Saved(f) THEN Saved(f)[k] ELSE Parsed(x)[k]
  BY DEF Merged, Merge
<1>3. /\ Parsed(x) \in Contents /\ Saved(f) \in Contents
      /\ \A k \in DOMAIN Saved(f) : Saved(f)[k] = f[k]
  BY ParsedFile, SavedForm
<1>4. /\ DOMAIN Parsed(x) \subseteq Known /\ DOMAIN Saved(f) \subseteq Known
      /\ \A k \in DOMAIN Parsed(x) : Parsed(x)[k] \in Submitted
      /\ \A k \in DOMAIN Saved(f) : Saved(f)[k] \in Submitted
  BY <1>3, ContentsFunctions
<1>5. \A k \in DOMAIN Merged(x, f) : Merged(x, f)[k] \in Submitted
  BY <1>1, <1>2, <1>4
<1>6. QED
  BY <1>1, <1>2, <1>3, <1>4, <1>5, ContentsFunctions

\* What GetValues starts with: the file's values over the defaults.
LEMMA LoadedView ==
  ASSUME TypeOK
  PROVE  /\ Loaded \in Views
         /\ \A k \in DOMAIN Parsed(file) : k \in DOMAIN Loaded /\ Loaded[k] = Parsed(file)[k]
<1>1. /\ DOMAIN Loaded = DOMAIN Defaults \cup DOMAIN Parsed(file)
      /\ Loaded = [k \in DOMAIN Loaded |-> Loaded[k]]
      /\ \A k \in DOMAIN Loaded :
           Loaded[k] = IF k \in DOMAIN Parsed(file) THEN Parsed(file)[k] ELSE Defaults[k]
  BY DEF Loaded, Merge
<1>2. /\ DOMAIN Parsed(file) \subseteq Known
      /\ \A k \in DOMAIN Parsed(file) : Parsed(file)[k] \in Submitted
  BY ParsedFile, ContentsFunctions DEF TypeOK
<1>3. \A k \in DOMAIN Loaded : Loaded[k] \in Shown
  BY <1>1, <1>2 DEF Shown
<1>4. Loaded \in [DOMAIN Loaded -> Shown]
  BY <1>1, <1>3
<1>5. DOMAIN Loaded \subseteq DOMAIN Defaults \cup Known
  BY <1>1, <1>2
<1>6. QED
  BY <1>1, <1>4, <1>5 DEF Views

\* What a password's state in the keyring changes in a view: its own key.
Showing(k, x) == [j \in {k} |-> x]

LEMMA SecretView ==
  ASSUME NEW v \in Views, NEW k \in Passwords, NEW x \in {Mask, NoSecret}
  PROVE  /\ Merge(v, Showing(k, x)) \in Views
         /\ DOMAIN Merge(v, Showing(k, x)) = DOMAIN v \cup {k}
         /\ \A j \in DOMAIN v \ {k} : Merge(v, Showing(k, x))[j] = v[j]
<1> DEFINE w == Merge(v, Showing(k, x))
<1>1. /\ DOMAIN w = DOMAIN v \cup {k} /\ w = [j \in DOMAIN w |-> w[j]]
      /\ \A j \in DOMAIN w : w[j] = IF j = k THEN x ELSE v[j]
  BY DEF Merge, Showing
<1>2. PICK keys \in SUBSET (DOMAIN Defaults \cup Known) : v \in [keys -> Shown]
  BY DEF Views
<1>3. k \in Known /\ x \in Shown
  BY DEF Passwords, Known, Shown
<1>4. \A j \in DOMAIN w : w[j] \in Shown
  BY <1>1, <1>2, <1>3
<1>5. w \in [DOMAIN w -> Shown]
  BY <1>1, <1>4
<1>6. DOMAIN w \subseteq DOMAIN Defaults \cup Known
  BY <1>1, <1>2, <1>3
<1>7. QED
  BY <1>1, <1>5, <1>6 DEF Views
-----------------------------------------------------------------------------
(* The invariant *)

LEMMA SettingsInvInit == ProviderInit => SettingsInv
<1> SUFFICES ASSUME ProviderInit PROVE SettingsInv
  OBVIOUS
<1> USE DEF ProviderInit, SettingsInit
<1>1. Empty \in Views
  <2>1. Empty \in [{} -> Shown]
    BY DEF Empty
  <2>2. QED
    BY <2>1 DEF Views
<1>2. TypeOK
  BY <1>1, SettingsAssumption DEF TypeOK, SetterPCs
<1>3. LocksHeld
  BY SettingsAssumption DEF LocksHeld, ReaderPCs, Goroutines
<1>4. SetsItsForm
  BY DEF SetsItsForm, SetterPlaces, Told, Goroutines
<1>5. NoSecrets
  BY FilesAssumption DEF NoSecrets
<1>6. QED
  BY <1>2, <1>3, <1>4, <1>5 DEF SettingsInv

\* The keyring steps and SetValues itself: the files stay as they are.
LEMMA SecretStepInv ==
  ASSUME SettingsInv, UNCHANGED managerVars, NEW g \in Setters,
         \/ \E f \in Forms : SetValues(g, f)
         \/ \E k \in Passwords : WriteSecret(g, k) \/ ClearFails(g, k)
         \/ SetFails(g)
  PROVE  SettingsInv'
<1> USE DEF SettingsInv
<1>1. g \in Goroutines /\ g # Nobody
  BY SettingsAssumption DEF Goroutines
<1>2. TypeOK'
  <2>1. CASE \E f \in Forms : SetValues(g, f)
    BY <1>1, <2>1, SettingsAssumption
       DEF SetValues, TypeOK, managerVars, Goto, SetterPCs
  <2>2. CASE \E k \in Passwords : WriteSecret(g, k) \/ ClearFails(g, k)
    <3>1. PICK k \in Passwords : WriteSecret(g, k) \/ ClearFails(g, k)
      BY <2>2
    <3>2. form[g] \in Forms /\ k \in DOMAIN form[g]
      BY <3>1 DEF WriteSecret, ClearFails, SetsItsForm, SetterPlaces
    <3>3. SecretOf(form[g], k) \in Submitted \cup {NoSecret}
      BY <3>2 DEF Submitted, SecretOf
    <3>4. QED
      BY <1>1, <3>1, <3>3 DEF WriteSecret, ClearFails, TypeOK, managerVars, locks, bounds
  <2>3. CASE SetFails(g)
    BY <1>1, <2>3 DEF SetFails, TypeOK, managerVars, Goto, SetterPCs, bounds
  <2>4. QED
    BY <2>1, <2>2, <2>3
<1>3. LocksHeld'
  BY <1>1, SettingsAssumption
     DEF SetValues, WriteSecret, ClearFails, SetFails, TypeOK, managerVars, locks, Goto,
         LocksHeld, Goroutines
<1>4. SetsItsForm'
  <2>1. SUFFICES ASSUME NEW s \in Setters
                 PROVE  /\ pc'[s] \in SetterPlaces => form'[s] \in Forms /\ Accepts(form'[s])
                        /\ pc'[s] = "secrets" => todo'[s] \subseteq DOMAIN form'[s]
                        /\ pc'[s] \notin Told \cup {"rename"}
    BY DEF SetsItsForm, Told
  <2>2. mu = g \/ mu = Nobody
    BY DEF LocksHeld, SetValues, WriteSecret, ClearFails, SetFails
  <2>3. s # g => pc[s] = "idle"
    BY <2>2, SettingsAssumption DEF LocksHeld, Goroutines
  <2>4. CASE \E f \in Forms : SetValues(g, f)
    BY <1>1, <2>3, <2>4 DEF SetValues, Goto, TypeOK, Told, SetterPlaces, Goroutines
  <2>5. CASE \E k \in Passwords : WriteSecret(g, k) \/ ClearFails(g, k)
    BY <1>1, <2>3, <2>5
       DEF SetsItsForm, WriteSecret, ClearFails, locks, TypeOK, Told, SetterPlaces, Goroutines
  <2>6. CASE SetFails(g)
    BY <1>1, <2>3, <2>6 DEF SetFails, Goto, TypeOK, Told, SetterPlaces, Goroutines
  <2>7. QED
    BY <2>4, <2>5, <2>6
<1>5. NoSecrets'
  BY DEF NoSecrets, SetValues, WriteSecret, ClearFails, SetFails
<1>6. QED
  BY <1>2, <1>3, <1>4, <1>5

\* Only the setter in SetValues has a form to answer for.
LEMMA SetsItsFormOf ==
  ASSUME NEW g \in Setters,
         \A s \in Setters : s # g => pc'[s] = "idle",
         pc'[g] \in SetterPlaces => form'[g] \in Forms /\ Accepts(form'[g]),
         pc'[g] = "secrets" => todo'[g] \subseteq DOMAIN form'[g],
         pc'[g] = "rename" => tmp' = Merged(file', form'[g]),
         pc'[g] \in Told => Holds(g)',
         pc'[g] = "has" => \A k \in DOMAIN Saved(form'[g]) :
                            k \in DOMAIN values'[g] /\ values'[g][k] = form'[g][k]
  PROVE  SetsItsForm'
<1>1. SUFFICES ASSUME NEW s \in Setters
               PROVE  /\ pc'[s] \in SetterPlaces => form'[s] \in Forms /\ Accepts(form'[s])
                      /\ pc'[s] = "secrets" => todo'[s] \subseteq DOMAIN form'[s]
                      /\ pc'[s] = "rename" => tmp' = Merged(file', form'[s])
                      /\ pc'[s] \in Told => Holds(s)'
                      /\ pc'[s] = "has" => \A k \in DOMAIN Saved(form'[s]) :
                           k \in DOMAIN values'[s] /\ values'[s][k] = form'[s][k]
  BY DEF SetsItsForm
<1>2. CASE s = g
  BY <1>2
<1>3. CASE s # g
  BY <1>3 DEF SetterPlaces, Told
<1>4. QED
  BY <1>2, <1>3

\* Store.Save and the end of SetValues, which change the file and no secret.
LEMMA SaveStepInv ==
  ASSUME SettingsInv, UNCHANGED managerVars, NEW g \in Setters,
         \/ SaveOpens(g) \/ SaveWrites(g) \/ SaveFails(g) \/ SaveRenames(g)
         \/ SetReturns(g)
  PROVE  SettingsInv'
<1> USE DEF SettingsInv
<1>1. /\ g \in Goroutines /\ mu = g /\ pc[g] # "idle"
      /\ \A s \in Setters : s # g => pc[s] = "idle"
  BY SettingsAssumption
     DEF Goroutines, LocksHeld, SaveOpens, SaveWrites, SaveFails, SaveRenames, SetReturns
<1>2. pc[g] \in SetterPlaces => form[g] \in Forms
  BY DEF SetsItsForm
<1>3. CASE SaveOpens(g) \/ SaveFails(g) \/ SetReturns(g)
  <2> USE <1>3 DEF SaveOpens, SaveFails, SetReturns, Goto, locks, bounds
  <2>1. TypeOK'
    BY <1>1 DEF TypeOK, managerVars, SetterPCs
  <2>2. LocksHeld'
    BY <1>1, SettingsAssumption DEF LocksHeld, TypeOK, managerVars, Goroutines
  <2>3. /\ pc'[g] \in {"idle", "write"} /\ \A s \in Setters : s # g => pc'[s] = "idle"
        /\ form' = form
    BY <1>1 DEF TypeOK, Goroutines
  <2>6. pc'[g] = "write" => form[g] \in Forms /\ Accepts(form[g])
    BY <1>1 DEF SetsItsForm, SetterPlaces, TypeOK
  <2>7. SetsItsForm'
    BY <2>3, <2>6, SetsItsFormOf DEF SetterPlaces, Told
  <2>4. NoSecrets'
    BY FilesAssumption DEF NoSecrets
  <2>5. QED
    BY <2>1, <2>2, <2>7, <2>4
<1>4. CASE SaveWrites(g)
  <2> USE <1>4 DEF SaveWrites, Goto, locks, bounds
  <2>1. form[g] \in Forms /\ file \in OldFiles \cup Contents
    BY <1>2 DEF TypeOK, SetterPlaces
  <2>2. /\ tmp' \in Contents /\ DOMAIN tmp' = DOMAIN Parsed(file) \cup DOMAIN Saved(form[g])
        /\ DOMAIN Saved(form[g]) \cap (Passwords \cup Computed) = {}
    BY <2>1, MergedFile, SavedForm
  <2>3. TypeOK'
    BY <1>1, <2>2 DEF TypeOK, managerVars, SetterPCs
  <2>4. LocksHeld'
    BY <1>1, SettingsAssumption DEF LocksHeld, TypeOK, managerVars, Goroutines
  <2>5. SetsItsForm'
    BY <1>1 DEF SetsItsForm, TypeOK, SetterPlaces, Told
  <2>6. NoSecrets'
    BY <2>2 DEF NoSecrets
  <2>7. QED
    BY <2>3, <2>4, <2>5, <2>6
<1>5. CASE SaveRenames(g)
  <2>1. /\ form[g] \in Forms /\ file \in OldFiles \cup Contents
        /\ tmp = Merged(file, form[g]) /\ file' = tmp
    BY <1>1, <1>2, <1>5 DEF SaveRenames, TypeOK, SetterPlaces, SetsItsForm
  <2> DEFINE merged == Merged(file, form[g])
  <2>9. /\ merged \in Contents
        /\ DOMAIN merged = DOMAIN Parsed(file) \cup DOMAIN Saved(form[g])
        /\ \A k \in DOMAIN Saved(form[g]) : merged[k] = form[g][k]
    BY <2>1, MergedFile, Zenon
  <2>10. DOMAIN Saved(form[g]) \cap (Passwords \cup Computed) = {}
    BY <2>1, SavedForm, Zenon
  <2>2. /\ tmp \in Contents
        /\ DOMAIN tmp = DOMAIN Parsed(file) \cup DOMAIN Saved(form[g])
        /\ \A k \in DOMAIN Saved(form[g]) : tmp[k] = form[g][k]
        /\ DOMAIN Saved(form[g]) \cap (Passwords \cup Computed) = {}
    BY <2>1, <2>9, <2>10
  <2>3. Parsed(file)' = tmp
    BY <2>1, <2>2, ParsedFile
  <2> USE <1>5 DEF SaveRenames, Goto, bounds
  <2>4. TypeOK'
    BY <1>1, <2>2 DEF TypeOK, managerVars, SetterPCs
  <2>5. LocksHeld'
    BY <1>1, SettingsAssumption DEF LocksHeld, TypeOK, managerVars, Goroutines
  <2>6. SetsItsForm'
    <3>1. pc'[g] = "notify" /\ \A s \in Setters : s # g => pc'[s] = "idle"
      BY <1>1 DEF TypeOK
    <3>2. Holds(g)'
      BY <2>2, <2>3 DEF Holds
    <3>3. QED
      BY <3>1, <3>2, SetsItsFormOf DEF SetterPlaces
  <2>7. NoSecrets'
    BY <2>2, <2>3, FilesAssumption DEF NoSecrets
  <2>8. QED
    BY <2>4, <2>5, <2>6, <2>7
<1>6. QED
  BY <1>3, <1>4, <1>5

\* GetValues, which only reads.
LEMMA GetStepInv ==
  ASSUME SettingsInv, UNCHANGED managerVars, NEW g \in Goroutines,
         LoadFile(g) \/ \E k \in Passwords : ReadSecret(g, k)
  PROVE  SettingsInv'
<1> USE DEF SettingsInv
<1>1. CASE LoadFile(g)
  <2> USE <1>1 DEF LoadFile, Goto, locks, bounds
  <2>1. Loaded \in Views
    BY LoadedView
  <2>2. TypeOK'
    BY <2>1 DEF TypeOK, managerVars, SetterPCs
  <2>3. LocksHeld'
    BY SettingsAssumption DEF LocksHeld, TypeOK, managerVars, Goroutines, ReaderPCs
  <2>4. SetsItsForm'
    BY LoadedView DEF SetsItsForm, Holds, TypeOK, SetterPlaces, Told, Goroutines
  <2>5. NoSecrets'
    BY DEF NoSecrets
  <2>6. QED
    BY <2>2, <2>3, <2>4, <2>5
<1>2. CASE \E k \in Passwords : ReadSecret(g, k)
  <2>1. PICK k \in Passwords : ReadSecret(g, k)
    BY <1>2
  <2>2. PICK x \in {Mask, NoSecret} :
          values' = [values EXCEPT ![g] = Merge(@, [j \in {k} |-> x])]
    BY <2>1 DEF ReadSecret
  <2>3. values[g] \in Views
    BY DEF TypeOK
  <2>4. /\ values'[g] \in Views /\ DOMAIN values'[g] = DOMAIN values[g] \cup {k}
        /\ \A j \in DOMAIN values[g] \ {k} : values'[g][j] = values[g][j]
    <3>1. values'[g] = Merge(values[g], Showing(k, x))
      BY <2>2 DEF TypeOK, Showing
    <3> DEFINE w == Merge(values[g], Showing(k, x))
    <3>2. /\ w \in Views /\ DOMAIN w = DOMAIN values[g] \cup {k}
          /\ \A j \in DOMAIN values[g] \ {k} : w[j] = values[g][j]
      BY <2>3, SecretView
    <3>3. QED
      BY <3>1, <3>2
  <2> USE <2>1 DEF ReadSecret, locks, bounds
  <2>5. TypeOK'
    BY <2>2, <2>4 DEF TypeOK, managerVars
  <2>6. LocksHeld'
    BY DEF LocksHeld, managerVars
  <2>7. SetsItsForm'
    <3>1. ASSUME NEW s \in Setters, pc[s] = "has", NEW j \in DOMAIN Saved(form[s])
          PROVE  j \in DOMAIN values'[s] /\ values'[s][j] = form[s][j]
      <4>1. form[s] \in Forms \cup {Empty}
        BY DEF TypeOK, Goroutines
      <4>2. j \notin Passwords
        BY <3>1 DEF Saved, Only
      <4>3. j \in DOMAIN values[s] /\ values[s][j] = form[s][j]
        BY <3>1 DEF SetsItsForm
      <4>4. CASE s = g
        BY <2>4, <4>2, <4>3, <4>4
      <4>5. CASE s # g
        BY <2>2, <4>3, <4>5 DEF TypeOK
      <4>6. QED
        BY <4>4, <4>5
    <3>2. QED
      BY <3>1 DEF SetsItsForm, Holds, TypeOK, SetterPlaces, Told, Goroutines
  <2>8. NoSecrets'
    BY DEF NoSecrets
  <2>9. QED
    BY <2>5, <2>6, <2>7, <2>8
<1>3. QED
  BY <1>1, <1>2

\* Reload, and what ends it: the manager's mutex changes hands.
LEMMA ReloadInv ==
  ASSUME SettingsInv, NEW g \in Goroutines, Reload(g) \/ ReloadFails(g) \/ Build(g)
  PROVE  SettingsInv'
<1> USE DEF SettingsInv
<1>1. g # Nobody
  BY SettingsAssumption
<1>2. TypeOK'
  BY DEF TypeOK, Reload, ReloadFails, Build, After, Goto, SetterPCs, locks, bounds
<1>3. LocksHeld'
  BY <1>1, SettingsAssumption
     DEF LocksHeld, TypeOK, Reload, ReloadFails, Build, After, Goto, locks, Goroutines, ReaderPCs
<1>4. SetsItsForm'
  <2>1. ASSUME NEW s \in Setters
        PROVE  /\ pc'[s] \in SetterPlaces \cup {"has"} => pc'[s] = pc[s]
               /\ pc'[s] \in Told => pc[s] \in Told
    BY DEF TypeOK, Reload, ReloadFails, Build, After, Goto, SetterPlaces, Told, Goroutines
  <2>2. QED
    BY <2>1 DEF SetsItsForm, Holds, SetterPlaces, Told, Reload, ReloadFails, Build, locks, bounds
<1>5. NoSecrets'
  BY DEF NoSecrets, Reload, ReloadFails, Build
<1>6. QED
  BY <1>2, <1>3, <1>4, <1>5

LEMMA RestartInv ==
  ASSUME SettingsInv, Restart
  PROVE  SettingsInv'
<1> USE DEF SettingsInv, Restart, Crash
<1>1. Empty \in Views
  <2>1. Empty \in [{} -> Shown]
    BY DEF Empty
  <2>2. QED
    BY <2>1 DEF Views
<1>2. TypeOK'
  BY <1>1, SettingsAssumption DEF TypeOK, SetterPCs
<1>3. LocksHeld'
  BY SettingsAssumption DEF LocksHeld, ReaderPCs, Goroutines
<1>4. SetsItsForm'
  BY DEF SetsItsForm, SetterPlaces, Told, Goroutines
<1>5. NoSecrets'
  BY DEF NoSecrets
<1>6. QED
  BY <1>2, <1>3, <1>4, <1>5

LEMMA SettingsInvStep == SettingsInv /\ [ProviderNext]_vars => SettingsInv'
<1> SUFFICES ASSUME SettingsInv, [ProviderNext]_vars PROVE SettingsInv'
  OBVIOUS
<1>1. CASE UNCHANGED managerVars /\ \E f \in Forms : SetRejected(f)
  <2> USE <1>1 DEF SetRejected, locks, managerVars
  <2>1. TypeOK'
    BY SettingsAssumption DEF SettingsInv, TypeOK
  <2>2. (LocksHeld /\ SetsItsForm /\ NoSecrets)'
    BY DEF SettingsInv, LocksHeld, SetsItsForm, Holds, NoSecrets
  <2>3. QED
    BY <2>1, <2>2 DEF SettingsInv
<1>2. CASE UNCHANGED managerVars
           /\ \E g \in Setters : SetStep(g) \/ \E f \in Forms : SetValues(g, f)
  BY <1>2, SecretStepInv, SaveStepInv DEF SetStep
<1>3. CASE UNCHANGED managerVars /\ \E g \in Goroutines : GetStep(g)
  BY <1>3, GetStepInv DEF GetStep
<1>4. CASE \E g \in Goroutines : Reload(g) \/ ReloadStep(g)
  BY <1>4, ReloadInv DEF ReloadStep
<1>5. CASE Restart
  BY <1>5, RestartInv
<1>6. CASE UNCHANGED vars
  BY <1>6 DEF vars, settingsVars, managerVars, SettingsInv, TypeOK, LocksHeld, SetsItsForm,
     Holds, NoSecrets
<1>7. QED
  BY <1>1, <1>2, <1>3, <1>4, <1>5, <1>6 DEF ProviderNext, SettingsStep

LEMMA SettingsInvariant == ProviderSpec => []SettingsInv
BY SettingsInvInit, SettingsInvStep, PTL DEF ProviderSpec
-----------------------------------------------------------------------------
(* What the invariant shows *)

\* Every variable keeps its type: the file holds an old file's contents or known
\* keys with submitted values, and never a half-written file.
THEOREM SettingsTypeOK == ProviderSpec => []TypeOK
BY SettingsInvariant, PTL DEF SettingsInv

\* Secrets are never written to the disk: whatever the forms submit and whatever
\* step fails, neither settings file gets a password key or a computed one.
THEOREM SettingsNoSecretsOnDisk == ProviderSpec => []NoSecretsOnDisk
<1>1. SettingsInv => NoSecretsOnDisk
  <2>1. SUFFICES ASSUME SettingsInv, NEW x \in {file, tmp} \ (OldFiles \cup {NoFile, Torn})
                 PROVE  DOMAIN x \cap (Passwords \cup Computed) = {}
    BY DEF NoSecretsOnDisk
  <2>2. x \in Contents /\ (x = file => Parsed(file) = x)
    BY <2>1, ParsedFile DEF SettingsInv, TypeOK
  <2>3. QED
    BY <2>1, <2>2 DEF SettingsInv, NoSecrets
<1>2. QED
  BY <1>1, SettingsInvariant, PTL

\* A callback that reads the settings sees all that it is told was saved, though
\* other goroutines wait to save theirs: SetValues keeps the service's mutex until
\* its callbacks have returned.
THEOREM SettingsCallbackSeesSave == ProviderSpec => []CallbackSeesSave
<1>1. SettingsInv => CallbackSeesSave
  BY DEF SettingsInv, SetsItsForm, CallbackSeesSave
<1>2. QED
  BY <1>1, SettingsInvariant, PTL

\* Save is atomic: any sequence of saves, failures and crashes leaves the saved
\* settings as they were, or with one accepted form merged into them whole.
THEOREM SettingsImplementSavedSettings == ProviderSpec => ImplementsSavedSettings
<1>1. ProviderInit => Disk!Init
  BY DEF ProviderInit, SettingsInit, Disk!Init
<1>2. SettingsInv /\ [ProviderNext]_vars => [Disk!Next]_(Parsed(file))
  <2>1. SUFFICES ASSUME SettingsInv, [ProviderNext]_vars, file' # file
                 PROVE  Disk!Next
    BY DEF Parsed
  <2>2. PICK g \in Setters : SaveRenames(g)
    BY <2>1 DEF ProviderNext, SettingsStep, SetStep, GetStep, ReloadStep, SetRejected,
       SetValues, WriteSecret, ClearFails, SetFails, SaveOpens, SaveWrites, SaveFails,
       SetReturns, LoadFile, ReadSecret, Reload, ReloadFails, Build, Restart, Crash,
       vars, settingsVars
  <2>3. /\ form[g] \in Forms /\ Accepts(form[g]) /\ file \in OldFiles \cup Contents
        /\ file' = Merged(file, form[g])
    BY <2>1, <2>2 DEF SaveRenames, SettingsInv, SetsItsForm, SetterPlaces, TypeOK
  <2>4. Parsed(Merged(file, form[g])) = Merged(file, form[g])
    BY <2>3, MergedFile, ParsedFile
  <2>5. Parsed(file)' = Merged(file, form[g])
    BY <2>3, <2>4 DEF Parsed
  <2>6. Saved(form[g]) \in {Saved(f) : f \in {h \in Forms : Accepts(h)}}
    BY <2>3
  <2>7. Disk!Save(Saved(form[g]))
    BY <2>5 DEF Disk!Save, Merged, Merge
  <2>8. QED
    BY <2>6, <2>7 DEF Disk!Next
<1>3. QED
  BY <1>1, <1>2, SettingsInvariant, PTL DEF ProviderSpec, ImplementsSavedSettings, Disk!Spec
-----------------------------------------------------------------------------
(* The provider is current *)

\* A password's state chooses neither the provider nor its model.
LEMMA SecretKeepsChoice ==
  ASSUME NEW v, NEW k \in Passwords, NEW w, DOMAIN w = DOMAIN v \cup {k},
         \A j \in DOMAIN v \ {k} : w[j] = v[j]
  PROVE  Transport(w) = Transport(v) /\ ModelID(w) = ModelID(v)
<1>1. ASSUME NEW j, j # k PROVE Text(w, j) = Text(v, j)
  <2>1. j \in DOMAIN w <=> j \in DOMAIN v
    BY <1>1
  <2>2. j \in DOMAIN v => w[j] = v[j]
    BY <1>1
  <2>3. QED
    BY <2>1, <2>2, Zenon DEF Text
<1>2. /\ k # "llm.provider" /\ k # "llm.model" /\ k # "llm.anthropic.apiFormat"
      /\ \A p \in DOMAIN CustomKey : k # CustomKey[p]
  BY ModelKeysAssumption
<1>3. ProviderName(w) = ProviderName(v)
  <2>1. Text(w, "llm.provider") = Text(v, "llm.provider")
    BY <1>1, <1>2, Zenon
  <2>2. QED
    BY <2>1, Zenon DEF ProviderName
<1>4. Compatible(w) = Compatible(v)
  BY <1>1, <1>2, <1>3, Zenon DEF Compatible
<1>5. OwnSetting(w, CustomKey) = OwnSetting(v, CustomKey)
  BY <1>1, <1>2, <1>3, Zenon DEF OwnSetting
<1>6. Text(w, "llm.model") = Text(v, "llm.model")
  BY <1>1, <1>2, Zenon
<1>7. Transport(w) = Transport(v)
  BY <1>3, <1>4, Zenon DEF Transport
<1>8. ModelID(w) = ModelID(v)
  BY <1>4, <1>5, <1>6, Zenon DEF ModelID
<1>9. QED
  BY <1>7, <1>8

\* A step that reads nothing and builds nothing, and takes no goroutine out of a
\* callback, leaves the provider as current as it was.
LEMMA CurrentKept ==
  ASSUME Current, UNCHANGED <<file, provider, values>>,
         \A g \in Setters : (pc[g] \in Told => pc'[g] \in Told)
                            /\ (pc[g] = "notify" => pc'[g] = "notify"),
         \A g \in Goroutines : pc'[g] = "has" => pc[g] = "has"
  PROVE  Current'
BY DEF Current, Fresh, Readable, Loaded

\* The steps of SetValues: a save that succeeds has its callback to come.
LEMMA SetStepCurrent ==
  ASSUME SettingsInv, Current, UNCHANGED managerVars, NEW g \in Setters,
         SetStep(g) \/ \E f \in Forms : SetValues(g, f)
  PROVE  Current'
<1>1. CASE SaveRenames(g)
  <2>1. pc'[g] = "notify"
    BY <1>1 DEF SaveRenames, Goto, SettingsInv, TypeOK, Goroutines
  <2>2. QED
    BY <2>1 DEF Current, Told
<1>2. CASE ~SaveRenames(g)
  <2> USE <1>2 DEF SetStep, SetValues, WriteSecret, ClearFails, SetFails, SaveOpens,
      SaveWrites, SaveFails, SetReturns, Goto, locks, bounds
  <2>1. UNCHANGED <<file, provider, values>>
    BY DEF managerVars
  <2>2. pc[g] \notin Told /\ \A h \in Goroutines : pc'[h] = pc[h] \/ (h = g /\ pc'[g] # "has")
    BY DEF Told, SettingsInv, TypeOK, Goroutines
  <2>3. QED
    BY <2>1, <2>2, CurrentKept DEF Goroutines, Told
<1>3. QED
  BY <1>1, <1>2

\* GetValues reads the file as it is, and passwords do not matter.
LEMMA GetStepCurrent ==
  ASSUME SettingsInv, Current, UNCHANGED managerVars, NEW g \in Goroutines, GetStep(g)
  PROVE  Current'
<1>1. UNCHANGED <<file, provider>> /\ Loaded' = Loaded
  BY DEF GetStep, LoadFile, ReadSecret, managerVars, Loaded
<1>2. pc'[g] = "has"
  BY DEF GetStep, LoadFile, ReadSecret, Goto, SettingsInv, TypeOK
<1>3. \A h \in Goroutines : h # g => pc'[h] = pc[h] /\ values'[h] = values[h]
  BY DEF GetStep, LoadFile, ReadSecret, Goto, SettingsInv, TypeOK
<1>4. pc[g] # "notify" /\ (g \in Setters => pc[g] \in Told)
  BY DEF GetStep, LoadFile, ReadSecret, Told
<1>5. \/ Fresh(values'[g])
      \/ \E s \in Setters : pc[s] = "notify"
  <2>1. CASE LoadFile(g)
    BY <2>1 DEF LoadFile, Fresh, SettingsInv, TypeOK
  <2>2. CASE \E k \in Passwords : ReadSecret(g, k)
    <3>1. PICK k \in Passwords, x \in {Mask, NoSecret} :
            values' = [values EXCEPT ![g] = Merge(@, [j \in {k} |-> x])]
      BY <2>2 DEF ReadSecret
    <3>2. values'[g] = Merge(values[g], Showing(k, x))
      BY <3>1 DEF SettingsInv, TypeOK, Showing
    <3> DEFINE w == Merge(values[g], Showing(k, x))
    <3>3. DOMAIN w = DOMAIN values[g] \cup {k} /\ \A j \in DOMAIN values[g] \ {k} : w[j] = values[g][j]
      BY <3>1, SecretView DEF SettingsInv, TypeOK
    <3>4. Transport(w) = Transport(values[g]) /\ ModelID(w) = ModelID(values[g])
      BY <3>3, SecretKeepsChoice
    <3>5. pc[g] = "has"
      BY <2>2 DEF ReadSecret
    <3>6. QED
      BY <3>2, <3>4, <3>5 DEF Current, Fresh
  <2>3. QED
    BY <2>1, <2>2 DEF GetStep
<1>7. QED
  BY <1>1, <1>2, <1>3, <1>4, <1>5 DEF Current, Fresh, Readable, Told, Goroutines

\* A reload: who holds the manager's mutex is the only one that has read settings,
\* and a callback builds the provider from settings that nobody changes.
LEMMA ReloadCurrent ==
  ASSUME SettingsInv, Current, NEW g \in Goroutines, Reload(g) \/ ReloadFails(g) \/ Build(g)
  PROVE  Current'
<1>1. UNCHANGED <<file, values>> /\ Loaded' = Loaded
  BY DEF Reload, ReloadFails, Build, Loaded
<1>2. \A h \in Goroutines : h # g => pc'[h] = pc[h] /\ pc[h] # "has"
  BY SettingsAssumption
     DEF Reload, ReloadFails, Build, After, Goto, SettingsInv, TypeOK, LocksHeld
<1>3. pc'[g] # "has"
  BY DEF Reload, ReloadFails, Build, After, Goto, SettingsInv, TypeOK
<1>4. CASE Reload(g)
  <2>1. pc[g] \in Told => pc'[g] \in Told
    BY <1>4 DEF Reload, Goto, Told, SettingsInv, TypeOK
  <2>2. QED
    BY <1>1, <1>2, <1>3, <1>4, <2>1 DEF Reload, Current, Readable, Goroutines
<1>5. CASE ReloadFails(g)
  BY <1>1, <1>2, <1>3, <1>5 DEF ReloadFails, Current, Readable
<1>6. CASE Build(g)
  <2>1. pc[g] = "has"
    BY <1>6 DEF Build
  <2>2. CASE \E s \in Setters : pc[s] = "notify"
    <3>1. PICK s \in Setters : pc[s] = "notify"
      BY <2>2
    <3>2. pc'[s] \in Told
      BY <1>2, <2>1, <3>1 DEF Told, Goroutines
    <3>3. QED
      BY <1>1, <1>2, <1>3, <3>2 DEF Current
  <2>3. CASE Fresh(values[g])
    <3>1. Transport(Loaded) \in Registered =>
            provider'.transport = Transport(Loaded) /\ provider'.model = ModelID(Loaded)
      BY <1>6, <2>3 DEF Build, Fresh, ConfigFromValues
    <3>2. QED
      BY <1>1, <1>2, <1>3, <3>1 DEF Current
  <2>4. QED
    BY <2>1, <2>2, <2>3 DEF Current
<1>7. QED
  BY <1>4, <1>5, <1>6

LEMMA CurrentStep == SettingsInv /\ Current /\ [ProviderNext]_vars => Current'
<1> SUFFICES ASSUME SettingsInv, Current, [ProviderNext]_vars PROVE Current'
  OBVIOUS
<1>1. CASE UNCHANGED managerVars /\ \E f \in Forms : SetRejected(f)
  BY <1>1, CurrentKept DEF SetRejected, managerVars
<1>2. CASE UNCHANGED managerVars
           /\ \E g \in Setters : SetStep(g) \/ \E f \in Forms : SetValues(g, f)
  BY <1>2, SetStepCurrent
<1>3. CASE UNCHANGED managerVars /\ \E g \in Goroutines : GetStep(g)
  BY <1>3, GetStepCurrent
<1>4. CASE \E g \in Goroutines : Reload(g) \/ ReloadStep(g)
  BY <1>4, ReloadCurrent DEF ReloadStep
<1>5. CASE Restart
  BY <1>5 DEF Restart, Crash, Current, Goroutines
<1>6. CASE UNCHANGED vars
  BY <1>6, CurrentKept DEF vars, settingsVars, managerVars
<1>7. QED
  BY <1>1, <1>2, <1>3, <1>4, <1>5, <1>6 DEF ProviderNext, SettingsStep

\* Once SetValues has returned, and its callbacks with it, the provider is not of
\* an older choice of provider and model, whoever else was reloading meanwhile:
\* a reload that read older settings ends before the callback's own can begin.
THEOREM ManagerProviderCurrent == ProviderSpec => []ProviderCurrent
<1>1. ProviderInit => Current
  BY DEF ProviderInit, SettingsInit, Current, Goroutines
<1>2. SettingsInv /\ Current => ProviderCurrent
  <2>1. SUFFICES ASSUME SettingsInv, Current, mu = Nobody
                 PROVE  ~ \E g \in Setters : pc[g] \in Told
    BY DEF ProviderCurrent, Current, Readable
  <2>2. QED
    BY <2>1, SettingsAssumption DEF SettingsInv, LocksHeld, Told, Goroutines
<1>3. QED
  BY <1>1, <1>2, CurrentStep, SettingsInvariant, PTL DEF ProviderSpec
=============================================================================
