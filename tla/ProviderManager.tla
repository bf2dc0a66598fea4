-------------------------- MODULE ProviderManager --------------------------
(***************************************************************************)
(* llm.ProviderManager (llm/factory.go) on the settings service: goroutines *)
(* that ask for the provider or reload it, and a settings callback that    *)
(* reloads it, as llm/README.md:38 advises.  Reading the settings under    *)
(* the manager's mutex and calling back under the service's is where the   *)
(* two could wait for each other.                                          *)
(***************************************************************************)
EXTENDS Settings

CONSTANTS
  Registered,   \* the names that have a factory
  NoProvider    \* m.provider is nil

VARIABLES
  managerMu,    \* who holds the manager's mutex
  provider      \* m.provider: what it was built from

managerVars == <<managerMu, provider>>
vars == <<settingsVars, managerVars>>

SecretKey == [anthropic |-> "llm.anthropic.secret", openai |-> "llm.openai.secret"]
CustomKey == [anthropic |-> "llm.anthropic.customModel",
              openai |-> "llm.openai.customModel"]

ProviderName(v) ==
  LET name == Text(v, "llm.provider") IN IF name = "" THEN "anthropic" ELSE name

\* Claude models behind an OpenAI-compatible gateway.
Compatible(v) ==
  /\ ProviderName(v) = "anthropic"
  /\ Text(v, "llm.anthropic.apiFormat") = "openai-compatible"

Transport(v) == IF Compatible(v) THEN "openai" ELSE ProviderName(v)

\* A setting that the chosen provider has under a key of its own: Load strips the
\* keys that the schema has not, so a name it does not know has none.
OwnSetting(v, keys) ==
  IF ProviderName(v) \in DOMAIN keys THEN Text(v, keys[ProviderName(v)]) ELSE ""

\* The model, and whether its name begins with "anthropic/".
ModelID(v) ==
  LET custom == OwnSetting(v, CustomKey)
  IN  [name |-> IF custom # "" THEN custom ELSE Text(v, "llm.model"),
       prefixed |-> Compatible(v)]

ConfigFromValues(v) ==
  [transport |-> Transport(v), model |-> ModelID(v), apiKey |-> OwnSetting(v, SecretKey)]

\* The keys that choose provider and model are not password fields.
ASSUME ModelKeysAssumption ==
  Passwords \cap ({"llm.provider", "llm.model", "llm.anthropic.apiFormat"}
                    \cup {CustomKey[p] : p \in DOMAIN CustomKey}) = {}

ProviderInit ==
  /\ SettingsInit
  /\ managerMu = Nobody
  /\ provider = NoProvider

\* Where a reload leaves its goroutine: in SetValues, or at the end of its call.
After(g) == Goto(g, IF g \in Setters THEN "notified" ELSE "idle")

\* Mutant of Reload: the manager's mutex is not waited for.
ReloadUnlocked(g) ==
  /\ pc[g] = IF g \in Setters THEN "notify" ELSE "idle"
  /\ managerMu' = g
  /\ Goto(g, "load")
  /\ UNCHANGED <<file, tmp, keyring, locks, form, todo, values, bounds, provider>>

\* Reload, or Provider when there is none yet.
Reload(g) ==
  /\ pc[g] = IF g \in Setters THEN "notify" ELSE "idle"
  /\ managerMu = Nobody
  /\ managerMu' = g
  /\ Goto(g, "load")
  /\ UNCHANGED <<file, tmp, keyring, locks, form, todo, values, bounds, provider>>

\* GetValues fails on a file that is no JSON.
ReloadFails(g) ==
  /\ pc[g] = "load"
  /\ storeMu = Nobody
  /\ file \in {Garbage, Torn}
  /\ managerMu' = Nobody
  /\ After(g)
  /\ UNCHANGED <<file, tmp, keyring, locks, form, todo, values, bounds, provider>>

\* NewProviderFromValues: no provider is built for a name without a factory.
Build(g) ==
  /\ pc[g] = "has"
  /\ todo[g] = {}
  /\ provider' = IF Transport(values[g]) \in Registered
                 THEN ConfigFromValues(values[g]) ELSE provider
  /\ managerMu' = Nobody
  /\ After(g)
  /\ UNCHANGED <<file, tmp, keyring, locks, form, todo, values, bounds>>

Restart == Crash /\ managerMu' = Nobody /\ provider' = NoProvider

ReloadStep(g) == ReloadFails(g) \/ Build(g)

ProviderNext ==
  \/ SettingsStep /\ UNCHANGED managerVars
  \/ \E g \in Goroutines : Reload(g) \/ ReloadStep(g)
  \/ Restart

\* The scheduler runs every goroutine, and a mutex does not starve a waiter.
ProviderFairness ==
  /\ \A g \in Setters : /\ WF_vars(SetStep(g) /\ UNCHANGED managerVars)
                        /\ SF_vars(Reload(g))
  /\ \A g \in Goroutines : /\ WF_vars(GetStep(g) /\ UNCHANGED managerVars)
                           /\ WF_vars(ReloadStep(g))

ProviderSpec == ProviderInit /\ [][ProviderNext]_vars /\ ProviderFairness
-----------------------------------------------------------------------------
(* Properties *)

\* Once SetValues has returned, and its callbacks with it, the provider is not of
\* an older choice of provider and model, whoever else was reloading meanwhile.
ProviderCurrent ==
  /\ mu = Nobody /\ provider # NoProvider
  /\ file \notin {Garbage, Torn} /\ Transport(Loaded) \in Registered
  => /\ provider.transport = Transport(Loaded)
     /\ provider.model = ModelID(Loaded)

\* SetValues returns, also when it waits for a goroutine that reloads the provider
\* while its own callback is about to.
SetEnds == \A g \in Setters : mu = g ~> mu # g

\* The provider gets the secret of the settings for its key, not the mask that
\* stands for it.
ProviderHasSecret == provider # NoProvider => provider.apiKey # Mask
=============================================================================
