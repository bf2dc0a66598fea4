----------------------------- MODULE MCSettings -----------------------------
(***************************************************************************)
(* The settings group of llm/group.go, cut to the provider, its model, two *)
(* keys and the computed field, with the forms a settings page submits.    *)
(***************************************************************************)
EXTENDS ProviderManager, TLC

CONSTANTS s1, s2, m, number

Provider == "llm.provider"
Model == "llm.model"
Secret == "llm.anthropic.secret"
Resolved == "llm.resolvedModelID"

Field(key, type) ==
  [key |-> key, type |-> type, validated |-> FALSE, required |-> FALSE,
   misfits |-> {}, outside |-> {}, dependsOn |-> "", options |-> "" :> {},
   shownBy |-> "", equals |-> {}]

MCFields ==
  {[Field(Provider, "select") EXCEPT !.options = "" :> {"anthropic", "openai"}],
   [Field(Model, "select") EXCEPT
      !.dependsOn = Provider,
      !.options = "anthropic" :> {"claude"} @@ "openai" :> {"gpt"}],
   [Field(Secret, "password") EXCEPT !.shownBy = Provider, !.equals = {"anthropic"}],
   Field(Resolved, "computed")}

MCDefaults == Provider :> "anthropic" @@ Model :> "claude"

\* A change of provider, one with a new key, the page sent back as it was read
\* with the key cleared, a key that is a number, a new model alone, and a form that is
\* refused.
MCForms ==
  {Provider :> "openai" @@ Model :> "gpt",
   Provider :> "anthropic" @@ Model :> "claude" @@ Secret :> "key",
   Provider :> "anthropic" @@ Secret :> NoSecret @@ Resolved :> "claude",
   Secret :> number,
   Model :> "opus" @@ Secret :> Mask,
   Provider :> "anthropic" @@ Model :> "gpt"}

\* A file that is missing, is no JSON, or holds a key that the schema dropped.
MCOldFiles == {NoFile, Garbage, Provider :> "openai" @@ "theme" :> "dark"}

MCEnv == Secret :> NoSecret
=============================================================================
