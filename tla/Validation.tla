----------------------------- MODULE Validation -----------------------------
(***************************************************************************)
(* Which submitted values settings.Validate accepts (settings/validate.go).*)
(* A form is a function from the keys it submits to their values.  The     *)
(* schema is a set of fields, records with                                 *)
(*   key, type                                                             *)
(*   validated    whether the field has a Validation                       *)
(*   required     Validation.Required                                      *)
(*   misfits      the strings its Pattern, MinLen or MaxLen refuses        *)
(*   outside      the numbers its Min or Max refuses                       *)
(*   dependsOn    DynamicOptions.DependsOn, "" for static options          *)
(*   options      value of dependsOn ("" if static) -> the options         *)
(*   shownBy      Condition.Field, "" for none                             *)
(*   equals       Condition.Equals                                         *)
(***************************************************************************)
CONSTANTS
  Fields,
  Booleans,   \* the values that are JSON booleans
  Numbers     \* the values that are JSON numbers; the others are strings

IsString(x) == x \notin Booleans \cup Numbers

\* The string that form v submits for key k, or "".
Text(v, k) == IF k \in DOMAIN v /\ IsString(v[k]) THEN v[k] ELSE ""

\* The options that can be selected in f when v is submitted.
Options(f, v) ==
  LET by == IF f.dependsOn = "" THEN "" ELSE Text(v, f.dependsOn)
  IN  IF by \in DOMAIN f.options THEN f.options[by] ELSE {}

\* The fields that are looked at: a hidden one is not.
Checked(v) ==
  {f \in Fields : /\ f.validated \/ f.type \in {"select", "toggle"}
                  /\ f.shownBy # "" => Text(v, f.shownBy) \in f.equals}

\* The error codes, by kind, that the value x of field f gets.
Refuses(f, x, v) ==
  \/ f.required /\ x = ""
  \/ f.type = "toggle" /\ x \notin Booleans
  \/ x \in f.misfits \cup f.outside
  \/ /\ f.type = "select" /\ IsString(x) /\ x # ""
     /\ Options(f, v) # {} /\ x \notin Options(f, v)

\* Validate finds no error: a field that is not submitted can only be required.
Accepts(v) ==
  \A f \in Checked(v) :
    IF f.key \in DOMAIN v THEN ~ Refuses(f, v[f.key], v) ELSE ~ f.required
=============================================================================
