--------------------------- MODULE MCDiagnostics ---------------------------
(***************************************************************************)
(* The logger, bundles and their submission, each while the two others     *)
(* have not begun: they meet in files, of which BundleFile tells Webhook   *)
(* all there is to know.                                                   *)
(*                                                                         *)
(* Logging: a logger of two fields, one of them sensitive; one of a third  *)
(* derived from it; two loggers of a fourth derived from that one, in the  *)
(* same array; and a group.                                                *)
(***************************************************************************)
EXTENDS Logging, Bundle, Webhook, TLC

CONSTANTS l1, l2, l3, l4, l5

F(key, value) == [key |-> key, value |-> value]
Fields(from, fields) == [from |-> from, group |-> FALSE, fields |-> fields]

MCDerivation ==
  (l1 :> Fields(Root, <<F("token", "short"), F("port", "long")>>)) @@
  (l2 :> Fields(l1, <<F("port", "")>>)) @@
  (l3 :> Fields(l2, <<F("token", "long")>>)) @@
  (l4 :> Fields(l2, <<F("port", "short")>>)) @@
  (l5 :> [from |-> l1, group |-> TRUE, fields |-> <<>>])

MCRecords == {<<>>, <<F("token", "short")>>}

MCSettings == {[token |-> "mask", theme |-> "dark"]}
MCCollectors == <<"network", "storage">>

MCRetryLimits == {-1, 0, 2}

Init == LoggingInit /\ BundleInit /\ FileInit /\ WebhookInit

Next ==
  \/ LoggingNext /\ bundles = 0 /\ writes = 0 /\ UNCHANGED <<bundleVars, webhookVars>>
  \/ BundleNext /\ LoggingInit /\ writes = 0 /\ UNCHANGED <<loggingVars, webhookVars>>
  \/ WebhookNext /\ LoggingInit /\ BundleInit /\ UNCHANGED <<loggingVars, bundleVars>>

Spec ==
  Init /\ [][Next]_<<loggingVars, bundleVars, webhookVars>> /\ WebhookFairness
=============================================================================
