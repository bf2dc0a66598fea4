-------------------------- MODULE MCContextWindow --------------------------
(***************************************************************************)
(* Conversations of up to six messages of one or two tokens.               *)
(***************************************************************************)
EXTENDS ContextWindow

MCBudgets == {0, 2, 4}
=============================================================================
