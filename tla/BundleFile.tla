----------------------------- MODULE BundleFile -----------------------------
(***************************************************************************)
(* What CreateBundle promises of the file that a bundle's name stands for: *)
(* it is announced once it is sound, and remains so until another call     *)
(* takes the same name and empties it.  Module Bundle implements this      *)
(* specification, and module Webhook sends such a file.                    *)
(***************************************************************************)
VARIABLES
  writing,  \* a call of CreateBundle is under way
  sound,    \* the file is an archive, and its manifest is true
  told,     \* an event named the file
  spoiled   \* a call emptied it after that, and has not ended well

fileVars == <<writing, sound, told, spoiled>>

FileInit == writing = FALSE /\ sound = FALSE /\ told = FALSE /\ spoiled = FALSE

\* A file of a new name, or the last one again.
Begin ==
  /\ ~ writing
  /\ writing' = TRUE
  /\ sound' = FALSE
  /\ \/ told' = FALSE /\ spoiled' = FALSE
     \/ spoiled' = told /\ UNCHANGED told

Finish ==
  /\ writing
  /\ writing' = FALSE
  /\ sound' = TRUE
  /\ told' = TRUE
  /\ spoiled' = FALSE

\* Some of the bundle may be there.
Fail ==
  /\ writing
  /\ writing' = FALSE
  /\ sound' \in BOOLEAN
  /\ UNCHANGED <<told, spoiled>>

FileNext == Begin \/ Finish \/ Fail

FileSpec == FileInit /\ [][FileNext]_fileVars
-----------------------------------------------------------------------------
\* A bundle that was announced is sound unless another call, in the same second, has
\* emptied its file.
AnnouncedIsSound == told => sound \/ spoiled
=============================================================================
