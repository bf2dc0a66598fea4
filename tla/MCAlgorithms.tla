---------------------------- MODULE MCAlgorithms ----------------------------
(***************************************************************************)
(* The three algorithms of the program that compute their answer from      *)
(* their input alone, each on all its small inputs while the others have   *)
(* none.                                                                   *)
(*                                                                         *)
(* Sort: every configuration of at most three services named a, b, c,      *)
(* registered in this order (any other order is a renaming), each          *)
(* depending on any subset of the three and of x, a name nothing registers.*)
(*                                                                         *)
(* Versions: the identifiers 02, 10, 1a and 2, in the order of strings,    *)
(* after the version 1.2.0 none of them, any one, or 02 and any one; two   *)
(* stable versions more, and two tags that are not versions.               *)
(*                                                                         *)
(* Window: conversations of up to six messages of one or two tokens.       *)
(***************************************************************************)
EXTENDS TopoSort, VersionOrder, ContextWindow

CONSTANTS a, b, c, x

MCNames == {a, b, c, x}

MCConfigs ==
  LET E(n) == [name : {n}, deps : SUBSET MCNames, timeout : {FALSE}]
  IN  {<<>>} \cup {<<e>> : e \in E(a)}
        \cup {<<e, f>> : e \in E(a), f \in E(b)}
        \cup {<<e, f, g>> : e \in E(a), f \in E(b), g \in E(c)}

MCIdentifiers == {[text |-> 1, number |-> 2], [text |-> 2, number |-> 10],
                  [text |-> 3, number |-> NaN], [text |-> 4, number |-> 2]}

Tag(numbers, prerelease) == [numbers |-> numbers, prerelease |-> prerelease]

MCTags ==
  {Tag(<<1, 2, 0>>, <<>>)}
    \cup {Tag(<<1, 2, 0>>, <<y>>) : y \in MCIdentifiers}
    \cup {Tag(<<1, 2, 0>>, <<[text |-> 1, number |-> 2], y>>) : y \in MCIdentifiers}
    \cup {Tag(<<1, 1, 10>>, <<>>), Tag(<<0, 10, 0>>, <<>>), Tag(<<1, NaN, 0>>, <<>>),
          Tag(<<1, 3>>, <<>>)}

MCBudgets == {0, 2, 4}

Init ==
  /\ \/ entries = <<>> /\ releases = <<>>
     \/ counter = FALSE /\ budget = 0 /\ (entries = <<>> \/ releases = <<>>)
  /\ SortInit /\ FetchInit /\ WindowInit

Next ==
  \/ SortNext /\ messages = <<>> /\ UNCHANGED <<versionVars, windowVars>>
  \/ FetchNext /\ messages = <<>> /\ UNCHANGED <<sortVars, windowVars>>
  \/ /\ entries = <<>> /\ phase = "new" /\ releases = <<>>
     /\ WindowNext /\ UNCHANGED <<sortVars, versionVars>>

Spec == Init /\ [][Next]_<<sortVars, versionVars, windowVars>>
=============================================================================
