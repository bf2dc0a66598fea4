---------------------------- MODULE VersionOrder ----------------------------
(***************************************************************************)
(* The order of versions (updates/version.go), and the release that        *)
(* fetchLatestIncludingPrereleases chooses by it (updates/github.go).  A   *)
(* tag is what the separators leave of it: its numbers and the             *)
(* dot-separated identifiers of its pre-release, none for a stable one.    *)
(***************************************************************************)
EXTENDS Integers, Sequences

CONSTANTS
  NaN,           \* the number of a text that is none
  Identifiers,   \* identifiers: their number, and their place among strings
  Tags,          \* tags of releases
  MaxReleases    \* bound: the releases in GitHub's answer

ASSUME VersionAssumption ==
  /\ NaN \notin Int
  /\ \A x \in Identifiers : x.number \in Int \cup {NaN} /\ x.text \in Int
  /\ \A x, y \in Identifiers : x.text = y.text => x = y
  /\ \A t \in Tags : t.numbers \in Seq(Int \cup {NaN}) /\ t.prerelease \in Seq(Identifiers)
  /\ MaxReleases \in Nat

NoVersion == [core |-> <<>>, prerelease |-> <<>>]

ParseVersion(tag) ==
  IF Len(tag.numbers) # 3 \/ (\E k \in 1 .. 3 : tag.numbers[k] = NaN) THEN NoVersion
  ELSE [core |-> tag.numbers, prerelease |-> tag.prerelease]

cmpInt(a, b) == IF a < b THEN -1 ELSE IF a > b THEN 1 ELSE 0

IsFirst(s, k) == s[k] # 0 /\ \A j \in 1 .. k - 1 : s[j] = 0

\* The first comparison of several that tells two versions apart, or 0.
FirstNonZero(s) ==
  IF \E k \in DOMAIN s : IsFirst(s, k) THEN s[CHOOSE k \in DOMAIN s : IsFirst(s, k)]
  ELSE 0

\* Mutant of CompareIdentifiers: a number and a string are compared as strings.
CompareIdentifiersMixed(x, y) ==
  IF NaN \notin {x.number, y.number} THEN cmpInt(x.number, y.number)
  ELSE cmpInt(x.text, y.text)

\* Numbers by their value, before all strings.
CompareIdentifiers(x, y) ==
  CASE NaN \notin {x.number, y.number} -> cmpInt(x.number, y.number)
    [] x.number # NaN /\ y.number = NaN -> -1
    [] x.number = NaN /\ y.number # NaN -> 1
    [] OTHER -> cmpInt(x.text, y.text)

\* A stable version is newer than its pre-releases.
comparePrerelease(a, b) ==
  CASE a = b -> 0
    [] a = <<>> /\ b # <<>> -> 1
    [] a # <<>> /\ b = <<>> -> -1
    [] OTHER ->
         LET shared == 1 .. (IF Len(a) < Len(b) THEN Len(a) ELSE Len(b))
         IN  FirstNonZero(Append([k \in shared |-> CompareIdentifiers(a[k], b[k])],
                                 cmpInt(Len(a), Len(b))))

Compare(v, w) ==
  FirstNonZero(Append([k \in 1 .. 3 |-> cmpInt(v.core[k], w.core[k])],
                      comparePrerelease(v.prerelease, w.prerelease)))

NewerThan(v, w) == Compare(v, w) > 0

\* Drafts, and tags that are not versions, are not considered.
Considered(r) == ~ r.draft /\ ParseVersion(r.tag) # NoVersion

VARIABLES
  releases,   \* GitHub's answer
  seen,       \* how many of them the loop has seen
  best        \* the best of them, a sequence of none or one

versionVars == <<releases, seen, best>>

Release == [draft : BOOLEAN, tag : Tags]

FetchInit ==
  /\ releases \in UNION {[1 .. n -> Release] : n \in 0 .. MaxReleases}
  /\ seen = 0
  /\ best = <<>>

Version(r) == ParseVersion(r.tag)

\* Mutant of Consider: each release is compared with the one before.
ConsiderPrevious ==
  /\ seen < Len(releases)
  /\ seen' = seen + 1
  /\ LET r == releases[seen']
     IN  best' = IF Considered(r)
                      /\ (\/ best = <<>>
                          \/ /\ Version(releases[seen]) # NoVersion
                             /\ NewerThan(Version(r), Version(releases[seen])))
                 THEN <<r>> ELSE best
  /\ UNCHANGED releases

\* One release of the loop; when there are no more, best is returned.
Consider ==
  /\ seen < Len(releases)
  /\ seen' = seen + 1
  /\ LET r == releases[seen']
     IN  best' = IF Considered(r)
                      /\ (best = <<>> \/ NewerThan(Version(r), Version(best[1])))
                 THEN <<r>> ELSE best
  /\ UNCHANGED releases

FetchNext == Consider

VersionSpec == FetchInit /\ [][FetchNext]_versionVars
-----------------------------------------------------------------------------
(* Properties *)

Among(n) == {r \in {releases[k] : k \in 1 .. n} : Considered(r)}

\* "Newer than" orders the versions of an answer: of two that Compare tells apart one
\* is newer, and a version newer than a second is newer than all the second is newer
\* than or equal to; numbers, strings and lengths never make a circle.
NewerThanIsOrder ==
  LET versions == {Version(r) : r \in Among(Len(releases))}
  IN  \A u, v \in versions :
        /\ Compare(u, v) = - Compare(v, u)
        /\ \A w \in versions :
             Compare(u, v) >= 0 /\ Compare(v, w) >= 0 =>
               /\ Compare(u, w) >= 0
               /\ NewerThan(u, w) <=> NewerThan(u, v) \/ NewerThan(v, w)

\* Whatever the order of GitHub's answer, what is chosen of the part seen is no draft
\* and a version, none of that part is newer, and something is chosen if anything is.
LatestIsNewest ==
  /\ best = <<>> <=> Among(seen) = {}
  /\ \A k \in DOMAIN best :
       /\ best[k] \in Among(seen)
       /\ \A r \in Among(seen) : ~ NewerThan(Version(r), Version(best[k]))
=============================================================================
