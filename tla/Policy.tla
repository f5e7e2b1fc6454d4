-------------------------------- MODULE Policy --------------------------------
(***************************************************************************)
(* Which accesses a call policy denies, and how a transaction policy       *)
(* decides on the difference between two trees.                            *)
(*                                                                         *)
(* A name is a sequence of characters, a pattern a sequence of components  *)
(* and a component a sequence of characters in which "*" stands for any    *)
(* run of them; the component "**" stands for any run of whole components. *)
(* The matchers are the code's: the shape of a component picks its         *)
(* algorithm, and both scans go back to the last star only.  Means says    *)
(* what they are to compute.                                               *)
(***************************************************************************)
EXTENDS FsTree, FiniteSetsExt

CONSTANTS Thresholds,  \* PolicyThresholds
          Profile      \* PolicyProfile

ASSUME ThresholdAssumption ==   \* validate_thresholds
  /\ 0 < Thresholds.escalateTouched /\ Thresholds.escalateTouched <= Thresholds.denyTouched
  /\ 0 < Thresholds.escalateBytes /\ Thresholds.escalateBytes <= Thresholds.denyBytes
  /\ 0 < Thresholds.denyDeleted /\ 0 < Thresholds.ratioMinimum
  /\ Thresholds.denyRatio \in 1..10000

Reads == {"MetadataRead", "ContentRead", "DirectoryRead"}
Mutations == {"Create", "Modify", "Delete", "RenameSource", "RenameDestination"}
Accesses == Reads \cup Mutations

Star == "*"
Globstar == <<Star, Star>>

-----------------------------------------------------------------------------
(* ComponentPattern::matches.  A literal is compared; one star asks for a   *)
(* prefix and a suffix that do not overlap; more stars need the scan.       *)
Stars(part) == {i \in DOMAIN part : part[i] = Star}

EndsMatch(part, name) ==
  LET i == CHOOSE i \in Stars(part) : TRUE IN
    /\ Len(name) >= Len(part) - 1
    /\ IsPrefix(SubSeq(part, 1, i - 1), name)
    /\ IsSuffix(SubSeq(part, i + 1, Len(part)), name)

(* component_matches: `star` is where to go back to in the pattern, or 0,   *)
(* and `taken` how far that star reaches in the name; a character of `any`  *)
(* stands for every other.                                                  *)
RECURSIVE Scan(_, _, _, _, _, _, _)
Scan(part, name, any, i, j, star, taken) ==
  IF j > Len(name) THEN \A k \in i..Len(part) : part[k] = Star
  ELSE IF i <= Len(part) /\ part[i] = Star THEN Scan(part, name, any, i + 1, j, i, j)
  ELSE IF i <= Len(part) /\ part[i] \in any \cup {name[j]}
    THEN Scan(part, name, any, i + 1, j + 1, star, taken)
  ELSE star # 0 /\ Scan(part, name, any, star + 1, taken + 1, star, taken + 1)

ComponentMatches(part, name) ==
  CASE Stars(part) = {}              -> part = name
    [] Cardinality(Stars(part)) = 1  -> EndsMatch(part, name)
    [] OTHER                         -> Scan(part, name, {}, 1, 1, 0, 0)

(* path_components_match: `retry` is <<>>, or where to go back to in the    *)
(* pattern and in the path.                                                 *)
RECURSIVE Walk(_, _, _, _, _)
Walk(pattern, path, i, j, retry) ==
  IF j > Len(path) THEN \A k \in i..Len(pattern) : pattern[k] = Globstar
  ELSE IF i <= Len(pattern) /\ pattern[i] = Globstar
    THEN i = Len(pattern) \/ Walk(pattern, path, i + 1, j, <<i + 1, j>>)
  ELSE IF i <= Len(pattern) /\ ComponentMatches(pattern[i], path[j])
    THEN Walk(pattern, path, i + 1, j + 1, retry)
  ELSE retry # <<>> /\ Walk(pattern, path, retry[1], retry[2] + 1, <<retry[1], retry[2] + 1>>)

(* PathPattern: behind leading globstars only the last name matters.        *)
(* Mutation: any globstar in front is enough.                               *)
BasenameOnlyLoose(pattern) ==
  Last(pattern) # Globstar /\ (Len(pattern) = 1 \/ Head(pattern) = Globstar)

BasenameOnly(pattern) ==
  Last(pattern) # Globstar /\ \A i \in 1..Len(pattern) - 1 : pattern[i] = Globstar

PatternMatches(pattern, path) ==
  IF BasenameOnly(pattern)
  THEN path # Root /\ ComponentMatches(Last(pattern), Last(path))
  ELSE Walk(pattern, path, 1, 1, <<>>)

(* GlobPattern::matches, for vsh_glob: no short cuts, "?" for any character,*)
(* and a globstar is left as soon as the rest of the path fits.             *)
GlobPart(part, name) == Scan(part, name, {"?"}, 1, 1, 0, 0)

RECURSIVE GlobWalk(_, _, _, _, _)
GlobWalk(pattern, path, i, j, retry) ==
  IF j > Len(path) THEN \A k \in i..Len(pattern) : pattern[k] = Globstar
  ELSE IF i <= Len(pattern) /\ pattern[i] = Globstar
    THEN GlobWalk(pattern, path, i + 1, j, <<i + 1, j>>)
  ELSE IF i <= Len(pattern) /\ GlobPart(pattern[i], path[j])
    THEN GlobWalk(pattern, path, i + 1, j + 1, retry)
  ELSE retry # <<>> /\ GlobWalk(pattern, path, retry[1], retry[2] + 1, <<retry[1], retry[2] + 1>>)

GlobMatches(pattern, path) == GlobWalk(pattern, path, 1, 1, <<>>)

(* What a pattern means: it can be cut into the parts of the word, a wild   *)
(* element covering any number of them and any other exactly one it fits.   *)
(* A pattern of one component may start anywhere.                           *)
Covers(pattern, word, Wild(_), Fits(_, _)) ==
  \E cut \in [1..Len(pattern) + 1 -> 1..Len(word) + 1] :
    /\ cut[1] = 1 /\ cut[Len(pattern) + 1] = Len(word) + 1
    /\ \A i \in DOMAIN pattern :
         IF Wild(pattern[i]) THEN cut[i] <= cut[i + 1]
         ELSE cut[i + 1] = cut[i] + 1 /\ Fits(pattern[i], word[cut[i]])

NameMeant(part, name) ==
  Covers(part, name, LAMBDA x : x = Star, LAMBDA x, y : x = y)

GlobNameMeant(part, name) ==
  Covers(part, name, LAMBDA x : x = Star, LAMBDA x, y : x \in {"?", y})

Means(pattern, path) ==
  Covers(IF Len(pattern) = 1 THEN <<Globstar>> \o pattern ELSE pattern, path,
         LAMBDA part : part = Globstar, NameMeant)

GlobMeans(pattern, path) ==
  Covers(pattern, path, LAMBDA part : part = Globstar, GlobNameMeant)

-----------------------------------------------------------------------------
(* The canonical diff of two trees, as the decision sees it.                *)
DiffKind(before, after) ==
  IF before = None THEN "Create"
  ELSE IF after = None THEN "Delete"
  ELSE IF before.kind = after.kind /\ before.data = after.data THEN "MetadataChange"
  ELSE "Modify"

Diff(before, after) ==
  {[path |-> p, kind |-> DiffKind(before[p], after[p]), before |-> before[p], after |-> after[p]] :
     p \in {x \in Path : before[x] # after[x]}}

Size(node) == IF node = None THEN 0 ELSE Len(node.data)

AccessOf(entry) ==
  IF entry.kind \in {"Create", "Delete"} THEN entry.kind ELSE "Modify"

(* RiskMetrics::from_evidence, with the ratio in basis points of the nodes  *)
(* below the root.                                                          *)
IsLink(node) == node # None /\ node.kind = "link"

(* Mutation: what was deleted is taken off what was added.                  *)
MetricsNet(diff, renamed, nodes) ==
  LET deleted == Cardinality({e \in diff : e.kind = "Delete"})
      old == MapThenSumSet(LAMBDA e : Size(e.before), diff)
      new == MapThenSumSet(LAMBDA e : Size(e.after), diff) IN
  [touched |-> Cardinality(diff), deleted |-> deleted,
   bytes   |-> IF new > old THEN new - old ELSE old - new,
   ratio   |-> IF nodes = 1 THEN 0 ELSE (deleted * 10000) \div (nodes - 1),
   renamed |-> renamed,
   links   |-> \E e \in diff : IsLink(e.before) \/ IsLink(e.after)]

Metrics(diff, renamed, nodes) ==
  LET deleted == Cardinality({e \in diff : e.kind = "Delete"}) IN
  [touched |-> Cardinality(diff),
   deleted |-> deleted,
   bytes   |-> MapThenSumSet(LAMBDA e : Size(e.before) + Size(e.after),
                             {e \in diff : e.kind # "MetadataChange"}),
   ratio   |-> IF nodes = 1 THEN 0 ELSE (deleted * 10000) \div (nodes - 1),
   renamed |-> renamed,
   links   |-> \E e \in diff : IsLink(e.before) \/ IsLink(e.after)]

(* hard_denial, after the recorded attempts: protected mutations, then the  *)
(* ceilings.                                                                *)
OverCeiling(m) ==
  \/ m.touched > Thresholds.denyTouched
  \/ m.bytes > Thresholds.denyBytes
  \/ m.deleted > Thresholds.denyDeleted
  \/ m.deleted >= Thresholds.ratioMinimum /\ m.ratio >= Thresholds.denyRatio

(* risk_flags, and PermissionChange.                                        *)
Flagged(m, diff) ==
  \/ Profile \in {"Strict", "Paranoid"}
  \/ m.deleted > 0 \/ m.renamed \/ m.links
  \/ m.touched >= Thresholds.escalateTouched
  \/ m.bytes >= Thresholds.escalateBytes
  \/ \E e \in diff : /\ None \notin {e.before, e.after}
                     /\ e.before.kind = e.after.kind /\ e.before.mode # e.after.mode

(* evaluate: `barred` are the changes the call policy denies, `attempted`   *)
(* says that an access was denied while the program ran.                    *)
Evaluate(diff, renamed, nodes, attempted, barred) ==
  LET m == Metrics(diff, renamed, nodes) IN
  IF attempted \/ diff \cap barred # {} \/ OverCeiling(m) THEN "Denied"
  ELSE IF diff # {} /\ Flagged(m, diff) THEN "PendingApproval"
  ELSE "AutoApproved"
===============================================================================
