------------------------- MODULE RepositoryPair -------------------------
(***************************************************************************)
(* One repository pair of the configuration: its two sides, their branches *)
(* and the commits that may be on them.  A commit is a member of Commits;  *)
(* Ancestors is what "git merge-base --is-ancestor" tells about them.      *)
(***************************************************************************)
CONSTANTS
  Branches,
  Commits,
  Ancestors,  \* pairs <<older, newer>>, reflexive and transitive
  None        \* no commit; git's zero SHA in events and requests

Sides == {"left", "right"}
Other(side) == IF side = "left" THEN "right" ELSE "left"
Tips == Commits \union {None}
IsAncestor(a, b) == <<a, b>> \in Ancestors
History(c) == {a \in Commits : IsAncestor(a, c)}

ASSUME GraphAssumption ==
  /\ None \notin Commits
  /\ Ancestors \subseteq Commits \X Commits
  /\ \A c \in Commits : IsAncestor(c, c)
  /\ \A a, b, c \in Commits : IsAncestor(a, b) /\ IsAncestor(b, c) => IsAncestor(a, c)

==========================================================================
