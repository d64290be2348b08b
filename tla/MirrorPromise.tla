-------------------------- MODULE MirrorPromise --------------------------
(***************************************************************************)
(* What gitmirror promises to the people who use the two remotes of a      *)
(* pair, without events, calls, git commands, a local repository, polls or *)
(* failures.  It changes a branch of theirs in two ways only: it advances  *)
(* the branch to a descendant of its tip that people pushed somewhere, or  *)
(* it deletes the branch after people deleted it on some side.  It never   *)
(* makes a commit, never overwrites one, and never takes back what it kept *)
(* aside in a quarantine branch.  It changes a protected branch only while *)
(* a person grants that kind of change, which it recorded a request for.   *)
(*                                                                         *)
(* BranchSync implements this module, with every git command a step, and   *)
(* so does Poller, for a pair without protected branches.                  *)
(***************************************************************************)
EXTENDS Naturals, RepositoryPair

CONSTANT Protected  \* <<side, branch>>

VARIABLES
  remote,       \* side -> branch -> tip
  quarantined,  \* <<side, branch, tip>> kept there in quarantine branches
  moves,        \* how many times people pushed or deleted
  authored,     \* branch -> tips people gave it, None by deleting it
  asked,        \* changes of protected branches that were requested
  granted       \* those that people are granting

vars == <<remote, quarantined, moves, authored, asked, granted>>

Changes == [side : Sides, branch : Branches, removal : BOOLEAN]

Published == {c \in Commits : \E b \in Branches : c \in authored[b]}

Permitted(s, b, removal) ==
  <<s, b>> \in Protected => [side |-> s, branch |-> b, removal |-> removal] \in granted

\* What is on a branch counts as what people gave it; that a branch is missing
\* does not count as a deletion.
Init ==
  /\ moves = 0
  /\ \A s \in Sides, b \in Branches : remote[s][b] \in authored[b] \union {None}
  /\ quarantined = {}
  /\ asked = {} /\ granted = {}

Tip(s, b, tip) == remote' = [remote EXCEPT ![s][b] = tip]

\* People push a commit or delete a branch.
People(s, b, tip) ==
  /\ Tip(s, b, tip)
  /\ moves' = moves + 1
  /\ authored' = [authored EXCEPT ![b] = @ \union {tip}]
  /\ UNCHANGED <<quarantined, asked, granted>>

\* The call that was granted may end with its last command.
MayEnd == granted' \subseteq granted

Advance(s, b, c) ==
  /\ c \in Published
  /\ remote[s][b] = None \/ IsAncestor(remote[s][b], c)
  /\ Permitted(s, b, FALSE)
  /\ Tip(s, b, c)
  /\ MayEnd
  /\ UNCHANGED <<quarantined, moves, authored, asked>>

Withdraw(s, b) ==
  /\ None \in authored[b]
  /\ Permitted(s, b, TRUE)
  /\ Tip(s, b, None)
  /\ MayEnd
  /\ UNCHANGED <<quarantined, moves, authored, asked>>

SetAside(s, b, c) ==
  /\ c \in Published
  /\ quarantined' = quarantined \union {<<s, b, c>>}
  /\ MayEnd
  /\ UNCHANGED <<remote, moves, authored, asked>>

\* Only a change of a protected branch is asked for; a request stays on record.
Ask(change) ==
  /\ <<change.side, change.branch>> \in Protected
  /\ asked' = asked \union {change}
  /\ UNCHANGED <<remote, quarantined, moves, authored, granted>>

Grant(change) ==
  /\ change \in asked
  /\ granted' = granted \union {change}
  /\ UNCHANGED <<remote, quarantined, moves, authored, asked>>

End == MayEnd /\ UNCHANGED <<remote, quarantined, moves, authored, asked>>

Next ==
  \/ \E s \in Sides, b \in Branches :
       \/ \E tip \in Tips : People(s, b, tip)
       \/ \E c \in Commits : Advance(s, b, c) \/ SetAside(s, b, c)
       \/ Withdraw(s, b)
  \/ \E change \in Changes : Ask(change) \/ Grant(change)
  \/ End

Spec == Init /\ [][Next]_vars

==========================================================================
