-------------------------- MODULE MCBranchSync --------------------------
(* Small instances of BranchSync. *)
EXTENDS BranchSync

\* c0 <- c1 <- c2 and c0 <- d1: enough for a fast-forward, a stale event, a
\* rewind, a rewrite and a divergence.
Line == {"c0", "c1", "c2"}
Fork == {"c0", "c1", "d1"}
Tree == {"c0", "c1", "c2", "d1"}

Older(commits) ==
  {<<a, b>> \in commits \X commits :
     \/ a = b
     \/ a = "c0"
     \/ a = "c1" /\ b = "c2"}

LineAncestors == Older(Line)
ForkAncestors == Older(Fork)
TreeAncestors == Older(Tree)

FromRoot == {"c0"}
FromRootOrNothing == {"c0", None}

OneBranch == {"main"}
TwoBranches == {"main", "dev"}

LeftMain == {<<"left", "main">>}
Nothing == {}

Worker == {"worker"}
Sync == {"sync"}
Approver == {"approver"}
Nobody == {}

Forward == {"advance"}
ForwardDelete == {"advance", "delete"}
Everything == {"advance", "rewrite", "delete"}

==========================================================================
