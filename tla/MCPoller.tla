---------------------------- MODULE MCPoller ----------------------------
(* Small instances of Poller. *)
EXTENDS Poller

\* c0 <- c1 and an unrelated d0: a fast-forward, a rewind and a divergence, each
\* one move away from c0.
Line == {"c0", "c1"}
LineAndOrphan == {"c0", "c1", "d0"}

Older(commits) == {<<a, b>> \in commits \X commits : a = b \/ (a = "c0" /\ b = "c1")}

LineAncestors == Older(Line)
LineAndOrphanAncestors == Older(LineAndOrphan)

EqualOrNothing == {<<"c0", "c0">>, <<None, None>>}
OnlyLeft == {<<"c0", None>>}

OneBranch == {"main"}

LeftSide == {"left"}
Sync == {"sync"}
Nobody == {}

ForwardDelete == {"advance", "delete"}
Everything == {"advance", "rewrite", "delete"}

==========================================================================
