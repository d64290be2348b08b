---------------------------- MODULE MCDaemon ----------------------------
(* Small instances of Daemon. *)
EXTENDS Daemon

\* "Acme/Six" is "acme/six" to both providers; " gitea" is gitea.  "acme/LongSix" is
\* written with a long s (U+017F), which EqualFold takes for "s" and ToLower keeps.
MCSpellings == {"", "github", "gitea", " gitea", "svn"}
MCNormal == [s \in MCSpellings |-> CASE s = " gitea" -> "gitea" [] s = "" -> "github" [] OTHER -> s]
MCUnpadded == MCSpellings \ {" gitea"}
MCFullNames == {"acme/six", "Acme/Six", "acme/LongSix", "acme/two", "acme"}
MCAsciiNames == MCFullNames \ {"acme/LongSix"}
MCWellFormed == MCFullNames \ {"acme"}
MCLower == [n \in MCFullNames |-> IF n = "Acme/Six" THEN "acme/six" ELSE n]
MCFolded == [n \in MCFullNames |-> IF n \in {"Acme/Six", "acme/LongSix"} THEN "acme/six" ELSE n]
MCPairNames == {"one", "two", "three"}
MCBranchNames == {"main", "refs/heads/main"}
MCPlainNames == {"main"}

Repo(provider, fullName, polling, frequency) ==
  [provider |-> provider, fullName |-> fullName, polling |-> polling,
   frequency |-> frequency, protected |-> {}]
MakePair(name, left, right) == [name |-> name, left |-> left, right |-> right]

First == MakePair("one", Repo("", "Acme/Six", TRUE, 0), Repo(" gitea", "acme/six", TRUE, 10))
Second == MakePair("two", Repo("github", "acme/two", TRUE, 10), Repo("gitea", "acme/two", TRUE, 120))
OnePair == <<First>>
GatedPair == <<[First EXCEPT !.left.protected = {"main"}]>>

\* Two pairs Validate accepts, but not both, one with a name that is not ASCII; and
\* pairs it refuses: a repository of the first pair written otherwise, a bad
\* frequency, a name without an owner, a provider that is none.
MCNewPairs ==
  {Second,
   [Second EXCEPT !.name = "three", !.left.fullName = "acme/LongSix", !.right.polling = FALSE],
   MakePair("two", Repo("github", "acme/six", FALSE, 0), Repo("gitea", "acme/two", TRUE, 10)),
   [Second EXCEPT !.left.frequency = 9],
   [Second EXCEPT !.left.fullName = "acme"],
   [Second EXCEPT !.left.provider = "svn"]}

MCBranches == {"main", "dev"}
MCTags == {"v1"}
MCCommits == {"c0", "c1"}
MCAncestors == {<<"c0", "c0">>, <<"c1", "c1">>, <<"c0", "c1">>}

Empty == [r \in MCBranches \union MCTags |-> None]
Tagged == [Empty EXCEPT !["v1"] = "c0"]
Populated == [Empty EXCEPT !["main"] = "c1", !["dev"] = "c0"]

\* The first pair has its left side to seed, or its right side from a left one
\* with a tag only; the second pair has its right side to seed.
MCInitialRemotes ==
  {[one |-> x,
    two |-> [left |-> Populated, right |-> Empty],
    three |-> [left |-> Empty, right |-> Empty]] :
     x \in {[left |-> Empty, right |-> Populated], [left |-> Tagged, right |-> Empty]}}

MCAdders == {"a"}
Github == {"github"}

==========================================================================
