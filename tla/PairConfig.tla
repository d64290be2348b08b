--------------------------- MODULE PairConfig ---------------------------
(***************************************************************************)
(* The configuration of gitmirror (internal/config) and the lookups that   *)
(* rely on it: the syncer's search for the pair of an event, the human     *)
(* gate of a branch, and the providers whose webhooks are needed.          *)
(*                                                                         *)
(* A provider is written as in the file, with capitals or blanks; Normal   *)
(* is what trimming and strings.ToLower make of it.  Validate compares     *)
(* full names by strings.ToLower, the syncer by strings.EqualFold.  They   *)
(* decide the same on ASCII names, which are all that either provider      *)
(* gives out, and not on others.  What a URL or a listen address says is   *)
(* left out.                                                               *)
(***************************************************************************)
EXTENDS Naturals, Sequences

CONSTANTS
  PairNames,
  Spellings,   \* ways to write a provider
  Normal,      \* spelling -> provider or another name
  Unpadded,    \* the spellings without blanks around them
  FullNames,   \* "owner/repo" and names that are not of this form
  WellFormed,  \* the full names with exactly one slash
  Lower,       \* full name -> what ToLower makes of it
  Folded,      \* full name -> one of the names EqualFold takes it for
  AsciiNames,
  BranchNames,
  PlainNames   \* branch names that are neither blank nor start with refs/

Providers == {"github", "gitea"}
MinPollingFrequency == 10
DefaultPollingFrequency == 120

Repos == [provider : Spellings, fullName : FullNames, polling : BOOLEAN,
          frequency : Nat, protected : SUBSET BranchNames]
Pairs == [name : PairNames, left : Repos, right : Repos]

ASSUME ConfigAssumption ==
  /\ "github" \in Spellings /\ Normal["github"] = "github"
  /\ "" \in Spellings => Normal[""] = "github"
  /\ Normal \in [Spellings -> STRING]
  /\ Unpadded \subseteq Spellings
  /\ WellFormed \subseteq FullNames
  /\ Lower \in [FullNames -> FullNames] /\ Folded \in [FullNames -> FullNames]
  /\ AsciiNames \subseteq FullNames
  /\ \A m, n \in AsciiNames : Lower[m] = Lower[n] <=> Folded[m] = Folded[n]
  /\ PlainNames \subseteq BranchNames

Places(c) == (DOMAIN c) \X {"left", "right"}
RepoAt(c, place) == c[place[1]][place[2]]
NamesOf(c) == {c[i].name : i \in DOMAIN c}

\* Mutation: repositories are compared as they are written.
WrittenKey(r) == <<r.provider, r.fullName>>

\* The key under which Validate remembers a repository.
SeenAs(r) == <<Normal[r.provider], Lower[r.fullName]>>

RepoAccepted(r) ==
  /\ Normal[r.provider] \in Providers
  /\ r.fullName \in WellFormed
  /\ r.polling => r.frequency >= MinPollingFrequency
  /\ r.protected \subseteq PlainNames

Validate(c) ==
  /\ c # <<>>
  /\ \A i, j \in DOMAIN c : c[i].name = c[j].name => i = j
  /\ \A place \in Places(c) : RepoAccepted(RepoAt(c, place))
  /\ \A x, y \in Places(c) : SeenAs(RepoAt(c, x)) = SeenAs(RepoAt(c, y)) => x = y

RepoWithDefaults(r) ==
  [r EXCEPT !.provider = IF @ = "" THEN "github" ELSE @,
            !.frequency = IF r.polling /\ @ = 0 THEN DefaultPollingFrequency ELSE @]

WithDefaults(c) ==
  [i \in DOMAIN c |-> [c[i] EXCEPT !.left = RepoWithDefaults(@), !.right = RepoWithDefaults(@)]]

RepoMatches(r, provider, fullName) ==
  Normal[r.provider] = provider /\ Folded[r.fullName] = Folded[fullName]

\* The places at which findPair may find the repository of an event.
FindPair(c, provider, fullName) ==
  {place \in Places(c) : RepoMatches(RepoAt(c, place), provider, fullName)}

SameRepo(r, other) == RepoMatches(r, Normal[other.provider], other.fullName)

\* remoteNames: the side of the pair that a repository of it is the source for.
SourceSide(pair, r) == IF SameRepo(r, pair.right) THEN "right" ELSE "left"

\* Blanks around a provider, which Validate ignores, hide a side from this.
RequiresWebhook(c, provider) ==
  \E place \in Places(c) :
    LET r == RepoAt(c, place)
    IN r.provider \in Unpadded /\ Normal[r.provider] = provider /\ ~r.polling

RequiresHumanApproval(r, branch) == branch \in r.protected

==========================================================================
