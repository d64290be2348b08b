----------------------------- MODULE Daemon -----------------------------
(***************************************************************************)
(* The life of the daemon around its work: "gitmirror pair add" rewrites   *)
(* the configuration, systemd starts the daemon and starts it again when   *)
(* it fails, and before anything else the daemon bootstraps each pair of   *)
(* the configuration it loaded (Syncer.Bootstrap), while people push.      *)
(*                                                                         *)
(* What is done once the daemon serves is the other modules' subject.      *)
(* Refs are branches and others (tags): they make a repository non-empty   *)
(* and are not seeded.  A pair is known by its name, from which the paths  *)
(* of its local repository and of its marker are derived.                  *)
(***************************************************************************)
EXTENDS RepositoryPair, PairConfig

CONSTANTS
  InitialFile,      \* the configuration file at the beginning
  NewPairs,         \* what operators may answer to the prompts of pair add
  Adders,           \* "gitmirror pair add" commands
  OtherRefs,        \* refs that are not branches
  InitialRemotes,   \* what the repositories may hold at the beginning
  Secrets,          \* providers with a webhook secret in the environment
  StartLimitBurst,  \* starts in a minute before systemd gives up, 5 in the unit
  MaxMoves,         \* bound on what people do
  MaxIncidents      \* bound on failures

Refs == Branches \union OtherRefs

ASSUME DaemonAssumption ==
  /\ Branches \intersect OtherRefs = {}
  /\ InitialFile \in Seq(Pairs) /\ Validate(WithDefaults(InitialFile))
  /\ NewPairs \subseteq Pairs
  /\ InitialRemotes \subseteq [PairNames -> [Sides -> [Refs -> Tips]]]
  /\ Secrets \subseteq Providers
  /\ StartLimitBurst \in Nat /\ MaxMoves \in Nat /\ MaxIncidents \in Nat

VARIABLES
  file,    \* the configuration on disk
  adding,  \* pair add command -> the configuration it loaded, or <<>>
  remote,  \* pair -> side -> ref -> tip
  base,    \* pair -> side -> branch -> refs/gitmirror/bootstrap/<side>/<branch>
  marked,  \* pairs with the marker file of a finished bootstrap
  daemon,  \* where the daemon is, with the local variables of Bootstrap
  starts,  \* starts that systemd still counts
  (* observation only: no guard reads these, except for the bounds *)
  moves,
  incidents,
  quiet    \* pairs nobody pushed to since their last bootstrap began

ghosts == <<moves, incidents, quiet>>
vars == <<file, adding, remote, base, marked, daemon, starts, ghosts>>

Steps == {"down", "failed", "exited", "next", "look", "fetch", "recheck", "seed", "mark", "serving"}

\* No process: systemd starts it again, or not.
Down == [pc |-> "down", config |-> <<>>, pair |-> 1, side |-> "left", empty |-> {}]

Init ==
  /\ file = InitialFile
  /\ adding = [a \in Adders |-> <<>>]
  /\ remote \in InitialRemotes
  /\ base = [n \in PairNames |-> [s \in Sides |-> [b \in Branches |-> None]]]
  /\ marked = {}
  /\ daemon = Down
  /\ starts = 0
  /\ moves = 0 /\ incidents = 0 /\ quiet = {}

-----------------------------------------------------------------------------
(* "gitmirror pair add": load, prompts, validation, atomic replacement.  The *)
(* command is one process among others; nothing locks the file.             *)

AddLoads(a) ==
  /\ adding[a] = <<>>
  /\ adding' = [adding EXCEPT ![a] = WithDefaults(file)]
  /\ UNCHANGED <<file, remote, base, marked, daemon, starts, ghosts>>

WithPair(config, pair) == Append(config, pair)

AddWrites(a, pair) ==
  /\ adding[a] # <<>>
  /\ Validate(WithPair(adding[a], pair))
  /\ file' = WithDefaults(WithPair(adding[a], pair))
  /\ adding' = [adding EXCEPT ![a] = <<>>]
  /\ UNCHANGED <<remote, base, marked, daemon, starts, ghosts>>

\* The answers are rejected, the operator declines, or the command fails.
AddEnds(a) ==
  /\ adding[a] # <<>>
  /\ adding' = [adding EXCEPT ![a] = <<>>]
  /\ UNCHANGED <<file, remote, base, marked, daemon, starts, ghosts>>

-----------------------------------------------------------------------------
(* systemd and serve *)

SecretsPresent(c) == \A p \in Providers : RequiresWebhook(c, p) => p \in Secrets

Settled == <<file, adding, moves, incidents>>

\* Mutation: one start more.
CountedInclusive(n) == n <= StartLimitBurst

\* systemd has not yet counted StartLimitBurst starts.
Counted(n) == n < StartLimitBurst

\* The daemon starts with the file as it is, or exits with status 1 because a
\* webhook secret is missing.
Start ==
  /\ daemon.pc = "down" /\ Counted(starts)
  /\ starts' = starts + 1
  /\ \/ /\ SecretsPresent(WithDefaults(file))
        /\ daemon' = [Down EXCEPT !.pc = "next", !.config = WithDefaults(file)]
     \/ ~SecretsPresent(WithDefaults(file)) /\ UNCHANGED daemon
  /\ UNCHANGED <<Settled, remote, base, marked, quiet>>

GiveUp ==
  /\ daemon.pc = "down" /\ ~Counted(starts)
  /\ daemon' = [Down EXCEPT !.pc = "failed"]
  /\ UNCHANGED <<Settled, remote, base, marked, starts, quiet>>

\* systemd counts the starts of a minute and then begins again.  How much of it a
\* bootstrap or a failing command takes is left open.
MinutePasses ==
  /\ daemon.pc \notin {"failed", "exited"} /\ starts # 0
  /\ starts' = 0
  /\ UNCHANGED <<Settled, remote, base, marked, daemon, quiet>>

\* Mutation: the error is logged and the next pair is tried.
OnlyLogged == daemon' = [daemon EXCEPT !.pc = "next", !.pair = @ + 1]

\* log.Fatal in bootstrap: exit status 1.
Fatal == daemon' = Down

Alive == daemon.pc \notin {"down", "failed", "exited"}

\* The process dies, a git command fails or prints to stderr, the marker is not
\* written, or an operator restarts the service.
Dies ==
  /\ Alive
  /\ incidents < MaxIncidents
  /\ incidents' = incidents + 1
  /\ Fatal
  /\ UNCHANGED <<file, adding, remote, base, marked, starts, moves, quiet>>

\* A listen that fails ends serve with exit status 0, and Restart=on-failure
\* does not apply.
ListenFails ==
  /\ daemon.pc = "serving"
  /\ incidents < MaxIncidents
  /\ incidents' = incidents + 1
  /\ daemon' = [Down EXCEPT !.pc = "exited"]
  /\ UNCHANGED <<file, adding, remote, base, marked, starts, moves, quiet>>

-----------------------------------------------------------------------------
(* Syncer.Bootstrap *)

Current == daemon.config[daemon.pair].name

BranchesAt(n, s) == [b \in Branches |-> remote[n][s][b]]
Advertised(n, s) == {r \in Refs : remote[n][s][r] # None}

Goto(step, side) == daemon' = [daemon EXCEPT !.pc = step, !.side = side]

\* The marker is looked for; after the last pair the daemon serves.
NextPair ==
  /\ daemon.pc = "next"
  /\ \/ /\ daemon.pair > Len(daemon.config)
        /\ daemon' = [daemon EXCEPT !.pc = "serving"]
        /\ UNCHANGED quiet
     \/ /\ daemon.pair <= Len(daemon.config) /\ Current \in marked
        /\ daemon' = [daemon EXCEPT !.pair = @ + 1]
        /\ UNCHANGED quiet
     \/ /\ daemon.pair <= Len(daemon.config) /\ Current \notin marked
        /\ daemon' = [daemon EXCEPT !.pc = "look", !.side = "left", !.empty = {}]
        /\ quiet' = quiet \union {Current}
  /\ UNCHANGED <<Settled, remote, base, marked, starts>>

\* ls-remote of both sides, then the fetch of both into namespaces of their own.
Look ==
  /\ daemon.pc = "look"
  /\ LET empty == daemon.empty \union
                    (IF Advertised(Current, daemon.side) = {} THEN {daemon.side} ELSE {})
     IN daemon' = [daemon EXCEPT !.empty = empty, !.side = Other(@),
                                 !.pc = IF daemon.side = "left" THEN "look" ELSE "fetch"]
  /\ UNCHANGED <<Settled, remote, base, marked, starts, quiet>>

\* Mutation: a side without refs is taken for the one to seed even if the other
\* has none, and the other way round.
ToSeedAny(empty) == IF "left" \in empty THEN {"left"} ELSE {"right"}

\* The side to seed, if exactly one of them was empty.
ToSeed(empty) == IF empty = Sides THEN {} ELSE empty

Fetch ==
  /\ daemon.pc = "fetch"
  /\ base' = [base EXCEPT ![Current][daemon.side] = BranchesAt(Current, daemon.side)]
  /\ \/ daemon.side = "left" /\ Goto("fetch", "right")
     \/ daemon.side = "right" /\ ToSeed(daemon.empty) = {} /\ Goto("mark", "left")
     \/ daemon.side = "right" /\ \E target \in ToSeed(daemon.empty) : Goto("recheck", target)
  /\ UNCHANGED <<Settled, remote, marked, starts, quiet>>

\* Mutation: the branches of the destination's own namespace.
SeedsSwapped(n, target) == {b \in Branches : base[n][target][b] # None}

SeedsFor(n, target) == {b \in Branches : base[n][Other(target)][b] # None}

\* seedEmptyRemote reads the destination again; a source without branches leaves
\* nothing to seed.
Recheck ==
  /\ daemon.pc = "recheck"
  /\ LET seeds == SeedsFor(Current, daemon.side)
     IN \/ Advertised(Current, daemon.side) # {} /\ Fatal
        \/ Advertised(Current, daemon.side) = {} /\ seeds = {} /\ Goto("mark", "left")
        \/ Advertised(Current, daemon.side) = {} /\ seeds # {} /\ Goto("seed", daemon.side)
  /\ UNCHANGED <<Settled, remote, base, marked, starts, quiet>>

\* Mutation: without leases the push is refused only if it is no fast-forward.
FastForward(old, new) == new # None => old = None \/ IsAncestor(old, new)

\* The lease of a branch that is pushed: it must not exist.
Leased(old, new) == new # None => old = None

\* All branches in one atomic push.  The answer may be lost, or be an error
\* because of output on stderr, though they were created.
Seed ==
  LET s == daemon.side
      source == base[Current][Other(s)]
      granted == \A b \in Branches : Leased(remote[Current][s][b], source[b])
  IN /\ daemon.pc = "seed"
     /\ \/ ~granted /\ Fatal /\ UNCHANGED <<remote, incidents>>
        \/ /\ granted
           /\ remote' = [remote EXCEPT ![Current][s] =
                [r \in Refs |-> IF r \in Branches /\ source[r] # None THEN source[r] ELSE @[r]]]
           /\ \/ Goto("mark", "left") /\ UNCHANGED incidents
              \/ Fatal /\ incidents < MaxIncidents /\ incidents' = incidents + 1
     /\ UNCHANGED <<file, adding, base, marked, starts, moves, quiet>>

Mark ==
  /\ daemon.pc = "mark"
  /\ marked' = marked \union {Current}
  /\ daemon' = [daemon EXCEPT !.pc = "next", !.pair = @ + 1, !.empty = {}]
  /\ UNCHANGED <<Settled, remote, base, starts, quiet>>

-----------------------------------------------------------------------------
(* People, and anything else that pushes to or deletes from a repository of  *)
(* a configured pair.                                                       *)

UserMove(n, s, r, tip) ==
  /\ moves < MaxMoves
  /\ remote[n][s][r] # tip
  /\ remote' = [remote EXCEPT ![n][s][r] = tip]
  /\ moves' = moves + 1
  /\ quiet' = quiet \ {n}
  /\ UNCHANGED <<file, adding, base, marked, daemon, starts, incidents>>

AddStep == \E a \in Adders : AddLoads(a) \/ AddEnds(a) \/ \E p \in NewPairs : AddWrites(a, p)

UserStep == \E n \in NamesOf(file), s \in Sides, r \in Refs, tip \in Tips : UserMove(n, s, r, tip)

ServiceStep == Start \/ GiveUp

BootStep == NextPair \/ Look \/ Fetch \/ Recheck \/ Seed \/ Mark

Next == AddStep \/ UserStep \/ ServiceStep \/ BootStep \/ MinutePasses \/ Dies \/ ListenFails

Spec == Init /\ [][Next]_vars

(* systemd starts the unit after RestartSec, and git commands return.       *)
FairSpec == Spec /\ WF_vars(ServiceStep) /\ WF_vars(BootStep)

-----------------------------------------------------------------------------
(* Properties *)

Boots == [pc : Steps, config : Seq(Pairs), pair : Nat \ {0}, side : Sides, empty : SUBSET Sides]

Booting == daemon.pc \in {"look", "fetch", "recheck", "seed", "mark"}

\* Every variable keeps its type, and a bootstrap is at a pair of the loaded
\* configuration.
TypeOK ==
  /\ file \in Seq(Pairs)
  /\ adding \in [Adders -> Seq(Pairs)]
  /\ remote \in [PairNames -> [Sides -> [Refs -> Tips]]]
  /\ base \in [PairNames -> [Sides -> [Branches -> Tips]]]
  /\ marked \subseteq PairNames
  /\ daemon \in Boots
  /\ Booting => daemon.pair \in 1..Len(daemon.config)
  /\ starts \in 0..StartLimitBurst
  /\ moves \in Nat /\ incidents \in Nat
  /\ quiet \subseteq PairNames

\* Whatever pair add wrote, beside other pair adds: the next start accepts the
\* file, and of the repositories a provider may have, an event names at most one
\* side of one pair.
RoutesApart ==
  /\ file # <<>>
  /\ \A provider \in Providers, fullName \in AsciiNames :
       \A x, y \in FindPair(file, provider, fullName) :
         RepoAt(file, x).fullName \in AsciiNames /\ RepoAt(file, y).fullName \in AsciiNames
         => x = y

\* bootstrap.go: "Existing remote refs are never updated by this path".  What
\* the daemon changes on a side are branches that did not exist there, and it
\* creates all the branches it fetched from the other side or none.
SeedsOnlyNew ==
  [][\A n \in PairNames, s \in Sides :
       remote'[n][s] # remote[n][s] /\ moves' = moves =>
         /\ \A r \in Refs : remote[n][s][r] # None => remote'[n][s][r] = remote[n][s][r]
         /\ \A b \in Branches :
              base[n][Other(s)][b] # None => remote'[n][s][b] = base[n][Other(s)][b]]_vars

\* A marked pair that nobody pushed to since its bootstrap began is not left
\* with branches on one side and no ref on the other, whatever died or failed
\* on the way: the marker never hides a seed that did not happen.
NoSeedSkipped ==
  \A n \in marked \intersect quiet, s \in Sides :
    Advertised(n, s) = {} => \A b \in Branches : remote[n][Other(s)][b] = None

\* bootstrap.go: initial state "for every configured pair before workers,
\* polling, or webhook processing begin".
BootstrappedBeforeWork == daemon.pc = "serving" => NamesOf(daemon.config) \subseteq marked

\* When people and failures stop, the daemon serves: no pair keeps failing its
\* bootstrap.  Three ends are excepted: a file that asks for a webhook secret the
\* environment does not have, a listen that failed, and a unit that systemd gave
\* up because too many starts of a minute failed.
Serves ==
  []SecretsPresent(WithDefaults(file)) => <>[](daemon.pc \in {"serving", "exited", "failed"})

\* systemd gives the unit up only after as many failures, or pushes of people,
\* as it allows starts: every start gets through bootstrap by itself, whatever
\* the starts before it left half done, and none fails for what they left.
GivenUpForCause ==
  []SecretsPresent(WithDefaults(file)) =>
    [](daemon.pc = "failed" => StartLimitBurst <= incidents + moves)

\* README: "updates flowing from right -> left may not change left/main until a
\* human explicitly approves the exact transition".
SeedRespectsGate ==
  [][\A i \in DOMAIN daemon.config, s \in Sides, b \in Branches :
       LET n == daemon.config[i].name
       IN /\ remote'[n][s][b] # remote[n][s][b]
          /\ moves' = moves
          => ~RequiresHumanApproval(daemon.config[i][s], b)]_vars

==========================================================================
