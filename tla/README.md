# Verification of gitmirror

TLA+ models of gitmirror, TLC runs on small instances of them, and theorems
checked by TLAPS. Paths are relative to `src/`.

gitmirror keeps pairs of Git repositories ("left" and "right") equal, branch by
branch, without ever forcing a push: fast-forwards are mirrored, divergence goes
to a quarantine branch, protected branches wait for a human.

1. [The system](#1-the-system): components, state, operations, what is hard
2. [The modules](#2-the-modules): how they correspond to the code
3. [The runs](#3-the-runs): what TLC checks, on which bounds, and what it shows
4. [The theorems](#4-the-theorems): what TLAPS proves and how
5. [Disagreements](#5-disagreements-between-the-code-and-its-documentation) between code and documentation
6. [What is not modelled](#6-what-is-not-modelled)
7. [Plan](#7-plan)

## 1. The system

    GitHub / Gitea ──webhook──> webhook handler ─┐
          ^                                      ├─Enqueue─> queue ─Claim─> worker
          │ ls-remote            poller ─────────┘          (files)          │
          │                        ^                                      Process
          └──────── git ──────── syncer <──── gitmirror sync (own process)   │
                                   │  ^─────────────────────────────────────┘
                                   │  └────── gitmirror approvals approve (own process)
                                   └──> approval store (files)

| component | state | operations | correct when |
|---|---|---|---|
| **delivery queue** `internal/queue` | four directories `pending`, `processing`, `done`, `failed`, one JSON file per event with its attempt count; `Queue.mu` | `Init`, `Enqueue`, `Claim`, `Complete`, `Fail` | no accepted delivery is lost; it is in one directory; retries are bounded across restarts; a delivery that is done is never run again |
| **worker** `cmd/gitmirror/main.go` | the event it holds | tick: claim, process, complete or fail | every accepted event is settled; a logged error leaves a state the next start repairs |
| **syncer** `internal/syncer/syncer.go` | one bare repository per pair with the refs `refs/gitmirror/source` and `target`, shared by all calls | `Process` (`updateBranch`, `deleteBranch`), `Approve`, `pushOrQuarantine`, `strictDelete`, `quarantine` | it writes exactly what it decided on; nothing people pushed disappears silently; protected branches change only by approval; branches do not mix |
| **approval store** `internal/approval` | `pending`, `done`, `rejected` request files, named after the transition | `Create`, `Load`, `ListPending`, `Complete`, `Reject` | a request is settled once, and only as what happened |
| **poller** `internal/poller` | one snapshot file of a repository's branches per repository, written through one temporary file | `pollOnce`: scan both sides, enqueue differences and deletions, save the snapshot | every difference is eventually handed to the queue; a deletion is reported only if the branch was there |
| **gitmirror sync** `internal/cli/sync.go` | none; the poller's snapshots and the syncer's repository | one `pollOnce` per side, with `Process` called directly | it follows the same rules as the daemon beside it |
| **bootstrap** `internal/syncer/bootstrap.go` | a marker file per pair, the refs `refs/gitmirror/bootstrap/<side>/*` | at daemon start, pair by pair: seed the empty one of two remotes | a ref that exists is never touched; all branches are created or none; a marker never hides a seed that is missing |
| **webhook handler** `internal/webhook` | none | verify, `Enqueue`, answer 200/202/4xx/500 | a 2xx answer means the delivery is in the queue |
| **configuration** `internal/config` | the file; none after `Load` | `applyDefaults`, `Validate`, `WriteTOML`, `RequiresHumanApproval`, `RequiresWebhook` | an accepted configuration routes an event to at most one side of one pair |
| **daemon** `cmd/gitmirror/main.go` | goroutines | load, secrets, bootstrap, serve, shutdown; systemd starts it again | bootstrap before work; it serves in the end |
| **operator CLI** `internal/cli` | the configuration it loaded, while it asks | `approvals list/approve/reject`, `pair add`, `pair list`, `status` | what it writes is accepted at the next start; approve and reject act on one request |
| **GitHub client** `internal/github` | none | API requests | nothing calls it |

**Interaction.** The webhook handlers, the pollers and the worker are goroutines
of one process and share the queue under its mutex. The syncer is called by
three processes that know nothing of each other: the daemon, `gitmirror sync`
and `gitmirror approvals approve`. They share the pair's bare repository, the
approval directory, the poller's snapshots and both remotes, and no lock covers
any of them; `pair add` replaces the configuration file without one. People push
to both remotes at any time. Each push, gitmirror's own ones too, makes the
provider send a webhook.

**What is hard.** (a) Every queue operation is several file operations; an I/O
error or the end of the process can come between any two. (b) Every syncer call
is a sequence of git commands (read source, fetch, read target, fetch, compare,
dry run, push) and the world moves between any two. (c) A push may succeed and
be reported as failed. (d) A restart in any step runs the event again. (e) The
calls of other processes write the same local ref. (f) Events carry no order: an
event only says "look at this branch". (g) Bootstrap and saving a snapshot are
several steps too, and a start after any of them must know how far it came.
`PROJECT.json` lists each hazard at its
line with the properties that cover it, or the reason none does yet.

## 2. The modules

| module | what it is |
|---|---|
| `DeliveryPromise` | abstract queue: a delivery is unknown, queued, running, done or failed |
| `DeliveryQueue` | the queue's directories, the callers of `Enqueue`, the worker loop, crashes and restarts; implements `DeliveryPromise` |
| `RepositoryPair` | the two sides, branches, commits and ancestry that `BranchSync` and `Poller` share |
| `MirrorPromise` | abstract mirror: what gitmirror may do to the two remotes of a pair, without events, calls, git commands or failures |
| `BranchSync` | one repository pair: the syncer's calls by worker, `sync` and `approve`, people, the approval store, failures; implements `MirrorPromise` |
| `Poller` | `pollOnce` of the daemon and of `sync` with its snapshots, on top of `DeliveryPromise` as the queue; implements `MirrorPromise` |
| `PairConfig` | the configuration as a value: defaults, `Validate`, and every lookup that relies on it |
| `Daemon` | the configuration file and `pair add`, systemd, the start of the daemon, bootstrap of every pair |
| `DeliveryQueueProofs`, `BranchSyncProofs`, `BranchSyncCalmProofs`, `BranchSyncAnswerProofs`, `BranchSyncPromiseProofs`, `BranchSyncRestProofs`, `PollerProofs`, `DaemonProofs` | theorems |
| `MCDeliveryQueue`, `MCBranchSync`, `MCPoller`, `MCDaemon` | the small instances of the runs |

`Daemon` ends where the others begin: it says how the daemon comes to serve, and
its `serving` is the state in which the worker and the pollers run. The other
three models meet at two places. `Poller` uses `DeliveryPromise` for the
queue, and `DeliveryQueue` is proved to implement it. `Poller` takes one call of
`Process` as one step, and `BranchSync` takes that call apart, git command by git
command; both implement the same `MirrorPromise`. `BranchSync` in turn keeps of
the queue only which branches have events.

### MirrorPromise

What the people who use the two remotes can rely on, whatever runs and fails:
gitmirror changes a branch of theirs only by advancing it to a descendant that
people pushed somewhere (`Advance`) or by deleting it after people deleted it on
some side (`Withdraw`); it makes no commits, overwrites none, and never takes back
what it put into a quarantine branch (`SetAside`). A protected branch changes only
while a person grants that kind of change, which was asked for before (`Ask`,
`Grant`). The abstract state has no processes: `granted` are the changes that
calls of `approve` are making, `authored[b]` the tips people gave branch `b`, with
`None` for a deletion. `moves` tells people's steps from gitmirror's, so that an
overwrite by gitmirror cannot pass for a push of a person.

It says nothing of what must happen, and it leaves open what 5.1 to 5.3 are about:
which of the approved kind of change an approval makes, whether the deleted branch
was the one people deleted at the same tip, and which branch a published tip is on.

### DeliveryQueue

*State.* Each directory is a function from file names to the attempt count stored
in the file, or `NoFile`. The body of an event is not represented: what it does
to the remotes is `BranchSync`. `worker` is the goroutine: `starting` while
`Queue.Init` runs, then `idle`, `running` (in `Process`), `succeeded` or
`errored` (returned, not yet settled), with the event it holds.

*Names.* `eventFileName` contains the provider. Files written by a release that
left it out have other names, which `Claim` corrects. `Canonical` maps each name
to the name this release gives the event inside. `Deliveries` are the names
`Enqueue` computes, `Current` those that no older file also holds. The model
starts with any set of older files in `pending`.

*Steps.* `Queue.mu` makes each call atomic for the other goroutines, so a call is
one action. What the mutex cannot hide is a call that is cut short. Its cuts are
the actions `AcceptInterrupted`, `ClaimInterrupted` and `SettleInterrupted`: the
call returns an error after some of its file operations. If the process dies in
the middle of a call, that is the same cut followed by `Crash`.

| code | action |
|---|---|
| `Init` (queue.go:33) | `Recover(n)` per rename, then `Start` |
| `Enqueue` (:58) | `Accept(d)`; `AcceptInterrupted(d)`: the failed record is removed and the file not written; a duplicate changes nothing |
| `Claim` (:79) | `Claim(n)`; `ClaimInterrupted(n)`: renamed, perhaps to the canonical name, and not rewritten |
| `Process` returns | `ProcessReturns` |
| `Complete` (:124), `Fail` (:131) | `Complete`, `Fail`; `SettleInterrupted`: the rename is refused and logged |
| end of the process | `Crash`, at any point: `serve` does not wait for the worker |

Temporary files are left out: `Claim` lists only `.json` files and `Enqueue`
looks for exact names, so nothing reads them. `runs`, `crashes` and `revivals`
are observations; only the bounds read them.

### BranchSync

*State.* `remote[side][branch]` is a commit or `None`. `objects` and `srcRef` are
the bare repository: the commits it has and its `refs/gitmirror/source`
(`refs/gitmirror/target` is written and never read). `inbox` holds the push
events of the queue; it is a set because an event only names a branch and order
and number do not matter to a handler that reads the remotes again. `op[p]` is
the call process `p` is in, with the local variables of the Go function (`src`,
`dst`, the request's `before` and `after`, the attempts of the quarantine loop).
`pending`, `approved`, `rejected` are the directories of the approval store, and
`halfWritten` the requests whose file is created (or emptied again) and not
written.

*Steps.* One action per git command that reads or writes a remote, because other
actors can act between them. `merge-base` reads only the local repository, to
which commits are only added, and is merged with the fetch before it.

| code (syncer.go) | actions |
|---|---|
| `Process` (:49) from the worker, from `sync` | `TakeEvent`, `StartSync` |
| `Approve` (:81) | `LoadRequest` |
| `remoteSHA` of the source, of the target | `LsSource`, `LsTarget` with one operator per caller (`UpdateReads...`, `DeleteReads...`, `ApproveReads...`) that also holds the checks up to the next command |
| fetch of the source (:241, :135) | `FetchSource` |
| fetch of the target and the comparison (:251, :142) | `FetchTarget` (`CompareUpdate`, `CompareApproved`) |
| human gate (:271) | `Gate`; for deletions inside `DeleteReadsTarget` |
| `pushOrQuarantine` (:322) | `DryRun`, `Push` |
| `quarantine` (:393) | `Quarantine`, `QuarantineFails` (at most three attempts) |
| `strictDelete` (:336) | `DryDelete`, `StrictDelete` |
| `Store.Create` (store.go:37): the file is opened, then written | `AskHuman`, `WriteRequest` |
| `Store.Load`, `ListPending` (store.go:65, :80) | `Readable`, `ListPendingWorks` |
| `Store.Complete`, `Reject` (store.go:110) | `Complete`, `Reject` |
| a command fails, its answer is lost, the process dies | `CommandFails`, `AnswerLost`, `QuarantineFails`, `Dies` |

`Pushable` is git's rule for a push without force. `Echo` is the webhook the
provider sends for gitmirror's own push. `UserPush` and `UserDelete` are people.
An error of the worker's call either leaves the event for a retry or not, which
abstracts the attempt count that `DeliveryQueue` models. `Heard` says that a
webhook only arrives while a daemon runs: with no worker, `inbox` stays empty.

`gitmirror sync` scans both remotes before its calls. The scan is modelled in
`Poller` and not here: `StartSync` may start an update at any time (the call reads
both tips again) and a deletion whenever the target has the SHA the event names
and people did delete that branch at some time, which covers what the scan can
produce. The second condition is what `Poller` shows of every deletion it reports
(`DeletesOnlyAfterPeople`).

`authored[b]` are the tips that people gave branch `b` on either side, `None` if
they deleted it. Besides that condition only properties read it.

`calm` is the set of processes whose call was disturbed by nobody: no person or
other process wrote its branch or completed a request for it, and no other process
wrote the shared local ref, since the call began. It separates what the code guarantees by itself from what
it cannot guarantee without locks or leases.

### Poller

*State.* `remote` and `quarantined` as in `BranchSync`. `snapshot[side]` is the
file under `poll/` and `tmp[side]` the one file `saveSnapshot` writes before it
renames it; each is absent, empty, garbled or whole. `poll[p]` is the `pollOnce`
a process is in: the step, the side, the refs it scanned there, the events it
still has to hand over, and what it has open while it saves. `status` is the
queue of `DeliveryPromise`, and its deliveries are transitions `(side, branch,
before, after)`, which is what `deliveryID` (:240) hashes.

| code (poller.go) | action |
|---|---|
| ticker of `runRepo` (:79), `ReconcileAll` (:67), command started | `Resting` to `ScanSource`, `AfterSave`, `StartSync` |
| scan of the source (:104) | `ScanSource` |
| scan of the target (:108), load of the snapshot (:112), the two loops that compare (:123, :139) | `ScanTarget` with `Differences`, `Deletions` |
| `enqueue` per ref (:133, :149) | `Enqueue(p, t)` for a daemon's poller, `Direct(p, t)` for `sync`, whose queue is `Process` itself |
| `saveSnapshot` (:218): open and empty the temporary file, write, rename | `OpenTemp`, `WriteTemp`, `RenameTemp` |
| any of them fails, the command dies | `PollFails` |
| the daemon dies and starts again | `Crash` |
| worker | `Claim`, `Succeed`, `Refuse`, `ProcessFails` |

The daemon's pollers and `sync` act on the same snapshots, and people, the worker
and the other side's poller act between a poll's steps. `Refuse` is a deletion
whose target is not at the expected SHA: its attempts find the same remotes and
are one step. No branch is protected in this module, and no webhook arrives: it
is about what polling achieves alone. The snapshot is loaded in the step of the
second scan; one that cannot be decoded ends the poll. The order of hand-over
within changed branches and within deleted ones is left open; the code sorts by
name.

A poller and `sync` open the same temporary file. `Handles` follows what each of
them has open through the other's rename, as Unix files do, and `Overwritten` is
what a file holds when one content was written over another from its start: the
end of longer content stays and the file is no longer JSON.

### PairConfig and Daemon

*State.* `file` is the configuration on disk, a sequence of pairs; `adding[a]` is
what a `pair add` loaded before it asked its questions. `remote` has every ref of
both repositories of every pair: branches, and others (tags), which make a
repository non-empty and are not seeded. `base` is
`refs/gitmirror/bootstrap/<side>/*`, `marked` the pairs with a marker. `daemon`
is where `serve` and `Bootstrap` are, with the configuration it loaded and the
local variables; `starts` is what systemd counts.

| code | action |
|---|---|
| `addPairInteractive` (cli.go:156): load; append, validate, write; give up | `AddLoads`; `AddWrites`; `AddEnds` |
| `serve` (main.go:33) up to bootstrap, under `Restart=on-failure` | `Start` |
| `StartLimitBurst` of the unit | `Counted`, `GiveUp`, `MinutePasses` |
| loop over pairs, marker (bootstrap.go:24, :36) | `NextPair` |
| `remoteEmpty` of both sides (:46) | `Look`, twice |
| fetch of both sides (:55), which side to seed (:62) | `Fetch`, twice; `ToSeed` |
| second `remoteEmpty`, list of branches (:108) | `Recheck` |
| atomic push with creation leases (:134) | `Seed`, whose answer may be lost |
| marker (:79) | `Mark` |
| a command fails, the process dies, an operator restarts it | `Dies` |
| `ListenAndServe` fails: exit status 0 (main.go:87) | `ListenFails` |
| people | `UserMove` on any ref of any configured pair |

`PairConfig` writes `Validate` and the lookups from the code. `Validate` compares
full names by `strings.ToLower` (`SeenAs`, `Lower`), the syncer by
`strings.EqualFold` (`RepoMatches`, `Folded`), and the two differ: `EqualFold` takes
the letter U+017F for an s, `ToLower` keeps it. They agree on ASCII names
(`AsciiNames`), which are all that GitHub and Gitea give out, and this is the one
thing `ConfigAssumption` says of them. A provider is a spelling, with blanks or
capitals, and both sides normalise it alike (`Normal`).

Every `Fatal` ends in `down`, from which systemd starts the daemon until it has
counted too many starts; the unit is then `failed` for good. `MinutePasses` ends
systemd's interval at any time: how much of a minute a bootstrap takes is not known.

## 3. The runs

`CHECK_DEADLOCK FALSE` everywhere: people may stop pushing and the bounds end
every behaviour; a system with nothing to do is not a deadlock.

| run | states | shows |
|---|---|---|
| `queue` | 274 000 | with calls cut short anywhere, two deaths, an older file and a delivery that is accepted again: `NeverDropped`, `OnePlace`, `RunsCounted`, `RetryBound`, the refinement `KeepsPromise`, and that every pending delivery reaches `done` or `failed`, whatever sorts before it (`Settles`) |
| `sync_approval` | 170 000 | worker and approver on a protected and an open side, people pushing, rewriting and deleting: `ProtectedOnlyByApproval`; what an undisturbed call writes is what it decided (`ExactWhenCalm`); an undisturbed update or deletion is never dropped silently, and a request it leaves can be read (`UpdateIsAccountedFor`, `DeletionIsAccountedFor`); the refinement `KeepsPromise` |
| `approval_faults` | 233 000 | the same two with failing commands, lost answers and deaths, among them the death between an approved push and `Complete`, and between the two steps of `Create`; an undisturbed approval is done before its request is answered (`ApprovalIsAnswered`); `KeepsPromise` |
| `sync_faults` | 335 000 | two branches through `sync`, one call after the other, with failures and deaths: `BranchesApart`, `ExactWhenCalm`, `KeepsPromise` |
| `sync_liveness` | 14 000 | when people stop pushing fast-forwards and divergent commits, every tip is mirrored, behind, in quarantine or waiting for a human, and `approvals list` works (`Converges`); so it is whenever no event waits and no call runs (`NothingForgotten`) |
| `poller` | 591 000 | one polled side beside `sync`, people pushing, rewriting and deleting, errors, deaths, and snapshots two processes write at once: gitmirror deletes a branch only when people deleted it somewhere (`DeletesOnlyAfterPeople`); without any webhook, what people did on the polled side reaches the other side or quarantine (`Reconciles`); `KeepsPromise` |
| `daemon` | 216 000 | `pair add` with every kind of answer, restarts up to systemd's limit, a push of a person and two failures at any step: the file routes an event to at most one place (`RoutesApart`); `SeedsOnlyNew`, `NoSeedSkipped`, `BootstrappedBeforeWork`; the daemon serves in the end unless systemd gave it up (`Serves`), and that takes as many failures and pushes as starts (`GivenUpForCause`) |
| `approval_source_moves`, `delete_without_lease`, `shared_scratch_ref`, `poller_repeated_transition`, `bootstrap_protected` | | *violations*, see 5.1 to 5.5 |

### What the less obvious properties leave open

`Reconciles` is stated with two exceptions, and both are findings about the code
and not conveniences: a transition that was brought to the other side once, is in
`done`, and has come about again (5.4), and a snapshot that is garbled for good
(5.8). That a delivery is marked done is not enough for the first: `reconciled`, an
observation, records the deliveries with which the worker left the branch settled.
If the worker marked deliveries done and pushed nothing, `Reconciles` would fail. It
speaks of the polled side only; the other side is polled by nobody.

`Serves` has three exceptions, in each of which the daemon is down and stays so: a
file that asks for a webhook secret the environment does not have, a listen that
failed, and a unit that systemd gave up. A short outage of the network at the start
is enough for the last: five failed starts in a minute, and nobody starts the daemon
when the network is back. `GivenUpForCause` bounds it from the other side: each start
that counts towards the limit is paid for by a failure, or by a push into a pair it
had begun to bootstrap. A start never fails for what an earlier start left behind.

`RoutesApart` speaks of ASCII names. With others it is false: `Validate` accepts two
repositories that `findPair` cannot tell apart.

`ExactWhenCalm` speaks of calls that no person and no other process disturbed.
The violations of 5.1 to 5.3 are what happens to the others.

`UpdateIsAccountedFor`, `DeletionIsAccountedFor` and `ApprovalIsAnswered` speak of
calls nobody disturbed that end by themselves and not by a failed command or a
death; those calls leave the event to a retry or the request where it was.
`ApprovalIsAnswered` counts the approved tip in a quarantine branch as done (5.6)
and a request somebody rejected meanwhile as answered.

`NothingForgotten` is `Converges` without time: a tip may only wait where an event
or a call is at hand, never for a poll, a restart or the next push.

`NoSeedSkipped` speaks of pairs nobody pushed to since their last bootstrap
began. Without that condition it is false and should be: a push after the second
emptiness check is left to webhooks and polling.

### Bounds, and why they are enough

*Queue.* Four names: one older file, the delivery it holds and two others. Two
deliveries are needed for order and mutual exclusion, an older name and its
canonical name for the renaming, and no action looks at more than two files.
`MaxAttempts` is 2 instead of 5: the code only compares the count with it. Two
deaths let one hit the recovery of another. One revival lets a failed delivery
come back; an `Enqueue` that is cut short after removing the failed record counts
as one. The theorems of section 4 remove these bounds for the safety properties.

*Syncer.* One or two branches; two are needed only where branches could mix. Three
or four commits, `c0 <- c1 <- c2` and `c0 <- d1`: enough for fast-forward, stale
event, rewind, rewrite and divergence. Two or three moves of people: one to start
a call and one or two to interfere with it, which is what every race in 5 needs.
`QuarantineTries` is 2 where failures happen (3 in the code). One process of each
kind, because the daemon has a single worker goroutine.

*Poller.* One branch: a poll compares each branch by itself. Commits
`c0 <- c1` and an unrelated `d0`, so that a fast-forward, a rewind, a divergence
and a deletion are each one move away from `c0`; the sides start equal or empty.
Two moves of people (`MaxMoves`) and one incident (`MaxIncidents`: a `sync` that
is started, an error, or a death of the daemon). The number of polls is not
bounded, so the moves meet polls in every step, `sync` between them, and the
snapshots and queue records that earlier polls left.

*Daemon.* One pair in the file at first, with a capital letter and a blank in its
identity so that comparing what is written would be wrong, and six answers an
operator may give to `pair add`: two good pairs, one of them with a name that is not
ASCII, and one for each kind of refusal. One command at a time: with two, one can
overtake the other, but each writes as a whole what it has validated, and the theorem
`RoutesStayApart` has any number of them. Two branches and a tag: an atomic push
needs two, and a tag is a ref that is not seeded. The pairs start with either side to
seed, or with a tag only. The limit of starts is 3 (5 in the unit), with two failures
and one push: exactly as many as it takes, so the unit is given up in some behaviours
and `GivenUpForCause` is tight.

### Fairness

`queue`: weak fairness of the worker and of the start. The ticker of `worker`
fires every 500 ms for as long as the process lives, and systemd restarts the
daemon after a crash. `sync_liveness`: weak fairness of each worker's start and of
its next git command. `poller`: weak fairness of the worker and of each polled
side's next step; the ticker of `runRepo` fires for as long as the daemon lives.
`daemon`: weak fairness of systemd (`Restart=on-failure`, `RestartSec`) and of the
daemon's next step of bootstrap. All assume that git commands return. The code
sets no deadline for them, and a command that hangs stops the only worker; no
module models this. Nothing is assumed of people, of operators, of `sync` or of
approvers. Failures may happen in `queue`, `poller` and `daemon`, but not forever
(the bounds above); `Faults` is off in `sync_liveness`: a call that could fail
forever settles nothing, and the code promises nothing then.

`Converges` is checked for the worker alone. With an approver beside it TLC finds
behaviours in which it fails, and they are another face of 5.3: the approver
pushes the newer tip the worker fetched into the shared ref, its request is
completed, and the tip it replaced there is forgotten.

## 4. The theorems

For every value of the constants that satisfies the module's named assumption:
any number of names, deliveries, branches, commits, processes, pairs and commands,
any commit graph, any attempt bound and any number of moves and failures.

| theorem | states |
|---|---|
| `DeliveryQueueProofs!TypeCorrect` | `Spec => []TypeOK`: with the types, the file of the event the worker holds is in `processing` under the name `Complete` and `Fail` use |
| `DeliveryQueueProofs!RetriesBounded` | `Spec => []RetryBound` |
| `DeliveryQueueProofs!DeliveryNotLost` | `Spec => NeverDropped` |
| `DeliveryQueueProofs!OnePlaceHolds` | `Spec => []OnePlace` |
| `DeliveryQueueProofs!RunsCountedHolds` | `Spec => []RunsCounted` |
| `DeliveryQueueProofs!QueueKeepsPromise` | `Spec => KeepsPromise`: the file queue refines `DeliveryPromise` |
| `BranchSyncProofs!TypeCorrect` | `Spec => []TypeOK` |
| `BranchSyncProofs!ProtectedBranches` | `Spec => ProtectedOnlyByApproval` |
| `BranchSyncProofs!OneProcessKeepsBranchesApart` | with one process, `Spec => []BranchesApart` |
| `BranchSyncCalmProofs!UndisturbedCallsAreExact` | `Spec => ExactWhenCalm` |
| `BranchSyncCalmProofs!UndisturbedUpdatesAreAccountedFor` | `Spec => UpdateIsAccountedFor` |
| `BranchSyncAnswerProofs!UndisturbedDeletionsAreAccountedFor` | `Spec => DeletionIsAccountedFor` |
| `BranchSyncAnswerProofs!UndisturbedApprovalsAreAnswered` | `Spec => ApprovalIsAnswered` |
| `BranchSyncPromiseProofs!SyncKeepsPromise` | `Spec => KeepsPromise`: `BranchSync` refines `MirrorPromise` |
| `BranchSyncRestProofs!NothingIsForgotten` | for the worker alone, without failures, and people who push fast-forwards: `Spec => []NothingForgotten` |
| `PollerProofs!TypeCorrect` | `Spec => []TypeOK` |
| `PollerProofs!NoInventedDeletion` | `Spec => DeletesOnlyAfterPeople` |
| `PollerProofs!PollerKeepsPromise` | `Spec => KeepsPromise`: `Poller` refines `MirrorPromise` |
| `PollerProofs!OneSaverKeepsSnapshotsReadable` | where one process saves each snapshot, every snapshot can be decoded at any time |
| `DaemonProofs!OneRoute` | what `Validate` accepts routes an event to one side of one pair, and `remoteNames` agrees, if the names are ASCII |
| `DaemonProofs!TypeCorrect` | `Spec => []TypeOK` |
| `DaemonProofs!RoutesStayApart` | `Spec => []RoutesApart` |
| `DaemonProofs!OnlyNewBranches` | `Spec => SeedsOnlyNew` |
| `DaemonProofs!WorkAfterBootstrap` | `Spec => []BootstrappedBeforeWork` |
| `DaemonProofs!MarkerIsHonest` | `Spec => []NoSeedSkipped` |
| `DaemonProofs!StartsSuffice` | `Spec => GivenUpForCause` |

**Assumptions.** `QueueAssumption`: names are numbers (their sort order),
`Canonical` is idempotent, `MaxAttempts > 0`. `GraphAssumption`: ancestry is
reflexive and transitive, `None` is no commit. `SyncAssumption`,
`PollerAssumption`: the kinds of processes are disjoint, the other constants have
their types. `ConfigAssumption`: an empty provider means GitHub,
and `ToLower` and `EqualFold` agree on ASCII names. `DaemonAssumption`:
the file the model starts with is one `Validate` accepts.

**Argument for the queue.**
- `RetryBound` is not inductive: `Recover` puts a file back into `pending`, where
  one attempt less is allowed than in `processing`. `RetryInv` adds that while the
  daemon starts, every file in `processing` has room for the crash that left it
  there, and that the worker's copy of the count is the one on disk (it decides in
  `Fail`, while the file keeps the count).
- `OnePlace` needs `AllExclusive`: the four directories exclude each other
  pairwise for every current delivery. A delivery an older file also holds has no
  such invariant (see 5.10), which is why the statement is about `Current`.
- `RunsCounted` follows from `AllCounted` with `AllExclusive`: the one file of a
  delivery carries its count along, and `Claim` raises the count on disk before
  the worker runs the event.
- The refinement maps a delivery to `StatusOf`, computed from the directories and
  the worker. Each action is shown to move exactly one delivery's status
  (`OneMove`) or none (`NoMove`). `TypeOK` and `AllExclusive` supply what each
  move needs.

**Argument for the syncer.** `ProtectedOnlyByApproval` is about the step that
writes, and the gate is several steps earlier. `SyncInv` carries the fact
through the call: `TypeOK`, and for every call of the worker or of `sync` that has
passed its gate, that the branch is not protected on the destination. It is proved
action by action from one lemma for each. `BranchesApart` is about what is
pushed, and the shared ref is written several steps earlier by a call that need
not be the one that pushes. `Apart` adds that a call between its fetch and its
push finds a tip of its own branch in the ref. With two processes that is false
(5.3); the theorem shows that the second process is all that is missing.

**Argument for undisturbed calls.** What a call writes depends on tips it read
commands ago. `Knows` says what is still so at each step while nobody interferes:
the source is at the SHA the call read, from the fetch on the shared ref holds it,
and before an approved push or any deletion the target is where the call saw it.
`CalmInv` says it of every call in `calm`, and with it `OneWrites` (only the call's
own push or deletion writes, and what) gives `ExactWhenCalm`. `Tracks` adds what an
update needs to account for its source when it ends: the source's commit is in the
bare repository, the target is the one it compares, and the request it asked for is
pending or was rejected. For each action there is one lemma about the call that
takes it, and one about what it leaves alone of the others (`OthersLeft`). The proof
needs the condition on completed requests, a case the runs with two moves do not reach
(5.17).

**Argument for deletions and approvals.** Both calls begin with tips that somebody
else wrote down, an event or a request, and what they leave is judged by it.
On top of `CalmInv`, `ForwardInv` says that every request on record, settled or
not, asks for a creation, a fast-forward or a deletion of something, so that an
approval that finds both sides as requested cannot fail the comparison. `Expects`
follows the call: its request has not left `pending` or `rejected`, and when an
approval reaches `Complete` the approved tip is on the target, or in quarantine, or
the branch is gone as approved. A call that ends early ends by a comparison that
says which side has moved, and nobody moved it back since.

**Argument for the refinement.** `Origins` says where tips and deletions come from:
every tip on a remote or in the shared ref is one that people gave some branch, and
every deletion in an event or a request follows one of theirs. `Grounded` says the
same of the calls, and that an approver's call has its request on record. `Fits`
says what a call of each kind may do at its steps: an approval of a deletion never
pushes, one of an update never deletes, and no approval asks again. With these each
action is one step of `MirrorPromise` or a stutter. An advance is a descendant
because git refuses other pushes without force, not because of what the call
compared: the comparison may be out of date.

**Argument for rest.** `RestInv` watches every tip: it is delivered, its branch
has an event from its side, or the call that runs is going to settle it (`Pursues`:
it has not read the source yet, or what it read, and fetched, is still the tip).
Every change of a tip, gitmirror's own pushes too, brings an event for it; a target
only advances, so what was delivered stays so. `Undisturbed` lists what this needs:
one process, because two share the local ref; no failures, because a failed call
may be given up; no rewrites or deletions, because after one the event of that side
speaks for both. On the instance of `sync_liveness` TLC refutes the statement as soon
as any one of these is dropped.

**Argument for the poller.** `DeletesOnlyAfterPeople` is about the worker's write;
the deletion was decided by a poll, from a snapshot that some earlier poll wrote,
perhaps of another process. `Seen` says of every copy of refs (a scan, a snapshot,
a temporary file) and of every deletion (in a poll, or known to the queue) that
its branches are still there or were deleted by people. `Keeps` says that no step
of gitmirror makes that false, so each copy may be as old as it likes. The
refinement adds that every tip in play is one people published.
`OneSaverKeepsSnapshotsReadable` shows what the exception in `Reconciles` for
garbled snapshots rests on: `Clean` says that with a single saver the temporary
file is empty when it is written and whole when it is renamed, wherever the process
died in earlier polls.

**Argument for the daemon.** `RoutesApart` follows from `KeysApart`, what
`Validate` accepts, which the defaults applied before writing do not change, and
from `AsciiKeys`: two repositories the syncer takes for one have the same key.
`NoSeedSkipped` needs what bootstrap knows at each step of a pair nobody pushes to (`Knows`: the
emptiness it read is still so, the fetched refs are the remote's), what it decided
from it (`Decided`), and that earlier pairs are marked (`PairsBeforeMarked`).
`SeedsOnlyNew` needs no such knowledge: it follows from the leases of the push
alone, whatever was read before. `GivenUpForCause` is an account: `StartsOwed` says
that the starts systemd counts are at most the failures and pushes so far, plus the
one that runs, and not even that one once somebody pushed to the pair it
bootstraps. The steps to show are the two that end the process without a failure of
their own, the second emptiness check and a lease that does not hold;
`OnlyPushesSpoil` gets from `Knows` that somebody pushed to that pair since its
bootstrap began.

**Only model-checked.** Liveness (`Settles`, `Converges`, `Reconciles`, `Serves`)
is out of the prover's reach; of `Converges` the safety half is the theorem
`NothingIsForgotten`. The safety properties of the passing runs are all theorems,
`BranchesApart` for one process and `NothingForgotten` for `Undisturbed`. No
definition is recursive.

## 5. Disagreements between the code and its documentation

Each is a run in which TLC finds the violation; `PROJECT.json` quotes the lines.

1. **An approval pushes what the source has now.** `Approve` checks the SHA that
   `ls-remote` read, fetches the source again and pushes what the fetch brought
   (`approval_source_moves`).
2. **Deletion without a lease.** A push to the target between the SHA check and
   the deletion loses its branch (`delete_without_lease`).
3. **One local ref for every call.** `gitmirror sync` beside the daemon can push
   the tip of one branch to another branch (`shared_scratch_ref`).
4. **A transition is reconciled once.** The delivery ID is a hash of the
   transition, and the queue calls what is in `done` a duplicate forever. When the
   counterpart loses the branch again, or is rewound to where it was, polling no
   longer repairs it (`poller_repeated_transition`). poller_test.go:63-67 reports
   the same transition twice, to a queue that accepts everything.
5. **The first start asks nobody.** README.md:60 of the repository says that a
   protected branch of a destination changes only after a human approved the
   transition; the seed of an empty repository creates it at once
   (`bootstrap_protected`). bootstrap.go may well mean it that way, but no
   document excepts it.

More behaviours met while modelling. Number 6 contradicts README.md:70 of the
repository and has no run of its own; the documentation does not rule out the
others.

6. *An expired approval is completed.* If the target moves after `Approve` read
   it, `pushOrQuarantine` pushes the source to a quarantine branch, returns nil,
   and the request counts as approved (syncer.go:150). README.md:70 says that
   then "nothing is pushed".
7. *A request's file may stay half written.* `Create` writes in place
   (store.go:59). After a death in between, `approvals list` and `status` fail for
   all requests until the next event for the same transition writes the file
   again, or someone rejects that request by its ID.
8. *A snapshot may be garbled for good.* `sync` and a poller both open
   `<snapshot>.tmp` (poller.go:228). If the longer content is written first and
   the shorter over it, the renamed file is not JSON, and every later poll of that
   side, and every `sync`, fails until someone removes it (poller.go:209). It takes
   two processes: one saver alone never leaves such a file (section 4).
9. *Attempts.* `Claim` never compares the attempt count with `maxAttempts`. An
   event whose process dies during the last attempt is run again after each such
   death. What holds is `RetryBound`: one attempt more per death.
10. *Older files.* A delivery that a file of an earlier release holds is not
    recognised by `Enqueue` (queue.go:65) under its new name. It can be accepted a
    second time and run twice. `OnePlace`, `RunsCounted` and `KeepsPromise` leave
    such deliveries out; `NeverDropped` and `RetryBound` hold for them too.
11. *A failed record may vanish.* `Enqueue` removes it before it writes the new
    file (queue.go:73). If the write fails, nothing records the delivery: the step
    `Forget` of `DeliveryPromise`.
12. *Late events recreate branches.* An event for a branch that people deleted on
    the other side finds the destination missing, which `updateBranch` takes for a
    new branch (syncer.go:251). README.md:181 describes new branches only. With
    both sides polled, a deletion on one side and the branch still present on the
    other are two transitions, and the queue's order of names decides between them.
13. *Deletions are seen once.* One is reported only by the one poll that sees the
    branch gone and the target still at the snapshot's tip (poller.go:143). If the
    target differs then, the new snapshot no longer has the branch and the
    deletion is forgotten.
14. *A lost `pair add`.* Of two at the same time the one that writes last wins
    (cli.go:157), and both report success. No property forbids it: nothing in the
    documentation promises otherwise.
15. *A pair that asks for a secret.* `pair add` does not look for the webhook
    secrets its pair makes necessary. At the next restart the daemon exits until
    systemd gives up (main.go:44), for all pairs. A provider written with blanks
    passes `Validate` and is overlooked by `RequiresWebhook` (config.go:157): the
    daemon then starts without the secret and without the webhook endpoint.
16. *Tags only.* A side with tags and no branches is not empty; its empty
    counterpart is seeded with nothing and the pair is marked (bootstrap.go:130).
17. *A request settled by another's approval.* The name of a request is a hash of
   its transition (syncer.go:482). If the transition is asked for again after an
   approved push and before its `Complete` (people deleted the branch on the target
   in between), `Complete` (syncer.go:153) moves the new request to `done`, and
   nobody is asked. The next event for the branch asks again.

## 6. What is not modelled

- **Webhook decisions**: which headers and signatures a handler accepts is a
  decision without state. What follows it, `Enqueue` from concurrent handlers, is
  `DeliveryQueue`; that a 2xx answer means an accepted or known delivery is one
  `if` after that call.
- **Input and output**: the wording and the parsing of prompts, pair
  list, status output, JSON and TOML decoding, redaction of URLs, scripts. Of
  the systemd unit only restarts are modelled.
- **Names that are not ASCII**: `PairConfig` has them, but no property promises
  anything of them; neither provider gives them to a repository.
- **GitHub client**: nothing in the repository calls it.
- **Time**: polling frequencies, HTTP timeouts, commands that never return.
  systemd's minute is abstracted: it may end at any time (`MinutePasses`), or never.
- **Disks that lose acknowledged writes**: of all files only the configuration is
  synced to disk (write.go:39); the models keep every completed file operation, so
  their crashes are deaths of the process and not of the machine.
- **Quarantine branches as branches**: they are recorded, not mirrored on.
- **Edits of the file by hand**: a pair that is taken out and added again under the
  same name with other repositories keeps its marker and is not bootstrapped.
- **The attempt bound together with the syncer**: `BranchSync` lets an error end an
  event or not; that a deletion refused five times in the wrong order leaves its
  branch is the combination of the two models and not checked by either.

## 7. Plan

Done: all modules of section 2, their runs, the theorems of section 4. What would
add most next:

1. An abstract specification of how the daemon comes to serve, implemented by
   `Daemon`.
2. The safety half of `Reconciles`, for any commits and moves, as a theorem.
3. The composition of `DeliveryQueue` and `BranchSync`: refusals until the
   attempts are used up.
4. Quarantine branches as branches that webhooks and polls see.
