----------------------------- MODULE Poller -----------------------------
(***************************************************************************)
(* Polling of one repository pair: pollOnce of internal/poller, run by the *)
(* daemon for every polled side and by "gitmirror sync" for both, with the *)
(* queue it feeds and the worker that empties it, when no webhook arrives. *)
(*                                                                         *)
(* The scan of each side, each event and each file operation that saves    *)
(* the snapshot are steps of their own: people, the worker, the other      *)
(* side's poller and "gitmirror sync" act between them, and the daemon may *)
(* die.  The snapshot is loaded in the step of the second scan.            *)
(*                                                                         *)
(* The queue is DeliveryPromise, which DeliveryQueue implements; a         *)
(* delivery is the transition it was named after.  One Process call is one *)
(* step here; module BranchSync takes it apart.  "gitmirror sync" hands    *)
(* its events to Process and not to the queue.  No branch is protected.    *)
(***************************************************************************)
EXTENDS Naturals, RepositoryPair

CONSTANTS
  InitialTips,  \* <<left, right>>: what a branch may be when the daemon starts
  Polled,       \* the sides the daemon polls
  Syncs,        \* "gitmirror sync" commands
  UserMoves,    \* what people do: "advance", "rewrite", "delete"
  MaxMoves,     \* bound on what people do
  MaxIncidents  \* bound on commands started, errors and deaths

Processes == Polled \union Syncs

ASSUME PollerAssumption ==
  /\ InitialTips \subseteq Tips \X Tips
  /\ Polled \subseteq Sides
  /\ Syncs \intersect Sides = {}
  /\ UserMoves \subseteq {"advance", "rewrite", "delete"}
  /\ MaxMoves \in Nat
  /\ MaxIncidents \in Nat

Refs == [Branches -> Tips]
NoRefs == [b \in Branches |-> None]

(* What deliveryID tells apart.  A transition to None is a deletion.        *)
Transitions ==
  {t \in [from : Sides, branch : Branches, before : Tips, after : Tips] : t.before # t.after}

Transition(side, b, before, after) ==
  [from |-> side, branch |-> b, before |-> before, after |-> after]

IsDeletion(t) == t.after = None

(* A snapshot file, or the temporary file it is written to.                 *)
Files == [state : {"absent", "empty", "garbled", "whole"}, refs : Refs]
File(state) == [state |-> state, refs |-> NoRefs]
Whole(refs) == [state |-> "whole", refs |-> refs]

Present(refs) == {b \in Branches : refs[b] # None}

(* What a file may hold once refs were written from its start: the end of   *)
(* longer content stays.  More branches make longer content.                *)
Overwritten(file, refs) ==
  LET old == Present(file.refs)
      longer == ~(old \subseteq Present(refs))
      shorter == old \subseteq Present(refs) \/ ~(Present(refs) \subseteq old)
  IN {f \in {Whole(refs), File("garbled")} :
        IF f = Whole(refs) THEN shorter ELSE longer \/ file.state = "garbled"}

VARIABLES
  remote,       \* side -> branch -> tip
  quarantined,  \* <<side, branch, tip>> kept there in quarantine branches
  snapshot,     \* side -> its snapshot file
  tmp,          \* side -> the temporary file that is renamed to it
  poll,         \* process -> the poll it is in
  status,       \* transition -> what the queue knows of its delivery
  (* observation only: no guard reads these, except for the bounds *)
  moves,
  authored,     \* branch -> tips people gave it on either side, None by deleting it
  reconciled,   \* deliveries that left their branch settled when they were done
  incidents

files == <<snapshot, tmp>>
vars == <<remote, quarantined, files, poll, status, moves, authored, reconciled, incidents>>

Queue == INSTANCE DeliveryPromise WITH Deliveries <- Transitions

Steps == {"stopped", "scanSource", "scanTarget", "enqueue",
          "write", "rename"}

\* What a process has open while it saves: the temporary file, the snapshot
\* that another process made of it, or a file that was replaced.
Handles == {"closed", "tmp", "snapshot", "lost"}

Scanning(side) ==
  [step |-> "scanSource", side |-> side, current |-> NoRefs, todo |-> {}, fd |-> "closed"]

\* A daemon's poller waits for its ticker, a command has exited.
Resting(p) ==
  IF p \in Polled THEN Scanning(p) ELSE [Scanning("left") EXCEPT !.step = "stopped"]

Init ==
  /\ \E tips \in [Branches -> InitialTips] :
       /\ remote = [s \in Sides |-> [b \in Branches |-> tips[b][IF s = "left" THEN 1 ELSE 2]]]
       /\ authored = [b \in Branches |-> {tips[b][1], tips[b][2]} \ {None}]
  /\ quarantined = {}
  /\ reconciled = {}
  /\ snapshot = [s \in Sides |-> File("absent")]
  /\ tmp = [s \in Sides |-> File("absent")]
  /\ poll = [p \in Processes |-> Resting(p)]
  /\ Queue!Init
  /\ moves = 0
  /\ incidents = 0

Incident == incidents < MaxIncidents /\ incidents' = incidents + 1

-----------------------------------------------------------------------------
(* People *)

UserPush(s, b, c) ==
  /\ moves < MaxMoves
  /\ c # remote[s][b]
  /\ \/ /\ "advance" \in UserMoves
        /\ remote[s][b] = None \/ IsAncestor(remote[s][b], c)
     \/ "rewrite" \in UserMoves
  /\ remote' = [remote EXCEPT ![s][b] = c]
  /\ moves' = moves + 1
  /\ authored' = [authored EXCEPT ![b] = @ \union {c}]
  /\ UNCHANGED <<quarantined, files, poll, status, reconciled, incidents>>

UserDelete(s, b) ==
  /\ moves < MaxMoves
  /\ "delete" \in UserMoves
  /\ remote[s][b] # None
  /\ remote' = [remote EXCEPT ![s][b] = None]
  /\ authored' = [authored EXCEPT ![b] = @ \union {None}]
  /\ moves' = moves + 1
  /\ UNCHANGED <<quarantined, files, poll, status, reconciled, incidents>>

-----------------------------------------------------------------------------
(* Process, when nothing interferes with it *)

SourceTip(t) == remote[t.from][t.branch]
TargetTip(t) == remote[Other(t.from)][t.branch]

Mirrored(t, tip) ==
  /\ remote' = [remote EXCEPT ![Other(t.from)][t.branch] = tip]
  /\ UNCHANGED quarantined

UpToDate(t) ==
  \/ SourceTip(t) \in {None, TargetTip(t)}
  \/ TargetTip(t) # None /\ IsAncestor(SourceTip(t), TargetTip(t))

\* Mutation: the push is forced.
BehindForced(t) == TRUE

Behind(t) == TargetTip(t) = None \/ IsAncestor(TargetTip(t), SourceTip(t))

UpdateBranch(t) ==
  \/ UpToDate(t) /\ UNCHANGED <<remote, quarantined>>
  \/ ~UpToDate(t) /\ Behind(t) /\ Mirrored(t, SourceTip(t))
  \/ /\ ~UpToDate(t) /\ ~Behind(t)
     /\ quarantined' = quarantined \union {<<Other(t.from), t.branch, SourceTip(t)>>}
     /\ UNCHANGED remote

\* Mutation: the source is not asked whether it still lacks the branch.
GoneAtEvent(t) == TRUE

Gone(t) == SourceTip(t) = None

Refused(t) == IsDeletion(t) /\ Gone(t) /\ TargetTip(t) \notin {None, t.before}

DeleteBranch(t) ==
  \/ (~Gone(t) \/ TargetTip(t) = None) /\ UNCHANGED <<remote, quarantined>>
  \/ Gone(t) /\ TargetTip(t) = t.before /\ Mirrored(t, None)

\* Mutation: nothing is pushed, and the event counts as processed.
ProcessedNothing(t) == UNCHANGED <<remote, quarantined>>

Processed(t) ==
  \/ ~IsDeletion(t) /\ UpdateBranch(t)
  \/ IsDeletion(t) /\ DeleteBranch(t)

-----------------------------------------------------------------------------
(* The worker *)

\* The branch of one side needs nothing more from its poller.
Settled(s, b) ==
  LET src == remote[s][b]
      dst == remote[Other(s)][b]
  IN \/ src \in {None, dst}
     \/ dst # None /\ IsAncestor(src, dst)
     \/ <<Other(s), b, src>> \in quarantined

Queued == {t \in Transitions : status[t] = "queued"}
Running == {t \in Transitions : status[t] = "running"}

Claim(t) ==
  /\ Queue!Run(t)
  /\ UNCHANGED <<remote, quarantined, files, poll, moves, authored, reconciled, incidents>>

Succeed(t) ==
  /\ Queue!Succeed(t)
  /\ Processed(t)
  /\ reconciled' = reconciled \union {x \in {t} : Settled(x.from, x.branch)'}
  /\ UNCHANGED <<files, poll, moves, authored, incidents>>

\* The attempts are used up at once: each of them finds the same remotes.
Refuse(t) ==
  /\ Refused(t)
  /\ Queue!GiveUp(t)
  /\ UNCHANGED <<remote, quarantined, files, poll, moves, authored, reconciled, incidents>>

\* Process fails before or after its push, with or without attempts left.
ProcessFails(t) ==
  /\ Incident
  /\ Queue!Retry(t) \/ Queue!GiveUp(t)
  /\ Processed(t) \/ UNCHANGED <<remote, quarantined>>
  /\ UNCHANGED <<files, poll, moves, authored, reconciled>>

-----------------------------------------------------------------------------
(* pollOnce *)

At(p, step) == poll[p].step = step

Becomes(p, state) == poll' = [poll EXCEPT ![p] = state]

\* Somebody starts the command.
StartSync(p) ==
  /\ Incident
  /\ At(p, "stopped")
  /\ Becomes(p, Scanning("left"))
  /\ UNCHANGED <<remote, quarantined, files, status, moves, authored, reconciled>>

ScanSource(p) ==
  /\ At(p, "scanSource")
  /\ Becomes(p, [poll[p] EXCEPT !.step = "scanTarget", !.current = remote[poll[p].side]])
  /\ UNCHANGED <<remote, quarantined, files, status, moves, authored, reconciled, incidents>>

\* Mutation: a branch is reported when it changed since the last poll.
ChangedSinceSnapshot(s, current, target) ==
  {Transition(s, b, target[b], current[b]) :
     b \in {x \in Branches : current[x] \notin {None, target[x], snapshot[s].refs[x]}}}

Differences(s, current, target) ==
  {Transition(s, b, target[b], current[b]) :
     b \in {x \in Branches : current[x] \notin {None, target[x]}}}

\* Mutation: a branch that was not there is looked for as well.
DeletionsOfNothing(s, current, target) ==
  {Transition(s, b, snapshot[s].refs[b], None) :
     b \in {x \in Branches : current[x] = None /\ target[x] = snapshot[s].refs[x]}}

Deletions(s, current, target) ==
  {Transition(s, b, snapshot[s].refs[b], None) :
     b \in {x \in Branches : /\ current[x] = None
                             /\ snapshot[s].refs[x] # None
                             /\ target[x] = snapshot[s].refs[x]}}

Readable(s) == snapshot[s].state \in {"absent", "whole"}

Abandon(p) == Becomes(p, Resting(p))

\* A snapshot that cannot be decoded ends the poll with an error.
ScanTarget(p) ==
  LET q == poll[p]
      target == remote[Other(q.side)]
  IN /\ At(p, "scanTarget")
     /\ \/ ~Readable(q.side) /\ Abandon(p)
        \/ /\ Readable(q.side)
           /\ Becomes(p, [q EXCEPT
                !.step = "enqueue",
                !.todo = Differences(q.side, q.current, target)
                           \union Deletions(q.side, q.current, target)])
     /\ UNCHANGED <<remote, quarantined, files, status, moves, authored, reconciled, incidents>>

\* Changed branches come before deleted ones.
NextOf(p) ==
  LET todo == poll[p].todo
  IN IF \A t \in todo : IsDeletion(t) THEN todo ELSE {t \in todo : ~IsDeletion(t)}

HandOver(p, t) == Becomes(p, [poll[p] EXCEPT !.todo = @ \ {t}])

Fresh(t) == status[t] \in {"unknown", "failed"}

\* The daemon's Enqueue: a delivery that is queued, running or done is a
\* duplicate, and the poll goes on.
Enqueue(p, t) ==
  /\ p \in Polled
  /\ At(p, "enqueue")
  /\ t \in NextOf(p)
  /\ \/ Fresh(t) /\ Queue!Accept(t)
     \/ ~Fresh(t) /\ UNCHANGED status
  /\ HandOver(p, t)
  /\ UNCHANGED <<remote, quarantined, files, moves, authored, reconciled, incidents>>

\* The command's Enqueue is Process, and an error of it ends the command.
Direct(p, t) ==
  /\ p \in Syncs
  /\ At(p, "enqueue")
  /\ t \in NextOf(p)
  /\ \/ Processed(t) /\ HandOver(p, t)
     \/ Refused(t) /\ Abandon(p) /\ UNCHANGED <<remote, quarantined>>
  /\ UNCHANGED <<files, status, moves, authored, reconciled, incidents>>

\* ReconcileAll polls the left side, then the right side.
AfterSave(p) ==
  IF p \in Syncs /\ poll[p].side = "left" THEN Scanning("right") ELSE Resting(p)

\* saveSnapshot creates or empties the temporary file, writes it from its start
\* and renames it.
OpenTemp(p) ==
  /\ At(p, "enqueue")
  /\ poll[p].todo = {}
  /\ tmp' = [tmp EXCEPT ![poll[p].side] = File("empty")]
  /\ Becomes(p, [poll[p] EXCEPT !.step = "write", !.fd = "tmp"])
  /\ UNCHANGED <<remote, quarantined, snapshot, status, moves, authored, reconciled, incidents>>

WriteTemp(p) ==
  LET q == poll[p]
  IN /\ At(p, "write")
     /\ \/ /\ q.fd = "tmp"
           /\ \E f \in Overwritten(tmp[q.side], q.current) : tmp' = [tmp EXCEPT ![q.side] = f]
           /\ UNCHANGED snapshot
        \/ /\ q.fd = "snapshot"
           /\ \E f \in Overwritten(snapshot[q.side], q.current) :
                snapshot' = [snapshot EXCEPT ![q.side] = f]
           /\ UNCHANGED tmp
        \/ q.fd = "lost" /\ UNCHANGED files
     /\ Becomes(p, [q EXCEPT !.step = "rename", !.fd = "closed"])
     /\ UNCHANGED <<remote, quarantined, status, moves, authored, reconciled, incidents>>

\* What the others have open on a side, once its temporary file was renamed.
Moved(q, side) ==
  IF q.side # side THEN q
  ELSE [q EXCEPT !.fd = CASE q.fd = "tmp" -> "snapshot"
                          [] q.fd = "snapshot" -> "lost"
                          [] OTHER -> q.fd]

RenameTemp(p) ==
  LET s == poll[p].side
  IN /\ At(p, "rename")
     /\ \/ tmp[s].state = "absent" /\ Abandon(p) /\ UNCHANGED files
        \/ /\ tmp[s].state # "absent"
           /\ snapshot' = [snapshot EXCEPT ![s] = tmp[s]]
           /\ tmp' = [tmp EXCEPT ![s] = File("absent")]
           /\ poll' = [q \in Processes |-> IF q = p THEN AfterSave(p) ELSE Moved(poll[q], s)]
     /\ UNCHANGED <<remote, quarantined, status, moves, authored, reconciled, incidents>>

\* A scan, a file operation or an enqueue fails, or the command dies; an
\* enqueue may have dropped the failed delivery's record.
PollFails(p) ==
  /\ Incident
  /\ poll[p] # Resting(p)
  /\ Abandon(p)
  /\ \/ p \in Polled /\ At(p, "enqueue") /\ \E t \in NextOf(p) : Queue!Forget(t)
     \/ UNCHANGED status
  /\ UNCHANGED <<remote, quarantined, files, moves, authored, reconciled>>

\* The daemon dies and starts again: the polls are lost, and an event that was
\* running is queued again.
Crash ==
  /\ Incident
  /\ poll' = [p \in Processes |-> IF p \in Polled THEN Resting(p) ELSE poll[p]]
  /\ \/ \E t \in Running : Queue!Retry(t)
     \/ Running = {} /\ UNCHANGED status
  /\ UNCHANGED <<remote, quarantined, files, moves, authored, reconciled>>

-----------------------------------------------------------------------------
UserStep ==
  \E s \in Sides, b \in Branches :
    UserDelete(s, b) \/ \E c \in Commits : UserPush(s, b, c)

WorkerStep ==
  \/ \E t \in Queued : Claim(t)
  \/ \E t \in Running : Succeed(t) \/ Refuse(t)

PollStep(p) ==
  \/ ScanSource(p) \/ ScanTarget(p) \/ OpenTemp(p) \/ WriteTemp(p) \/ RenameTemp(p)
  \/ \E t \in poll[p].todo : Enqueue(p, t) \/ Direct(p, t)

Next ==
  \/ UserStep
  \/ WorkerStep
  \/ \E p \in Processes : PollStep(p) \/ PollFails(p) \/ StartSync(p)
  \/ \E t \in Running : ProcessFails(t)
  \/ Crash

Spec == Init /\ [][Next]_vars

(* Tickers keep firing, and git commands return. *)
FairSpec == Spec /\ WF_vars(WorkerStep) /\ \A p \in Polled : WF_vars(PollStep(p))

-----------------------------------------------------------------------------
(* Properties *)

Polls ==
  [step : Steps, side : Sides, current : Refs, todo : SUBSET Transitions, fd : Handles]

\* Every variable keeps its type; a process has a file open only to write it.
TypeOK ==
  /\ remote \in [Sides -> Refs]
  /\ quarantined \subseteq Sides \X Branches \X Commits
  /\ snapshot \in [Sides -> Files] /\ tmp \in [Sides -> Files]
  /\ poll \in [Processes -> Polls]
  /\ \A p \in Processes : poll[p].fd # "closed" <=> At(p, "write")
  /\ status \in [Transitions -> Queue!Statuses]
  /\ moves \in Nat
  /\ authored \in [Branches -> SUBSET Tips]
  /\ reconciled \subseteq Transitions
  /\ incidents \in Nat

\* gitmirror deletes a branch only when people deleted it somewhere: no stale
\* scan, snapshot of another process, failed poll or restart is taken for a
\* deletion.
DeletesOnlyAfterPeople ==
  [][\A s \in Sides, b \in Branches :
       /\ remote[s][b] # None /\ remote'[s][b] = None
       /\ moves' = moves
       => None \in authored[b]]_vars

\* What a poll of the branch would report was reported before, and had its effect:
\* its delivery is done, and with it the branch was settled.  People have since
\* brought both sides back to where it began.
Repeated(s, b) ==
  LET t == Transition(s, b, remote[Other(s)][b], remote[s][b])
  IN status[t] = "done" /\ t \in reconciled

\* Without any webhook, polling alone brings what people did to a polled side
\* to the other side or into quarantine there, after failed attempts, failed
\* polls, restarts and snapshots that two processes wrote at once, unless the
\* same transition was already brought there once, or the side's snapshot is
\* garbled for good.
Reconciles ==
  <>[]\A s \in Polled, b \in Branches : Settled(s, b) \/ Repeated(s, b) \/ ~Readable(s)

\* poller_test.go: a poll that finds the counterpart without the branch again
\* reports the same transition again, and the counterpart gets the branch.
RepeatedTransitionIsReconciled ==
  <>[](\A b \in Branches, s \in Polled : Settled(s, b))

Promise == INSTANCE MirrorPromise WITH Protected <- {}, asked <- {}, granted <- {}

\* Whatever is polled, queued, retried and reported from old snapshots, gitmirror
\* does to the two remotes only what MirrorPromise allows.
KeepsPromise == Promise!Spec

==========================================================================
