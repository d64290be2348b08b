--------------------------- MODULE BranchSync ---------------------------
(***************************************************************************)
(* The synchronization of one repository pair: Syncer.Process and          *)
(* Syncer.Approve of internal/syncer with the requests of                  *)
(* internal/approval, run by the daemon's worker, by "gitmirror sync" and  *)
(* by "gitmirror approvals approve", while people push to both remotes.    *)
(*                                                                         *)
(* Nothing locks a remote or the pair's local bare repository, so every    *)
(* git command that reads or writes a remote is a step of its own, and     *)
(* other actors may act between any two of them.  Commands that only read  *)
(* the local repository (merge-base) are merged with the fetch before      *)
(* them: commits are only ever added to it.                                *)
(*                                                                         *)
(* The local ref refs/gitmirror/target is written and never read, so it is *)
(* left out.  Quarantine branches have random names; what matters is which *)
(* tip was kept for which branch.                                          *)
(***************************************************************************)
EXTENDS Naturals, RepositoryPair

CONSTANTS
  InitialTips,     \* what both sides may hold when the model starts
  Protected,       \* <<side, branch>>: human_in_loop_branches of that side
  Workers,         \* the daemon's worker goroutine
  Syncs,           \* "gitmirror sync" commands
  Approvers,       \* "gitmirror approvals approve" commands
  UserMoves,       \* what people do: "advance", "rewrite", "delete"
  MaxMoves,        \* bound on what people do
  Faults,          \* may git commands fail and processes die?
  QuarantineTries  \* attempts to create a quarantine branch, 3 in the code

Processes == Workers \union Syncs \union Approvers

ASSUME SyncAssumption ==
  /\ InitialTips \subseteq Tips
  /\ Protected \subseteq Sides \X Branches
  /\ Workers \intersect Syncs = {} /\ Workers \intersect Approvers = {}
  /\ Syncs \intersect Approvers = {}
  /\ UserMoves \subseteq {"advance", "rewrite", "delete"}
  /\ MaxMoves \in Nat
  /\ Faults \in BOOLEAN
  /\ QuarantineTries \in Nat \ {0}

(* Push events as the queue hands them to Process, and approval requests.   *)
(* A deletion carries the SHA it removed; a request whose "after" is None   *)
(* asks for a deletion, one whose "before" is None for a creation.          *)
Events ==
  [kind : {"update"}, from : Sides, branch : Branches, before : {None}] \union
  [kind : {"delete"}, from : Sides, branch : Branches, before : Commits]
Requests == [from : Sides, branch : Branches, before : Tips, after : Tips]

VARIABLES
  remote,       \* side -> branch -> tip
  quarantined,  \* side -> {<<branch, tip>>} kept there in quarantine branches
  srcRef,       \* refs/gitmirror/source of the pair's bare repository
  objects,      \* commits present in the bare repository
  inbox,        \* push events of the queue that are not being processed
  op,           \* process -> the call it is in, with its local variables
  pending,      \* approval requests, by directory of the store
  halfWritten,  \* those whose file in pending is created and not yet written
  approved,
  rejected,
  (* observation only, except for the bound and the deletions that "gitmirror *)
  (* sync" may find *)
  moves,        \* what people did so far
  calm,         \* processes nobody interfered with since they started
  authored      \* branch -> tips people gave it on either side, None by deleting it

store == <<pending, halfWritten, approved, rejected>>
ghosts == <<moves, calm, authored>>
vars == <<remote, quarantined, srcRef, objects, inbox, op, store, ghosts>>

Steps == {"idle", "lsSource", "fetchSource", "lsTarget", "fetchTarget", "gate",
          "write", "dryRun", "push", "quarantine", "dryDelete", "delete", "complete"}
Kinds == {"update", "delete", "approve"}

Idle == [pc |-> "idle", kind |-> "update", from |-> "left", branch |-> None,
         before |-> None, after |-> None, src |-> None, dst |-> None, tries |-> 0]

Begin(kind, x, after) ==
  [pc |-> "lsSource", kind |-> kind, from |-> x.from, branch |-> x.branch,
   before |-> x.before, after |-> after, src |-> None, dst |-> None, tries |-> 0]

Update(side, b) == [kind |-> "update", from |-> side, branch |-> b, before |-> None]
Delete(side, b, c) == [kind |-> "delete", from |-> side, branch |-> b, before |-> c]
EventOf(o) == [kind |-> o.kind, from |-> o.from, branch |-> o.branch, before |-> o.before]
Request(o, before, after) ==
  [from |-> o.from, branch |-> o.branch, before |-> before, after |-> after]

To(o) == Other(o.from)
SourceTip(o) == remote[o.from][o.branch]
TargetTip(o) == remote[To(o)][o.branch]

Init ==
  /\ \E tips \in [Branches -> InitialTips] :
       /\ remote = [s \in Sides |-> tips]
       /\ objects = {c \in Commits : \E b \in Branches : tips[b] # None /\ IsAncestor(c, tips[b])}
       /\ authored = [b \in Branches |-> {tips[b]} \ {None}]
  /\ quarantined = [s \in Sides |-> {}]
  /\ srcRef = None
  /\ inbox = {}
  /\ op = [p \in Processes |-> Idle]
  /\ pending = {} /\ halfWritten = {} /\ approved = {} /\ rejected = {}
  /\ moves = 0
  /\ calm = {}

-----------------------------------------------------------------------------
(* People push to and delete branches of either remote; the provider sends *)
(* a webhook for it, which is lost when no daemon runs.                    *)

Heard(events) == IF Workers = {} THEN {} ELSE events

Unsettle(b) == calm' = {p \in calm : op[p].branch # b}

UserPush(s, b, c) ==
  /\ moves < MaxMoves
  /\ c # remote[s][b]
  /\ \/ /\ "advance" \in UserMoves
        /\ remote[s][b] = None \/ IsAncestor(remote[s][b], c)
     \/ "rewrite" \in UserMoves
  /\ remote' = [remote EXCEPT ![s][b] = c]
  /\ inbox' = inbox \union Heard({Update(s, b)})
  /\ moves' = moves + 1
  /\ authored' = [authored EXCEPT ![b] = @ \union {c}]
  /\ Unsettle(b)
  /\ UNCHANGED <<quarantined, srcRef, objects, op, store>>

UserDelete(s, b) ==
  /\ moves < MaxMoves
  /\ "delete" \in UserMoves
  /\ remote[s][b] # None
  /\ remote' = [remote EXCEPT ![s][b] = None]
  /\ inbox' = inbox \union Heard({Delete(s, b, remote[s][b])})
  /\ moves' = moves + 1
  /\ authored' = [authored EXCEPT ![b] = @ \union {None}]
  /\ Unsettle(b)
  /\ UNCHANGED <<quarantined, srcRef, objects, op, store>>

-----------------------------------------------------------------------------
(* Starting and ending a call *)

\* The process's local variables after the step.
Becomes(p, o) == op' = [op EXCEPT ![p] = o]

Enter(p, o) ==
  /\ op[p] = Idle
  /\ Becomes(p, o)
  /\ calm' = calm \union {p}
  /\ UNCHANGED <<remote, quarantined, srcRef, objects, store, moves, authored>>

\* The worker claims an event and calls Process.
TakeEvent(p, e) ==
  /\ p \in Workers
  /\ e \in inbox
  /\ inbox' = inbox \ {e}
  /\ Enter(p, Begin(e.kind, e, None))

\* "gitmirror sync" calls Process for the branches that its scan of both
\* remotes found different or deleted.  The scan and its snapshot are left out:
\* an update may be found at any time (the call reads both tips again), a
\* deletion while the target still has the tip that was last seen, and only
\* after people deleted the branch (Poller's DeletesOnlyAfterPeople).
StartSync(p, e) ==
  /\ p \in Syncs
  /\ e.kind = "delete" => /\ e.before = remote[Other(e.from)][e.branch]
                          /\ None \in authored[e.branch]
  /\ UNCHANGED inbox
  /\ Enter(p, Begin(e.kind, e, None))

\* Store.Load: the file of a pending request that can be decoded.
Readable == pending \ halfWritten

\* "gitmirror approvals approve": Approve loads the pending request.
LoadRequest(p, r) ==
  /\ p \in Approvers
  /\ r \in Readable
  /\ UNCHANGED inbox
  /\ Enter(p, Begin("approve", r, r.after))

At(p, step) == op[p].pc = step

Goto(p, step) == Becomes(p, [op[p] EXCEPT !.pc = step])

\* The call returns nil (or, for a command, prints its error and exits).
Return(p) == Becomes(p, Idle) /\ UNCHANGED inbox

\* The call returns an error: the worker's event is tried again, unless it was
\* tried often enough.
ReturnError(p) ==
  /\ Becomes(p, Idle)
  /\ \E again \in SUBSET {EventOf(op[p])} :
       /\ p \in Workers \/ again = {}
       /\ inbox' = inbox \union again

\* Another process wrote the tip of branch b or completed a request for it, or
\* wrote the shared local ref.
Disturb(p, b) == calm' = {q \in calm : q = p \/ op[q].branch # b}
DisturbAll(p) == calm' = calm \intersect {p}

-----------------------------------------------------------------------------
(* The steps of updateBranch, deleteBranch and Approve *)

Proceed(p, o) == Becomes(p, o) /\ UNCHANGED inbox

UpdateReadsSource(p) ==
  LET tip == SourceTip(op[p])
  IN \/ tip = None /\ Return(p)
     \/ tip # None /\ Proceed(p, [op[p] EXCEPT !.src = tip, !.pc = "fetchSource"])

DeleteReadsSource(p) ==
  LET tip == SourceTip(op[p])
  IN \/ tip # None /\ Return(p)
     \/ tip = None /\ Proceed(p, [op[p] EXCEPT !.src = tip, !.pc = "lsTarget"])

ApproveReadsSource(p) ==
  Proceed(p, [op[p] EXCEPT !.src = SourceTip(op[p]), !.pc = "lsTarget"])

LsSource(p) ==
  /\ At(p, "lsSource")
  /\ \/ op[p].kind = "update" /\ UpdateReadsSource(p)
     \/ op[p].kind = "delete" /\ DeleteReadsSource(p)
     \/ op[p].kind = "approve" /\ ApproveReadsSource(p)
  /\ UNCHANGED <<remote, quarantined, srcRef, objects, store, ghosts>>

\* Mutation: a commit that is already there is not fetched into the ref.
FetchedIfNew(tip) == IF tip \in objects THEN srcRef ELSE tip

Fetched(tip) == tip

FetchSource(p) ==
  LET o == op[p]
      tip == SourceTip(o)
      next == IF o.kind = "update" THEN "lsTarget"
              ELSE IF o.dst = None THEN "dryRun" ELSE "fetchTarget"
  IN /\ At(p, "fetchSource")
     /\ \/ /\ tip = None
           /\ ReturnError(p)
           /\ UNCHANGED <<srcRef, objects, calm>>
        \/ /\ tip # None
           /\ srcRef' = Fetched(tip)
           /\ objects' = objects \union History(tip)
           /\ DisturbAll(p)
           /\ Goto(p, next)
           /\ UNCHANGED inbox
     /\ UNCHANGED <<remote, quarantined, store, moves, authored>>

\* Mutations: the gate looks at the side the change comes from; the approval
\* only checks the side it writes to.
GatedAtSource(o) == <<o.from, o.branch>> \in Protected
StillTargetOnly(o, tip) == tip = o.before

Gated(o) == <<To(o), o.branch>> \in Protected

\* Approve: both sides are as they were when the request was made.
StillCurrent(o, tip) == o.src = o.after /\ tip = o.before

\* Mutation: a deletion is asked for as if it were an update.
AskedAsUpdate(o) == Request(o, o.dst, o.src)

\* The request of a call that met the gate.
Asked(o) ==
  IF o.kind = "delete" THEN Request(o, o.before, None) ELSE Request(o, o.dst, o.src)

\* Create opens the file named after the transition, which empties one that is
\* already there, and then writes it.
AskHuman(p) ==
  /\ pending' = pending \union {Asked(op[p])}
  /\ halfWritten' = halfWritten \union {Asked(op[p])}
  /\ Goto(p, "write")
  /\ UNCHANGED <<inbox, approved, rejected>>

\* Mutation: deleteBranch trusts the event.
DeletableUnseen(o, tip) == TRUE

Deletable(o, tip) == tip = o.before

UpdateReadsTarget(p) ==
  LET o == op[p]
      tip == TargetTip(o)
  IN /\ \/ tip = o.src /\ Return(p)
        \/ tip # o.src /\ tip = None /\ Proceed(p, [o EXCEPT !.dst = tip, !.pc = "gate"])
        \/ tip # o.src /\ tip # None /\ Proceed(p, [o EXCEPT !.dst = tip, !.pc = "fetchTarget"])
     /\ UNCHANGED store

DeleteReadsTarget(p) ==
  LET o == op[p]
      tip == TargetTip(o)
  IN \/ tip = None /\ Return(p) /\ UNCHANGED store
     \/ tip # None /\ ~Deletable(o, tip) /\ ReturnError(p) /\ UNCHANGED store
     \/ tip # None /\ Deletable(o, tip) /\ Gated(o) /\ AskHuman(p)
     \/ /\ tip # None /\ Deletable(o, tip) /\ ~Gated(o)
        /\ Proceed(p, [o EXCEPT !.dst = tip, !.pc = "dryDelete"])
        /\ UNCHANGED store

ApproveReadsTarget(p) ==
  LET o == op[p]
      tip == TargetTip(o)
      step == IF o.after = None THEN "dryDelete" ELSE "fetchSource"
  IN /\ \/ ~StillCurrent(o, tip) /\ ReturnError(p)
        \/ StillCurrent(o, tip) /\ Proceed(p, [o EXCEPT !.dst = tip, !.pc = step])
     /\ UNCHANGED store

LsTarget(p) ==
  /\ At(p, "lsTarget")
  /\ \/ op[p].kind = "update" /\ UpdateReadsTarget(p)
     \/ op[p].kind = "delete" /\ DeleteReadsTarget(p)
     \/ op[p].kind = "approve" /\ ApproveReadsTarget(p)
  /\ UNCHANGED <<remote, quarantined, srcRef, objects, ghosts>>

\* Mutation: a diverged source counts as a stale one.
StaleOrDiverged(o) == ~IsAncestor(o.dst, o.src)

Stale(o) == IsAncestor(o.src, o.dst)

Behind(o) == IsAncestor(o.dst, o.src)

CompareUpdate(p) ==
  \/ Behind(op[p]) /\ Goto(p, "gate") /\ UNCHANGED inbox
  \/ ~Behind(op[p]) /\ Stale(op[p]) /\ Return(p)
  \/ ~Behind(op[p]) /\ ~Stale(op[p]) /\ Goto(p, "quarantine") /\ UNCHANGED inbox

CompareApproved(p) ==
  \/ Behind(op[p]) /\ Goto(p, "dryRun") /\ UNCHANGED inbox
  \/ ~Behind(op[p]) /\ ReturnError(p)

\* The target is fetched, and the two tips read by ls-remote are compared; a
\* tip that is no longer on its branch may be missing from the repository.
FetchTarget(p) ==
  LET o == op[p]
      tip == TargetTip(o)
      fetched == objects \union History(tip)
      comparable == tip # None /\ {o.src, o.dst} \subseteq fetched
  IN /\ At(p, "fetchTarget")
     /\ objects' = IF tip = None THEN objects ELSE fetched
     /\ \/ ~comparable /\ ReturnError(p)
        \/ comparable /\ o.kind = "update" /\ CompareUpdate(p)
        \/ comparable /\ o.kind = "approve" /\ CompareApproved(p)
     /\ UNCHANGED <<remote, quarantined, srcRef, store, ghosts>>

Gate(p) ==
  LET o == op[p]
  IN /\ At(p, "gate")
     /\ \/ Gated(o) /\ AskHuman(p)
        \/ ~Gated(o) /\ Goto(p, "dryRun") /\ UNCHANGED <<inbox, store>>
     /\ UNCHANGED <<remote, quarantined, srcRef, objects, ghosts>>

WriteRequest(p) ==
  /\ At(p, "write")
  /\ halfWritten' = halfWritten \ {Asked(op[p])}
  /\ Return(p)
  /\ UNCHANGED <<remote, quarantined, srcRef, objects, pending, approved, rejected, ghosts>>

-----------------------------------------------------------------------------
(* pushOrQuarantine, quarantine and strictDelete.  A push without force is *)
(* refused unless the tip it replaces is known locally and an ancestor.    *)

\* Mutation: the push is forced.
PushableForced(new, old) == TRUE

Pushable(new, old) == old = None \/ (old \in objects /\ IsAncestor(old, new))

\* After the last command: an approval still has to be completed.
Done(p) ==
  IF op[p].kind = "approve" THEN Goto(p, "complete") ELSE Becomes(p, Idle)

DryRun(p) ==
  /\ At(p, "dryRun")
  /\ Goto(p, IF Pushable(srcRef, TargetTip(op[p])) THEN "push" ELSE "quarantine")
  /\ UNCHANGED <<remote, quarantined, srcRef, objects, inbox, store, ghosts>>

\* The target takes the tip of the shared local ref, or loses its branch, and
\* its provider sends a webhook for that push too.
Write(p, tip) ==
  /\ remote' = [remote EXCEPT ![To(op[p])][op[p].branch] = tip]
  /\ Disturb(p, op[p].branch)

Echo(o, tip) ==
  IF tip = TargetTip(o) THEN {}
  ELSE IF tip = None THEN {Delete(To(o), o.branch, TargetTip(o))}
  ELSE {Update(To(o), o.branch)}

Announce(p, tip) == inbox' = inbox \union Heard(Echo(op[p], tip))

Push(p) ==
  LET o == op[p]
  IN /\ At(p, "push")
     /\ \/ Pushable(srcRef, TargetTip(o)) /\ Write(p, srcRef) /\ Announce(p, srcRef) /\ Done(p)
        \/ ~Pushable(srcRef, TargetTip(o)) /\ Goto(p, "quarantine")
           /\ UNCHANGED <<remote, inbox, calm>>
     /\ UNCHANGED <<quarantined, srcRef, objects, store, moves, authored>>

\* Mutations: the quarantine push is skipped; every quarantine push goes to the
\* same branch.
KeepNothing(o) == UNCHANGED quarantined
KeepLatest(o) == quarantined' = [quarantined EXCEPT ![To(o)] = {<<o.branch, srcRef>>}]

Keep(o) == quarantined' = [quarantined EXCEPT ![To(o)] = @ \union {<<o.branch, srcRef>>}]

Quarantine(p) ==
  /\ At(p, "quarantine")
  /\ Keep(op[p])
  /\ Done(p)
  /\ UNCHANGED <<remote, srcRef, objects, inbox, store, ghosts>>

DryDelete(p) ==
  /\ At(p, "dryDelete")
  /\ \/ TargetTip(op[p]) # None /\ Goto(p, "delete") /\ UNCHANGED inbox
     \/ TargetTip(op[p]) = None /\ ReturnError(p)
  /\ UNCHANGED <<remote, quarantined, srcRef, objects, store, ghosts>>

\* The deletion names the branch and not the SHA it expects there.
StrictDelete(p) ==
  /\ At(p, "delete")
  /\ \/ TargetTip(op[p]) # None /\ Write(p, None) /\ Announce(p, None) /\ Done(p)
     \/ TargetTip(op[p]) = None /\ ReturnError(p) /\ UNCHANGED <<remote, calm>>
  /\ UNCHANGED <<quarantined, srcRef, objects, store, moves, authored>>

-----------------------------------------------------------------------------
(* approval.Store: Complete and Reject move the request's file, written or  *)
(* not; ListPending needs all files written.                                *)

RequestOf(o) == Request(o, o.before, o.after)

\* Store.move out of the directory of pending requests.
MovesAway(r) == pending' = pending \ {r} /\ halfWritten' = halfWritten \ {r}

Complete(p) ==
  /\ At(p, "complete")
  /\ MovesAway(RequestOf(op[p]))
  /\ approved' = IF RequestOf(op[p]) \in pending THEN approved \union {RequestOf(op[p])} ELSE approved
  /\ Disturb(p, op[p].branch)
  /\ Return(p)
  /\ UNCHANGED <<remote, quarantined, srcRef, objects, rejected, moves, authored>>

Reject(r) ==
  /\ r \in pending
  /\ MovesAway(r)
  /\ rejected' = rejected \union {r}
  /\ UNCHANGED <<remote, quarantined, srcRef, objects, inbox, op, approved, ghosts>>

ListPendingWorks == pending = Readable

-----------------------------------------------------------------------------
(* Failures: a git command fails, a push succeeds but is reported as        *)
(* failed or prints to stderr, a process dies.                              *)

CommandFails(p) ==
  /\ Faults
  /\ \/ /\ op[p].pc \in {"lsSource", "fetchSource", "lsTarget", "fetchTarget", "write",
                        "dryDelete", "delete"}
        /\ ReturnError(p)
     \/ op[p].pc \in {"dryRun", "push"} /\ Goto(p, "quarantine") /\ UNCHANGED inbox
  /\ UNCHANGED <<remote, quarantined, srcRef, objects, store, ghosts>>

AnswerLost(p) ==
  LET o == op[p]
  IN /\ Faults
     /\ \/ /\ At(p, "push") /\ Pushable(srcRef, TargetTip(o))
           /\ Write(p, srcRef)
           /\ Announce(p, srcRef)
           /\ Goto(p, "quarantine")
        \/ /\ At(p, "delete") /\ TargetTip(o) # None
           /\ Write(p, None)
           /\ Becomes(p, Idle)
           /\ \E again \in SUBSET {EventOf(o)} :
                /\ p \in Workers \/ again = {}
                /\ inbox' = inbox \union Heard(Echo(o, None)) \union again
     /\ UNCHANGED <<quarantined, srcRef, objects, store, moves, authored>>

\* Mutation: one attempt more than the loop makes.
TriesLeftInclusive(o) == o.tries + 1 <= QuarantineTries

TriesLeft(o) == o.tries + 1 < QuarantineTries

QuarantineFails(p) ==
  LET o == op[p]
  IN /\ Faults
     /\ At(p, "quarantine")
     /\ Keep(o) \/ UNCHANGED quarantined
     /\ \/ /\ TriesLeft(o)
           /\ Becomes(p, [o EXCEPT !.tries = @ + 1])
           /\ UNCHANGED inbox
        \/ ~TriesLeft(o) /\ ReturnError(p)
     /\ UNCHANGED <<remote, srcRef, objects, store, ghosts>>

Dies(p) ==
  /\ Faults
  /\ op[p] # Idle
  /\ Becomes(p, Idle)
  /\ inbox' = IF p \in Workers THEN inbox \union {EventOf(op[p])} ELSE inbox
  /\ UNCHANGED <<remote, quarantined, srcRef, objects, store, ghosts>>

-----------------------------------------------------------------------------

UserStep ==
  \E s \in Sides, b \in Branches :
    UserDelete(s, b) \/ \E c \in Commits : UserPush(s, b, c)

StartStep(p) ==
  \/ \E e \in inbox : TakeEvent(p, e)
  \/ \E e \in Events : StartSync(p, e)
  \/ \E r \in pending : LoadRequest(p, r)

SyncStep(p) ==
  \/ LsSource(p) \/ FetchSource(p) \/ LsTarget(p) \/ FetchTarget(p) \/ Gate(p)
  \/ WriteRequest(p) \/ DryRun(p) \/ Push(p) \/ Quarantine(p) \/ DryDelete(p) \/ StrictDelete(p)
  \/ Complete(p)

FaultStep(p) == CommandFails(p) \/ AnswerLost(p) \/ QuarantineFails(p) \/ Dies(p)

Next ==
  \/ UserStep
  \/ \E p \in Processes : StartStep(p) \/ SyncStep(p) \/ FaultStep(p)
  \/ \E r \in pending : Reject(r)

Spec == Init /\ [][Next]_vars

(* The worker polls its queue forever and every git command returns.        *)
FairSpec ==
  Spec /\ \A p \in Workers : WF_vars(StartStep(p)) /\ WF_vars(SyncStep(p))

-----------------------------------------------------------------------------
(* Properties *)

Ops == [pc : Steps, kind : Kinds, from : Sides, branch : Branches \union {None},
        before : Tips, after : Tips, src : Tips, dst : Tips, tries : 0..(QuarantineTries - 1)]

Typed(p, o) ==
  /\ o \in Ops
  /\ o # Idle => /\ o.branch \in Branches
                 /\ p \in Workers => EventOf(o) \in Events
                 /\ p \in Approvers <=> o.kind = "approve"

\* Every variable keeps its type, and each kind of process only makes its
\* calls.
TypeOK ==
  /\ remote \in [Sides -> [Branches -> Tips]]
  /\ quarantined \in [Sides -> SUBSET (Branches \X Commits)]
  /\ srcRef \in Tips
  /\ objects \in SUBSET Commits
  /\ inbox \in SUBSET Events
  /\ op \in [Processes -> Ops]
  /\ \A p \in Processes : Typed(p, op[p])
  /\ pending \in SUBSET Requests /\ halfWritten \in SUBSET pending
  /\ approved \in SUBSET Requests /\ rejected \in SUBSET Requests
  /\ moves \in Nat
  /\ calm \in SUBSET Processes
  /\ authored \in [Branches -> SUBSET Tips]

\* p, and not a person, changes branch b of a side in this step.
Changes(p, s, b) ==
  /\ op'[p] # op[p]
  /\ moves' = moves
  /\ remote'[s][b] # remote[s][b]

\* README: updates "may not change left/main until a human explicitly approves".
\* Only "approvals approve" changes a protected branch of a destination: every
\* path of the worker and of "gitmirror sync" meets the gate before it writes.
ProtectedOnlyByApproval ==
  [][\A p \in Workers \union Syncs, s \in Sides, b \in Branches :
       Changes(p, s, b) => <<s, b>> \notin Protected]_vars

\* The change a process makes is the one it decided on: an approval makes the
\* approved transition, a deletion removes the SHA the event named, an update
\* makes the target equal to the source it was compared with.
Exact(p, s, b) ==
  LET o == op[p]
  IN CASE o.kind = "approve" -> remote[s][b] = o.before /\ remote'[s][b] = o.after
       [] o.kind = "delete" -> remote[s][b] = o.before /\ remote'[s][b] = None
       [] o.kind = "update" -> remote'[s][b] = o.src /\ o.src = remote[o.from][b]

\* Nobody pushed to the branch, and no other process fetched, since the call
\* started: then what it writes is exact, whatever failed on the way.
ExactWhenCalm ==
  [][\A p \in calm, s \in Sides, b \in Branches : Changes(p, s, b) => Exact(p, s, b)]_vars

\* README: "Approval is bound to the exact source SHA and the exact target SHA
\* ... If either side moved, the approval expires and nothing is pushed."
ApprovalIsExact ==
  [][\A p \in Approvers, s \in Sides, b \in Branches : Changes(p, s, b) => Exact(p, s, b)]_vars

\* README: "branch deletion only propagates when the destination still points
\* at the expected pre-delete SHA".
DeletionIsExact ==
  [][\A p \in Workers, s \in Sides, b \in Branches :
       Changes(p, s, b) /\ op[p].kind = "delete" => Exact(p, s, b)]_vars

\* A tip that people put on one branch never shows up on another branch of
\* either side: the local ref every call shares holds its own branch's tip
\* whenever it is pushed.
BranchesApart ==
  \A s \in Sides, b \in Branches : remote[s][b] \in authored[b] \union {None}

\* The call of p ends, and not because its last command failed or p died.
Ends(p) == op[p] # Idle /\ op'[p] = Idle /\ ~FaultStep(p)

\* Nothing is silently dropped: an update call nobody interfered with ends
\* with the target equal to or ahead of the source, with the source's tip kept
\* in quarantine on the target, or with a request for exactly this change that
\* can be read or was rejected, unless its last command failed or its process died.
Accounted(s, b) ==
  LET src == remote[s][b]
      dst == remote[Other(s)][b]
  IN \/ src \in {None, dst}
     \/ dst # None /\ IsAncestor(src, dst)
     \/ <<b, src>> \in quarantined[Other(s)]
     \/ [from |-> s, branch |-> b, before |-> dst, after |-> src]
          \in Readable \union rejected

UpdateIsAccountedFor ==
  [][\A p \in calm, s \in Sides, b \in Branches :
       /\ Ends(p)
       /\ op[p].kind = "update" /\ op[p].from = s /\ op[p].branch = b
       => Accounted(s, b)']_vars

\* Nor is a deletion: a call nobody interfered with ends because the source has
\* the branch again, because the target does not have the tip that the event
\* named, or with a request for exactly this deletion that can be read or was
\* rejected.
DeletionAccounted(e) ==
  \/ remote[e.from][e.branch] # None
  \/ remote[Other(e.from)][e.branch] # e.before
  \/ Request(e, e.before, None) \in Readable \union rejected

DeletionIsAccountedFor ==
  [][\A p \in calm, e \in Events :
       Ends(p) /\ e.kind = "delete" /\ EventOf(op[p]) = e => DeletionAccounted(e)']_vars

Recorded == pending \union approved \union rejected

\* What a person approved is done and only then answered: a call of Approve that
\* nobody interfered with ends with the approved tip on the target or kept in
\* quarantine there, and with the request approved, or rejected by somebody
\* meanwhile; or one of the sides is not what was approved, and the request stays.
\* Approve does not learn which of them pushOrQuarantine did.
Answered(r) ==
  LET src == remote[r.from][r.branch]
      dst == remote[Other(r.from)][r.branch]
  IN \/ /\ dst = r.after \/ <<r.branch, r.after>> \in quarantined[Other(r.from)]
        /\ r \in (approved \union rejected) \ pending
     \/ /\ src # r.after \/ dst # r.before
        /\ r \in pending \union rejected

ApprovalIsAnswered ==
  [][\A p \in calm, r \in Recorded :
       Ends(p) /\ op[p].kind = "approve" /\ RequestOf(op[p]) = r => Answered(r)']_vars

\* When people stop pushing, the tip each side was left with reaches the other
\* side, or is behind what is there, or is kept there in quarantine, or a human
\* was asked about it, and "approvals list" shows that: no push is forgotten by
\* interleaved calls.
Delivered(s, b) ==
  LET tip == remote[s][b]
      there == remote[Other(s)][b]
  IN \/ tip \in {None, there}
     \/ there # None /\ IsAncestor(tip, there)
     \/ <<b, tip>> \in quarantined[Other(s)]
     \/ \E r \in Readable \union rejected : r.from = s /\ r.branch = b /\ r.after = tip

Settled == ListPendingWorks /\ \A s \in Sides, b \in Branches : Delivered(s, b)

Converges == <>[]Settled

\* No tip waits for a next event of its branch, a poll or a restart: whenever all
\* events are handled and no call runs, every tip people or pushes left on
\* either side has reached the other side, was overtaken there, is kept there
\* in quarantine, or waits for a human.
NothingForgotten ==
  inbox = {} /\ (\A p \in Processes : op[p] = Idle) => Settled

\* The two remotes as people see them: what was kept aside, which changes of
\* protected branches gitmirror asked for, and which of them an approver's call
\* is making.
Change(r) == [side |-> Other(r.from), branch |-> r.branch, removal |-> r.after = None]

AskedFor == {Change(r) : r \in Recorded}

Granted == {Change(RequestOf(op[p])) : p \in {q \in Approvers : op[q] # Idle}}

KeptAside ==
  {kept \in Sides \X Branches \X Commits : <<kept[2], kept[3]>> \in quarantined[kept[1]]}

Promise == INSTANCE MirrorPromise
  WITH quarantined <- KeptAside, asked <- AskedFor, granted <- Granted

\* All calls of all processes together, in any interleaving and with any
\* failures, do to the two remotes only what MirrorPromise allows.
KeepsPromise == Promise!Spec

==========================================================================
