---------------------- MODULE BranchSyncPromiseProofs ---------------------
(***************************************************************************)
(* BranchSync implements MirrorPromise, for any commit graph, any          *)
(* branches, any set of protected branches, any number of workers,         *)
(* commands and approvers, and any failures.                               *)
(***************************************************************************)
EXTENDS BranchSyncProofs

Published == Promise!Published

ForPush == {"fetchSource", "fetchTarget", "dryRun", "push", "quarantine"}
ForDeletion == {"dryDelete", "delete"}

(* What a call may do at its steps: an approval pushes or deletes as its    *)
(* request says and never asks again, and an update found a tip at its      *)
(* source.                                                                  *)
Fits(o) ==
  /\ o.kind = "approve" /\ o.pc \in ForPush => o.after # None
  /\ o.pc \in ForDeletion => o.kind # "update" /\ (o.kind = "approve" => o.after = None)
  /\ o.kind = "update" /\ o.pc \notin {"idle", "lsSource"} => o.src # None
  /\ o.pc = "gate" => o.kind = "update"
  /\ o.pc = "write" => o.kind # "approve"

(* Why it was made: a deletion follows one that people made, an approval    *)
(* follows a recorded request.                                              *)
Grounded(o) ==
  o # Idle =>
    /\ o.kind = "delete" => None \in authored[o.branch]
    /\ o.kind = "approve" => RequestOf(o) \in Recorded

(* People pushed every tip there is, and every deletion that is heard of or *)
(* requested follows one of theirs.                                         *)
Origins ==
  /\ \A s \in Sides, b \in Branches : remote[s][b] \in Published \union {None}
  /\ srcRef \in Published \union {None}
  /\ \A e \in inbox : e.kind = "delete" => None \in authored[e.branch]
  /\ \A r \in Recorded : r.after = None => None \in authored[r.branch]

PromiseInv == Origins /\ \A p \in Processes : Fits(op[p]) /\ Grounded(op[p])

-----------------------------------------------------------------------------
(* What every step keeps *)

\* Nothing that people did is forgotten, and no request leaves the records.
LEMMA RecordsGrow ==
  ASSUME SyncInv, Next
  PROVE  /\ \A b \in Branches : authored[b] \subseteq authored'[b]
         /\ Recorded \subseteq Recorded'
<1>1. CASE UserStep
  <2>1. PICK b \in Branches : \E tip : authored' = [authored EXCEPT ![b] = @ \union {tip}]
    BY <1>1 DEF UserStep, UserPush, UserDelete
  <2>2. Recorded' = Recorded
    BY <1>1 DEF UserStep, UserPush, UserDelete, store, Recorded
  <2> QED
    BY <2>1, <2>2 DEF SyncInv, Data
<1>2. CASE \E p \in Processes : StartStep(p)
  BY <1>2 DEF StartStep, TakeEvent, StartSync, LoadRequest, Enter, store, Recorded
<1>3. ASSUME NEW p \in Processes, SyncStep(p) \/ FaultStep(p)
      PROVE  authored' = authored /\ Recorded \subseteq Recorded'
  BY <1>3 DEF SyncStep, FaultStep, LsSource, FetchSource, LsTarget, UpdateReadsTarget,
       DeleteReadsTarget, ApproveReadsTarget, FetchTarget, Gate, AskHuman, WriteRequest, DryRun,
       Push, Quarantine, DryDelete, StrictDelete, Complete, MovesAway, CommandFails, AnswerLost,
       QuarantineFails, Dies, store, ghosts, Recorded
<1>4. CASE \E r \in pending : Reject(r)
  BY <1>4 DEF Reject, MovesAway, ghosts, Recorded
<1> QED
  BY <1>1, <1>2, <1>3, <1>4 DEF Next

\* A call goes on with the arguments it was made with, or it ends.
Same(o, o2) ==
  /\ o2.kind = o.kind /\ o2.from = o.from /\ o2.branch = o.branch
  /\ o2.before = o.before /\ o2.after = o.after

LEMMA GotoSame ==
  ASSUME SyncInv, NEW p \in Processes, NEW pc, Goto(p, pc)
  PROVE  Same(op[p], op'[p]) /\ op'[p].pc = pc /\ op'[p].src = op[p].src
BY GotoFacts DEF Same

LEMMA IdleFits ==
  ASSUME SyncInv, NEW p \in Processes, Becomes(p, Idle)
  PROVE  op'[p] = Idle /\ Fits(op'[p])
<1>1. op'[p] = Idle
  BY DEF SyncInv, Calls, Becomes
<1> QED
  BY <1>1 DEF Fits, Idle, ForPush, ForDeletion

\* What a step of a call does to its record.
Steady(p) == op'[p] = Idle \/ (Same(op[p], op'[p]) /\ op[p].pc # "idle")

LEMMA LsSourceFits ==
  ASSUME SyncInv, NEW p \in Processes, LsSource(p)
  PROVE  Steady(p) /\ Fits(op'[p])
<1> DEFINE o == op[p]
           tip == SourceTip(o)
<1>1. o \in Ops /\ o.pc = "lsSource" /\ p \in DOMAIN op
  BY DEF LsSource, At, SyncInv, Calls
<1>2. CASE Becomes(p, Idle)
  BY <1>2, IdleFits DEF Steady
<1>3. ASSUME NEW pc, Becomes(p, [o EXCEPT !.src = tip, !.pc = pc]),
             \/ pc = "fetchSource" /\ o.kind = "update" /\ tip # None
             \/ pc = "lsTarget" /\ o.kind # "update"
      PROVE  Steady(p) /\ Fits(op'[p])
  <2>1. op'[p].pc = pc /\ op'[p].src = tip /\ Same(o, op'[p])
    BY <1>1, <1>3 DEF Becomes, Same, Ops
  <2> QED
    BY <1>1, <1>3, <2>1 DEF Fits, Same, Steady, ForPush, ForDeletion
<1>4. CASE o.kind = "update" /\ UpdateReadsSource(p)
  BY <1>2, <1>3, <1>4 DEF UpdateReadsSource, Return, Proceed
<1>5. CASE o.kind = "delete" /\ DeleteReadsSource(p)
  BY <1>2, <1>3, <1>5 DEF DeleteReadsSource, Return, Proceed
<1>6. CASE o.kind = "approve" /\ ApproveReadsSource(p)
  BY <1>3, <1>6 DEF ApproveReadsSource, Proceed
<1> QED
  BY <1>4, <1>5, <1>6 DEF LsSource

LEMMA LsTargetFits ==
  ASSUME SyncInv, NEW p \in Processes, LsTarget(p), Fits(op[p])
  PROVE  Steady(p) /\ Fits(op'[p])
<1> DEFINE o == op[p]
           tip == TargetTip(o)
<1>1. o \in Ops /\ o.pc = "lsTarget" /\ p \in DOMAIN op /\ (o.kind = "update" => o.src # None)
  BY DEF LsTarget, At, SyncInv, Calls, Fits
<1>2. CASE Becomes(p, Idle)
  BY <1>2, IdleFits DEF Steady
<1>3. ASSUME NEW pc, Becomes(p, [o EXCEPT !.dst = tip, !.pc = pc]),
             \/ pc \in {"gate", "fetchTarget"} /\ o.kind = "update"
             \/ pc = "dryDelete" /\ o.kind = "delete"
             \/ pc = "dryDelete" /\ o.kind = "approve" /\ o.after = None
             \/ pc = "fetchSource" /\ o.kind = "approve" /\ o.after # None
      PROVE  Steady(p) /\ Fits(op'[p])
  <2>1. op'[p].pc = pc /\ op'[p].src = o.src /\ Same(o, op'[p])
    BY <1>1, <1>3 DEF Becomes, Same, Ops
  <2> QED
    BY <1>1, <1>3, <2>1 DEF Fits, Same, Steady, ForPush, ForDeletion
<1>4. CASE o.kind = "update" /\ UpdateReadsTarget(p)
  BY <1>2, <1>3, <1>4 DEF UpdateReadsTarget, Return, Proceed
<1>5. CASE o.kind = "delete" /\ DeleteReadsTarget(p)
  <2>1. CASE AskHuman(p)
    <3>1. Same(o, op'[p]) /\ op'[p].pc = "write"
      BY <2>1, GotoSame DEF AskHuman
    <3> QED
      BY <1>1, <1>5, <3>1 DEF Fits, Same, Steady, ForPush, ForDeletion
  <2> QED
    BY <1>2, <1>3, <1>5, <2>1 DEF DeleteReadsTarget, Return, ReturnError, Proceed
<1>6. CASE o.kind = "approve" /\ ApproveReadsTarget(p)
  BY <1>2, <1>3, <1>6 DEF ApproveReadsTarget, ReturnError, Proceed
<1> QED
  BY <1>4, <1>5, <1>6 DEF LsTarget

\* A call that goes to another step without a new source tip.
LEMMA GotoFits ==
  ASSUME SyncInv, NEW p \in Processes, NEW pc, Goto(p, pc), Fits(op[p]),
         op[p].pc \notin {"idle", "lsSource"},
         \/ op[p].pc \in ForPush /\ pc \in ForPush \ {"fetchSource"}
         \/ op[p].pc \in ForDeletion /\ pc \in ForDeletion
         \/ op[p].kind = "update" /\ pc \in {"lsTarget", "gate", "write", "dryRun"}
         \/ pc = "complete"
  PROVE  Steady(p) /\ Fits(op'[p])
<1>1. Same(op[p], op'[p]) /\ op'[p].pc = pc /\ op'[p].src = op[p].src
  BY GotoSame
<1> QED
  BY <1>1 DEF Fits, Same, Steady, ForPush, ForDeletion

LEMMA CallFits ==
  ASSUME SyncInv, NEW p \in Processes, SyncStep(p) \/ FaultStep(p), Fits(op[p])
  PROVE  Steady(p) /\ Fits(op'[p])
<1>1. CASE Becomes(p, Idle)
  BY <1>1, IdleFits DEF Steady
<1>2. CASE LsSource(p) \/ LsTarget(p)
  BY <1>2, LsSourceFits, LsTargetFits
<1>3. CASE FetchSource(p)
  BY <1>1, <1>3, GotoFits DEF FetchSource, ReturnError, At, ForPush
<1>4. CASE FetchTarget(p)
  BY <1>1, <1>4, GotoFits
     DEF FetchTarget, CompareUpdate, CompareApproved, Return, ReturnError, At, ForPush
<1>5. CASE Gate(p)
  <2>1. op[p].pc = "gate" /\ op[p].kind = "update"
    BY <1>5 DEF Gate, At, Fits
  <2> QED
    BY <1>5, <2>1, GotoFits DEF Gate, AskHuman
<1>6. CASE WriteRequest(p) \/ Complete(p) \/ Dies(p)
  BY <1>1, <1>6 DEF WriteRequest, Complete, Dies, Return
<1>7. CASE DryRun(p) \/ Push(p) \/ Quarantine(p)
  BY <1>1, <1>7, GotoFits DEF DryRun, Push, Quarantine, Done, At, ForPush
<1>8. CASE DryDelete(p) \/ StrictDelete(p)
  BY <1>1, <1>8, GotoFits DEF DryDelete, StrictDelete, Done, ReturnError, At, ForDeletion
<1>9. CASE CommandFails(p) \/ AnswerLost(p)
  BY <1>1, <1>9, GotoFits DEF CommandFails, AnswerLost, ReturnError, At, ForPush
<1>10. CASE QuarantineFails(p)
  <2>1. CASE Becomes(p, [op[p] EXCEPT !.tries = @ + 1])
    <3>1. op[p] \in Ops /\ op[p].pc = "quarantine" /\ p \in DOMAIN op
      BY <1>10 DEF QuarantineFails, At, SyncInv, Calls
    <3>2. Same(op[p], op'[p]) /\ op'[p].pc = "quarantine" /\ op'[p].src = op[p].src
      BY <2>1, <3>1 DEF Becomes, Same, Ops
    <3> QED
      BY <3>1, <3>2 DEF Fits, Same, Steady, ForPush, ForDeletion
  <2> QED
    BY <1>1, <1>10, <2>1 DEF QuarantineFails, ReturnError
<1> QED
  BY <1>2, <1>3, <1>4, <1>5, <1>6, <1>7, <1>8, <1>9, <1>10 DEF SyncStep, FaultStep

\* The other processes do not notice the step of one call.
LEMMA OthersSame ==
  ASSUME SyncInv, NEW p \in Processes, SyncStep(p) \/ FaultStep(p), NEW q \in Processes, q # p
  PROVE  op'[q] = op[q]
BY StepBecomes DEF Becomes, SyncInv, Calls

-----------------------------------------------------------------------------
(* The invariant *)

\* Where a call may delete the target, people deleted the branch.
LEMMA MayDelete ==
  ASSUME SyncInv, PromiseInv, NEW p \in Processes, op[p].pc \in ForDeletion
  PROVE  None \in authored[op[p].branch]
<1>1. op[p] # Idle /\ op[p].kind \in Kinds /\ Fits(op[p]) /\ Grounded(op[p])
  BY CallFacts DEF Idle, ForDeletion, PromiseInv
<1>2. CASE op[p].kind = "approve"
  BY <1>1, <1>2 DEF Fits, Grounded, PromiseInv, Origins, RequestOf, Request
<1> QED
  BY <1>1, <1>2 DEF Fits, Grounded, Kinds

\* What a call adds to the events: its own event again, an update, or the
\* deletion that it makes.
LEMMA EventsHeard ==
  ASSUME SyncInv, NEW p \in Processes, SyncStep(p) \/ FaultStep(p), NEW e \in inbox'
  PROVE  \/ e \in inbox
         \/ e = EventOf(op[p]) /\ op[p] # Idle
         \/ e.kind = "update"
         \/ op[p].pc = "delete" /\ e.branch = op[p].branch
<1>1. op[p].pc # "idle" => op[p] # Idle
  BY DEF Idle
<1>2. CASE inbox' = inbox
  BY <1>2
<1>3. CASE ReturnError(p) /\ op[p].pc # "idle"
  BY <1>1, <1>3 DEF ReturnError
<1>4. CASE Dies(p)
  BY <1>4 DEF Dies
<1>5. CASE op[p].pc = "push" /\ Announce(p, srcRef)
  <2>1. srcRef # None
    BY <1>5, CallFacts DEF Sound
  <2> QED
    BY <1>5, <2>1 DEF Announce, Heard, Echo, Update
<1>6. ASSUME op[p].pc = "delete", e \in Heard(Echo(op[p], None))
      PROVE  e.branch = op[p].branch
  BY <1>6 DEF Heard, Echo, Delete
<1>7. CASE StrictDelete(p) \/ (AnswerLost(p) /\ op[p].pc = "delete")
  BY <1>1, <1>3, <1>6, <1>7 DEF StrictDelete, AnswerLost, Announce, At
<1>8. CASE LsSource(p) \/ FetchSource(p) \/ LsTarget(p) \/ FetchTarget(p)
  BY <1>2, <1>3, <1>8
     DEF LsSource, UpdateReadsSource, DeleteReadsSource, ApproveReadsSource, FetchSource,
         LsTarget, UpdateReadsTarget, DeleteReadsTarget, ApproveReadsTarget, AskHuman,
         FetchTarget, CompareUpdate, CompareApproved, Proceed, Return, At
<1>9. CASE Gate(p) \/ WriteRequest(p) \/ DryRun(p) \/ Quarantine(p) \/ DryDelete(p) \/ Complete(p)
  BY <1>2, <1>3, <1>9
     DEF Gate, AskHuman, WriteRequest, DryRun, Quarantine, DryDelete, Complete, Return, At
<1>10. CASE Push(p) \/ CommandFails(p) \/ QuarantineFails(p) \/ (AnswerLost(p) /\ op[p].pc = "push")
  BY <1>2, <1>3, <1>5, <1>10 DEF Push, CommandFails, QuarantineFails, AnswerLost, At
<1> QED
  BY <1>4, <1>7, <1>8, <1>9, <1>10 DEF SyncStep, FaultStep, AnswerLost, At

\* The only request a call makes is the one it asks for: a deletion after one
\* of people, or an update to a tip.
LEMMA RequestsMade ==
  ASSUME SyncInv, PromiseInv, NEW p \in Processes, SyncStep(p) \/ FaultStep(p)
  PROVE  \/ Recorded' = Recorded
         \/ /\ (LsTarget(p) /\ op[p].kind = "delete") \/ Gate(p)
            /\ AskHuman(p) /\ Gated(op[p])
            /\ Recorded' = Recorded \union {Asked(op[p])}
<1>1. AskHuman(p) => Recorded' = Recorded \union {Asked(op[p])}
  BY DEF AskHuman, Recorded
<1>2. CASE UNCHANGED <<pending, approved, rejected>>
  BY <1>2 DEF Recorded
<1>3. CASE Complete(p)
  BY <1>3 DEF Complete, MovesAway, Recorded
<1> QED
  BY <1>1, <1>2, <1>3
     DEF SyncStep, FaultStep, LsSource, FetchSource, LsTarget, UpdateReadsTarget,
         DeleteReadsTarget, ApproveReadsTarget, FetchTarget, Gate, WriteRequest, DryRun, Push,
         Quarantine, DryDelete, StrictDelete, CommandFails, AnswerLost, QuarantineFails, Dies, store

\* The tips after a step of a call are tips that were there before.
LEMMA TipsKept ==
  ASSUME SyncInv, Next, NEW p \in Processes, SyncStep(p) \/ FaultStep(p)
  PROVE  /\ moves' = moves /\ authored' = authored
         /\ \A s \in Sides, b \in Branches : remote'[s][b] \in {remote[s][b], srcRef, None}
         /\ \/ srcRef' = srcRef
            \/ \E s \in Sides, b \in Branches : srcRef' = remote[s][b]
<1>1. moves' = moves /\ authored' = authored
  BY DEF SyncStep, FaultStep, LsSource, FetchSource, LsTarget, FetchTarget, Gate, WriteRequest,
     DryRun, Push, Quarantine, DryDelete, StrictDelete, Complete, CommandFails, AnswerLost,
     QuarantineFails, Dies, ghosts
<1>2. \A s \in Sides, b \in Branches : remote'[s][b] \in {remote[s][b], srcRef, None}
  BY <1>1, OneWrites
<1>3. CASE FetchSource(p)
  BY <1>1, <1>2, <1>3, CallFacts DEF FetchSource, Fetched, SourceTip, At
<1>4. ASSUME ~FetchSource(p) PROVE srcRef' = srcRef
  BY <1>4 DEF SyncStep, FaultStep, LsSource, LsTarget, FetchTarget, Gate, WriteRequest,
     DryRun, Push, Quarantine, DryDelete, StrictDelete, Complete, CommandFails, AnswerLost,
     QuarantineFails, Dies
<1> QED
  BY <1>1, <1>2, <1>3, <1>4

LEMMA CallPromise ==
  ASSUME SyncInv, PromiseInv, Next, NEW p \in Processes, SyncStep(p) \/ FaultStep(p)
  PROVE  PromiseInv'
<1>1. /\ moves' = moves /\ authored' = authored /\ Published' = Published
      /\ Recorded \subseteq Recorded'
  BY TipsKept, RecordsGrow DEF Published, Promise!Published
<1>2. \A s \in Sides, b \in Branches : remote'[s][b] \in Published \union {None}
  BY TipsKept DEF PromiseInv, Origins
<1>3. srcRef' \in Published \union {None}
  BY TipsKept DEF PromiseInv, Origins
<1>4. ASSUME NEW e \in inbox', e.kind = "delete" PROVE None \in authored[e.branch]
  <2>1. CASE e \in inbox
    BY <1>4, <2>1 DEF PromiseInv, Origins
  <2>2. CASE e = EventOf(op[p]) /\ op[p] # Idle
    BY <1>4, <2>2 DEF PromiseInv, Grounded, EventOf
  <2>3. CASE op[p].pc = "delete" /\ e.branch = op[p].branch
    BY <2>3, MayDelete DEF ForDeletion
  <2> QED
    BY <1>4, <2>1, <2>2, <2>3, EventsHeard
<1>5. ASSUME NEW r \in Recorded', r.after = None PROVE None \in authored[r.branch]
  <2>1. CASE r \in Recorded
    BY <1>5, <2>1 DEF PromiseInv, Origins
  <2>2. CASE r = Asked(op[p]) /\ LsTarget(p) /\ op[p].kind = "delete"
    BY <2>2 DEF PromiseInv, Grounded, Asked, Request, LsTarget, At, Idle
  <2>3. CASE r = Asked(op[p]) /\ Gate(p)
    <3>1. op[p].pc = "gate" /\ op[p].kind = "update" /\ op[p].src # None
      BY <2>3 DEF Gate, At, PromiseInv, Fits
    <3> QED
      BY <1>5, <2>3, <3>1 DEF Asked, Request
  <2> QED
    BY <2>1, <2>2, <2>3, RequestsMade
<1>6. ASSUME NEW q \in Processes PROVE Fits(op'[q]) /\ Grounded(op[q])'
  <2>1. CASE q = p
    <3>1. Steady(p) /\ Fits(op'[p])
      BY CallFits DEF PromiseInv
    <3>2. Grounded(op[p])'
      BY <1>1, <3>1 DEF Steady, Same, Grounded, PromiseInv, RequestOf, Request, Idle
    <3> QED
      BY <2>1, <3>1, <3>2
  <2>2. CASE q # p
    <3>1. op'[q] = op[q]
      BY <2>2, OthersSame
    <3> QED
      BY <1>1, <3>1 DEF PromiseInv, Grounded, RequestOf, Request
  <2> QED
    BY <2>1, <2>2
<1> QED
  BY <1>1, <1>2, <1>3, <1>4, <1>5, <1>6 DEF PromiseInv, Origins, Fits

LEMMA UserPromise ==
  ASSUME SyncInv, PromiseInv, UserStep
  PROVE  PromiseInv'
<1>1. PICK s \in Sides, b \in Branches : UserDelete(s, b) \/ \E c \in Commits : UserPush(s, b, c)
  BY DEF UserStep
<1>2. UNCHANGED <<op, srcRef, Recorded>>
  BY <1>1 DEF UserDelete, UserPush, store, Recorded
<1>3. PICK tip \in Tips :
        /\ remote' = [remote EXCEPT ![s][b] = tip]
        /\ authored' = [authored EXCEPT ![b] = @ \union {tip}]
        /\ \A e \in inbox' : e \in inbox \/ (e.kind = "delete" => tip = None /\ e.branch = b)
  BY <1>1 DEF UserDelete, UserPush, Heard, Update, Delete, Tips
<1>4. /\ authored \in [Branches -> SUBSET Tips] /\ remote \in [Sides -> [Branches -> Tips]]
      /\ inbox \in SUBSET Events /\ \A e \in Events : e.branch \in Branches
      /\ Recorded \in SUBSET Requests /\ \A r \in Requests : r.branch \in Branches
  BY DEF SyncInv, Data, Events, Requests, Recorded
<1>5. /\ \A x \in Branches : authored[x] \subseteq authored'[x]
      /\ tip \in authored'[b]
  BY <1>3, <1>4
<1>6. Published \subseteq Published' /\ tip \in Published' \union {None}
  BY <1>5 DEF Tips, Published, Promise!Published
<1>7. \A t \in Sides, x \in Branches : remote'[t][x] \in Published' \union {None}
  BY <1>3, <1>4, <1>6 DEF PromiseInv, Origins
<1>8. \A e \in inbox' : e.kind = "delete" => None \in authored'[e.branch]
  BY <1>3, <1>4, <1>5 DEF PromiseInv, Origins
<1>9. \A r \in Recorded : r.after = None => None \in authored'[r.branch]
  BY <1>4, <1>5 DEF PromiseInv, Origins
<1>10. ASSUME NEW p \in Processes PROVE Grounded(op[p])'
  <2>1. op[p] # Idle => op[p].branch \in Branches
    BY DEF SyncInv, Calls, Typed
  <2> QED
    BY <1>2, <1>5, <2>1 DEF PromiseInv, Grounded, RequestOf, Request
<1> QED
  BY <1>2, <1>6, <1>7, <1>8, <1>9, <1>10 DEF PromiseInv, Origins, Fits

\* A new call comes from an event, from a deletion that people made, or from a
\* recorded request.
LEMMA NewCall ==
  ASSUME SyncInv, PromiseInv, NEW p \in Processes, StartStep(p)
  PROVE  \E kind, x, after :
           /\ kind \in Kinds /\ op[p] = Idle /\ op' = [op EXCEPT ![p] = Begin(kind, x, after)]
           /\ p \in Approvers <=> kind = "approve"
           /\ kind = "delete" => None \in authored[x.branch] /\ x.before # None
           /\ kind = "approve" => x \in Recorded /\ after = x.after
<1>1. ASSUME NEW e \in inbox, TakeEvent(p, e)
      PROVE  /\ Enter(p, Begin(e.kind, e, None)) /\ e.kind \in Kinds \ {"approve"}
             /\ p \notin Approvers
             /\ e.kind = "delete" => None \in authored[e.branch] /\ e.before # None
  BY <1>1, SyncAssumption, GraphAssumption
     DEF TakeEvent, PromiseInv, Origins, SyncInv, Data, Events, Kinds
<1>2. ASSUME NEW e \in Events, StartSync(p, e)
      PROVE  /\ Enter(p, Begin(e.kind, e, None)) /\ e.kind \in Kinds \ {"approve"}
             /\ p \notin Approvers
             /\ e.kind = "delete" => None \in authored[e.branch] /\ e.before # None
  BY <1>2, SyncAssumption, GraphAssumption DEF StartSync, Events, Kinds
<1>3. ASSUME NEW r \in pending, LoadRequest(p, r)
      PROVE  Enter(p, Begin("approve", r, r.after)) /\ p \in Approvers /\ r \in Recorded
  BY <1>3 DEF LoadRequest, Recorded
<1>4. "approve" \in Kinds
  BY DEF Kinds
<1>5. ASSUME NEW kind \in Kinds, NEW x, NEW after, Enter(p, Begin(kind, x, after))
      PROVE  op[p] = Idle /\ op' = [op EXCEPT ![p] = Begin(kind, x, after)]
  BY <1>5 DEF Enter, Becomes
<1>6. CASE \E e \in inbox : TakeEvent(p, e)
  <2>1. PICK e \in inbox : TakeEvent(p, e)
    BY <1>6
  <2> e.kind \in Kinds
    BY <1>1, <2>1
  <2> WITNESS e.kind, e, None
  <2> QED
    BY <1>1, <1>5, <2>1
<1>7. CASE \E e \in Events : StartSync(p, e)
  <2>1. PICK e \in Events : StartSync(p, e)
    BY <1>7
  <2> e.kind \in Kinds
    BY <1>2, <2>1
  <2> WITNESS e.kind, e, None
  <2> QED
    BY <1>2, <1>5, <2>1
<1>8. CASE \E r \in pending : LoadRequest(p, r)
  <2>1. PICK r \in pending : LoadRequest(p, r)
    BY <1>8
  <2> WITNESS "approve", r, r.after
  <2> QED
    BY <1>3, <1>4, <1>5, <2>1
<1> QED
  BY <1>6, <1>7, <1>8 DEF StartStep

LEMMA StartUnchanged ==
  ASSUME NEW p \in Processes, StartStep(p)
  PROVE  UNCHANGED <<remote, quarantined, srcRef, moves, authored, Recorded>> /\ inbox' \subseteq inbox
BY DEF StartStep, TakeEvent, StartSync, LoadRequest, Enter, store, Recorded

\* The request of a call that an approver begins.
LEMMA BegunRequest ==
  ASSUME SyncInv, NEW r \in Recorded
  PROVE  RequestOf(Begin("approve", r, r.after)) = r /\ r \in Requests
BY DEF RequestOf, Request, Begin, Recorded, Requests, SyncInv, Data

LEMMA StartPromise ==
  ASSUME SyncInv, PromiseInv, NEW p \in Processes, StartStep(p)
  PROVE  PromiseInv'
<1>1. PICK kind, x, after :
        /\ kind \in Kinds /\ op' = [op EXCEPT ![p] = Begin(kind, x, after)]
        /\ kind = "delete" => None \in authored[x.branch]
        /\ kind = "approve" => x \in Recorded /\ after = x.after
  BY NewCall
<1>2. UNCHANGED <<remote, srcRef, authored, Recorded>> /\ inbox' \subseteq inbox
  BY StartUnchanged
<1>3. Origins'
  BY <1>2 DEF PromiseInv, Origins, Published, Promise!Published
<1>4. ASSUME NEW q \in Processes PROVE Fits(op'[q]) /\ Grounded(op[q])'
  <2>1. CASE q = p
    <3>1. op'[p] = Begin(kind, x, after)
      BY <1>1 DEF SyncInv, Calls
    <3>2. Fits(op'[p])
      BY <3>1 DEF Fits, Begin, ForPush, ForDeletion
    <3>3. Grounded(op[p])'
      BY <1>1, <1>2, <3>1, BegunRequest DEF Grounded, Begin
    <3> QED
      BY <2>1, <3>2, <3>3
  <2>2. CASE q # p
    <3>1. op'[q] = op[q]
      BY <1>1, <2>2 DEF SyncInv, Calls
    <3> QED
      BY <1>2, <3>1 DEF PromiseInv, Grounded, RequestOf, Request
  <2> QED
    BY <2>1, <2>2
<1> QED
  BY <1>3, <1>4 DEF PromiseInv, Fits

LEMMA PromiseInit == Init => PromiseInv
<1> SUFFICES ASSUME Init PROVE PromiseInv
  OBVIOUS
<1>1. PICK tips \in [Branches -> InitialTips] :
        /\ remote = [s \in Sides |-> tips] /\ authored = [b \in Branches |-> {tips[b]} \ {None}]
  BY DEF Init
<1>2. \A b \in Branches : tips[b] \in Tips /\ tips[b] \in authored[b] \union {None}
  BY <1>1, SyncAssumption, GraphAssumption
<1>4. Origins
  BY <1>1, <1>2 DEF Init, Origins, Recorded, Published, Promise!Published, Tips
<1>3. \A p \in Processes : Fits(op[p]) /\ Grounded(op[p])
  BY DEF Init, Fits, Grounded, Idle, ForPush, ForDeletion
<1> QED
  BY <1>3, <1>4 DEF PromiseInv

LEMMA PromiseNext == SyncInv /\ PromiseInv /\ [Next]_vars => PromiseInv'
<1> SUFFICES ASSUME SyncInv, PromiseInv, [Next]_vars PROVE PromiseInv'
  OBVIOUS
<1>1. CASE UserStep
  BY <1>1, UserPromise
<1>2. ASSUME NEW p \in Processes, StartStep(p) PROVE PromiseInv'
  BY <1>2, StartPromise
<1>3. ASSUME Next, NEW p \in Processes, SyncStep(p) \/ FaultStep(p) PROVE PromiseInv'
  BY <1>3, CallPromise
<1>4. CASE (\E r \in pending : Reject(r)) \/ UNCHANGED vars
  <2>1. UNCHANGED <<remote, srcRef, inbox, op, authored, Recorded>>
    BY <1>4 DEF Reject, MovesAway, vars, store, ghosts, Recorded
  <2> QED
    BY <2>1 DEF PromiseInv, Origins, Fits, Grounded, RequestOf, Request, Published, Promise!Published
<1> QED
  BY <1>1, <1>2, <1>3, <1>4 DEF Next

-----------------------------------------------------------------------------
(* The steps of MirrorPromise *)

\* The promise is about the same sides and tips.
LEMMA PromiseSets == Promise!Sides = Sides /\ Promise!Tips = Tips
BY DEF Promise!Sides, Sides, Promise!Tips, Tips

View == <<remote, KeptAside, moves, authored, AskedFor, Granted>>

\* A step of a call grants nothing; only the step that begins an approval does.
LEMMA GrantsEnd ==
  ASSUME SyncInv, PromiseInv, NEW p \in Processes, SyncStep(p) \/ FaultStep(p)
  PROVE  /\ Granted' \subseteq Granted
         /\ p \notin Approvers => Granted' = Granted
<1>1. \A q \in Approvers : q # p => op'[q] = op[q]
  BY OthersSame DEF Processes
<1>2. p \notin Approvers => Granted' = Granted
  BY <1>1 DEF Granted, RequestOf, Request, Change
<1>3. ASSUME NEW q \in Approvers, op'[q] # Idle
      PROVE  op[q] # Idle /\ RequestOf(op'[q]) = RequestOf(op[q])
  <2>1. CASE q = p
    <3>1. Steady(p)
      BY CallFits DEF PromiseInv
    <3> QED
      BY <1>3, <2>1, <3>1 DEF Steady, Same, RequestOf, Request, Idle
  <2>2. CASE q # p
    BY <1>1, <1>3, <2>2
  <2> QED
    BY <2>1, <2>2
<1>4. Granted' \subseteq Granted
  BY <1>3 DEF Granted
<1> QED
  BY <1>2, <1>4

\* A call that writes to the target may do so: the gate let it pass, or an
\* approver makes it for a request of this kind of change.
LEMMA MayWrite ==
  ASSUME SyncInv, PromiseInv, NEW p \in Processes, NEW removal \in BOOLEAN,
         \/ op[p].pc = "push" /\ ~removal
         \/ op[p].pc = "delete" /\ removal
  PROVE  Promise!Permitted(To(op[p]), op[p].branch, removal)
<1>1. /\ Sound(p, op[p], srcRef) /\ Fits(op[p]) /\ op[p] # Idle
      /\ p \in Approvers <=> op[p].kind = "approve"
  BY CallFacts DEF PromiseInv, Idle
<1>2. CASE p \notin Approvers
  BY <1>1, <1>2 DEF Sound, Gated, Promise!Permitted
<1>3. CASE p \in Approvers
  <2>1. Change(RequestOf(op[p])) = [side |-> To(op[p]), branch |-> op[p].branch, removal |-> removal]
    BY <1>1, <1>3 DEF Fits, ForPush, ForDeletion, Change, RequestOf, Request, To
  <2> QED
    BY <1>1, <1>3, <2>1 DEF Granted, Promise!Permitted
<1> QED
  BY <1>2, <1>3

\* The write of a tip.
LEMMA WriteStep ==
  ASSUME SyncInv, PromiseInv, Next, NEW p \in Processes, SyncStep(p) \/ FaultStep(p),
         UNCHANGED <<quarantined, store>>,
         \/ op[p].pc = "push" /\ Write(p, srcRef) /\ Pushable(srcRef, TargetTip(op[p]))
         \/ op[p].pc = "delete" /\ Write(p, None)
  PROVE  \E s \in Sides, b \in Branches :
           Promise!Withdraw(s, b) \/ \E c \in Commits : Promise!Advance(s, b, c)
<1> DEFINE s == To(op[p])
           b == op[p].branch
<1>1. s \in Sides /\ b \in Branches /\ TargetTip(op[p]) = remote[s][b]
  BY CallFacts DEF TargetTip
<1>2. /\ moves' = moves /\ authored' = authored /\ Granted' \subseteq Granted
      /\ UNCHANGED <<KeptAside, AskedFor>>
  BY TipsKept, GrantsEnd DEF KeptAside, AskedFor, Recorded, store
<1>3. CASE op[p].pc = "push" /\ Write(p, srcRef) /\ Pushable(srcRef, TargetTip(op[p]))
  <2>1. srcRef \in Published /\ srcRef \in Commits
    BY <1>3, CallFacts DEF Sound, PromiseInv, Origins, SyncInv, Data, Tips
  <2>2. remote[s][b] = None \/ IsAncestor(remote[s][b], srcRef)
    BY <1>1, <1>3 DEF Pushable
  <2>3. Promise!Permitted(s, b, FALSE)
    BY <1>3, MayWrite
  <2>4. Promise!Tip(s, b, srcRef)
    BY <1>3 DEF Write, Promise!Tip
  <2>5. Promise!Advance(s, b, srcRef)
    BY <1>2, <2>1, <2>2, <2>3, <2>4 DEF Promise!Advance, Promise!MayEnd, Published, IsAncestor, Promise!IsAncestor
  <2> QED
    BY <1>1, <2>1, <2>5
<1>4. CASE op[p].pc = "delete" /\ Write(p, None)
  <2>1. None \in authored[b]
    BY <1>4, MayDelete DEF ForDeletion
  <2>2. Promise!Permitted(s, b, TRUE)
    BY <1>4, MayWrite
  <2>3. Promise!Tip(s, b, None)
    BY <1>4 DEF Write, Promise!Tip
  <2>4. Promise!Withdraw(s, b)
    BY <1>2, <2>1, <2>2, <2>3 DEF Promise!Withdraw, Promise!MayEnd
  <2> QED
    BY <1>1, <2>4
<1> QED
  BY <1>3, <1>4

\* What is kept in quarantine.
LEMMA KeepStep ==
  ASSUME SyncInv, PromiseInv, Next, NEW p \in Processes, Quarantine(p) \/ QuarantineFails(p),
         Keep(op[p])
  PROVE  \E s \in Sides, b \in Branches, c \in Commits : Promise!SetAside(s, b, c)
<1> DEFINE s == To(op[p])
           b == op[p].branch
<1>1. /\ s \in Sides /\ b \in Branches /\ op[p].pc = "quarantine"
      /\ SyncStep(p) \/ FaultStep(p)
      /\ UNCHANGED <<remote, store>>
  BY CallFacts DEF Quarantine, QuarantineFails, At, SyncStep, FaultStep
<1>2. srcRef \in Published /\ srcRef \in Commits
  BY <1>1, CallFacts DEF Sound, PromiseInv, Origins, SyncInv, Data, Tips
<1>3. KeptAside' = KeptAside \union {<<s, b, srcRef>>}
  <2>1. /\ quarantined \in [Sides -> SUBSET (Branches \X Commits)]
        /\ quarantined' = [quarantined EXCEPT ![s] = @ \union {<<b, srcRef>>}]
    BY DEF Keep, SyncInv, Data
  <2>2. \A t \in Sides, x \in Branches, c \in Commits :
          <<x, c>> \in quarantined'[t]
            <=> <<x, c>> \in quarantined[t] \/ (t = s /\ x = b /\ c = srcRef)
    BY <1>1, <1>2, <2>1
  <2> QED
    BY <1>1, <1>2, <2>2 DEF KeptAside
<1>4. /\ moves' = moves /\ authored' = authored /\ Granted' \subseteq Granted
      /\ UNCHANGED AskedFor
  BY <1>1, TipsKept, GrantsEnd DEF AskedFor, Recorded, store
<1>5. Promise!SetAside(s, b, srcRef)
  BY <1>1, <1>2, <1>3, <1>4 DEF Promise!SetAside, Promise!MayEnd, Published
<1> QED
  BY <1>1, <1>2, <1>5

\* A request is made by the worker or by "gitmirror sync", at the gate of a
\* protected branch.
LEMMA AskStep ==
  ASSUME SyncInv, PromiseInv, Next, NEW p \in Processes, SyncStep(p) \/ FaultStep(p),
         Recorded' # Recorded
  PROVE  \E change \in Promise!Changes : Promise!Ask(change)
<1>1. /\ (LsTarget(p) /\ op[p].kind = "delete") \/ Gate(p)
      /\ Gated(op[p]) /\ Recorded' = Recorded \union {Asked(op[p])}
  BY RequestsMade
<1> DEFINE r == Asked(op[p])
<1>2. op[p].pc \in {"lsTarget", "gate"} /\ op[p].kind # "approve"
  BY <1>1 DEF LsTarget, Gate, At, PromiseInv, Fits
<1>3. r.from = op[p].from /\ r.branch = op[p].branch
  BY DEF Asked, Request
<1>4. Change(r) \in Promise!Changes /\ <<Change(r).side, Change(r).branch>> \in Protected
  BY <1>1, <1>2, <1>3, CallFacts, PromiseSets DEF Change, Promise!Changes, Gated, To
<1>5. AskedFor' = AskedFor \union {Change(r)}
  BY <1>1 DEF AskedFor
<1>6. moves' = moves /\ authored' = authored /\ Granted' = Granted
  BY <1>2, TipsKept, GrantsEnd, CallFacts
<1>7. UNCHANGED <<remote, KeptAside>>
  BY <1>1 DEF LsTarget, Gate, KeptAside
<1>8. Promise!Ask(Change(r))
  BY <1>4, <1>5, <1>6, <1>7 DEF Promise!Ask
<1> QED
  BY <1>4, <1>8

\* Every step of a call is one of the promise.
LEMMA CallStep ==
  ASSUME SyncInv, PromiseInv, Next, NEW p \in Processes, SyncStep(p) \/ FaultStep(p)
  PROVE  Promise!Next
<1>1. CASE Recorded' # Recorded
  BY <1>1, AskStep DEF Promise!Next
<1>2. CASE (Quarantine(p) \/ QuarantineFails(p)) /\ Keep(op[p])
  BY <1>2, KeepStep, PromiseSets DEF Promise!Next
<1>3. CASE /\ UNCHANGED <<quarantined, store>>
           /\ \/ op[p].pc = "push" /\ Write(p, srcRef) /\ Pushable(srcRef, TargetTip(op[p]))
              \/ op[p].pc = "delete" /\ Write(p, None)
  BY <1>3, WriteStep, PromiseSets DEF Promise!Next
<1>4. CASE Recorded' = Recorded /\ UNCHANGED <<remote, quarantined>>
  <2>1. Promise!End
    BY <1>4, TipsKept, GrantsEnd DEF Promise!End, Promise!MayEnd, KeptAside, AskedFor
  <2> QED
    BY <2>1 DEF Promise!Next
<1>5. \/ UNCHANGED <<remote, quarantined>>
      \/ (Quarantine(p) \/ QuarantineFails(p)) /\ Keep(op[p])
      \/ /\ UNCHANGED <<quarantined, store>>
         /\ \/ op[p].pc = "push" /\ Write(p, srcRef) /\ Pushable(srcRef, TargetTip(op[p]))
            \/ op[p].pc = "delete" /\ Write(p, None)
  BY DEF SyncStep, FaultStep, LsSource, FetchSource, LsTarget, FetchTarget, Gate, WriteRequest,
     DryRun, Push, Quarantine, DryDelete, StrictDelete, Complete, CommandFails, AnswerLost,
     QuarantineFails, Dies, At
<1> QED
  BY <1>1, <1>2, <1>3, <1>4, <1>5

\* The start of an approval is a grant; other calls start unseen.
LEMMA StartGrant ==
  ASSUME SyncInv, PromiseInv, NEW p \in Processes, StartStep(p)
  PROVE  Promise!Next \/ UNCHANGED View
<1>1. PICK kind, x, after :
        /\ kind \in Kinds /\ op[p] = Idle /\ op' = [op EXCEPT ![p] = Begin(kind, x, after)]
        /\ p \in Approvers <=> kind = "approve"
        /\ kind = "approve" => x \in Recorded /\ after = x.after
  BY NewCall
<1>2. UNCHANGED <<remote, KeptAside, moves, authored, AskedFor>>
  BY StartUnchanged DEF KeptAside, AskedFor
<1>3. \A q \in Processes : q # p => op'[q] = op[q]
  BY <1>1 DEF SyncInv, Calls
<1>4. CASE p \notin Approvers
  <2>1. Granted' = Granted
    BY <1>3, <1>4 DEF Granted, Processes
  <2> QED
    BY <1>2, <2>1 DEF View
<1>5. CASE p \in Approvers
  <2>1. /\ x \in Recorded /\ op'[p] = Begin("approve", x, x.after) /\ op'[p] # Idle
    BY <1>1, <1>5 DEF SyncInv, Calls, Begin, Idle
  <2>2. RequestOf(op'[p]) = x /\ x \in Requests
    BY <2>1, BegunRequest
  <2>3. \A q \in Approvers :
          op'[q] # Idle <=> q = p \/ op[q] # Idle
    BY <1>3, <2>1 DEF Processes
  <2>4. \A q \in Approvers : q # p => RequestOf(op'[q]) = RequestOf(op[q])
    BY <1>3 DEF Processes
  <2>5. Granted' = Granted \union {Change(x)}
    BY <1>1, <1>5, <2>2, <2>3, <2>4 DEF Granted
  <2>6. Change(x) \in AskedFor
    BY <2>1 DEF AskedFor
  <2>7. Change(x) \in Promise!Changes
    BY <2>2, PromiseSets DEF Change, Promise!Changes, Requests, Other, Sides
  <2>8. Promise!Grant(Change(x))
    BY <1>2, <2>5, <2>6 DEF Promise!Grant
  <2> QED
    BY <2>7, <2>8 DEF Promise!Next
<1> QED
  BY <1>4, <1>5

\* People do what the promise lets them do.
LEMMA PeopleStep ==
  ASSUME SyncInv, UserStep
  PROVE  Promise!Next
<1>1. PICK s \in Sides, b \in Branches : UserDelete(s, b) \/ \E c \in Commits : UserPush(s, b, c)
  BY DEF UserStep
<1>2. PICK tip \in Tips :
        /\ remote' = [remote EXCEPT ![s][b] = tip] /\ moves' = moves + 1
        /\ authored' = [authored EXCEPT ![b] = @ \union {tip}]
  BY <1>1 DEF UserDelete, UserPush, Tips
<1>3. UNCHANGED <<KeptAside, AskedFor, Granted>>
  BY <1>1 DEF UserDelete, UserPush, store, KeptAside, AskedFor, Recorded, Granted
<1>4. Promise!People(s, b, tip)
  BY <1>2, <1>3 DEF Promise!People, Promise!Tip
<1> QED
  BY <1>4, PromiseSets DEF Promise!Next

LEMMA InitPromise == Init => Promise!Init
<1> SUFFICES ASSUME Init PROVE Promise!Init
  OBVIOUS
<1>1. \A s \in Sides, b \in Branches : remote[s][b] \in authored[b] \union {None}
  BY DEF Init
<1>2. KeptAside = {}
  <2>1. \A s \in Sides : quarantined[s] = {}
    BY DEF Init
  <2> QED
    BY <2>1 DEF KeptAside
<1>3. AskedFor = {} /\ Granted = {}
  <2>1. Recorded = {} /\ \A q \in Approvers : op[q] = Idle
    BY DEF Init, Recorded, Processes
  <2> QED
    BY <2>1 DEF AskedFor, Granted
<1> QED
  BY <1>1, <1>2, <1>3, PromiseSets DEF Init, Promise!Init

\* gitmirror does to the two remotes of a pair only what MirrorPromise allows,
\* whatever people push, however many calls interleave and whichever command
\* fails: no overwritten commit, no commit of its own, no deletion before one of
\* people, no change of a protected branch without a request and a person's
\* grant of this kind of change, no quarantine branch taken back.
THEOREM SyncKeepsPromise == Spec => KeepsPromise
<1>1. SyncInv /\ PromiseInv /\ [Next]_vars => [Promise!Next]_View
  <2> SUFFICES ASSUME SyncInv, PromiseInv, [Next]_vars
               PROVE  Promise!Next \/ UNCHANGED View
    OBVIOUS
  <2>1. CASE UserStep
    BY <2>1, PeopleStep
  <2>2. ASSUME NEW p \in Processes, StartStep(p) PROVE Promise!Next \/ UNCHANGED View
    BY <2>2, StartGrant
  <2>3. ASSUME Next, NEW p \in Processes, SyncStep(p) \/ FaultStep(p) PROVE Promise!Next
    BY <2>3, CallStep
  <2>4. CASE (\E r \in pending : Reject(r)) \/ UNCHANGED vars
    <3>1. UNCHANGED <<remote, quarantined, op, moves, authored, Recorded>>
      BY <2>4 DEF Reject, MovesAway, vars, store, ghosts, Recorded
    <3> QED
      BY <3>1 DEF View, KeptAside, AskedFor, Granted
  <2> QED
    BY <2>1, <2>2, <2>3, <2>4 DEF Next
<1>2. Spec => []PromiseInv
  BY CallsSound, PromiseInit, PromiseNext, PTL DEF Spec
<1> QED
  BY <1>1, <1>2, InitPromise, CallsSound, PTL DEF Spec, KeepsPromise, Promise!Spec, Promise!vars, View

==========================================================================
