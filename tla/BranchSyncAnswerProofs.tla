---------------------- MODULE BranchSyncAnswerProofs ----------------------
(***************************************************************************)
(* How deletions and approvals of BranchSync end that nobody interferes    *)
(* with, for any commit graph, any branches, any number of workers,        *)
(* commands and approvers, and any failures.                               *)
(***************************************************************************)
EXTENDS BranchSyncCalmProofs, BranchSyncPromiseProofs

-----------------------------------------------------------------------------
(* A human is asked for a creation, for a fast-forward or for a deletion of  *)
(* something, never for a rewrite.                                           *)
Forward(r) ==
  /\ r.before # r.after
  /\ r.before = None \/ r.after = None \/ IsAncestor(r.before, r.after)

(* What a call compared before it asks: it deletes a tip, and an update that *)
(* reaches the gate is a creation or a fast-forward.                         *)
Compared(o) ==
  /\ o.kind = "delete" => o.before # None
  /\ o.kind = "update" =>
       /\ o.pc \in {"fetchTarget", "gate"} => o.src # o.dst
       /\ o.pc = "gate" => o.dst = None \/ IsAncestor(o.dst, o.src)

ForwardInv ==
  /\ \A r \in Recorded : Forward(r)
  /\ \A p \in Processes : Compared(op[p])

\* An update gets to these steps by one of two others.
LEMMA Arrives ==
  ASSUME SyncInv, NEW p \in Processes, SyncStep(p) \/ FaultStep(p), op[p].kind = "update",
         op'[p] # Idle, op'[p].pc \in {"fetchTarget", "gate"}
  PROVE  LsTarget(p) \/ FetchTarget(p)
<1>1. ~Becomes(p, Idle)
  BY DEF Becomes, SyncInv, Calls
<1>2. \A pc : Goto(p, pc) => pc \in {"fetchTarget", "gate"}
  BY GotoFacts
<1>3. ~LsSource(p)
  <2>1. ASSUME LsSource(p) PROVE FALSE
    <3>1. Becomes(p, [op[p] EXCEPT !.src = SourceTip(op[p]), !.pc = "fetchSource"])
      BY <1>1, <2>1 DEF LsSource, UpdateReadsSource, Return, Proceed
    <3>2. op'[p].pc = "fetchSource"
      BY <3>1 DEF Becomes, SyncInv, Calls, Ops
    <3> QED
      BY <3>2
  <2> QED
    BY <2>1
<1>4. ~FetchSource(p)
  BY <1>1, <1>2 DEF FetchSource, ReturnError
<1>5. ~Gate(p) /\ ~WriteRequest(p) /\ ~DryRun(p) /\ ~Push(p) /\ ~Quarantine(p)
  BY <1>1, <1>2 DEF Gate, AskHuman, WriteRequest, Return, DryRun, Push, Quarantine, Done
<1>6. ~DryDelete(p) /\ ~StrictDelete(p) /\ ~Complete(p)
  BY <1>1, <1>2 DEF DryDelete, StrictDelete, Done, Complete, Return, ReturnError
<1>7. ~CommandFails(p) /\ ~AnswerLost(p) /\ ~Dies(p)
  BY <1>1, <1>2 DEF CommandFails, AnswerLost, Dies, ReturnError
<1>8. ~QuarantineFails(p)
  <2>1. ASSUME QuarantineFails(p) PROVE FALSE
    <3>1. Becomes(p, [op[p] EXCEPT !.tries = @ + 1]) /\ op[p].pc = "quarantine"
      BY <1>1, <2>1 DEF QuarantineFails, ReturnError, At
    <3>2. op'[p].pc = "quarantine"
      BY <3>1 DEF Becomes, SyncInv, Calls, Ops
    <3> QED
      BY <3>2
  <2> QED
    BY <2>1
<1> QED
  BY <1>3, <1>4, <1>5, <1>6, <1>7, <1>8 DEF SyncStep, FaultStep

LEMMA CallCompared ==
  ASSUME SyncInv, PromiseInv, NEW p \in Processes, SyncStep(p) \/ FaultStep(p), Compared(op[p])
  PROVE  Compared(op'[p])
<1> DEFINE o == op[p]
<1>1. Steady(p) /\ o \in Ops /\ op' = [op EXCEPT ![p] = op'[p]]
  BY CallFits, StepBecomes DEF PromiseInv, Becomes, SyncInv, Calls
<1>2. CASE op'[p] = Idle
  BY <1>2 DEF Compared, Idle
<1>3. CASE op'[p] # Idle /\ o.kind # "update"
  BY <1>1, <1>3 DEF Steady, Same, Compared
<1>4. CASE /\ op'[p] # Idle /\ o.kind = "update"
           /\ op'[p].pc \notin {"fetchTarget", "gate"}
  BY <1>1, <1>4 DEF Steady, Same, Compared
<1>5. CASE /\ op'[p] # Idle /\ o.kind = "update" /\ LsTarget(p)
  <2>1. PICK pc \in {"gate", "fetchTarget"} :
          /\ Becomes(p, [o EXCEPT !.dst = TargetTip(o), !.pc = pc])
          /\ TargetTip(o) # o.src /\ (pc = "gate" => TargetTip(o) = None)
    BY <1>5 DEF LsTarget, UpdateReadsTarget, Return, Proceed, Becomes, SyncInv, Calls
  <2>2. op'[p].pc = pc /\ op'[p].dst = TargetTip(o) /\ op'[p].src = o.src /\ op'[p].kind = "update"
    BY <1>1, <1>5, <2>1 DEF Becomes, SyncInv, Calls, Ops
  <2> QED
    BY <2>1, <2>2 DEF Compared
<1>6. CASE /\ op'[p] # Idle /\ o.kind = "update" /\ FetchTarget(p)
           /\ op'[p].pc \in {"fetchTarget", "gate"}
  <2>1. PICK pc : Goto(p, pc) /\ (pc = "gate" => Behind(o)) /\ o.pc = "fetchTarget"
    BY <1>6 DEF FetchTarget, CompareUpdate, Return, ReturnError, Becomes, SyncInv, Calls, At
  <2>2. op'[p].pc = pc /\ op'[p].dst = o.dst /\ op'[p].src = o.src /\ op'[p].kind = "update"
    BY <1>6, <2>1, GotoFacts, GotoDst
  <2> QED
    BY <1>6, <2>1, <2>2 DEF Compared, Behind
<1> QED
  BY <1>2, <1>3, <1>4, <1>5, <1>6, Arrives

LEMMA CallForward ==
  ASSUME SyncInv, PromiseInv, ForwardInv, NEW p \in Processes, SyncStep(p) \/ FaultStep(p)
  PROVE  ForwardInv'
<1>1. ASSUME NEW r \in Recorded' PROVE Forward(r)
  <2>1. CASE r \in Recorded
    BY <2>1 DEF ForwardInv
  <2>2. CASE r = Asked(op[p]) /\ LsTarget(p) /\ op[p].kind = "delete"
    BY <2>2 DEF ForwardInv, Compared, Asked, Request, Forward
  <2>3. CASE r = Asked(op[p]) /\ Gate(p)
    <3>1. op[p].pc = "gate" /\ op[p].kind = "update"
      BY <2>3 DEF Gate, At, PromiseInv, Fits
    <3> QED
      BY <2>3, <3>1 DEF ForwardInv, Compared, Asked, Request, Forward
  <2> QED
    BY <2>1, <2>2, <2>3, RequestsMade
<1>2. ASSUME NEW q \in Processes PROVE Compared(op'[q])
  BY CallCompared, OthersSame DEF ForwardInv
<1> QED
  BY <1>1, <1>2 DEF ForwardInv, Forward, Compared

LEMMA ForwardInit == Init => ForwardInv
BY DEF Init, ForwardInv, Recorded, Compared, Idle

LEMMA ForwardNext == SyncInv /\ PromiseInv /\ ForwardInv /\ [Next]_vars => ForwardInv'
<1> SUFFICES ASSUME SyncInv, PromiseInv, ForwardInv, [Next]_vars PROVE ForwardInv'
  OBVIOUS
<1>1. ASSUME UNCHANGED <<op, Recorded>> PROVE ForwardInv'
  BY <1>1 DEF ForwardInv, Forward, Compared
<1>2. CASE UserStep
  BY <1>1, <1>2 DEF UserStep, UserPush, UserDelete, store, Recorded
<1>3. ASSUME NEW p \in Processes, StartStep(p) PROVE ForwardInv'
  <2>1. PICK kind, x, after :
          /\ kind \in Kinds /\ op' = [op EXCEPT ![p] = Begin(kind, x, after)]
          /\ kind = "delete" => x.before # None
    BY <1>3, NewCall
  <2>2. Recorded' = Recorded
    BY <1>3, StartUnchanged
  <2>3. Compared(Begin(kind, x, after))
    BY <2>1 DEF Compared, Begin
  <2>4. \A q \in Processes : Compared(op'[q])
    BY <2>1, <2>3 DEF ForwardInv, SyncInv, Calls
  <2> QED
    BY <2>2, <2>4 DEF ForwardInv, Forward, Compared
<1>4. ASSUME NEW p \in Processes, SyncStep(p) \/ FaultStep(p) PROVE ForwardInv'
  BY <1>4, CallForward
<1>5. CASE (\E r \in pending : Reject(r)) \/ UNCHANGED vars
  BY <1>1, <1>5 DEF Reject, MovesAway, vars, store, Recorded
<1> QED
  BY <1>2, <1>3, <1>4, <1>5 DEF Next

-----------------------------------------------------------------------------
(* What an undisturbed deletion or approval needs to know until it ends,    *)
(* besides what CalmInv says: the request it asked for or was made for has  *)
(* not left the records, an approval that compares still has the tip of the *)
(* target and both tips in the repository, one that goes to quarantine puts *)
(* there what was approved, and one that is to be completed has been done.  *)
Expects(o, ref, target, kept, fetched, requests) ==
  /\ o.kind = "delete" =>
       (o.pc = "write" => Asked(o) \in requests)
  /\ o.kind = "approve" =>
       /\ RequestOf(o) \in requests
       /\ o.pc \in {"fetchSource", "fetchTarget"} => o.dst = target
       /\ o.pc = "fetchTarget" => o.dst # None /\ o.src \in fetched
       /\ o.pc = "quarantine" => ref = o.after
       /\ o.pc = "complete" => target = o.after \/ <<o.branch, o.after>> \in kept

CallExpects(p) ==
  Expects(op[p], srcRef, TargetTip(op[p]), quarantined[To(op[p])], objects,
          pending \union rejected)

AnswerInv == \A p \in calm : CallExpects(p)

LEMMA UpdateExpects ==
  ASSUME NEW p \in Processes, op'[p].kind = "update"
  PROVE  CallExpects(p)'
BY DEF CallExpects, Expects

\* A call that ends, or that is an update.
LEMMA EndExpects ==
  ASSUME SyncInv, NEW p \in Processes, Becomes(p, Idle)
  PROVE  CallExpects(p)'
<1>1. op'[p].kind = "update"
  BY DEF Becomes, SyncInv, Calls, Idle
<1> QED
  BY <1>1, UpdateExpects

\* A call that goes on with the arguments it was made with.
LEMMA SameExpects ==
  ASSUME SyncInv, NEW p \in Processes, Same(op[p], op'[p]), CallExpects(p),
         pending \union rejected \subseteq pending' \union rejected',
         op[p].kind = "delete" /\ op'[p].pc = "write" => Asked(op'[p]) \in pending',
         op[p].kind = "approve" =>
           /\ op'[p].pc \in {"fetchSource", "fetchTarget"} => op'[p].dst = TargetTip(op[p])'
           /\ op'[p].pc = "fetchTarget" => op'[p].dst # None /\ op'[p].src \in objects'
           /\ op'[p].pc = "quarantine" => srcRef' = op[p].after
           /\ op'[p].pc = "complete" =>
                \/ remote'[To(op[p])][op[p].branch] = op[p].after
                \/ <<op[p].branch, op[p].after>> \in quarantined'[To(op[p])]
  PROVE  CallExpects(p)'
<1>1. RequestOf(op'[p]) = RequestOf(op[p]) /\ To(op'[p]) = To(op[p])
  BY DEF Same, RequestOf, Request, To
<1>2. TargetTip(op[p])' = remote'[To(op[p])][op[p].branch]
  BY <1>1 DEF Same, TargetTip
<1>3. op[p].kind = "approve" => RequestOf(op[p]) \in pending' \union rejected'
  BY DEF CallExpects, Expects
<1> QED
  BY <1>1, <1>2, <1>3 DEF CallExpects, Expects, Same, RequestOf, Request, Asked

\* The request of a call leaves the records only when the call is completed.
LEMMA OwnRequestStays ==
  ASSUME NEW p \in Processes, SyncStep(p) \/ FaultStep(p), ~Complete(p)
  PROVE  pending \subseteq pending' /\ rejected' = rejected
BY DEF SyncStep, FaultStep, LsSource, FetchSource, LsTarget, UpdateReadsTarget,
       DeleteReadsTarget, ApproveReadsTarget, FetchTarget, Gate, AskHuman, WriteRequest, DryRun,
       Push, Quarantine, DryDelete, StrictDelete, CommandFails, AnswerLost, QuarantineFails,
       Dies, store

\* A call that goes to a step where it need not know more.
LEMMA GotoExpects ==
  ASSUME SyncInv, NEW p \in Processes, SyncStep(p) \/ FaultStep(p), ~Complete(p), CallExpects(p),
         NEW pc \in {"dryRun", "push", "dryDelete", "delete"}, Goto(p, pc)
  PROVE  CallExpects(p)'
BY GotoSame, SameExpects, OwnRequestStays

\* Before its dry run and its push, an approval pushes what was approved.
LEMMA RefIsApproved ==
  ASSUME NEW p \in Processes, CallKnows(p), op[p].kind = "approve", op[p].pc \in {"dryRun", "push"}
  PROVE  srcRef = op[p].after
BY DEF CallKnows, Knows, Pushes

LEMMA AsideExpects ==
  ASSUME SyncInv, NEW p \in Processes, SyncStep(p) \/ FaultStep(p), ~Complete(p), CallExpects(p),
         CallKnows(p), op[p].pc \in {"dryRun", "push"}, srcRef' = srcRef, Goto(p, "quarantine")
  PROVE  CallExpects(p)'
<1>1. Same(op[p], op'[p]) /\ op'[p].pc = "quarantine"
  BY GotoSame
<1>2. op[p].kind = "approve" => srcRef' = op[p].after
  BY RefIsApproved
<1> QED
  BY <1>1, <1>2, SameExpects, OwnRequestStays

LEMMA LsSourceExpects ==
  ASSUME SyncInv, NEW p \in Processes, LsSource(p), CallExpects(p)
  PROVE  CallExpects(p)'
<1> DEFINE o == op[p]
<1>1. o \in Ops /\ o.pc = "lsSource" /\ p \in DOMAIN op
  BY DEF SyncInv, Calls, LsSource, At
<1>2. CASE Becomes(p, Idle)
  BY <1>2, EndExpects
<1>3. ASSUME NEW pc, Becomes(p, [o EXCEPT !.src = SourceTip(o), !.pc = pc]),
             pc = "lsTarget" \/ o.kind = "update"
      PROVE  CallExpects(p)'
  <2>1. op'[p].pc = pc /\ Same(o, op'[p])
    BY <1>1, <1>3 DEF Becomes, Same, Ops
  <2>2. CASE o.kind = "update"
    BY <2>1, <2>2, UpdateExpects DEF Same
  <2>3. CASE pc = "lsTarget"
    BY <2>1, <2>3, SameExpects, OwnRequestStays DEF LsSource, store
  <2> QED
    BY <1>3, <2>2, <2>3
<1> QED
  BY <1>2, <1>3 DEF LsSource, UpdateReadsSource, DeleteReadsSource, ApproveReadsSource, Return, Proceed

\* The fetch finds the tip that was read, which is not None.
LEMMA FetchSourceExpects ==
  ASSUME SyncInv, NEW p \in Processes, FetchSource(p), CallExpects(p), CallKnows(p)
  PROVE  CallExpects(p)'
<1> DEFINE o == op[p]
           tip == SourceTip(o)
<1>1. /\ o.pc = "fetchSource" /\ UNCHANGED <<remote, pending, rejected>> /\ tip \in Tips
  BY CallFacts DEF FetchSource, At, store
<1>2. CASE ReturnError(p)
  BY <1>2, EndExpects DEF ReturnError
<1>3. CASE o.kind = "update" /\ \E pc : Goto(p, pc)
  BY <1>3, UpdateExpects, GotoFacts
<1>4. CASE /\ o.kind = "approve" /\ tip # None /\ objects' = objects \union History(tip)
           /\ Goto(p, IF o.dst = None THEN "dryRun" ELSE "fetchTarget")
  <2> DEFINE pc == IF o.dst = None THEN "dryRun" ELSE "fetchTarget"
  <2>1. Same(o, op'[p]) /\ op'[p].pc = pc /\ op'[p].src = o.src /\ op'[p].dst = o.dst
    BY <1>4, GotoSame, GotoDst
  <2>2. o.src = tip /\ o.dst = TargetTip(o)
    BY <1>1, <1>4 DEF CallKnows, Knows, CallExpects, Expects
  <2>3. tip \in objects'
    BY <1>1, <1>4, GraphAssumption DEF History, Tips
  <2>4. TargetTip(o)' = TargetTip(o)
    BY <1>1, <2>1 DEF TargetTip, To, Same
  <2> QED
    BY <1>1, <1>4, <2>1, <2>2, <2>3, <2>4, SameExpects
<1>5. o.kind \in {"update", "approve"}
  BY <1>1, CallFacts DEF Sound, Kinds
<1> QED
  BY <1>2, <1>3, <1>4, <1>5 DEF FetchSource

LEMMA LsTargetExpects ==
  ASSUME SyncInv, PromiseInv, NEW p \in Processes, LsTarget(p), CallExpects(p)
  PROVE  CallExpects(p)'
<1> DEFINE o == op[p]
           tip == TargetTip(o)
<1>1. o \in Ops /\ o.pc = "lsTarget" /\ p \in DOMAIN op /\ remote' = remote
  BY DEF SyncInv, Calls, LsTarget, At
<1>2. CASE Becomes(p, Idle)
  BY <1>2, EndExpects
<1>3. ASSUME NEW pc \in {"gate", "fetchTarget", "dryDelete", "fetchSource"},
             Becomes(p, [o EXCEPT !.dst = tip, !.pc = pc]),
             o.kind = "update" \/ pc \in {"dryDelete", "fetchSource"}
      PROVE  CallExpects(p)'
  <2>1. op'[p].pc = pc /\ op'[p].dst = tip /\ Same(o, op'[p])
    BY <1>1, <1>3 DEF Becomes, Same, Ops
  <2>2. CASE o.kind = "update"
    BY <2>1, <2>2, UpdateExpects DEF Same
  <2>3. CASE pc \in {"dryDelete", "fetchSource"}
    <3>1. TargetTip(o)' = tip
      BY <1>1, <2>1 DEF TargetTip, To, Same
    <3>2. ~Complete(p)
      BY <1>1 DEF Complete, At
    <3> QED
      BY <2>1, <2>3, <3>1, <3>2, SameExpects, OwnRequestStays DEF SyncStep
  <2> QED
    BY <1>3, <2>2, <2>3
<1>4. CASE AskHuman(p)
  <2>1. Same(o, op'[p]) /\ op'[p].pc = "write" /\ op'[p].dst = o.dst /\ op'[p].src = o.src
    BY <1>4, GotoSame, GotoDst DEF AskHuman
  <2>2. Asked(op'[p]) = Asked(o)
    BY <2>1 DEF Asked, Request, Same
  <2>3. /\ Asked(o) \in pending' /\ pending \union rejected \subseteq pending' \union rejected'
    BY <1>4 DEF AskHuman
  <2> QED
    BY <2>1, <2>2, <2>3, SameExpects
<1> QED
  BY <1>2, <1>3, <1>4
     DEF LsTarget, UpdateReadsTarget, DeleteReadsTarget, ApproveReadsTarget, Return, ReturnError, Proceed

LEMMA FetchTargetExpects ==
  ASSUME SyncInv, NEW p \in Processes, FetchTarget(p), CallExpects(p)
  PROVE  CallExpects(p)'
<1>1. op[p].pc = "fetchTarget" /\ ~Complete(p)
  BY DEF FetchTarget, At, Complete
<1>2. CASE Becomes(p, Idle)
  BY <1>2, EndExpects
<1>3. CASE op[p].kind = "update" /\ \E pc : Goto(p, pc)
  BY <1>3, UpdateExpects, GotoFacts
<1>4. CASE Goto(p, "dryRun")
  BY <1>1, <1>4, GotoExpects DEF SyncStep
<1> QED
  BY <1>2, <1>3, <1>4 DEF FetchTarget, CompareUpdate, CompareApproved, Return, ReturnError

\* A call that wrote, or kept the tip aside, is to be completed or ends.
LEMMA DoneExpects ==
  ASSUME SyncInv, NEW p \in Processes, SyncStep(p) \/ FaultStep(p), ~Complete(p), CallExpects(p),
         Done(p),
         op[p].kind = "approve" =>
           \/ remote'[To(op[p])][op[p].branch] = op[p].after
           \/ <<op[p].branch, op[p].after>> \in quarantined'[To(op[p])]
  PROVE  CallExpects(p)'
<1>1. CASE Becomes(p, Idle)
  BY <1>1, EndExpects
<1>2. CASE Goto(p, "complete")
  BY <1>2, GotoSame, SameExpects, OwnRequestStays
<1> QED
  BY <1>1, <1>2 DEF Done

LEMMA WriteExpects ==
  ASSUME SyncInv, NEW p \in Processes, CallExpects(p), CallKnows(p),
         Push(p) \/ Quarantine(p) \/ StrictDelete(p)
  PROVE  CallExpects(p)'
<1> DEFINE o == op[p]
<1>1. /\ ~Complete(p) /\ SyncStep(p) /\ To(o) \in Sides /\ o.branch \in Branches
      /\ remote \in [Sides -> [Branches -> Tips]]
      /\ quarantined \in [Sides -> SUBSET (Branches \X Commits)]
  BY CallFacts DEF Push, Quarantine, StrictDelete, Complete, At, SyncStep, SyncInv, Data
<1>2. CASE Push(p)
  <2>1. CASE Goto(p, "quarantine")
    BY <1>1, <1>2, <2>1, AsideExpects DEF Push, At
  <2>2. CASE Write(p, srcRef) /\ Done(p)
    <3>1. o.kind = "approve" => remote'[To(o)][o.branch] = o.after
      BY <1>1, <1>2, <2>2, RefIsApproved DEF Push, At, Write
    <3> QED
      BY <1>1, <2>2, <3>1, DoneExpects
  <2> QED
    BY <1>2, <2>1, <2>2 DEF Push
<1>3. CASE Quarantine(p)
  <2>1. o.kind = "approve" => srcRef = o.after
    BY <1>3 DEF Quarantine, At, CallExpects, Expects
  <2>2. <<o.branch, srcRef>> \in quarantined'[To(o)]
    BY <1>1, <1>3 DEF Quarantine, Keep
  <2> QED
    BY <1>1, <1>3, <2>1, <2>2, DoneExpects DEF Quarantine
<1>4. CASE StrictDelete(p)
  <2>1. CASE Becomes(p, Idle)
    BY <2>1, EndExpects
  <2>2. CASE Write(p, None) /\ Done(p)
    <3>1. o.kind = "approve" => remote'[To(o)][o.branch] = o.after
      BY <1>1, <1>4, <2>2 DEF StrictDelete, At, Write, CallKnows, Knows, Deletes
    <3> QED
      BY <1>1, <2>2, <3>1, DoneExpects
  <2> QED
    BY <1>4, <2>1, <2>2 DEF StrictDelete, ReturnError
<1> QED
  BY <1>2, <1>3, <1>4

LEMMA OtherExpects ==
  ASSUME SyncInv, PromiseInv, NEW p \in Processes, CallExpects(p), CallKnows(p),
         \/ Gate(p) \/ WriteRequest(p) \/ DryRun(p) \/ DryDelete(p) \/ Complete(p) \/ FaultStep(p)
  PROVE  CallExpects(p)'
<1>1. CASE Gate(p)
  <2>1. op[p].kind = "update"
    BY <1>1 DEF Gate, At, PromiseInv, Fits
  <2> QED
    BY <1>1, <2>1, UpdateExpects, GotoFacts DEF Gate, AskHuman
<1>2. CASE WriteRequest(p) \/ Complete(p) \/ Dies(p)
  BY <1>2, EndExpects DEF WriteRequest, Complete, Dies, Return
<1>3. CASE DryRun(p)
  <2>1. ~Complete(p) /\ op[p].pc = "dryRun" /\ srcRef' = srcRef
    BY <1>3 DEF DryRun, Complete, At
  <2> QED
    BY <1>3, <2>1, GotoExpects, AsideExpects DEF DryRun, SyncStep
<1>4. CASE DryDelete(p)
  <2>1. ~Complete(p)
    BY <1>4 DEF DryDelete, Complete, At
  <2> QED
    BY <1>4, <2>1, GotoExpects, EndExpects DEF DryDelete, SyncStep, ReturnError
<1>5. CASE CommandFails(p) \/ AnswerLost(p)
  <2>1. CASE Becomes(p, Idle)
    BY <2>1, EndExpects
  <2>2. CASE op[p].pc \in {"dryRun", "push"} /\ Goto(p, "quarantine")
    <3>1. ~Complete(p) /\ srcRef' = srcRef
      BY <1>5, <2>2 DEF CommandFails, AnswerLost, Complete, At
    <3> QED
      BY <1>5, <2>2, <3>1, AsideExpects DEF FaultStep
  <2> QED
    BY <1>5, <2>1, <2>2 DEF CommandFails, AnswerLost, ReturnError, At
<1>6. CASE QuarantineFails(p)
  <2>1. CASE Becomes(p, Idle)
    BY <2>1, EndExpects
  <2>2. CASE Becomes(p, [op[p] EXCEPT !.tries = @ + 1])
    <3>1. /\ op[p] \in Ops /\ op[p].pc = "quarantine" /\ p \in DOMAIN op
          /\ srcRef' = srcRef /\ ~Complete(p)
      BY <1>6 DEF QuarantineFails, At, Complete, SyncInv, Calls
    <3>2. Same(op[p], op'[p]) /\ op'[p].pc = "quarantine"
      BY <2>2, <3>1 DEF Becomes, Same, Ops
    <3>3. op[p].kind = "approve" => srcRef' = op[p].after
      BY <3>1 DEF CallExpects, Expects
    <3> QED
      BY <1>6, <3>1, <3>2, <3>3, SameExpects, OwnRequestStays DEF FaultStep
  <2> QED
    BY <1>6, <2>1, <2>2 DEF QuarantineFails, ReturnError
<1> QED
  BY <1>1, <1>2, <1>3, <1>4, <1>5, <1>6 DEF FaultStep

-----------------------------------------------------------------------------
(* The steps of others *)

\* What is in quarantine stays there.
LEMMA KeptStays ==
  ASSUME SyncInv, Next
  PROVE  \A s \in Sides : quarantined[s] \subseteq quarantined'[s]
<1>1. CASE UNCHANGED quarantined
  BY <1>1
<1>2. ASSUME NEW p \in Processes, op[p].pc = "quarantine", Keep(op[p])
      PROVE  \A s \in Sides : quarantined[s] \subseteq quarantined'[s]
  BY <1>2 DEF Keep, SyncInv, Data
<1>3. ASSUME NEW p \in Processes, SyncStep(p) \/ FaultStep(p)
      PROVE  UNCHANGED quarantined \/ (op[p].pc = "quarantine" /\ Keep(op[p]))
  BY <1>3 DEF SyncStep, FaultStep, LsSource, FetchSource, LsTarget, FetchTarget, Gate, WriteRequest,
     DryRun, Push, Quarantine, DryDelete, StrictDelete, Complete, CommandFails, AnswerLost,
     QuarantineFails, Dies, At
<1>4. UNCHANGED quarantined \/ \E p \in Processes : SyncStep(p) \/ FaultStep(p)
  BY DEF Next, UserStep, UserPush, UserDelete, StartStep, TakeEvent, StartSync, LoadRequest, Enter, Reject
<1> QED
  BY <1>1, <1>2, <1>3, <1>4

\* A call still knows what it needs after a step that left its record, its two
\* tips, the shared local ref and the requests of its branch alone.
LEMMA StillExpects ==
  ASSUME SyncInv, Next, NEW q \in Processes, CallExpects(q), op'[q] = op[q], srcRef' = srcRef,
         objects \subseteq objects',
         \A s \in Sides : remote'[s][op[q].branch] = remote[s][op[q].branch],
         \A r \in pending \union rejected :
           r.branch = op[q].branch => r \in pending' \union rejected'
  PROVE  CallExpects(q)'
<1>1. To(op[q]) \in Sides /\ To(op[q])' = To(op[q])
  BY DEF SyncInv, Calls, Ops, To, Other, Sides
<1>2. TargetTip(op[q])' = TargetTip(op[q])
  BY <1>1 DEF TargetTip, To
<1>3. quarantined[To(op[q])] \subseteq quarantined'[To(op[q])]
  BY <1>1, KeptStays
<1>4. /\ Asked(op[q])' = Asked(op[q]) /\ Asked(op[q]).branch = op[q].branch
      /\ RequestOf(op[q])' = RequestOf(op[q]) /\ RequestOf(op[q]).branch = op[q].branch
  BY DEF Asked, RequestOf, Request
<1> QED
  BY <1>1, <1>2, <1>3, <1>4 DEF CallExpects, Expects

LEMMA UserAnswers ==
  ASSUME SyncInv, AnswerInv, UserStep
  PROVE  AnswerInv'
<1> SUFFICES ASSUME NEW q \in calm' PROVE CallExpects(q)'
  BY DEF AnswerInv
<1>1. PICK s \in Sides, b \in Branches : UserDelete(s, b) \/ \E c \in Commits : UserPush(s, b, c)
  BY DEF UserStep
<1>2. /\ q \in calm /\ q \in Processes /\ op[q].branch # b
      /\ UNCHANGED <<op, srcRef, objects, pending, rejected>>
  BY <1>1 DEF UserDelete, UserPush, Unsettle, SyncInv, Data, store
<1>3. \A t \in Sides : remote'[t][op[q].branch] = remote[t][op[q].branch]
  <2>1. PICK tip : remote' = [remote EXCEPT ![s][b] = tip]
    BY <1>1 DEF UserDelete, UserPush
  <2> QED
    BY <1>2, <2>1 DEF SyncInv, Data
<1> QED
  BY <1>2, <1>3, StillExpects DEF AnswerInv, Next

\* A new call of Approve loads a pending request.
LEMMA StartAnswers ==
  ASSUME SyncInv, AnswerInv, NEW p \in Processes, StartStep(p)
  PROVE  AnswerInv'
<1> SUFFICES ASSUME NEW q \in calm' PROVE CallExpects(q)'
  BY DEF AnswerInv
<1>1. PICK kind, x, after :
        /\ Enter(p, Begin(kind, x, after))
        /\ kind = "approve" => x \in pending /\ after = x.after
  BY SyncAssumption, GraphAssumption
     DEF StartStep, TakeEvent, StartSync, LoadRequest, Readable, SyncInv, Data, Events
<1>2. /\ q \in calm \union {p} /\ q \in Processes /\ p \in DOMAIN op
      /\ UNCHANGED <<remote, srcRef, objects, pending, rejected>>
      /\ op' = [op EXCEPT ![p] = Begin(kind, x, after)]
  BY <1>1 DEF Enter, Becomes, store, SyncInv, Calls, Data
<1>3. CASE q = p
  <2>1. op'[p] = Begin(kind, x, after)
    BY <1>2
  <2>2. ASSUME kind = "approve" PROVE RequestOf(op'[p]) = x /\ x \in pending
    <3>1. x \in pending /\ x \in Recorded /\ after = x.after
      BY <1>1, <2>2 DEF Recorded
    <3> QED
      BY <2>1, <2>2, <3>1, BegunRequest
  <2>3. op'[p].pc = "lsSource" /\ op'[p].kind = kind
    BY <2>1 DEF Begin
  <2> QED
    BY <1>2, <1>3, <2>2, <2>3 DEF CallExpects, Expects
<1>4. CASE q # p
  BY <1>2, <1>4, StillExpects DEF AnswerInv, Next
<1> QED
  BY <1>3, <1>4

LEMMA CallAnswers ==
  ASSUME SyncInv, PromiseInv, CalmInv, AnswerInv, NEW p \in Processes, SyncStep(p) \/ FaultStep(p)
  PROVE  AnswerInv'
<1> SUFFICES ASSUME NEW q \in calm' PROVE CallExpects(q)'
  BY DEF AnswerInv
<1>1. CASE q = p
  <2>1. CallExpects(p) /\ CallKnows(p)
    BY <1>1, StillCalm DEF AnswerInv, CalmInv
  <2> QED
    BY <1>1, <2>1, LsSourceExpects, FetchSourceExpects, LsTargetExpects, FetchTargetExpects,
       WriteExpects, OtherExpects DEF SyncStep
<1>2. CASE q # p
  <2>1. /\ q \in calm /\ q \in Processes /\ op'[q] = op[q] /\ srcRef' = srcRef
        /\ \A s \in Sides : remote'[s][op[q].branch] = remote[s][op[q].branch]
    BY <1>2, OthersLeft
  <2>2. \A r \in pending \union rejected :
          r.branch = op[q].branch => r \in pending' \union rejected'
    BY <1>2, RequestsStay
  <2> QED
    BY <2>1, <2>2, ObjectsGrow, StillExpects DEF AnswerInv, Next
<1> QED
  BY <1>1, <1>2

LEMMA AnswerInit == Init => AnswerInv
BY DEF Init, AnswerInv

LEMMA AnswerNext == SyncInv /\ PromiseInv /\ CalmInv /\ AnswerInv /\ [Next]_vars => AnswerInv'
<1> SUFFICES ASSUME SyncInv, PromiseInv, CalmInv, AnswerInv, [Next]_vars PROVE AnswerInv'
  OBVIOUS
<1>1. CASE UserStep
  BY <1>1, UserAnswers
<1>2. ASSUME NEW p \in Processes, StartStep(p) PROVE AnswerInv'
  BY <1>2, StartAnswers
<1>3. ASSUME NEW p \in Processes, SyncStep(p) \/ FaultStep(p) PROVE AnswerInv'
  BY <1>3, CallAnswers
<1>4. ASSUME NEW r \in pending, Reject(r) PROVE AnswerInv'
  <2>1. /\ UNCHANGED <<remote, srcRef, objects, op, calm>>
        /\ pending \union rejected \subseteq pending' \union rejected'
    BY <1>4 DEF Reject, MovesAway, ghosts
  <2>2. calm \subseteq Processes
    BY DEF SyncInv, Data
  <2> QED
    BY <1>4, <2>1, <2>2, StillExpects DEF AnswerInv, Next
<1>5. CASE UNCHANGED vars
  BY <1>5 DEF ghosts, vars, store, AnswerInv, CallExpects, TargetTip, To
<1> QED
  BY <1>1, <1>2, <1>3, <1>4, <1>5 DEF Next

-----------------------------------------------------------------------------
(* How a call ends *)

\* A call that goes to another step has not ended.
LEMMA NotEnded ==
  ASSUME SyncInv, NEW p \in Processes, op'[p] = Idle, NEW pc, pc # "idle"
  PROVE  /\ ~Goto(p, pc)
         /\ \A tip : /\ ~Becomes(p, [op[p] EXCEPT !.src = tip, !.pc = pc])
                    /\ ~Becomes(p, [op[p] EXCEPT !.dst = tip, !.pc = pc])
<1>1. \A o : Becomes(p, o) => o = Idle
  BY DEF Becomes, SyncInv, Calls
<1>2. op[p] \in Ops
  BY DEF SyncInv, Calls
<1>3. ~Goto(p, pc)
  BY GotoFacts DEF Idle
<1>4. ASSUME NEW tip
      PROVE  /\ [op[p] EXCEPT !.src = tip, !.pc = pc] # Idle
             /\ [op[p] EXCEPT !.dst = tip, !.pc = pc] # Idle
  <2>1. /\ [op[p] EXCEPT !.src = tip, !.pc = pc].pc = pc
        /\ [op[p] EXCEPT !.dst = tip, !.pc = pc].pc = pc
    BY <1>2 DEF Ops
  <2> QED
    BY <2>1 DEF Idle
<1> QED
  BY <1>1, <1>3, <1>4

\* How a deletion ends: with the branch at the source again, with another tip or
\* none at the target, or with a request.
LEMMA DeletionEnds ==
  ASSUME SyncInv, NEW p \in Processes, CallKnows(p), CallExpects(p), SyncStep(p),
         op[p] # Idle, op'[p] = Idle, NEW e \in Events, e.kind = "delete", EventOf(op[p]) = e
  PROVE  DeletionAccounted(e)'
<1> DEFINE o == op[p]
           source == remote[e.from][e.branch]
           target == remote[Other(e.from)][e.branch]
<1>1. /\ o.kind = "delete" /\ o.from = e.from /\ o.branch = e.branch /\ o.before = e.before
      /\ SourceTip(o) = source /\ TargetTip(o) = target /\ To(o) = Other(e.from)
      /\ Sound(p, o, srcRef)
  BY DEF EventOf, SourceTip, TargetTip, To, SyncInv, Calls
<1>2. e.before # None /\ Other(e.from) \in Sides /\ e.branch \in Branches
  BY GraphAssumption DEF Events, Other, Sides
<1>3. ASSUME remote' = remote, source # None \/ target # e.before
      PROVE  DeletionAccounted(e)'
  BY <1>3 DEF DeletionAccounted
<1>4. CASE LsSource(p)
  <2>1. source # None
    BY <1>1, <1>4, NotEnded DEF LsSource, DeleteReadsSource, Proceed
  <2> QED
    BY <1>3, <1>4, <2>1 DEF LsSource
<1>5. CASE LsTarget(p)
  <2>1. target # e.before
    BY <1>1, <1>2, <1>5, NotEnded DEF LsTarget, DeleteReadsTarget, AskHuman, Proceed, Deletable
  <2> QED
    BY <1>3, <1>5, <2>1 DEF LsTarget
<1>6. CASE WriteRequest(p)
  <2>1. Asked(o) = Request(e, e.before, None) /\ Asked(o) \in pending \union rejected
    BY <1>1, <1>6 DEF WriteRequest, At, CallExpects, Expects, Asked, Request
  <2>2. Asked(o) \in (Readable \union rejected)'
    BY <1>6, <2>1 DEF WriteRequest, Readable
  <2> QED
    BY <2>1, <2>2 DEF DeletionAccounted, Request
<1>7. CASE DryDelete(p)
  <2>1. target = None
    BY <1>1, <1>7, NotEnded DEF DryDelete
  <2> QED
    BY <1>2, <1>3, <1>7, <2>1 DEF DryDelete
<1>8. CASE StrictDelete(p)
  <2>1. remote'[Other(e.from)][e.branch] = None
    BY <1>1, <1>2, <1>8 DEF StrictDelete, Write, SyncInv, Data
  <2> QED
    BY <1>2, <2>1 DEF DeletionAccounted
<1>9. /\ ~FetchSource(p) /\ ~FetchTarget(p) /\ ~Gate(p) /\ ~DryRun(p) /\ ~Push(p)
      /\ ~Quarantine(p) /\ ~Complete(p)
  BY <1>1 DEF Sound, FetchSource, FetchTarget, Gate, DryRun, Push, Quarantine, Complete, At
<1> QED
  BY <1>4, <1>5, <1>6, <1>7, <1>8, <1>9 DEF SyncStep

\* How an approval ends: with one of the sides not as it was approved, or
\* completed.  Once both sides are as approved, the commit that is to be pushed
\* is there, the fetched target is behind it, and there is a tip to delete.
LEMMA ApprovalEnds ==
  ASSUME SyncInv, PromiseInv, ForwardInv, NEW p \in Processes, CallKnows(p), CallExpects(p),
         SyncStep(p), op[p] # Idle, op'[p] = Idle, op[p].kind = "approve",
         NEW r \in Recorded, RequestOf(op[p]) = r
  PROVE  Answered(r)'
<1> DEFINE o == op[p]
           source == remote[r.from][r.branch]
           target == remote[Other(r.from)][r.branch]
<1>1. /\ o.from = r.from /\ o.branch = r.branch /\ o.before = r.before /\ o.after = r.after
      /\ SourceTip(o) = source /\ TargetTip(o) = target /\ To(o) = Other(r.from)
      /\ r \in pending \union rejected
  BY DEF RequestOf, Request, SourceTip, TargetTip, To, CallExpects, Expects
<1>2. Forward(r) /\ Fits(o)
  BY DEF ForwardInv, PromiseInv
<1>3. CASE LsTarget(p)
  <2>1. ~StillCurrent(o, target)
    BY <1>1, <1>3, NotEnded DEF LsTarget, ApproveReadsTarget, Proceed
  <2>2. source # r.after \/ target # r.before
    BY <1>1, <1>3, <2>1 DEF LsTarget, At, CallKnows, Knows, StillCurrent
  <2>3. UNCHANGED <<remote, pending, rejected>>
    BY <1>3 DEF LsTarget, ApproveReadsTarget, store
  <2> QED
    BY <1>1, <2>2, <2>3 DEF Answered
<1>4. ~FetchSource(p)
  <2>1. ASSUME FetchSource(p) PROVE FALSE
    <3>1. source # None
      BY <1>1, <1>2, <2>1 DEF FetchSource, At, CallKnows, Knows, Fits, ForPush
    <3> QED
      BY <1>1, <2>1, <3>1, NotEnded DEF FetchSource
  <2> QED
    BY <2>1
<1>5. ~FetchTarget(p)
  <2>1. ASSUME FetchTarget(p) PROVE FALSE
    <3>1. /\ o.src = r.after /\ o.dst = target /\ target = r.before /\ target # None
          /\ o.src \in objects /\ r.after # None
      BY <1>1, <1>2, <2>1
         DEF FetchTarget, At, CallKnows, Knows, Pushes, CallExpects, Expects, Fits, ForPush
    <3>2. target \in Tips
      BY <2>1, <1>1, CallFacts DEF FetchTarget, At
    <3>3. target \in History(target)
      BY <3>1, <3>2, GraphAssumption DEF History, Tips
    <3>4. CompareApproved(p)
      BY <1>1, <2>1, <3>1, <3>3 DEF FetchTarget
    <3>5. Behind(o)
      BY <1>2, <3>1 DEF Forward, Behind
    <3> QED
      BY <3>4, <3>5, NotEnded DEF CompareApproved
  <2> QED
    BY <2>1
<1>6. ~DryDelete(p) /\ ~StrictDelete(p)
  <2>1. ASSUME DryDelete(p) \/ StrictDelete(p) PROVE FALSE
    <3>1. target # None
      BY <1>1, <1>2, <2>1 DEF DryDelete, StrictDelete, At, CallKnows, Knows, Deletes, Forward
    <3> QED
      BY <1>1, <2>1, <3>1, NotEnded DEF DryDelete, StrictDelete, Done
  <2> QED
    BY <2>1
<1>7. CASE Complete(p)
  <2>1. target = r.after \/ <<r.branch, r.after>> \in quarantined[Other(r.from)]
    BY <1>1, <1>7 DEF Complete, At, CallExpects, Expects
  <2>2. r \in (approved' \union rejected') \ pending' /\ UNCHANGED <<remote, quarantined>>
    BY <1>1, <1>7 DEF Complete, MovesAway
  <2> QED
    BY <2>1, <2>2 DEF Answered
<1>8. ~LsSource(p) /\ ~DryRun(p) /\ ~Push(p) /\ ~Quarantine(p)
  BY NotEnded DEF LsSource, ApproveReadsSource, Proceed, DryRun, Push, Quarantine, Done
<1>9. ~Gate(p) /\ ~WriteRequest(p)
  BY <1>2 DEF Fits, Gate, WriteRequest, At
<1> QED
  BY <1>3, <1>4, <1>5, <1>6, <1>7, <1>8, <1>9 DEF SyncStep

LEMMA AnswersKept == Spec => [](SyncInv /\ PromiseInv /\ ForwardInv /\ CalmInv /\ AnswerInv)
<1>1. Spec => []SyncInv
  BY CallsSound
<1>2. Spec => []PromiseInv
  BY <1>1, PromiseInit, PromiseNext, PTL DEF Spec
<1>3. Spec => []ForwardInv
  BY <1>1, <1>2, ForwardInit, ForwardNext, PTL DEF Spec
<1>4. Spec => []CalmInv
  BY <1>1, CalmInit, CalmNext, PTL DEF Spec
<1>5. Spec => []AnswerInv
  BY <1>1, <1>2, <1>4, AnswerInit, AnswerNext, PTL DEF Spec
<1> QED
  BY <1>1, <1>2, <1>3, <1>4, <1>5, PTL

\* A deletion that nobody interfered with never drops what it was called for:
\* when it ends without a failure, the branch is at the source again, or the
\* target does not have the tip that was deleted, or a request for exactly this
\* deletion can be read or was rejected.
THEOREM UndisturbedDeletionsAreAccountedFor == Spec => DeletionIsAccountedFor
<1> DEFINE EndsAccounted ==
      \A p \in calm, e \in Events :
        Ends(p) /\ e.kind = "delete" /\ EventOf(op[p]) = e => DeletionAccounted(e)'
<1>1. SyncInv /\ CalmInv /\ AnswerInv /\ [Next]_vars => [EndsAccounted]_vars
  <2> SUFFICES ASSUME SyncInv, CalmInv, AnswerInv, Next, NEW p \in calm, NEW e \in Events,
                      Ends(p), e.kind = "delete", EventOf(op[p]) = e
               PROVE  DeletionAccounted(e)'
    OBVIOUS
  <2> QED
    BY OwnEnd, DeletionEnds DEF CalmInv, AnswerInv
<1> QED
  BY <1>1, AnswersKept, PTL DEF Spec, DeletionIsAccountedFor

\* An approval that nobody interfered with is answered: when its call ends
\* without a failure, the approved tip is on the target or in quarantine there
\* and the request has left the pending ones, or one of the sides is not what
\* was approved and the request is still recorded as pending or rejected.
THEOREM UndisturbedApprovalsAreAnswered == Spec => ApprovalIsAnswered
<1> DEFINE EndsAnswered ==
      \A p \in calm, r \in Recorded :
        Ends(p) /\ op[p].kind = "approve" /\ RequestOf(op[p]) = r => Answered(r)'
<1>1. SyncInv /\ PromiseInv /\ ForwardInv /\ CalmInv /\ AnswerInv /\ [Next]_vars
        => [EndsAnswered]_vars
  <2> SUFFICES ASSUME SyncInv, PromiseInv, ForwardInv, CalmInv, AnswerInv, Next,
                      NEW p \in calm, NEW r \in Recorded,
                      Ends(p), op[p].kind = "approve", RequestOf(op[p]) = r
               PROVE  Answered(r)'
    OBVIOUS
  <2> QED
    BY OwnEnd, ApprovalEnds DEF CalmInv, AnswerInv
<1> QED
  BY <1>1, AnswersKept, PTL DEF Spec, ApprovalIsAnswered

==========================================================================
