---------------------- MODULE BranchSyncCalmProofs -----------------------
(***************************************************************************)
(* Calls of BranchSync that nobody interferes with: what they write is     *)
(* what they decided, and updates account for what they found, for any     *)
(* commit graph, any branches, any number of workers, commands and         *)
(* approvers, and any failures.                                            *)
(***************************************************************************)
EXTENDS BranchSyncProofs

(* The steps after which a call writes.                                     *)
Pushes == {"fetchTarget", "gate", "dryRun", "push"}
Deletes == {"dryDelete", "delete"}

(* What a call knows of the shared local ref and of the two tips of its     *)
(* branch, as long as nobody interferes: the source tip it read is still    *)
(* there, its fetch brought that tip, and before an approved push and before *)
(* any deletion the target is as it should be.                              *)
Knows(o, ref, source, target) ==
  /\ o.pc \in {"fetchSource", "lsTarget"} \union Pushes => o.src = source
  /\ o.pc \in Pushes \/ (o.pc = "lsTarget" /\ o.kind = "update") => ref = o.src
  /\ o.pc \in {"fetchSource"} \union Pushes /\ o.kind = "approve"
       => target = o.before /\ o.src = o.after
  /\ o.pc \in Deletes
       => /\ o.kind # "update" /\ target = o.before
          /\ o.kind = "approve" => o.after = None

CallKnows(p) == Knows(op[p], srcRef, SourceTip(op[p]), TargetTip(op[p]))

CalmInv == \A p \in calm : CallKnows(p)

-----------------------------------------------------------------------------
(* The step of the call itself *)

\* Before its first read and after its write a call need not know anything.
LEMMA NothingToKnow ==
  ASSUME NEW o, o.pc \in {"idle", "lsSource", "write", "quarantine", "complete"},
         NEW ref, NEW source, NEW target
  PROVE  Knows(o, ref, source, target)
BY DEF Knows, Pushes, Deletes

LEMMA EndKnows ==
  ASSUME SyncInv, NEW p \in Processes, Becomes(p, Idle)
  PROVE  CallKnows(p)'
<1>1. op'[p].pc = "idle"
  BY DEF SyncInv, Calls, Becomes, Idle
<1> QED
  BY <1>1, NothingToKnow DEF CallKnows

LEMMA GotoEndKnows ==
  ASSUME SyncInv, NEW p \in Processes,
         NEW pc \in {"write", "quarantine", "complete"}, Goto(p, pc)
  PROVE  CallKnows(p)'
BY GotoFacts, NothingToKnow DEF CallKnows

\* A step towards the write that changes nothing but its place.
LEMMA GotoKnows ==
  ASSUME SyncInv, NEW p \in Processes, NEW pc, Goto(p, pc), CallKnows(p),
         UNCHANGED <<remote, srcRef>>,
         \/ op[p].pc \in Pushes /\ pc \in Pushes
         \/ op[p].pc \in Deletes /\ pc \in Deletes
  PROVE  CallKnows(p)'
BY GotoFacts DEF CallKnows, Knows, Pushes, Deletes, SourceTip, TargetTip, To

\* Reading the source.
LEMMA LsSourceKnows ==
  ASSUME SyncInv, NEW p \in Processes, LsSource(p)
  PROVE  CallKnows(p)'
<1> DEFINE o == op[p]
           tip == SourceTip(o)
<1>1. o \in Ops /\ p \in DOMAIN op /\ UNCHANGED <<remote, srcRef>>
  BY DEF SyncInv, Calls, LsSource
<1>2. CASE Becomes(p, Idle)
  BY <1>2, EndKnows
<1>3. ASSUME NEW pc \in {"fetchSource", "lsTarget"},
             Becomes(p, [o EXCEPT !.src = tip, !.pc = pc]),
             o.kind = "update" <=> pc = "fetchSource"
      PROVE  CallKnows(p)'
  <2>1. /\ op'[p].pc = pc /\ op'[p].kind = o.kind /\ op'[p].from = o.from
        /\ op'[p].branch = o.branch /\ op'[p].src = tip
    BY <1>1, <1>3 DEF Becomes, Ops
  <2>2. remote'[op'[p].from][op'[p].branch] = tip
    BY <1>1, <2>1 DEF SourceTip
  <2> QED
    BY <1>3, <2>1, <2>2 DEF CallKnows, Knows, Pushes, Deletes, SourceTip
<1>4. CASE o.kind = "update" /\ UpdateReadsSource(p)
  BY <1>2, <1>3, <1>4 DEF UpdateReadsSource, Return, Proceed
<1>5. CASE o.kind = "delete" /\ DeleteReadsSource(p)
  BY <1>2, <1>3, <1>5 DEF DeleteReadsSource, Return, Proceed
<1>6. CASE o.kind = "approve" /\ ApproveReadsSource(p)
  BY <1>3, <1>6 DEF ApproveReadsSource, Proceed
<1> QED
  BY <1>4, <1>5, <1>6 DEF LsSource

\* The fetch brings the tip that the call read, since it is still there.
LEMMA FetchSourceKnows ==
  ASSUME SyncInv, NEW p \in Processes, FetchSource(p), CallKnows(p)
  PROVE  CallKnows(p)'
<1> DEFINE o == op[p]
           tip == SourceTip(o)
<1>1. /\ o \in Ops /\ p \in DOMAIN op /\ o.pc = "fetchSource" /\ UNCHANGED remote
      /\ o.kind # "delete" /\ o.kind \in Kinds
  BY CallFacts DEF FetchSource, At, Sound, SyncInv, Calls
<1>2. CASE ReturnError(p)
  BY <1>2, EndKnows DEF ReturnError
<1>3. ASSUME NEW pc, Goto(p, pc), srcRef' = tip,
             \/ o.kind = "update" /\ pc = "lsTarget"
             \/ o.kind = "approve" /\ pc \in {"dryRun", "fetchTarget"}
      PROVE  CallKnows(p)'
  <2>1. o.src = tip /\ (o.kind = "approve" => TargetTip(o) = o.before /\ o.src = o.after)
    BY <1>1 DEF CallKnows, Knows, Pushes
  <2>2. /\ op'[p].pc = pc /\ op'[p].kind = o.kind /\ op'[p].from = o.from
        /\ op'[p].branch = o.branch /\ op'[p].before = o.before
        /\ op'[p].after = o.after /\ op'[p].src = o.src
    BY <1>3, GotoFacts
  <2> QED
    BY <1>1, <1>3, <2>1, <2>2
       DEF CallKnows, Knows, Pushes, Deletes, SourceTip, TargetTip, To
<1>4. CASE srcRef' = tip /\ \E pc : /\ Goto(p, pc)
                                   /\ \/ o.kind = "update" /\ pc = "lsTarget"
                                      \/ o.kind = "approve" /\ pc \in {"dryRun", "fetchTarget"}
  BY <1>3, <1>4
<1> QED
  BY <1>1, <1>2, <1>4 DEF FetchSource, Fetched, Kinds

\* Reading the target: an update keeps its source, an approval and a deletion
\* go on only when the target is as it should be.
LEMMA LsTargetKnows ==
  ASSUME SyncInv, NEW p \in Processes, LsTarget(p), CallKnows(p)
  PROVE  CallKnows(p)'
<1> DEFINE o == op[p]
           tip == TargetTip(o)
<1>1. /\ o \in Ops /\ p \in DOMAIN op /\ o.pc = "lsTarget" /\ UNCHANGED <<remote, srcRef>>
      /\ o.src = SourceTip(o) /\ (o.kind = "update" => srcRef = o.src)
  BY DEF LsTarget, At, SyncInv, Calls, CallKnows, Knows
<1>2. CASE Return(p) \/ ReturnError(p)
  BY <1>2, EndKnows DEF Return, ReturnError
<1>3. CASE AskHuman(p)
  BY <1>3, GotoEndKnows DEF AskHuman
<1>4. ASSUME NEW pc, Proceed(p, [o EXCEPT !.dst = tip, !.pc = pc]),
             \/ o.kind = "update" /\ pc \in {"gate", "fetchTarget"}
             \/ o.kind = "delete" /\ pc = "dryDelete" /\ tip = o.before
             \/ /\ o.kind = "approve" /\ StillCurrent(o, tip)
                /\ \/ pc = "dryDelete" /\ o.after = None
                   \/ pc = "fetchSource"
      PROVE  CallKnows(p)'
  <2>1. /\ op'[p].pc = pc /\ op'[p].kind = o.kind /\ op'[p].from = o.from
        /\ op'[p].branch = o.branch /\ op'[p].before = o.before
        /\ op'[p].after = o.after /\ op'[p].src = o.src
    BY <1>1, <1>4 DEF Proceed, Becomes, Ops
  <2> QED
    BY <1>1, <1>4, <2>1
       DEF CallKnows, Knows, Pushes, Deletes, SourceTip, TargetTip, To, StillCurrent
<1>5. CASE o.kind = "update" /\ UpdateReadsTarget(p)
  BY <1>2, <1>4, <1>5 DEF UpdateReadsTarget
<1>6. CASE o.kind = "delete" /\ DeleteReadsTarget(p)
  BY <1>2, <1>3, <1>4, <1>6 DEF DeleteReadsTarget, Deletable
<1>7. CASE o.kind = "approve" /\ ApproveReadsTarget(p)
  BY <1>2, <1>4, <1>7 DEF ApproveReadsTarget
<1> QED
  BY <1>5, <1>6, <1>7 DEF LsTarget

\* The other steps go on towards the write with nothing changed, or end.
LEMMA LaterKnows ==
  ASSUME SyncInv, NEW p \in Processes, CallKnows(p),
         \/ FetchTarget(p) \/ Gate(p) \/ WriteRequest(p) \/ DryRun(p) \/ DryDelete(p)
  PROVE  CallKnows(p)'
<1>1. CASE FetchTarget(p)
  BY <1>1, EndKnows, GotoEndKnows, GotoKnows
     DEF FetchTarget, CompareUpdate, CompareApproved, Return, ReturnError, At, Pushes
<1>2. CASE Gate(p)
  BY <1>2, GotoEndKnows, GotoKnows DEF Gate, AskHuman, At, Pushes
<1>3. CASE WriteRequest(p)
  BY <1>3, EndKnows DEF WriteRequest, Return
<1>4. CASE DryRun(p)
  BY <1>4, GotoEndKnows, GotoKnows DEF DryRun, At, Pushes
<1>5. CASE DryDelete(p)
  BY <1>5, EndKnows, GotoKnows DEF DryDelete, ReturnError, At, Deletes
<1> QED
  BY <1>1, <1>2, <1>3, <1>4, <1>5

\* After its write a call need not know anything.
LEMMA LastKnows ==
  ASSUME SyncInv, NEW p \in Processes,
         Push(p) \/ Quarantine(p) \/ StrictDelete(p) \/ Complete(p) \/ FaultStep(p)
  PROVE  CallKnows(p)'
<1>1. CASE Push(p) \/ Quarantine(p) \/ StrictDelete(p) \/ Complete(p)
  BY <1>1, EndKnows, GotoEndKnows
     DEF Push, Quarantine, StrictDelete, Complete, Done, Return, ReturnError
<1>2. CASE CommandFails(p) \/ AnswerLost(p) \/ Dies(p)
  BY <1>2, EndKnows, GotoEndKnows DEF CommandFails, AnswerLost, Dies, ReturnError
<1>3. CASE QuarantineFails(p)
  <2>1. CASE ReturnError(p)
    BY <2>1, EndKnows DEF ReturnError
  <2>2. CASE Becomes(p, [op[p] EXCEPT !.tries = @ + 1])
    <3>1. op[p] \in Ops /\ op[p].pc = "quarantine" /\ p \in DOMAIN op
      BY <1>3 DEF QuarantineFails, At, SyncInv, Calls
    <3>2. op'[p].pc = "quarantine"
      BY <2>2, <3>1 DEF Becomes, Ops
    <3> QED
      BY <3>2, NothingToKnow DEF CallKnows
  <2> QED
    BY <1>3, <2>1, <2>2 DEF QuarantineFails
<1> QED
  BY <1>1, <1>2, <1>3 DEF FaultStep

-----------------------------------------------------------------------------
(* The steps of others *)

\* A call still knows what it knew after a step that left its record, its two
\* tips and the shared local ref alone.
LEMMA StillKnows ==
  ASSUME SyncInv, NEW q \in Processes, CallKnows(q), op'[q] = op[q], srcRef' = srcRef,
         \/ op[q].pc = "idle"
         \/ \A s \in Sides : remote'[s][op[q].branch] = remote[s][op[q].branch]
  PROVE  CallKnows(q)'
<1>1. CASE op[q].pc = "idle"
  BY <1>1, NothingToKnow DEF CallKnows
<1>2. CASE op[q].pc # "idle"
  BY <1>2, CallFacts DEF CallKnows, SourceTip, TargetTip, To
<1> QED
  BY <1>1, <1>2

LEMMA UserCalm ==
  ASSUME SyncInv, CalmInv, UserStep
  PROVE  CalmInv'
<1> SUFFICES ASSUME NEW q \in calm' PROVE CallKnows(q)'
  BY DEF CalmInv
<1>1. PICK s \in Sides, b \in Branches : UserDelete(s, b) \/ \E c \in Commits : UserPush(s, b, c)
  BY DEF UserStep
<1>2. q \in calm /\ q \in Processes /\ op[q].branch # b /\ op' = op /\ srcRef' = srcRef
  BY <1>1 DEF UserDelete, UserPush, Unsettle, SyncInv, Data
<1>3. \A t \in Sides : remote'[t][op[q].branch] = remote[t][op[q].branch]
  <2>1. PICK tip : remote' = [remote EXCEPT ![s][b] = tip]
    BY <1>1 DEF UserDelete, UserPush
  <2> QED
    BY <1>2, <2>1 DEF SyncInv, Data
<1> QED
  BY <1>2, <1>3, StillKnows DEF CalmInv

LEMMA StartCalm ==
  ASSUME SyncInv, CalmInv, NEW p \in Processes, StartStep(p)
  PROVE  CalmInv'
<1> SUFFICES ASSUME NEW q \in calm' PROVE CallKnows(q)'
  BY DEF CalmInv
<1>1. PICK kind, x, after : Enter(p, Begin(kind, x, after))
  BY DEF StartStep, TakeEvent, StartSync, LoadRequest
<1>2. /\ q \in calm \union {p} /\ q \in Processes /\ p \in DOMAIN op
      /\ UNCHANGED <<remote, srcRef>> /\ op' = [op EXCEPT ![p] = Begin(kind, x, after)]
  BY <1>1 DEF Enter, Becomes, SyncInv, Calls, Data
<1>3. CASE q = p
  <2>1. op'[p].pc = "lsSource"
    BY <1>2 DEF Begin
  <2> QED
    BY <1>3, <2>1, NothingToKnow DEF CallKnows
<1>4. CASE q # p
  BY <1>2, <1>4, StillKnows DEF CalmInv
<1> QED
  BY <1>3, <1>4

\* Nobody becomes undisturbed while it is in a call.
LEMMA StillCalm ==
  ASSUME NEW p \in Processes, SyncStep(p) \/ FaultStep(p)
  PROVE  calm' \subseteq calm
BY DEF SyncStep, FaultStep, LsSource, FetchSource, LsTarget, FetchTarget, Gate, WriteRequest,
       DryRun, Push, Quarantine, DryDelete, StrictDelete, Complete, CommandFails, AnswerLost,
       QuarantineFails, Dies, Write, Disturb, DisturbAll, ghosts

\* What a step of one call does to the others: it leaves those that are still
\* calm as they are, with their tips and the shared local ref.
LEMMA OthersLeft ==
  ASSUME SyncInv, NEW p \in Processes, SyncStep(p) \/ FaultStep(p), NEW q \in calm', q # p
  PROVE  /\ q \in calm /\ q \in Processes /\ op'[q] = op[q] /\ srcRef' = srcRef
         /\ \A s \in Sides : remote'[s][op[q].branch] = remote[s][op[q].branch]
<1>1. q \in calm /\ q \in Processes
  BY StillCalm DEF SyncInv, Data
<1>2. op'[q] = op[q]
  BY <1>1, StepBecomes DEF Becomes, SyncInv, Calls
<1>3. srcRef' = srcRef
  BY DEF SyncStep, FaultStep, LsSource, FetchSource, LsTarget, FetchTarget, Gate, WriteRequest,
         DryRun, Push, Quarantine, DryDelete, StrictDelete, Complete, CommandFails, AnswerLost,
         QuarantineFails, Dies, DisturbAll
<1>4. \A s \in Sides : remote'[s][op[q].branch] = remote[s][op[q].branch]
  <2>1. CASE remote' = remote
    BY <2>1
  <2>2. ASSUME NEW tip, Write(p, tip)
        PROVE  \A s \in Sides : remote'[s][op[q].branch] = remote[s][op[q].branch]
    BY <2>2 DEF Write, Disturb, SyncInv, Data
  <2> QED
    BY <2>1, <2>2
       DEF SyncStep, FaultStep, LsSource, FetchSource, LsTarget, FetchTarget, Gate, WriteRequest,
           DryRun, Push, Quarantine, DryDelete, StrictDelete, Complete, CommandFails, AnswerLost,
           QuarantineFails, Dies
<1> QED
  BY <1>1, <1>2, <1>3, <1>4

LEMMA CallCalm ==
  ASSUME SyncInv, CalmInv, NEW p \in Processes, SyncStep(p) \/ FaultStep(p)
  PROVE  CalmInv'
<1> SUFFICES ASSUME NEW q \in calm' PROVE CallKnows(q)'
  BY DEF CalmInv
<1>1. CASE q = p
  <2>1. CallKnows(p)
    BY <1>1, StillCalm DEF CalmInv
  <2> QED
    BY <1>1, <2>1, LsSourceKnows, FetchSourceKnows, LsTargetKnows, LaterKnows, LastKnows
       DEF SyncStep
<1>2. CASE q # p
  BY <1>2, OthersLeft, StillKnows DEF CalmInv
<1> QED
  BY <1>1, <1>2

LEMMA CalmInit == Init => CalmInv
BY DEF Init, CalmInv

LEMMA CalmNext == SyncInv /\ CalmInv /\ [Next]_vars => CalmInv'
<1> SUFFICES ASSUME SyncInv, CalmInv, [Next]_vars PROVE CalmInv'
  OBVIOUS
<1>1. CASE UserStep
  BY <1>1, UserCalm
<1>2. ASSUME NEW p \in Processes, StartStep(p) PROVE CalmInv'
  BY <1>2, StartCalm
<1>3. ASSUME NEW p \in Processes, SyncStep(p) \/ FaultStep(p) PROVE CalmInv'
  BY <1>3, CallCalm
<1>4. CASE (\E r \in pending : Reject(r)) \/ UNCHANGED vars
  BY <1>4 DEF Reject, ghosts, vars, CalmInv, CallKnows, SourceTip, TargetTip, To
<1> QED
  BY <1>1, <1>2, <1>3, <1>4 DEF Next

-----------------------------------------------------------------------------

\* What a calm call knows makes its write exact.
LEMMA KnownIsExact ==
  ASSUME SyncInv, NEW p \in Processes, CallKnows(p),
         \/ op[p].pc = "push" /\ remote'[To(op[p])][op[p].branch] = srcRef
         \/ op[p].pc = "delete" /\ remote'[To(op[p])][op[p].branch] = None
  PROVE  Exact(p, To(op[p]), op[p].branch)
<1>1. op[p].kind \in Kinds /\ Sound(p, op[p], srcRef)
  BY CallFacts
<1>2. CASE op[p].pc = "push"
  BY <1>1, <1>2
     DEF CallKnows, Knows, Pushes, Deletes, Sound, Kinds, Exact, SourceTip, TargetTip
<1>3. CASE op[p].pc = "delete"
  BY <1>1, <1>3 DEF CallKnows, Knows, Pushes, Deletes, Kinds, Exact, TargetTip
<1> QED
  BY <1>2, <1>3

\* When nobody pushed to its branch and no other process fetched since it
\* started, a call writes exactly what it decided: an approval makes the approved
\* transition, a deletion removes the SHA its event named, an update makes the
\* target equal to the source, whatever failed on the way.
THEOREM UndisturbedCallsAreExact == Spec => ExactWhenCalm
<1> DEFINE CalmIsExact ==
      \A p \in calm, s \in Sides, b \in Branches : Changes(p, s, b) => Exact(p, s, b)
<1>1. SyncInv /\ CalmInv /\ [Next]_vars => [CalmIsExact]_vars
  <2> SUFFICES ASSUME SyncInv, CalmInv, Next, NEW p \in calm,
                      NEW s \in Sides, NEW b \in Branches, Changes(p, s, b)
               PROVE  Exact(p, s, b)
    OBVIOUS
  <2>1. PICK q \in Processes :
          /\ s = To(op[q]) /\ b = op[q].branch /\ \E o : Becomes(q, o)
          /\ \/ op[q].pc = "push" /\ remote'[s][b] = srcRef
             \/ op[q].pc = "delete" /\ remote'[s][b] = None
    BY OneWrites DEF Changes
  <2>2. p = q
    BY <2>1 DEF Becomes, Changes, SyncInv, Calls, Data
  <2> QED
    BY <2>1, <2>2, KnownIsExact DEF CalmInv
<1>2. Spec => []CalmInv
  BY CallsSound, CalmInit, CalmNext, PTL DEF Spec
<1> QED
  BY <1>1, <1>2, CallsSound, PTL DEF Spec, ExactWhenCalm

-----------------------------------------------------------------------------
(* Updates: what a call still has to account for when it ends.              *)

Carries == {"lsTarget", "fetchTarget", "gate", "write", "dryRun", "push", "quarantine"}

(* What an update knows until it ends, besides its own variables: the local *)
(* ref, the two tips of its branch, the commits of the bare repository and  *)
(* the requests that are pending or were rejected.                          *)
Tracks(o, ref, source, target, fetched, requests) ==
  o.kind = "update" =>
    /\ o.pc \in {"idle", "lsSource", "fetchSource"} \union Carries
    /\ o.pc \in {"fetchSource"} \union Carries => o.src = source
    /\ o.pc \in Carries \ {"write"} => ref = o.src
    /\ o.pc \in {"lsTarget", "fetchTarget"} => o.src \in fetched
    /\ o.pc \in {"fetchTarget", "gate", "write"} => o.dst = target
    /\ o.pc = "fetchTarget" => o.dst # None
    /\ o.pc = "write" => Asked(o) \in requests

CallTracks(p) ==
  Tracks(op[p], srcRef, SourceTip(op[p]), TargetTip(op[p]), objects, pending \union rejected)

TrackInv == \A p \in calm : CallTracks(p)

LEMMA NothingToTrack ==
  ASSUME NEW o, o.kind # "update" \/ o.pc \in {"idle", "lsSource"},
         NEW ref, NEW source, NEW target, NEW fetched, NEW requests
  PROVE  Tracks(o, ref, source, target, fetched, requests)
BY DEF Tracks, Carries

LEMMA EndTracks ==
  ASSUME SyncInv, NEW p \in Processes, Becomes(p, Idle)
  PROVE  CallTracks(p)'
<1>1. op'[p].pc = "idle"
  BY DEF SyncInv, Calls, Becomes, Idle
<1> QED
  BY <1>1, NothingToTrack DEF CallTracks

\* A call of another kind stays one.
LEMMA OtherKindTracks ==
  ASSUME SyncInv, NEW p \in Processes, op[p].kind # "update",
         \/ Becomes(p, Idle)
         \/ \E pc : Goto(p, pc)
         \/ \E o : Becomes(p, o) /\ o.kind = op[p].kind
  PROVE  CallTracks(p)'
<1>1. CASE Becomes(p, Idle)
  BY <1>1, EndTracks
<1>2. ASSUME op'[p].kind = op[p].kind PROVE CallTracks(p)'
  BY <1>2, NothingToTrack DEF CallTracks
<1>3. CASE \E pc : Goto(p, pc)
  BY <1>2, <1>3, GotoFacts
<1>4. CASE \E o : Becomes(p, o) /\ o.kind = op[p].kind
  BY <1>2, <1>4 DEF Becomes, SyncInv, Calls
<1> QED
  BY <1>1, <1>3, <1>4

\* From its fetch on, an update may go to any step that needs only its source.
LEMMA GotoTracks ==
  ASSUME SyncInv, NEW p \in Processes, NEW pc \in {"dryRun", "push", "quarantine"},
         Goto(p, pc), CallTracks(p), srcRef' = srcRef,
         op[p].kind = "update" => op[p].pc \in Carries \ {"write"},
         remote'[op[p].from][op[p].branch] = remote[op[p].from][op[p].branch]
  PROVE  CallTracks(p)'
BY GotoFacts DEF CallTracks, Tracks, Carries, SourceTip

LEMMA LsSourceTracks ==
  ASSUME SyncInv, NEW p \in Processes, LsSource(p)
  PROVE  CallTracks(p)'
<1> DEFINE o == op[p]
           tip == SourceTip(o)
<1>1. o \in Ops /\ p \in DOMAIN op /\ UNCHANGED <<remote, srcRef>>
  BY DEF SyncInv, Calls, LsSource
<1>2. CASE o.kind = "update" /\ UpdateReadsSource(p)
  <2>1. CASE Becomes(p, Idle)
    BY <2>1, EndTracks
  <2>2. CASE Becomes(p, [o EXCEPT !.src = tip, !.pc = "fetchSource"])
    <3>1. /\ op'[p].pc = "fetchSource" /\ op'[p].kind = o.kind /\ op'[p].from = o.from
          /\ op'[p].branch = o.branch /\ op'[p].src = tip
      BY <1>1, <2>2 DEF Becomes, Ops
    <3> QED
      BY <1>1, <3>1 DEF CallTracks, Tracks, Carries, SourceTip
  <2> QED
    BY <1>2, <2>1, <2>2 DEF UpdateReadsSource, Return, Proceed
<1>3. ASSUME o.kind # "update", NEW pc, Becomes(p, [o EXCEPT !.src = tip, !.pc = pc])
      PROVE  CallTracks(p)'
  <2>1. [o EXCEPT !.src = tip, !.pc = pc].kind = o.kind
    BY <1>1 DEF Ops
  <2> QED
    BY <1>3, <2>1, OtherKindTracks
<1>4. CASE o.kind = "delete" /\ DeleteReadsSource(p)
  BY <1>3, <1>4, EndTracks DEF DeleteReadsSource, Return, Proceed
<1>5. CASE o.kind = "approve" /\ ApproveReadsSource(p)
  BY <1>3, <1>5 DEF ApproveReadsSource, Proceed
<1> QED
  BY <1>2, <1>4, <1>5 DEF LsSource

LEMMA FetchSourceTracks ==
  ASSUME SyncInv, NEW p \in Processes, FetchSource(p), CallTracks(p)
  PROVE  CallTracks(p)'
<1> DEFINE o == op[p]
           tip == SourceTip(o)
<1>1. /\ o \in Ops /\ o.pc = "fetchSource" /\ UNCHANGED remote /\ tip \in Tips
  BY CallFacts DEF FetchSource, At
<1>2. CASE ReturnError(p)
  BY <1>2, EndTracks DEF ReturnError
<1>3. CASE /\ o.kind = "update" /\ Goto(p, "lsTarget") /\ tip # None
           /\ srcRef' = tip /\ objects' = objects \union History(tip)
  <2>1. o.src = tip
    BY <1>1, <1>3 DEF CallTracks, Tracks
  <2>2. tip \in objects'
    BY <1>1, <1>3, GraphAssumption DEF History, Tips
  <2> QED
    BY <1>1, <1>3, <2>1, <2>2, GotoFacts DEF CallTracks, Tracks, Carries, SourceTip
<1>4. CASE o.kind # "update" /\ \E pc : Goto(p, pc)
  BY <1>4, OtherKindTracks
<1> QED
  BY <1>2, <1>3, <1>4 DEF FetchSource, Fetched

LEMMA LsTargetTracks ==
  ASSUME SyncInv, NEW p \in Processes, LsTarget(p), CallTracks(p)
  PROVE  CallTracks(p)'
<1> DEFINE o == op[p]
           tip == TargetTip(o)
<1>1. /\ o \in Ops /\ p \in DOMAIN op /\ o.pc = "lsTarget" /\ UNCHANGED <<remote, srcRef, objects>>
  BY DEF LsTarget, At, SyncInv, Calls
<1>2. CASE o.kind = "update" /\ UpdateReadsTarget(p)
  <2>1. CASE Becomes(p, Idle)
    BY <2>1, EndTracks
  <2>2. ASSUME NEW pc \in {"gate", "fetchTarget"}, pc = "fetchTarget" => tip # None,
               Becomes(p, [o EXCEPT !.dst = tip, !.pc = pc])
        PROVE  CallTracks(p)'
    <3>1. /\ op'[p].pc = pc /\ op'[p].kind = o.kind /\ op'[p].from = o.from
          /\ op'[p].branch = o.branch /\ op'[p].src = o.src /\ op'[p].dst = tip
      BY <1>1, <2>2 DEF Becomes, Ops
    <3> QED
      BY <1>1, <1>2, <2>2, <3>1 DEF CallTracks, Tracks, Carries, SourceTip, TargetTip, To
  <2> QED
    BY <1>2, <2>1, <2>2 DEF UpdateReadsTarget, Return, Proceed
<1>3. ASSUME o.kind # "update", NEW pc, Becomes(p, [o EXCEPT !.dst = tip, !.pc = pc])
      PROVE  CallTracks(p)'
  <2>1. [o EXCEPT !.dst = tip, !.pc = pc].kind = o.kind
    BY <1>1 DEF Ops
  <2> QED
    BY <1>3, <2>1, OtherKindTracks
<1>4. CASE o.kind = "delete" /\ DeleteReadsTarget(p)
  BY <1>3, <1>4, EndTracks, OtherKindTracks
     DEF DeleteReadsTarget, AskHuman, Return, ReturnError, Proceed
<1>5. CASE o.kind = "approve" /\ ApproveReadsTarget(p)
  BY <1>3, <1>5, EndTracks DEF ApproveReadsTarget, ReturnError, Proceed
<1> QED
  BY <1>2, <1>4, <1>5 DEF LsTarget

LEMMA FetchTargetTracks ==
  ASSUME SyncInv, NEW p \in Processes, FetchTarget(p), CallTracks(p)
  PROVE  CallTracks(p)'
<1> DEFINE o == op[p]
<1>1. o.pc = "fetchTarget" /\ UNCHANGED <<remote, srcRef>>
  BY DEF FetchTarget, At
<1>2. CASE Becomes(p, Idle)
  BY <1>2, EndTracks
<1>3. CASE Goto(p, "gate")
  BY <1>1, <1>3, GotoFacts, GotoDst
     DEF CallTracks, Tracks, Carries, SourceTip, TargetTip, To
<1>4. ASSUME NEW pc \in {"dryRun", "quarantine"}, Goto(p, pc) PROVE CallTracks(p)'
  BY <1>1, <1>4, GotoTracks DEF Carries
<1> QED
  BY <1>2, <1>3, <1>4 DEF FetchTarget, CompareUpdate, CompareApproved, Return, ReturnError

LEMMA GateTracks ==
  ASSUME SyncInv, NEW p \in Processes, Gate(p), CallTracks(p)
  PROVE  CallTracks(p)'
<1> DEFINE o == op[p]
<1>1. o.pc = "gate" /\ UNCHANGED <<remote, srcRef>>
  BY DEF Gate, At
<1>2. CASE Goto(p, "dryRun")
  BY <1>1, <1>2, GotoTracks DEF Carries
<1>3. CASE AskHuman(p)
  <2>1. Goto(p, "write") /\ Asked(o) \in pending'
    BY <1>3 DEF AskHuman
  <2>2. Asked(op[p])' = Asked(o)
    BY <2>1, GotoFacts, GotoDst DEF Asked, Request
  <2> QED
    BY <1>1, <2>1, <2>2, GotoFacts, GotoDst
       DEF CallTracks, Tracks, Carries, SourceTip, TargetTip, To
<1> QED
  BY <1>2, <1>3 DEF Gate

\* The write changes the target, never the source.
LEMMA WriteKeepsSource ==
  ASSUME SyncInv, NEW p \in Processes, op[p].pc # "idle", NEW tip, Write(p, tip)
  PROVE  remote'[op[p].from][op[p].branch] = remote[op[p].from][op[p].branch]
<1>1. /\ op[p].from \in Sides /\ op[p].branch \in Branches /\ To(op[p]) # op[p].from
      /\ remote \in [Sides -> [Branches -> Tips]]
  BY CallFacts DEF To, Other, Sides, SyncInv, Data
<1> QED
  BY <1>1 DEF Write

LEMMA PushTracks ==
  ASSUME SyncInv, NEW p \in Processes, CallTracks(p),
         \/ DryRun(p) \/ Push(p) \/ Quarantine(p) \/ CommandFails(p) \/ AnswerLost(p)
  PROVE  CallTracks(p)'
<1>1. CASE Becomes(p, Idle)
  BY <1>1, EndTracks
<1>2. ASSUME NEW pc \in {"push", "quarantine"}, Goto(p, pc), op[p].pc \in {"dryRun", "push"},
             srcRef' = srcRef, UNCHANGED remote \/ \E tip : Write(p, tip)
      PROVE  CallTracks(p)'
  BY <1>2, GotoTracks, WriteKeepsSource DEF Carries
<1>3. CASE op[p].kind = "approve" /\ Goto(p, "complete")
  BY <1>3, OtherKindTracks
<1>4. CASE DryRun(p)
  BY <1>2, <1>4 DEF DryRun, At
<1>5. CASE Push(p) \/ Quarantine(p)
  BY <1>1, <1>2, <1>3, <1>5 DEF Push, Quarantine, Done, At
<1>6. CASE CommandFails(p) \/ AnswerLost(p)
  BY <1>1, <1>2, <1>6 DEF CommandFails, AnswerLost, ReturnError, At
<1> QED
  BY <1>4, <1>5, <1>6

LEMMA LastTracks ==
  ASSUME SyncInv, NEW p \in Processes, CallTracks(p),
         \/ WriteRequest(p) \/ DryDelete(p) \/ StrictDelete(p) \/ Complete(p)
         \/ QuarantineFails(p) \/ Dies(p)
  PROVE  CallTracks(p)'
<1>1. CASE WriteRequest(p) \/ Complete(p) \/ Dies(p)
  BY <1>1, EndTracks DEF WriteRequest, Complete, Dies, Return
<1>2. CASE DryDelete(p) \/ StrictDelete(p)
  <2>1. op[p].kind # "update"
    BY <1>2 DEF DryDelete, StrictDelete, At, CallTracks, Tracks, Carries
  <2> QED
    BY <1>2, <2>1, OtherKindTracks DEF DryDelete, StrictDelete, Done, ReturnError
<1>3. CASE QuarantineFails(p)
  <2>1. CASE ReturnError(p)
    BY <2>1, EndTracks DEF ReturnError
  <2>2. CASE Becomes(p, [op[p] EXCEPT !.tries = @ + 1])
    <3>1. /\ op[p] \in Ops /\ op[p].pc = "quarantine" /\ p \in DOMAIN op
          /\ UNCHANGED <<remote, srcRef>>
      BY <1>3 DEF QuarantineFails, At, SyncInv, Calls
    <3>2. /\ op'[p].pc = "quarantine" /\ op'[p].kind = op[p].kind /\ op'[p].from = op[p].from
          /\ op'[p].branch = op[p].branch /\ op'[p].src = op[p].src
      BY <2>2, <3>1 DEF Becomes, Ops
    <3> QED
      BY <3>1, <3>2 DEF CallTracks, Tracks, Carries, SourceTip
  <2> QED
    BY <1>3, <2>1, <2>2 DEF QuarantineFails
<1> QED
  BY <1>1, <1>2, <1>3

\* A call keeps track after a step that left its record, its two tips, the
\* shared local ref and its request alone.
LEMMA StillTracks ==
  ASSUME SyncInv, NEW q \in Processes, CallTracks(q), op'[q] = op[q], srcRef' = srcRef,
         objects \subseteq objects',
         \/ op[q].pc = "idle"
         \/ /\ \A s \in Sides : remote'[s][op[q].branch] = remote[s][op[q].branch]
            /\ Asked(op[q]) \in pending \union rejected
                 => Asked(op[q]) \in pending' \union rejected'
  PROVE  CallTracks(q)'
<1>1. CASE op[q].pc = "idle"
  BY <1>1, NothingToTrack DEF CallTracks
<1>2. CASE op[q].pc # "idle"
  <2>1. op[q].from \in Sides /\ To(op[q]) \in Sides
    BY <1>2, CallFacts
  <2>2. SourceTip(op[q])' = SourceTip(op[q]) /\ TargetTip(op[q])' = TargetTip(op[q])
    BY <1>2, <2>1 DEF SourceTip, TargetTip, To
  <2>3. Asked(op[q])' = Asked(op[q])
    BY DEF Asked, Request
  <2>4. /\ op[q].src \in objects => op[q].src \in objects'
        /\ Asked(op[q]) \in pending \union rejected
             => Asked(op[q]) \in pending' \union rejected'
    BY <1>2
  <2>5. Tracks(op[q], srcRef, SourceTip(op[q]), TargetTip(op[q]), objects', pending' \union rejected')
    BY <2>4 DEF CallTracks, Tracks
  <2> QED
    BY <2>2, <2>5 DEF CallTracks
<1> QED
  BY <1>1, <1>2

LEMMA UserTracks ==
  ASSUME SyncInv, TrackInv, UserStep
  PROVE  TrackInv'
<1> SUFFICES ASSUME NEW q \in calm' PROVE CallTracks(q)'
  BY DEF TrackInv
<1>1. PICK s \in Sides, b \in Branches : UserDelete(s, b) \/ \E c \in Commits : UserPush(s, b, c)
  BY DEF UserStep
<1>2. /\ q \in calm /\ q \in Processes /\ op[q].branch # b
      /\ UNCHANGED <<op, srcRef, objects, pending, rejected>>
  BY <1>1 DEF UserDelete, UserPush, Unsettle, SyncInv, Data, store
<1>3. \A t \in Sides : remote'[t][op[q].branch] = remote[t][op[q].branch]
  <2>1. PICK tip : remote' = [remote EXCEPT ![s][b] = tip]
    BY <1>1 DEF UserDelete, UserPush
  <2> QED
    BY <1>2, <2>1 DEF SyncInv, Data
<1> QED
  BY <1>2, <1>3, StillTracks DEF TrackInv

LEMMA StartTracks ==
  ASSUME SyncInv, TrackInv, NEW p \in Processes, StartStep(p)
  PROVE  TrackInv'
<1> SUFFICES ASSUME NEW q \in calm' PROVE CallTracks(q)'
  BY DEF TrackInv
<1>1. PICK kind, x, after : Enter(p, Begin(kind, x, after))
  BY DEF StartStep, TakeEvent, StartSync, LoadRequest
<1>2. /\ q \in calm \union {p} /\ q \in Processes /\ p \in DOMAIN op
      /\ UNCHANGED <<remote, srcRef, objects, pending, rejected>>
      /\ op' = [op EXCEPT ![p] = Begin(kind, x, after)]
  BY <1>1 DEF Enter, Becomes, store, SyncInv, Calls, Data
<1>3. CASE q = p
  <2>1. op'[p].pc = "lsSource"
    BY <1>2 DEF Begin
  <2> QED
    BY <1>3, <2>1, NothingToTrack DEF CallTracks
<1>4. CASE q # p
  BY <1>2, <1>4, StillTracks DEF TrackInv
<1> QED
  BY <1>3, <1>4

\* The requests of a branch leave the directory when they are rejected, or when
\* a call that is then no longer undisturbed sees them completed.
LEMMA RequestsStay ==
  ASSUME SyncInv, NEW p \in Processes, SyncStep(p) \/ FaultStep(p), NEW q \in calm', q # p,
         NEW r \in pending \union rejected, r.branch = op[q].branch
  PROVE  r \in pending' \union rejected'
<1>1. CASE Complete(p)
  <2>1. RequestOf(op[p]) # r
    BY <1>1 DEF Complete, Disturb, RequestOf, Request
  <2>2. pending' = pending \ {RequestOf(op[p])} /\ rejected' = rejected
    BY <1>1 DEF Complete, MovesAway
  <2> QED
    BY <2>1, <2>2
<1>2. CASE ~Complete(p)
  <2>1. pending \subseteq pending' /\ rejected' = rejected
    BY <1>2 DEF SyncStep, FaultStep, LsSource, FetchSource, LsTarget, UpdateReadsTarget,
         DeleteReadsTarget, ApproveReadsTarget, FetchTarget, Gate, AskHuman, WriteRequest, DryRun,
         Push, Quarantine, DryDelete, StrictDelete, CommandFails, AnswerLost, QuarantineFails,
         Dies, store
  <2> QED
    BY <2>1
<1> QED
  BY <1>1, <1>2

\* The bare repository only gains commits.
LEMMA ObjectsGrow ==
  ASSUME NEW p \in Processes, SyncStep(p) \/ FaultStep(p)
  PROVE  objects \subseteq objects'
BY DEF SyncStep, FaultStep, LsSource, FetchSource, LsTarget, FetchTarget, Gate, WriteRequest,
       DryRun, Push, Quarantine, DryDelete, StrictDelete, Complete, CommandFails, AnswerLost,
       QuarantineFails, Dies

LEMMA OthersTrack ==
  ASSUME SyncInv, TrackInv, NEW p \in Processes, SyncStep(p) \/ FaultStep(p),
         NEW q \in calm', q # p
  PROVE  CallTracks(q)'
<1>1. /\ q \in calm /\ q \in Processes /\ op'[q] = op[q] /\ srcRef' = srcRef
      /\ \A s \in Sides : remote'[s][op[q].branch] = remote[s][op[q].branch]
  BY OthersLeft
<1>2. Asked(op[q]).branch = op[q].branch
  BY DEF Asked, Request
<1> QED
  BY <1>1, <1>2, RequestsStay, ObjectsGrow, StillTracks DEF TrackInv

LEMMA CallTrack ==
  ASSUME SyncInv, TrackInv, NEW p \in Processes, SyncStep(p) \/ FaultStep(p)
  PROVE  TrackInv'
<1> SUFFICES ASSUME NEW q \in calm' PROVE CallTracks(q)'
  BY DEF TrackInv
<1>1. CASE q = p
  <2>1. CallTracks(p)
    BY <1>1, StillCalm DEF TrackInv
  <2> QED
    BY <1>1, <2>1, LsSourceTracks, FetchSourceTracks, LsTargetTracks, FetchTargetTracks,
       GateTracks, PushTracks, LastTracks DEF SyncStep, FaultStep
<1>2. CASE q # p
  BY <1>2, OthersTrack
<1> QED
  BY <1>1, <1>2

LEMMA TrackInit == Init => TrackInv
BY DEF Init, TrackInv

LEMMA TrackNext == SyncInv /\ TrackInv /\ [Next]_vars => TrackInv'
<1> SUFFICES ASSUME SyncInv, TrackInv, [Next]_vars PROVE TrackInv'
  OBVIOUS
<1>1. CASE UserStep
  BY <1>1, UserTracks
<1>2. ASSUME NEW p \in Processes, StartStep(p) PROVE TrackInv'
  BY <1>2, StartTracks
<1>3. ASSUME NEW p \in Processes, SyncStep(p) \/ FaultStep(p) PROVE TrackInv'
  BY <1>3, CallTrack
<1>4. ASSUME NEW r \in pending, Reject(r) PROVE TrackInv'
  <2>1. /\ UNCHANGED <<remote, srcRef, objects, op, calm>>
        /\ pending \union rejected \subseteq pending' \union rejected'
    BY <1>4 DEF Reject, MovesAway, ghosts
  <2>2. calm \subseteq Processes
    BY DEF SyncInv, Data
  <2> QED
    BY <2>1, <2>2, StillTracks DEF TrackInv
<1>5. CASE UNCHANGED vars
  BY <1>5 DEF ghosts, vars, store, TrackInv, CallTracks, SourceTip, TargetTip, To
<1> QED
  BY <1>1, <1>2, <1>3, <1>4, <1>5 DEF Next

-----------------------------------------------------------------------------

\* A call ends with a step of its own.
LEMMA OwnEnd ==
  ASSUME SyncInv, Next, NEW p \in calm, Ends(p)
  PROVE  p \in Processes /\ SyncStep(p) /\ op[p] # Idle /\ op'[p] = Idle
<1>1. p \in Processes /\ op[p] # Idle /\ op'[p] = Idle /\ ~FaultStep(p)
  BY DEF SyncInv, Data, Ends
<1>2. ~UserStep /\ ~\E r \in pending : Reject(r)
  BY <1>1 DEF UserStep, UserPush, UserDelete, Reject
<1>3. \A q \in Processes : ~StartStep(q)
  BY <1>1 DEF StartStep, TakeEvent, StartSync, LoadRequest, Enter, Becomes, SyncInv, Calls
<1>4. PICK q \in Processes : SyncStep(q) \/ FaultStep(q)
  BY <1>2, <1>3 DEF Next
<1>5. q = p
  BY <1>1, <1>4, StepBecomes DEF Becomes, SyncInv, Calls
<1> QED
  BY <1>1, <1>4, <1>5

\* How an update ends: with nothing at the source, with both tips equal, with a
\* stale source, with a push, in quarantine or with a request.
LEMMA EndIsAccounted ==
  ASSUME SyncInv, NEW p \in Processes, CallTracks(p), SyncStep(p), op[p] # Idle, op'[p] = Idle,
         op[p].kind = "update", NEW s \in Sides, NEW b \in Branches,
         op[p].from = s, op[p].branch = b
  PROVE  Accounted(s, b)'
<1> DEFINE o == op[p]
           source == remote[s][b]
           target == remote[Other(s)][b]
<1>1. /\ SourceTip(o) = source /\ TargetTip(o) = target /\ Other(s) \in Sides /\ Other(s) # s
      /\ remote \in [Sides -> [Branches -> Tips]] /\ source \in Tips /\ target \in Tips
      /\ None \notin Commits /\ To(o) = Other(s)
  BY GraphAssumption DEF SourceTip, TargetTip, To, Other, Sides, SyncInv, Data
<1>2. /\ o.pc \in {"idle", "lsSource", "fetchSource"} \union Carries
      /\ o.pc \in {"fetchSource"} \union Carries => o.src = source
      /\ o.pc \in Carries \ {"write"} => srcRef = o.src
      /\ o.pc \in {"lsTarget", "fetchTarget"} => o.src \in objects
      /\ o.pc \in {"fetchTarget", "gate", "write"} => o.dst = target
      /\ o.pc = "fetchTarget" => o.dst # None
      /\ o.pc = "write" => Asked(o) \in pending \union rejected
  BY <1>1 DEF CallTracks, Tracks
<1>3. \A step : ~(step # "idle" /\ Goto(p, step))
  <2> SUFFICES ASSUME NEW step, step # "idle", Goto(p, step) PROVE FALSE
    OBVIOUS
  <2> QED
    BY GotoFacts DEF Idle
<1>4. ASSUME remote' = remote, \/ source \in {None, target}
                               \/ target # None /\ IsAncestor(source, target)
      PROVE  Accounted(s, b)'
  BY <1>4 DEF Accounted
<1>5. CASE LsSource(p) \/ FetchSource(p)
  <2>1. source = None
    <3>1. \A o2 : Becomes(p, o2) => o2 = Idle
      BY DEF Becomes, SyncInv, Calls
    <3>2. o \in Ops /\ "fetchSource" # "idle"
      BY DEF SyncInv, Calls
    <3>3. [o EXCEPT !.src = source, !.pc = "fetchSource"].pc = "fetchSource"
      BY <3>2 DEF Ops
    <3>4. [o EXCEPT !.src = source, !.pc = "fetchSource"] # Idle
      BY <3>3 DEF Idle
    <3> QED
      BY <1>1, <1>3, <1>5, <3>1, <3>4 DEF LsSource, UpdateReadsSource, Proceed, FetchSource
  <2> QED
    BY <1>4, <1>5, <2>1 DEF LsSource, FetchSource
<1>6. CASE LsTarget(p)
  <2>1. source = target
    <3>1. \A o2 : Becomes(p, o2) => o2 = Idle
      BY DEF Becomes, SyncInv, Calls
    <3>2. o \in Ops
      BY DEF SyncInv, Calls
    <3>3. \A pc : [o EXCEPT !.dst = target, !.pc = pc].pc = pc
      BY <3>2 DEF Ops
    <3>4. \A pc : pc # "idle" => [o EXCEPT !.dst = target, !.pc = pc] # Idle
      BY <3>3 DEF Idle
    <3>5. o.src = source
      BY <1>2, <1>6 DEF LsTarget, At, Carries
    <3>6. UpdateReadsTarget(p)
      BY <1>6 DEF LsTarget
    <3>7. ~Proceed(p, [o EXCEPT !.dst = target, !.pc = "gate"])
      BY <3>1, <3>4 DEF Proceed
    <3>8. ~Proceed(p, [o EXCEPT !.dst = target, !.pc = "fetchTarget"])
      BY <3>1, <3>4 DEF Proceed
    <3> QED
      BY <1>1, <3>5, <3>6, <3>7, <3>8 DEF UpdateReadsTarget
  <2> QED
    BY <1>4, <1>6, <2>1 DEF LsTarget
<1>7. CASE FetchTarget(p)
  <2>1. /\ o.pc = "fetchTarget" /\ o.src = source /\ o.dst = target /\ target # None
        /\ source \in objects
    BY <1>2, <1>7 DEF FetchTarget, At, Carries
  <2>2. target \in History(target)
    BY <1>1, <2>1, GraphAssumption DEF History, Tips
  <2>3. CompareUpdate(p)
    BY <1>1, <1>7, <2>1, <2>2 DEF FetchTarget
  <2>4. Stale(o)
    BY <1>3, <2>3 DEF CompareUpdate
  <2> QED
    BY <1>4, <1>7, <2>1, <2>4 DEF Stale, FetchTarget
<1>8. CASE Gate(p) \/ DryRun(p)
  BY <1>3, <1>8 DEF Gate, AskHuman, DryRun
<1>9. CASE WriteRequest(p)
  <2>1. /\ Asked(o) = [from |-> s, branch |-> b, before |-> target, after |-> source]
        /\ Asked(o) \in pending \union rejected
    BY <1>2, <1>9 DEF WriteRequest, At, Carries, Asked, Request
  <2>2. Asked(o) \in (Readable \union rejected)'
    BY <1>9, <2>1 DEF WriteRequest, Readable
  <2>3. remote' = remote
    BY <1>9 DEF WriteRequest
  <2> QED
    BY <2>1, <2>2, <2>3 DEF Accounted
<1>10. CASE Push(p)
  <2>1. o.pc = "push" /\ srcRef = source
    BY <1>2, <1>10 DEF Push, At, Carries
  <2>2. Write(p, srcRef)
    BY <1>3, <1>10 DEF Push
  <2>3. remote'[s][b] = source /\ remote'[Other(s)][b] = source
    BY <1>1, <2>1, <2>2 DEF Write
  <2> QED
    BY <2>3 DEF Accounted
<1>11. CASE Quarantine(p)
  <2>1. o.pc = "quarantine" /\ srcRef = source /\ remote' = remote
    BY <1>2, <1>11 DEF Quarantine, At, Carries
  <2>2. <<b, source>> \in quarantined'[Other(s)]
    BY <1>1, <1>11, <2>1 DEF Quarantine, Keep, SyncInv, Data
  <2> QED
    BY <2>1, <2>2 DEF Accounted
<1>12. ~DryDelete(p) /\ ~StrictDelete(p) /\ ~Complete(p)
  BY <1>2 DEF DryDelete, StrictDelete, Complete, At, Carries
<1> QED
  BY <1>5, <1>6, <1>7, <1>8, <1>9, <1>10, <1>11, <1>12 DEF SyncStep

\* An update that nobody interfered with never drops what it found: when it ends
\* without a failure, the target equals or is ahead of the source, or the
\* source's tip is in quarantine there, or a request for exactly this change can
\* be read or was rejected.
THEOREM UndisturbedUpdatesAreAccountedFor == Spec => UpdateIsAccountedFor
<1> DEFINE EndsAccounted ==
      \A p \in calm, s \in Sides, b \in Branches :
        /\ Ends(p)
        /\ op[p].kind = "update" /\ op[p].from = s /\ op[p].branch = b
        => Accounted(s, b)'
<1>1. SyncInv /\ TrackInv /\ [Next]_vars => [EndsAccounted]_vars
  <2> SUFFICES ASSUME SyncInv, TrackInv, Next, NEW p \in calm, NEW s \in Sides, NEW b \in Branches,
                      Ends(p), op[p].kind = "update", op[p].from = s, op[p].branch = b
               PROVE  Accounted(s, b)'
    OBVIOUS
  <2> QED
    BY OwnEnd, EndIsAccounted DEF TrackInv
<1>2. Spec => []TrackInv
  BY CallsSound, TrackInit, TrackNext, PTL DEF Spec
<1> QED
  BY <1>1, <1>2, CallsSound, PTL DEF Spec, UpdateIsAccountedFor

==========================================================================
