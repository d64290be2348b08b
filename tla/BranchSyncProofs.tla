------------------------ MODULE BranchSyncProofs ------------------------
(***************************************************************************)
(* Theorems about BranchSync for any commit graph, any branches, any set   *)
(* of protected branches, any number of workers, commands and approvers,   *)
(* and any failures.                                                       *)
(***************************************************************************)
EXTENDS BranchSync, TLAPS

(* What a call knows at its steps.  A deletion never reaches a step that    *)
(* pushes a tip, the steps after the fetch of the source find a tip in the  *)
(* shared local ref, and the steps that write to the target of the worker   *)
(* or of "gitmirror sync" lie behind the gate.                              *)
Sound(p, o, ref) ==
  /\ o.kind = "delete" => o.pc \in {"lsSource", "lsTarget", "write", "dryDelete", "delete"}
  /\ \/ o.pc \in {"fetchTarget", "gate", "dryRun", "push", "quarantine"}
     \/ o.pc = "lsTarget" /\ o.kind = "update"
     => ref # None
  /\ p \notin Approvers /\ o.pc \in {"dryRun", "push", "dryDelete", "delete"}
     => ~Gated(o)

(* TypeOK in two parts, the calls and the data, with Sound for the calls.   *)
Calls ==
  /\ op \in [Processes -> Ops]
  /\ \A p \in Processes : Typed(p, op[p]) /\ Sound(p, op[p], srcRef)

Data ==
  /\ remote \in [Sides -> [Branches -> Tips]]
  /\ quarantined \in [Sides -> SUBSET (Branches \X Commits)]
  /\ srcRef \in Tips
  /\ objects \in SUBSET Commits
  /\ inbox \in SUBSET Events
  /\ pending \in SUBSET Requests /\ halfWritten \in SUBSET pending
  /\ approved \in SUBSET Requests /\ rejected \in SUBSET Requests
  /\ moves \in Nat
  /\ calm \in SUBSET Processes
  /\ authored \in [Branches -> SUBSET Tips]

SyncInv == Calls /\ Data

LEMMA InvTyped == SyncInv => TypeOK
BY DEF SyncInv, Calls, Data, TypeOK

-----------------------------------------------------------------------------
(* Calls *)

LEMMA IdleCall ==
  ASSUME NEW p \in Processes, NEW ref
  PROVE  Typed(p, Idle) /\ Sound(p, Idle, ref)
BY SyncAssumption, GraphAssumption DEF Typed, Sound, Idle, Ops, Steps, Kinds, Sides, Tips

\* The other calls do not notice the step of one call.
LEMMA OneCall ==
  ASSUME Calls, NEW p \in Processes, NEW o, Becomes(p, o),
         Typed(p, o), Sound(p, o, srcRef'), srcRef # None => srcRef' # None
  PROVE  Calls'
BY DEF Calls, Typed, Sound, Gated, Becomes

\* A call that ends.
LEMMA CallEnds ==
  ASSUME Calls, NEW p \in Processes, Becomes(p, Idle), srcRef # None => srcRef' # None
  PROVE  Calls'
BY IdleCall, OneCall

\* A call that takes a step leaves what it was called with alone.
LEMMA CallGoesOn ==
  ASSUME Calls, NEW p \in Processes, op[p].pc # "idle", NEW o \in Ops, Becomes(p, o),
         o.kind = op[p].kind, o.from = op[p].from, o.branch = op[p].branch,
         o.before = op[p].before, Sound(p, o, srcRef'), srcRef # None => srcRef' # None
  PROVE  Calls'
<1>1. Typed(p, op[p]) /\ op[p] # Idle
  BY DEF Calls, Idle
<1>2. Typed(p, o)
  BY <1>1 DEF Typed, EventOf
<1> QED
  BY <1>2, OneCall

\* A call that goes to another step.
LEMMA CallGoesTo ==
  ASSUME Calls, NEW p \in Processes, op[p].pc # "idle", NEW pc \in Steps, Goto(p, pc),
         Sound(p, [op[p] EXCEPT !.pc = pc], srcRef'), srcRef # None => srcRef' # None
  PROVE  Calls'
<1> DEFINE o == [op[p] EXCEPT !.pc = pc]
<1>1. op[p] \in Ops
  BY DEF Calls
<1>2. /\ o \in Ops /\ o.kind = op[p].kind /\ o.from = op[p].from
      /\ o.branch = op[p].branch /\ o.before = op[p].before
  BY <1>1 DEF Ops
<1>3. Becomes(p, o)
  BY DEF Goto
<1> HIDE DEF o
<1> QED
  BY <1>2, <1>3, CallGoesOn DEF o

\* What Sound needs of the record of a call that goes to another step.
LEMMA SoundStep ==
  ASSUME NEW p, NEW o \in Ops, NEW pc \in Steps, NEW ref, Sound(p, o, ref),
         o.kind = "delete" => pc \in {"lsSource", "lsTarget", "write", "dryDelete", "delete"},
         pc \in {"fetchTarget", "gate", "dryRun", "push", "quarantine", "lsTarget"} => ref # None,
         p \notin Approvers /\ pc \in {"dryRun", "push", "dryDelete", "delete"} => ~Gated(o)
  PROVE  Sound(p, [o EXCEPT !.pc = pc], ref)
BY DEF Sound, Ops, Gated, To

\* What a step finds: the call is well-formed and its branch is on both sides.
LEMMA CallFacts ==
  ASSUME SyncInv, NEW p \in Processes, op[p].pc # "idle"
  PROVE  /\ op[p] \in Ops /\ Sound(p, op[p], srcRef)
         /\ op[p].from \in Sides /\ To(op[p]) \in Sides /\ op[p].branch \in Branches
         /\ SourceTip(op[p]) \in Tips /\ TargetTip(op[p]) \in Tips
         /\ p \in Workers => EventOf(op[p]) \in Events
         /\ p \in Approvers <=> op[p].kind = "approve"
         /\ op[p].kind \in Kinds
<1>1. /\ op[p] \in Ops /\ Typed(p, op[p]) /\ Sound(p, op[p], srcRef) /\ op[p] # Idle
  BY DEF SyncInv, Calls, Idle
<1>2. /\ op[p].from \in Sides /\ op[p].branch \in Branches /\ op[p].kind \in Kinds
      /\ p \in Workers => EventOf(op[p]) \in Events
      /\ p \in Approvers <=> op[p].kind = "approve"
  BY <1>1 DEF Typed, Ops
<1>3. To(op[p]) \in Sides
  BY <1>2 DEF To, Other, Sides
<1> QED
  BY <1>1, <1>2, <1>3 DEF SyncInv, Data, SourceTip, TargetTip

\* An error keeps or drops the worker's event.
LEMMA ErrorTyped ==
  ASSUME SyncInv, NEW p \in Processes, op[p].pc # "idle", ReturnError(p)
  PROVE  inbox' \in SUBSET Events
BY CallFacts DEF ReturnError, SyncInv, Data

-----------------------------------------------------------------------------
(* The steps that only read *)

LEMMA LsSourceInv ==
  ASSUME SyncInv, NEW p \in Processes, LsSource(p)
  PROVE  SyncInv'
<1> DEFINE o == op[p]
           tip == SourceTip(o)
<1>1. /\ o \in Ops /\ Sound(p, o, srcRef) /\ tip \in Tips /\ o.pc = "lsSource"
      /\ o.kind \in Kinds /\ srcRef' = srcRef /\ Calls
  BY CallFacts DEF LsSource, At, SyncInv
<1>2. Data'
  BY DEF SyncInv, Data, LsSource, UpdateReadsSource, DeleteReadsSource, ApproveReadsSource,
         Proceed, Return, store, ghosts
<1>3. ASSUME NEW pc \in Steps, Becomes(p, [o EXCEPT !.src = tip, !.pc = pc]),
             \/ pc = "fetchSource" /\ o.kind # "delete"
             \/ pc = "lsTarget" /\ o.kind # "update"
      PROVE  Calls'
  <2> DEFINE o2 == [o EXCEPT !.src = tip, !.pc = pc]
  <2>1. /\ o2 \in Ops /\ o2.pc = pc /\ o2.kind = o.kind /\ o2.from = o.from
        /\ o2.branch = o.branch /\ o2.before = o.before
    BY <1>1 DEF Ops
  <2>2. Sound(p, o2, srcRef')
    BY <1>1, <1>3, <2>1 DEF Sound
  <2>3. Becomes(p, o2)
    BY <1>3
  <2> HIDE DEF o2
  <2> QED
    BY <1>1, <2>1, <2>2, <2>3, CallGoesOn
<1>4. CASE Return(p)
  BY <1>1, <1>2, <1>4, CallEnds DEF Return, SyncInv
<1>5. Return(p) \/ Calls'
  <2>1. CASE o.kind = "update"
    BY <1>3, <2>1 DEF LsSource, UpdateReadsSource, Proceed, Steps
  <2>2. CASE o.kind = "delete"
    BY <1>3, <2>2 DEF LsSource, DeleteReadsSource, Proceed, Steps
  <2>3. CASE o.kind = "approve"
    BY <1>3, <2>3 DEF LsSource, ApproveReadsSource, Proceed, Steps
  <2> QED
    BY <1>1, <2>1, <2>2, <2>3 DEF Kinds
<1> QED
  BY <1>2, <1>4, <1>5 DEF SyncInv

\* A call that goes on without fetching.
LEMMA CallMoves ==
  ASSUME SyncInv, NEW p \in Processes, op[p].pc # "idle", srcRef' = srcRef,
         NEW pc \in Steps, Goto(p, pc),
         op[p].kind = "delete" => pc \in {"lsSource", "lsTarget", "write", "dryDelete", "delete"},
         pc \in {"fetchTarget", "gate", "dryRun", "push", "quarantine", "lsTarget"}
           => srcRef # None,
         p \notin Approvers /\ pc \in {"dryRun", "push", "dryDelete", "delete"}
           => ~Gated(op[p])
  PROVE  Calls'
<1>1. op[p] \in Ops /\ Sound(p, op[p], srcRef) /\ Calls
  BY CallFacts DEF SyncInv
<1>2. Sound(p, [op[p] EXCEPT !.pc = pc], srcRef)
  BY <1>1, SoundStep
<1> QED
  BY <1>1, <1>2, CallGoesTo

\* A request that is opened is about a transition of the call's branch.
LEMMA AskTyped ==
  ASSUME SyncInv, NEW p \in Processes, op[p].pc # "idle", AskHuman(p)
  PROVE  /\ pending' \in SUBSET Requests /\ halfWritten' \in SUBSET pending'
         /\ approved' \in SUBSET Requests /\ rejected' \in SUBSET Requests
         /\ inbox' = inbox
<1>1. Asked(op[p]) \in Requests
  BY CallFacts DEF Asked, Request, Requests, Ops, Tips
<1> QED
  BY <1>1 DEF AskHuman, SyncInv, Data

LEMMA LsTargetInv ==
  ASSUME SyncInv, NEW p \in Processes, LsTarget(p)
  PROVE  SyncInv'
<1> DEFINE o == op[p]
           tip == TargetTip(o)
<1>1. /\ o \in Ops /\ Sound(p, o, srcRef) /\ tip \in Tips /\ o.pc = "lsTarget"
      /\ o.kind \in Kinds /\ srcRef' = srcRef /\ Calls
      /\ o.from \in Sides /\ o.branch \in Branches
      /\ p \in Approvers <=> o.kind = "approve"
  BY CallFacts DEF LsTarget, At, SyncInv
<1>2. Data'
  <2>1. UNCHANGED <<remote, quarantined, srcRef, objects, moves, calm, authored>>
    BY DEF LsTarget, ghosts
  <2>2. inbox' \in SUBSET Events
    <3>1. CASE ReturnError(p)
      BY <1>1, <3>1, ErrorTyped
    <3>2. CASE ~ReturnError(p)
      BY <3>2 DEF AskHuman, LsTarget, UpdateReadsTarget, DeleteReadsTarget, ApproveReadsTarget,
                  Proceed, Return, SyncInv, Data
    <3> QED
      BY <3>1, <3>2
  <2>3. /\ pending' \in SUBSET Requests /\ halfWritten' \in SUBSET pending'
        /\ approved' \in SUBSET Requests /\ rejected' \in SUBSET Requests
    <3>1. CASE UNCHANGED store
      BY <3>1 DEF SyncInv, Data, store
    <3>2. CASE AskHuman(p)
      BY <1>1, <3>2, AskTyped
    <3> QED
      BY <3>1, <3>2 DEF LsTarget, UpdateReadsTarget, DeleteReadsTarget, ApproveReadsTarget
  <2> QED
    BY <2>1, <2>2, <2>3 DEF Data, SyncInv
<1>3. ASSUME NEW pc \in Steps, Becomes(p, [o EXCEPT !.dst = tip, !.pc = pc]),
             \/ pc \in {"gate", "fetchTarget"} /\ o.kind = "update"
             \/ pc = "dryDelete" /\ ((o.kind = "delete" /\ ~Gated(o)) \/ o.kind = "approve")
             \/ pc = "fetchSource" /\ o.kind = "approve"
      PROVE  Calls'
  <2> DEFINE o2 == [o EXCEPT !.dst = tip, !.pc = pc]
  <2>1. /\ o2 \in Ops /\ o2.pc = pc /\ o2.kind = o.kind /\ o2.from = o.from
        /\ o2.branch = o.branch /\ o2.before = o.before
    BY <1>1 DEF Ops
  <2>2. Gated(o2) = Gated(o)
    BY <2>1 DEF Gated, To
  <2> HIDE DEF o2
  <2>3. Sound(p, o2, srcRef')
    BY <1>1, <1>3, <2>1, <2>2 DEF Sound
  <2>4. Becomes(p, o2)
    BY <1>3 DEF o2
  <2> QED
    BY <1>1, <2>1, <2>3, <2>4, CallGoesOn
<1>4. CASE Return(p) \/ ReturnError(p)
  BY <1>1, <1>2, <1>4, CallEnds DEF Return, ReturnError, SyncInv
<1>5. CASE AskHuman(p)
  <2>1. Calls'
    BY <1>1, <1>5, CallMoves DEF AskHuman, Steps
  <2> QED
    BY <1>2, <2>1 DEF SyncInv
<1>6. Return(p) \/ ReturnError(p) \/ AskHuman(p) \/ Calls'
  <2>1. CASE o.kind = "update"
    BY <1>3, <2>1 DEF LsTarget, UpdateReadsTarget, Proceed, Steps
  <2>2. CASE o.kind = "delete"
    BY <1>3, <2>2 DEF LsTarget, DeleteReadsTarget, Proceed, Steps
  <2>3. CASE o.kind = "approve"
    BY <1>3, <2>3 DEF LsTarget, ApproveReadsTarget, Proceed, Steps
  <2> QED
    BY <1>1, <2>1, <2>2, <2>3 DEF Kinds
<1> QED
  BY <1>2, <1>4, <1>5, <1>6 DEF SyncInv

\* A commit's history is in the graph.
LEMMA HistoryTyped ==
  ASSUME NEW c PROVE History(c) \in SUBSET Commits
BY DEF History

LEMMA FetchSourceInv ==
  ASSUME SyncInv, NEW p \in Processes, FetchSource(p)
  PROVE  SyncInv'
<1> DEFINE o == op[p]
           tip == SourceTip(o)
<1>1. /\ o \in Ops /\ Sound(p, o, srcRef) /\ tip \in Tips /\ o.pc = "fetchSource"
      /\ o.kind \in Kinds /\ Calls
      /\ p \in Approvers <=> o.kind = "approve"
  BY CallFacts DEF FetchSource, At, SyncInv
<1>2. CASE ReturnError(p) /\ UNCHANGED <<srcRef, objects, calm>>
  <2>1. inbox' \in SUBSET Events
    BY <1>1, <1>2, ErrorTyped
  <2>2. Data'
    BY <1>2, <2>1 DEF FetchSource, Data, SyncInv, store
  <2>3. Calls'
    BY <1>1, <1>2, CallEnds DEF ReturnError
  <2> QED
    BY <2>2, <2>3 DEF SyncInv
<1>3. ASSUME tip # None, srcRef' = tip, UNCHANGED inbox,
             objects' = objects \union History(tip), DisturbAll(p),
             NEW pc \in Steps, Goto(p, pc),
             \/ pc = "lsTarget" /\ o.kind = "update"
             \/ pc \in {"dryRun", "fetchTarget"} /\ o.kind # "update"
      PROVE  SyncInv'
  <2>1. objects' \in SUBSET Commits
    BY <1>3, HistoryTyped DEF SyncInv, Data
  <2>2. calm' \in SUBSET Processes
    BY <1>3 DEF DisturbAll, SyncInv, Data
  <2>3. Data'
    BY <1>1, <1>3, <2>1, <2>2 DEF FetchSource, Data, SyncInv, store
  <2>4. Sound(p, o, srcRef')
    BY <1>1, <1>3 DEF Sound
  <2>5. o.kind # "delete"
    BY <1>1 DEF Sound
  <2>6. Sound(p, [o EXCEPT !.pc = pc], srcRef')
    BY <1>1, <1>3, <2>4, <2>5, SoundStep DEF Kinds
  <2>7. Calls'
    BY <1>1, <1>3, <2>6, CallGoesTo
  <2> QED
    BY <2>3, <2>7 DEF SyncInv
<1>4. CASE tip = None
  BY <1>2, <1>4 DEF FetchSource
<1>5. CASE tip # None
  <2> DEFINE pc == IF o.kind = "update" THEN "lsTarget"
                   ELSE IF o.dst = None THEN "dryRun" ELSE "fetchTarget"
  <2>1. /\ srcRef' = tip /\ UNCHANGED inbox /\ objects' = objects \union History(tip)
        /\ DisturbAll(p) /\ Goto(p, pc)
    BY <1>5 DEF FetchSource, Fetched
  <2>2. pc \in Steps
    BY DEF Steps
  <2>3. \/ pc = "lsTarget" /\ o.kind = "update"
        \/ pc \in {"dryRun", "fetchTarget"} /\ o.kind # "update"
    OBVIOUS
  <2> HIDE DEF pc
  <2> QED
    BY <1>3, <1>5, <2>1, <2>2, <2>3
<1> QED
  BY <1>4, <1>5

LEMMA FetchTargetInv ==
  ASSUME SyncInv, NEW p \in Processes, FetchTarget(p)
  PROVE  SyncInv'
<1> DEFINE o == op[p]
           tip == TargetTip(o)
<1>1. /\ o \in Ops /\ Sound(p, o, srcRef) /\ o.pc = "fetchTarget"
      /\ o.kind \in Kinds /\ Calls /\ srcRef' = srcRef
      /\ p \in Approvers <=> o.kind = "approve"
  BY CallFacts DEF FetchTarget, At, SyncInv
<1>2. srcRef # None /\ o.kind # "delete"
  BY <1>1 DEF Sound
<1>3. objects' \in SUBSET Commits
  BY HistoryTyped DEF FetchTarget, SyncInv, Data
<1>4. CASE ReturnError(p)
  BY <1>1, <1>3, <1>4, ErrorTyped, CallEnds
     DEF FetchTarget, ReturnError, Data, SyncInv, store, ghosts
<1>5. CASE Return(p)
  BY <1>1, <1>3, <1>5, CallEnds DEF FetchTarget, Return, Data, SyncInv, store, ghosts
<1>6. ASSUME NEW pc \in Steps, Goto(p, pc), UNCHANGED inbox,
             \/ pc = "gate"
             \/ pc = "quarantine"
             \/ pc = "dryRun" /\ o.kind = "approve"
      PROVE  SyncInv'
  <2>1. Data'
    BY <1>3, <1>6 DEF FetchTarget, Data, SyncInv, store, ghosts
  <2>2. Calls'
    BY <1>1, <1>2, <1>6, CallMoves
  <2> QED
    BY <2>1, <2>2 DEF SyncInv
<1>7. CASE Goto(p, "gate") /\ UNCHANGED inbox
  BY <1>6, <1>7 DEF Steps
<1>8. CASE Goto(p, "quarantine") /\ UNCHANGED inbox
  BY <1>6, <1>8 DEF Steps
<1>9. CASE o.kind = "approve" /\ Goto(p, "dryRun") /\ UNCHANGED inbox
  BY <1>6, <1>9 DEF Steps
<1> QED
  BY <1>4, <1>5, <1>7, <1>8, <1>9 DEF FetchTarget, CompareUpdate, CompareApproved

LEMMA GateInv ==
  ASSUME SyncInv, NEW p \in Processes, Gate(p)
  PROVE  SyncInv'
<1> DEFINE o == op[p]
<1>1. /\ o \in Ops /\ Sound(p, o, srcRef) /\ o.pc = "gate" /\ Calls /\ srcRef' = srcRef
      /\ o.from \in Sides /\ o.branch \in Branches
  BY CallFacts DEF Gate, At, SyncInv
<1>2. srcRef # None /\ o.kind # "delete"
  BY <1>1 DEF Sound
<1>3. CASE AskHuman(p)
  <2>1. Data'
    BY <1>1, <1>3, AskTyped DEF Gate, SyncInv, Data, ghosts
  <2>2. Calls'
    BY <1>1, <1>3, CallMoves DEF AskHuman, Steps
  <2> QED
    BY <2>1, <2>2 DEF SyncInv
<1>4. CASE ~Gated(o) /\ Goto(p, "dryRun") /\ UNCHANGED <<inbox, store>>
  <2>1. Data'
    BY <1>4 DEF Gate, SyncInv, Data, store, ghosts
  <2>2. Calls'
    BY <1>1, <1>2, <1>4, CallMoves DEF Steps
  <2> QED
    BY <2>1, <2>2 DEF SyncInv
<1> QED
  BY <1>3, <1>4 DEF Gate

LEMMA WriteRequestInv ==
  ASSUME SyncInv, NEW p \in Processes, WriteRequest(p)
  PROVE  SyncInv'
<1>1. Becomes(p, Idle) /\ srcRef' = srcRef /\ inbox' = inbox
  BY DEF WriteRequest, Return
<1>2. Data'
  BY <1>1 DEF WriteRequest, SyncInv, Data, ghosts
<1> QED
  BY <1>1, <1>2, CallEnds DEF SyncInv

-----------------------------------------------------------------------------
(* The steps that write *)

\* The write of a tip keeps the types of the remote, and its echo is an event.
LEMMA WriteTyped ==
  ASSUME SyncInv, NEW p \in Processes, op[p].pc # "idle", NEW tip \in Tips, Write(p, tip)
  PROVE  /\ remote' \in [Sides -> [Branches -> Tips]]
         /\ calm' \in SUBSET Processes
         /\ Echo(op[p], tip) \in SUBSET Events
<1>1. /\ To(op[p]) \in Sides /\ op[p].branch \in Branches /\ TargetTip(op[p]) \in Tips
  BY CallFacts
<1>2. remote' \in [Sides -> [Branches -> Tips]]
  BY <1>1 DEF Write, SyncInv, Data
<1>3. calm' \in SUBSET Processes
  BY DEF Write, Disturb, SyncInv, Data
<1>4. Echo(op[p], tip) \in SUBSET Events
  BY <1>1 DEF Echo, Events, Update, Delete, Tips
<1> QED
  BY <1>2, <1>3, <1>4

\* The end of the last command.
LEMMA CallDone ==
  ASSUME SyncInv, NEW p \in Processes, op[p].pc # "idle", srcRef' = srcRef, Done(p)
  PROVE  Calls'
<1>1. CASE op[p].kind = "approve"
  BY <1>1, CallMoves DEF Done, Steps
<1>2. CASE op[p].kind # "approve"
  BY <1>2, CallEnds DEF Done, SyncInv
<1> QED
  BY <1>1, <1>2

LEMMA DryRunInv ==
  ASSUME SyncInv, NEW p \in Processes, DryRun(p)
  PROVE  SyncInv'
<1>1. /\ Sound(p, op[p], srcRef) /\ op[p].pc = "dryRun" /\ srcRef' = srcRef
  BY CallFacts DEF DryRun, At
<1>2. Data'
  BY DEF DryRun, SyncInv, Data, store, ghosts
<1>3. ASSUME NEW pc \in {"push", "quarantine"}, Goto(p, pc) PROVE Calls'
  BY <1>1, <1>3, CallMoves DEF Sound, Steps
<1>4. Calls'
  BY <1>3 DEF DryRun
<1> QED
  BY <1>2, <1>4 DEF SyncInv

LEMMA PushInv ==
  ASSUME SyncInv, NEW p \in Processes, Push(p)
  PROVE  SyncInv'
<1>1. /\ Sound(p, op[p], srcRef) /\ op[p].pc = "push" /\ srcRef' = srcRef /\ srcRef \in Tips
  BY CallFacts DEF Push, At, SyncInv, Data
<1>2. CASE Write(p, srcRef) /\ Announce(p, srcRef) /\ Done(p)
  <2>1. Data'
    BY <1>1, <1>2, WriteTyped DEF Heard, Push, Announce, SyncInv, Data, store
  <2>2. Calls'
    BY <1>1, <1>2, CallDone
  <2> QED
    BY <2>1, <2>2 DEF SyncInv
<1>3. CASE Goto(p, "quarantine") /\ UNCHANGED <<remote, inbox, calm>>
  <2>1. Data'
    BY <1>3 DEF Push, SyncInv, Data, store
  <2>2. Calls'
    BY <1>1, <1>3, CallMoves DEF Sound, Steps
  <2> QED
    BY <2>1, <2>2 DEF SyncInv
<1> QED
  BY <1>2, <1>3 DEF Push

\* What is kept in quarantine is a branch's tip.
LEMMA KeepTyped ==
  ASSUME SyncInv, NEW p \in Processes, op[p].pc = "quarantine",
         Keep(op[p]) \/ UNCHANGED quarantined
  PROVE  quarantined' \in [Sides -> SUBSET (Branches \X Commits)]
<1>1. /\ srcRef \in Commits /\ op[p].branch \in Branches /\ To(op[p]) \in Sides
  BY CallFacts DEF Sound, SyncInv, Data, Tips
<1>2. <<op[p].branch, srcRef>> \in Branches \X Commits
  BY <1>1
<1> QED
  BY <1>1, <1>2 DEF Keep, SyncInv, Data

LEMMA QuarantineInv ==
  ASSUME SyncInv, NEW p \in Processes, Quarantine(p)
  PROVE  SyncInv'
<1>1. op[p].pc = "quarantine" /\ srcRef' = srcRef
  BY DEF Quarantine, At
<1>2. quarantined' \in [Sides -> SUBSET (Branches \X Commits)]
  BY <1>1, KeepTyped DEF Quarantine
<1>3. Data'
  BY <1>2 DEF Quarantine, SyncInv, Data, store, ghosts
<1>4. Calls'
  BY <1>1, CallDone DEF Quarantine
<1> QED
  BY <1>3, <1>4 DEF SyncInv

LEMMA DryDeleteInv ==
  ASSUME SyncInv, NEW p \in Processes, DryDelete(p)
  PROVE  SyncInv'
<1>1. /\ Sound(p, op[p], srcRef) /\ op[p].pc = "dryDelete" /\ srcRef' = srcRef /\ Calls
  BY CallFacts DEF DryDelete, At, SyncInv
<1>2. CASE Goto(p, "delete") /\ UNCHANGED inbox
  <2>1. Data'
    BY <1>2 DEF DryDelete, SyncInv, Data, store, ghosts
  <2>2. Calls'
    BY <1>1, <1>2, CallMoves DEF Sound, Steps
  <2> QED
    BY <2>1, <2>2 DEF SyncInv
<1>3. CASE ReturnError(p)
  BY <1>1, <1>3, ErrorTyped, CallEnds
     DEF DryDelete, ReturnError, Data, SyncInv, store, ghosts
<1> QED
  BY <1>2, <1>3 DEF DryDelete

LEMMA StrictDeleteInv ==
  ASSUME SyncInv, NEW p \in Processes, StrictDelete(p)
  PROVE  SyncInv'
<1>1. /\ Sound(p, op[p], srcRef) /\ op[p].pc = "delete" /\ srcRef' = srcRef /\ Calls
      /\ None \in Tips
  BY CallFacts DEF StrictDelete, At, SyncInv, Tips
<1>2. CASE Write(p, None) /\ Announce(p, None) /\ Done(p)
  <2>1. Data'
    BY <1>1, <1>2, WriteTyped DEF Heard, StrictDelete, Announce, SyncInv, Data, store
  <2>2. Calls'
    BY <1>1, <1>2, CallDone
  <2> QED
    BY <2>1, <2>2 DEF SyncInv
<1>3. CASE ReturnError(p) /\ UNCHANGED <<remote, calm>>
  BY <1>1, <1>3, ErrorTyped, CallEnds
     DEF StrictDelete, ReturnError, Data, SyncInv, store
<1> QED
  BY <1>2, <1>3 DEF StrictDelete

LEMMA CompleteInv ==
  ASSUME SyncInv, NEW p \in Processes, Complete(p)
  PROVE  SyncInv'
<1>1. op[p].pc = "complete" /\ srcRef' = srcRef /\ Becomes(p, Idle) /\ UNCHANGED inbox
  BY DEF Complete, At, Return
<1>2. RequestOf(op[p]) \in Requests
  BY <1>1, CallFacts DEF RequestOf, Request, Requests, Ops
<1>3. Data'
  BY <1>1, <1>2 DEF Complete, MovesAway, Disturb, SyncInv, Data
<1> QED
  BY <1>1, <1>3, CallEnds DEF SyncInv

-----------------------------------------------------------------------------
(* People and new calls *)

LEMMA UserInv ==
  ASSUME SyncInv, UserStep
  PROVE  SyncInv'
<1>1. PICK s \in Sides, b \in Branches :
        UserDelete(s, b) \/ \E c \in Commits : UserPush(s, b, c)
  BY DEF UserStep
<1>2. op' = op /\ srcRef' = srcRef
  BY <1>1 DEF UserDelete, UserPush
<1>3. Calls'
  BY <1>2 DEF SyncInv, Calls, Typed, Sound, Gated
<1>4. ASSUME NEW c \in Commits, UserPush(s, b, c)
      PROVE  Data'
  <2>1. c \in Tips /\ Update(s, b) \in Events
    BY DEF Tips, Update, Events
  <2> QED
    BY <1>4, <2>1 DEF Heard, UserPush, Unsettle, SyncInv, Data, store
<1>5. CASE UserDelete(s, b)
  <2>1. remote[s][b] \in Commits /\ None \in Tips
    BY <1>5 DEF UserDelete, SyncInv, Data, Tips
  <2>2. Delete(s, b, remote[s][b]) \in Events
    BY <2>1 DEF Delete, Events
  <2>3. <<s, b>> \in Sides \X Branches
    OBVIOUS
  <2>4. Data'
    BY <1>5, <2>1, <2>2, <2>3 DEF Heard, UserDelete, Unsettle, SyncInv, Data, store
  <2> QED
    BY <1>3, <2>4 DEF SyncInv
<1> QED
  BY <1>1, <1>3, <1>4, <1>5 DEF SyncInv

\* A new call is well-formed when its kind fits the process.
LEMMA EnterInv ==
  ASSUME SyncInv, NEW p \in Processes, NEW kind \in Kinds, NEW after \in Tips, NEW x,
         x.from \in Sides, x.branch \in Branches, x.before \in Tips,
         p \in Approvers <=> kind = "approve",
         p \in Workers =>
           [kind |-> kind, from |-> x.from, branch |-> x.branch, before |-> x.before] \in Events,
         Enter(p, Begin(kind, x, after)), inbox' \in SUBSET Events
  PROVE  SyncInv'
<1> DEFINE o == Begin(kind, x, after)
<1>1. /\ o \in Ops /\ o.pc = "lsSource" /\ o.kind = kind /\ o.from = x.from
      /\ o.branch = x.branch /\ o.before = x.before
  BY SyncAssumption, GraphAssumption DEF Begin, Ops, Steps, Tips
<1>2. Typed(p, o)
  BY <1>1 DEF Typed, EventOf
<1>3. Sound(p, o, srcRef')
  BY <1>1 DEF Sound
<1>4. Becomes(p, o) /\ srcRef' = srcRef
  BY DEF Enter
<1> HIDE DEF o
<1>5. Calls'
  BY <1>2, <1>3, <1>4, OneCall DEF SyncInv
<1>6. Data'
  BY DEF Enter, SyncInv, Data, store
<1> QED
  BY <1>5, <1>6 DEF SyncInv

LEMMA StartInv ==
  ASSUME SyncInv, NEW p \in Processes, StartStep(p)
  PROVE  SyncInv'
<1>1. None \in Tips /\ inbox \in SUBSET Events /\ pending \in SUBSET Requests
  BY DEF Tips, SyncInv, Data
<1>2. ASSUME NEW e \in inbox, TakeEvent(p, e)
      PROVE  SyncInv'
  <2>1. /\ e \in Events /\ p \in Workers /\ inbox' \in SUBSET Events
        /\ Enter(p, Begin(e.kind, e, None))
    BY <1>1, <1>2 DEF TakeEvent
  <2>2. /\ e.kind \in Kinds \ {"approve"} /\ e.from \in Sides /\ e.branch \in Branches
        /\ e.before \in Tips
        /\ e = [kind |-> e.kind, from |-> e.from, branch |-> e.branch, before |-> e.before]
    BY <2>1 DEF Events, Kinds, Tips
  <2>3. p \notin Approvers
    BY <2>1, SyncAssumption, GraphAssumption
  <2> QED
    BY <1>1, <2>1, <2>2, <2>3, EnterInv
<1>3. ASSUME NEW e \in Events, StartSync(p, e)
      PROVE  SyncInv'
  <2>1. p \in Syncs /\ inbox' = inbox /\ Enter(p, Begin(e.kind, e, None))
    BY <1>3 DEF StartSync
  <2>2. /\ e.kind \in Kinds \ {"approve"} /\ e.from \in Sides /\ e.branch \in Branches
        /\ e.before \in Tips
    BY DEF Events, Kinds, Tips
  <2>3. p \notin Approvers /\ p \notin Workers
    BY <2>1, SyncAssumption, GraphAssumption
  <2> QED
    BY <1>1, <2>1, <2>2, <2>3, EnterInv
<1>4. ASSUME NEW r \in pending, LoadRequest(p, r)
      PROVE  SyncInv'
  <2>1. /\ p \in Approvers /\ inbox' = inbox /\ Enter(p, Begin("approve", r, r.after))
    BY <1>4 DEF LoadRequest
  <2>2. /\ r.from \in Sides /\ r.branch \in Branches /\ r.before \in Tips
        /\ r.after \in Tips /\ "approve" \in Kinds
    BY <1>1 DEF Requests, Kinds
  <2>3. p \notin Workers
    BY <2>1, SyncAssumption, GraphAssumption
  <2> QED
    BY <1>1, <2>1, <2>2, <2>3, EnterInv
<1> QED
  BY <1>2, <1>3, <1>4 DEF StartStep

-----------------------------------------------------------------------------
(* Failures *)

LEMMA CommandFailsInv ==
  ASSUME SyncInv, NEW p \in Processes, CommandFails(p)
  PROVE  SyncInv'
<1>1. srcRef' = srcRef /\ Calls
  BY DEF CommandFails, SyncInv
<1>2. CASE ReturnError(p) /\ op[p].pc # "idle"
  BY <1>1, <1>2, ErrorTyped, CallEnds
     DEF CommandFails, ReturnError, Data, SyncInv, store, ghosts
<1>3. CASE op[p].pc \in {"dryRun", "push"} /\ Goto(p, "quarantine") /\ UNCHANGED inbox
  <2>1. Data'
    BY <1>3 DEF CommandFails, SyncInv, Data, store, ghosts
  <2>2. Sound(p, op[p], srcRef)
    BY <1>3, CallFacts
  <2>3. Calls'
    BY <1>1, <1>3, <2>2, CallMoves DEF Sound, Steps
  <2> QED
    BY <2>1, <2>3 DEF SyncInv
<1> QED
  BY <1>2, <1>3 DEF CommandFails

LEMMA AnswerLostInv ==
  ASSUME SyncInv, NEW p \in Processes, AnswerLost(p)
  PROVE  SyncInv'
<1>1. srcRef' = srcRef /\ Calls /\ srcRef \in Tips /\ None \in Tips
  BY DEF AnswerLost, SyncInv, Data, Tips
<1>2. CASE /\ op[p].pc = "push" /\ Write(p, srcRef) /\ Announce(p, srcRef)
           /\ Goto(p, "quarantine")
  <2>1. Data'
    BY <1>1, <1>2, WriteTyped DEF Heard, AnswerLost, Announce, SyncInv, Data, store
  <2>2. Sound(p, op[p], srcRef)
    BY <1>2, CallFacts
  <2>3. Calls'
    BY <1>1, <1>2, <2>2, CallMoves DEF Sound, Steps
  <2> QED
    BY <2>1, <2>3 DEF SyncInv
<1>3. CASE /\ op[p].pc = "delete" /\ Write(p, None) /\ Becomes(p, Idle)
           /\ \E again \in SUBSET {EventOf(op[p])} :
                /\ p \in Workers \/ again = {}
                /\ inbox' = inbox \union Heard(Echo(op[p], None)) \union again
  <2>1. p \in Workers => EventOf(op[p]) \in Events
    BY <1>3, CallFacts
  <2>2. Echo(op[p], None) \in SUBSET Events
    BY <1>1, <1>3, WriteTyped
  <2>3. inbox' \in SUBSET Events
    BY <1>3, <2>1, <2>2 DEF Heard, SyncInv, Data
  <2>4. Data'
    BY <1>1, <1>3, <2>3, WriteTyped DEF AnswerLost, SyncInv, Data, store
  <2>5. Calls'
    BY <1>1, <1>3, CallEnds
  <2> QED
    BY <2>4, <2>5 DEF SyncInv
<1> QED
  BY <1>2, <1>3 DEF AnswerLost, At

LEMMA QuarantineFailsInv ==
  ASSUME SyncInv, NEW p \in Processes, QuarantineFails(p)
  PROVE  SyncInv'
<1> DEFINE o == op[p]
<1>1. /\ o \in Ops /\ Sound(p, o, srcRef) /\ o.pc = "quarantine" /\ srcRef' = srcRef /\ Calls
  BY CallFacts DEF QuarantineFails, At, SyncInv
<1>2. quarantined' \in [Sides -> SUBSET (Branches \X Commits)]
  BY <1>1, KeepTyped DEF QuarantineFails
<1>3. CASE TriesLeft(o) /\ Becomes(p, [o EXCEPT !.tries = @ + 1]) /\ UNCHANGED inbox
  <2> DEFINE o2 == [o EXCEPT !.tries = @ + 1]
  <2>1. o.tries + 1 \in 0..(QuarantineTries - 1)
    BY <1>1, <1>3, SyncAssumption, GraphAssumption DEF TriesLeft, Ops
  <2>2. /\ o2 \in Ops /\ o2.pc = o.pc /\ o2.kind = o.kind /\ o2.from = o.from
        /\ o2.branch = o.branch /\ o2.before = o.before
    BY <1>1, <2>1 DEF Ops
  <2>3. Becomes(p, o2)
    BY <1>3
  <2> HIDE DEF o2
  <2>4. Sound(p, o2, srcRef')
    BY <1>1, <2>2 DEF Sound
  <2>5. Calls'
    BY <1>1, <2>2, <2>3, <2>4, CallGoesOn
  <2>6. Data'
    BY <1>2, <1>3 DEF QuarantineFails, SyncInv, Data, store, ghosts
  <2> QED
    BY <2>5, <2>6 DEF SyncInv
<1>4. CASE ReturnError(p)
  BY <1>1, <1>2, <1>4, ErrorTyped, CallEnds
     DEF QuarantineFails, ReturnError, Data, SyncInv, store, ghosts
<1> QED
  BY <1>3, <1>4 DEF QuarantineFails

LEMMA DiesInv ==
  ASSUME SyncInv, NEW p \in Processes, Dies(p)
  PROVE  SyncInv'
<1>1. srcRef' = srcRef /\ Calls /\ Becomes(p, Idle)
  BY DEF Dies, SyncInv
<1>2. p \in Workers => EventOf(op[p]) \in Events
  BY DEF Dies, SyncInv, Calls, Typed
<1>3. Data'
  BY <1>2 DEF Dies, SyncInv, Data, store, ghosts
<1> QED
  BY <1>1, <1>3, CallEnds DEF SyncInv

LEMMA RejectInv ==
  ASSUME SyncInv, NEW r \in pending, Reject(r)
  PROVE  SyncInv'
<1>1. Calls'
  BY DEF Reject, SyncInv, Calls, Typed, Sound, Gated
<1>2. Data'
  BY DEF Reject, MovesAway, SyncInv, Data, ghosts
<1> QED
  BY <1>1, <1>2 DEF SyncInv

-----------------------------------------------------------------------------
(* The theorems *)

LEMMA InitInv == Init => SyncInv
<1> SUFFICES ASSUME Init PROVE SyncInv
  OBVIOUS
<1> USE SyncAssumption, GraphAssumption DEF Init
<1>1. PICK tips \in [Branches -> InitialTips] :
        /\ remote = [s \in Sides |-> tips]
        /\ objects = {c \in Commits : \E b \in Branches : tips[b] # None /\ IsAncestor(c, tips[b])}
        /\ authored = [b \in Branches |-> {tips[b]} \ {None}]
  OBVIOUS
<1>2. /\ remote \in [Sides -> [Branches -> Tips]] /\ objects \in SUBSET Commits
      /\ authored \in [Branches -> SUBSET Tips]
  BY <1>1 DEF Tips
<1>3. Data
  BY <1>2 DEF Data, Tips
<1>4. Idle \in Ops
  BY DEF Idle, Ops, Steps, Kinds, Sides, Tips
<1>5. Calls
  BY <1>4, IdleCall DEF Calls
<1> QED
  BY <1>3, <1>5 DEF SyncInv

LEMMA NextInv == SyncInv /\ [Next]_vars => SyncInv'
<1> SUFFICES ASSUME SyncInv, [Next]_vars PROVE SyncInv'
  OBVIOUS
<1>1. CASE UserStep
  BY <1>1, UserInv
<1>2. ASSUME NEW p \in Processes, StartStep(p) PROVE SyncInv'
  BY <1>2, StartInv
<1>3. ASSUME NEW p \in Processes, SyncStep(p) PROVE SyncInv'
  BY <1>3, LsSourceInv, FetchSourceInv, LsTargetInv, FetchTargetInv, GateInv, WriteRequestInv, DryRunInv,
     PushInv, QuarantineInv, DryDeleteInv, StrictDeleteInv, CompleteInv DEF SyncStep
<1>4. ASSUME NEW p \in Processes, FaultStep(p) PROVE SyncInv'
  BY <1>4, CommandFailsInv, AnswerLostInv, QuarantineFailsInv, DiesInv DEF FaultStep
<1>5. ASSUME NEW r \in pending, Reject(r) PROVE SyncInv'
  BY <1>5, RejectInv
<1>6. CASE UNCHANGED vars
  <2>1. Calls'
    BY <1>6 DEF vars, SyncInv, Calls, Typed, Sound, Gated
  <2>2. Data'
    BY <1>6 DEF vars, store, ghosts, SyncInv, Data
  <2> QED
    BY <2>1, <2>2 DEF SyncInv
<1> QED
  BY <1>1, <1>2, <1>3, <1>4, <1>5, <1>6 DEF Next

\* Every call keeps the invariant, whatever people, other calls and failures do.
THEOREM CallsSound == Spec => []SyncInv
BY InitInv, NextInv, PTL DEF Spec

\* The variables keep their types, and each kind of process only makes its calls.
THEOREM TypeCorrect == Spec => []TypeOK
BY CallsSound, InvTyped, PTL

\* A call that goes to another step keeps its other variables.
LEMMA GotoFacts ==
  ASSUME SyncInv, NEW p \in Processes, NEW pc, Goto(p, pc)
  PROVE  /\ op'[p].pc = pc /\ op'[p].kind = op[p].kind /\ op'[p].from = op[p].from
         /\ op'[p].branch = op[p].branch /\ op'[p].before = op[p].before
         /\ op'[p].after = op[p].after /\ op'[p].src = op[p].src
<1>1. op[p] \in Ops /\ op' = [op EXCEPT ![p] = [op[p] EXCEPT !.pc = pc]] /\ p \in DOMAIN op
  BY DEF SyncInv, Calls, Goto, Becomes
<1> QED
  BY <1>1 DEF Ops

LEMMA GotoDst ==
  ASSUME SyncInv, NEW p \in Processes, NEW pc, Goto(p, pc)
  PROVE  op'[p].dst = op[p].dst
<1>1. op[p] \in Ops /\ op' = [op EXCEPT ![p] = [op[p] EXCEPT !.pc = pc]] /\ p \in DOMAIN op
  BY DEF SyncInv, Calls, Goto, Becomes
<1> QED
  BY <1>1 DEF Ops

\* Each step of a call sets that call's record.
LEMMA StepBecomes ==
  ASSUME NEW p \in Processes, SyncStep(p) \/ FaultStep(p)
  PROVE  \E o : Becomes(p, o)
<1>1. CASE Quarantine(p) \/ Push(p) \/ StrictDelete(p) \/ AnswerLost(p)
  BY <1>1 DEF Quarantine, Push, StrictDelete, AnswerLost, Done, Goto, ReturnError
<1>2. CASE LsSource(p) \/ LsTarget(p)
  BY <1>2 DEF LsSource, UpdateReadsSource, DeleteReadsSource, ApproveReadsSource, LsTarget,
              UpdateReadsTarget, DeleteReadsTarget, ApproveReadsTarget, AskHuman, Proceed,
              Goto, Return, ReturnError
<1>3. CASE FetchSource(p) \/ FetchTarget(p) \/ Gate(p) \/ WriteRequest(p)
  BY <1>3 DEF FetchSource, FetchTarget, CompareUpdate, CompareApproved, Gate, AskHuman,
              WriteRequest, Goto, Return, ReturnError
<1>4. CASE DryRun(p) \/ DryDelete(p) \/ Complete(p) \/ CommandFails(p) \/ QuarantineFails(p) \/ Dies(p)
  BY <1>4 DEF DryRun, DryDelete, Complete, CommandFails, QuarantineFails, Dies, Goto, Return,
              ReturnError
<1> QED
  BY <1>1, <1>2, <1>3, <1>4 DEF SyncStep, FaultStep

\* Only a push or a deletion of a process changes a remote without people
\* doing it, and it sets the branch its call is about on its target, to the tip
\* in the shared ref or to nothing.
LEMMA OneWrites ==
  ASSUME SyncInv, Next, NEW s \in Sides, NEW b \in Branches,
         moves' = moves, remote'[s][b] # remote[s][b]
  PROVE  \E q \in Processes :
           /\ s = To(op[q]) /\ b = op[q].branch /\ \E o : Becomes(q, o)
           /\ \/ op[q].pc = "push" /\ remote'[s][b] = srcRef
              \/ op[q].pc = "delete" /\ remote'[s][b] = None
<1>1. ~UserStep
  <2> SUFFICES ASSUME UserStep PROVE moves' = moves + 1
    BY DEF SyncInv, Data
  <2> QED
    BY DEF UserStep, UserPush, UserDelete
<1>2. \A q \in Processes : ~StartStep(q)
  BY DEF StartStep, TakeEvent, StartSync, LoadRequest, Enter
<1>3. \A r \in pending : ~Reject(r)
  BY DEF Reject
<1>4. PICK q \in Processes : SyncStep(q) \/ FaultStep(q)
  BY <1>1, <1>2, <1>3 DEF Next
<1>5. Push(q) \/ StrictDelete(q) \/ AnswerLost(q)
  BY <1>4 DEF SyncStep, FaultStep, LsSource, FetchSource, LsTarget, FetchTarget, Gate, WriteRequest, DryRun,
     Quarantine, DryDelete, Complete, CommandFails, QuarantineFails, Dies
<1>6. PICK tip : /\ Write(q, tip)
                 /\ \/ op[q].pc = "push" /\ tip = srcRef
                    \/ op[q].pc = "delete" /\ tip = None
  BY <1>5 DEF Push, StrictDelete, AnswerLost, At
<1>7. \E o : Becomes(q, o)
  BY <1>5 DEF Push, StrictDelete, AnswerLost, Done, Goto, ReturnError
<1>8. s = To(op[q]) /\ b = op[q].branch /\ remote'[s][b] = tip
  <2>1. remote' = [remote EXCEPT ![To(op[q])][op[q].branch] = tip]
    BY <1>6 DEF Write
  <2>2. remote \in [Sides -> [Branches -> Tips]] /\ To(op[q]) \in Sides
    BY <1>6, CallFacts DEF SyncInv, Data
  <2> QED
    BY <2>1, <2>2
<1> QED
  BY <1>6, <1>7, <1>8

\* No call of the worker or of "gitmirror sync" ever changes a protected branch
\* of its target, for any set of protected branches, any number of concurrent
\* processes, and any failures: the gate lies on every path to a push or a
\* deletion.
THEOREM ProtectedBranches == Spec => ProtectedOnlyByApproval
<1> DEFINE Unprotected ==
      \A p \in Workers \union Syncs, s \in Sides, b \in Branches :
        Changes(p, s, b) => <<s, b>> \notin Protected
<1>1. SyncInv /\ [Next]_vars => [Unprotected]_vars
  <2> SUFFICES ASSUME SyncInv, Next, NEW p \in Workers \union Syncs,
                      NEW s \in Sides, NEW b \in Branches, Changes(p, s, b)
               PROVE  <<s, b>> \notin Protected
    OBVIOUS
  <2>1. PICK q \in Processes :
          /\ s = To(op[q]) /\ b = op[q].branch /\ \E o : Becomes(q, o)
          /\ op[q].pc \in {"push", "delete"}
    BY OneWrites DEF Changes
  <2>2. p = q
    BY <2>1 DEF Becomes, Changes, SyncInv, Calls, Processes
  <2>3. p \notin Approvers
    BY SyncAssumption, GraphAssumption
  <2>4. ~Gated(op[q])
    BY <2>1, <2>2, <2>3, CallFacts DEF Sound
  <2> QED
    BY <2>1, <2>4 DEF Gated
<1> QED
  BY <1>1, CallsSound, PTL DEF Spec, ProtectedOnlyByApproval

-----------------------------------------------------------------------------
(* One process: the tip in the shared local ref is one of the branch that   *)
(* the call is about, from its fetch to its push.                           *)

Holds(o) ==
  \/ o.pc \in {"fetchTarget", "gate", "dryRun", "push", "quarantine"}
  \/ o.pc = "lsTarget" /\ o.kind = "update"

Apart ==
  /\ BranchesApart
  /\ \A p \in Processes : Holds(op[p]) => srcRef \in authored[op[p].branch]

\* What the steps that fetch nothing do to a call that holds a tip.
StillHolds(p) ==
  /\ srcRef' = srcRef
  /\ Holds(op'[p]) => Holds(op[p]) /\ op'[p].branch = op[p].branch

LEMMA IdleHolds ==
  ASSUME SyncInv, NEW p \in Processes, Becomes(p, Idle), srcRef' = srcRef
  PROVE  StillHolds(p)
BY DEF Becomes, SyncInv, Calls, StillHolds, Holds, Idle

LEMMA GotoHolds ==
  ASSUME SyncInv, NEW p \in Processes, NEW pc, Goto(p, pc), srcRef' = srcRef,
         Holds(op[p]) \/ pc \notin {"fetchTarget", "gate", "dryRun", "push", "quarantine", "lsTarget"}
  PROVE  StillHolds(p)
<1>1. op[p] \in Ops /\ op' = [op EXCEPT ![p] = [op[p] EXCEPT !.pc = pc]] /\ p \in DOMAIN op
  BY DEF SyncInv, Calls, Goto, Becomes
<1>2. op'[p].pc = pc /\ op'[p].branch = op[p].branch
  BY <1>1 DEF Ops
<1> QED
  BY <1>2 DEF StillHolds, Holds

LEMMA ReadsHold ==
  ASSUME SyncInv, NEW p \in Processes, LsSource(p) \/ LsTarget(p)
  PROVE  StillHolds(p)
<1> DEFINE o == op[p]
<1>1. o \in Ops /\ p \in DOMAIN op /\ srcRef' = srcRef
  BY DEF SyncInv, Calls, LsSource, LsTarget
<1>2. CASE Return(p) \/ ReturnError(p)
  BY <1>1, <1>2, IdleHolds DEF Return, ReturnError
<1>3. CASE AskHuman(p)
  BY <1>1, <1>3, GotoHolds DEF AskHuman
<1>4. ASSUME NEW o2, Proceed(p, o2), o2.branch = o.branch, Holds(o2) => Holds(o)
      PROVE  StillHolds(p)
  BY <1>1, <1>4 DEF Proceed, Becomes, StillHolds
<1>5. CASE LsSource(p)
  <2>1. ASSUME NEW pc, o.kind # "update" \/ pc = "fetchSource", pc \in {"fetchSource", "lsTarget"},
               Proceed(p, [o EXCEPT !.src = SourceTip(o), !.pc = pc])
        PROVE  StillHolds(p)
    <3> DEFINE o2 == [o EXCEPT !.src = SourceTip(o), !.pc = pc]
    <3>1. o2.branch = o.branch /\ o2.pc = pc /\ o2.kind = o.kind
      BY <1>1 DEF Ops
    <3>2. ~Holds(o2)
      BY <2>1, <3>1 DEF Holds
    <3>3. Proceed(p, o2)
      BY <2>1
    <3> HIDE DEF o2
    <3> QED
      BY <1>4, <3>1, <3>2, <3>3
  <2> QED
    BY <1>2, <1>5, <2>1 DEF LsSource, UpdateReadsSource, DeleteReadsSource, ApproveReadsSource
<1>6. CASE LsTarget(p)
  <2>1. ASSUME NEW pc, Proceed(p, [o EXCEPT !.dst = TargetTip(o), !.pc = pc]),
               \/ o.kind = "update" /\ pc \in {"gate", "fetchTarget"}
               \/ pc \in {"dryDelete", "fetchSource"}
        PROVE  StillHolds(p)
    <3> DEFINE o2 == [o EXCEPT !.dst = TargetTip(o), !.pc = pc]
    <3>1. o2.branch = o.branch /\ o2.pc = pc /\ o2.kind = o.kind
      BY <1>1 DEF Ops
    <3>2. Holds(o2) => Holds(o)
      BY <1>6, <2>1, <3>1 DEF Holds, LsTarget, At
    <3>3. Proceed(p, o2)
      BY <2>1
    <3> HIDE DEF o2
    <3> QED
      BY <1>4, <3>1, <3>2, <3>3
  <2>2. CASE o.kind = "update" /\ UpdateReadsTarget(p)
    BY <1>2, <2>1, <2>2 DEF UpdateReadsTarget
  <2>3. CASE DeleteReadsTarget(p)
    BY <1>2, <1>3, <2>1, <2>3 DEF DeleteReadsTarget
  <2>4. CASE ApproveReadsTarget(p)
    BY <1>2, <2>1, <2>4 DEF ApproveReadsTarget
  <2> QED
    BY <1>6, <2>2, <2>3, <2>4 DEF LsTarget
<1> QED
  BY <1>5, <1>6

LEMMA OthersHold ==
  ASSUME SyncInv, NEW p \in Processes, SyncStep(p) \/ FaultStep(p), ~FetchSource(p)
  PROVE  StillHolds(p)
<1>1. CASE LsSource(p) \/ LsTarget(p)
  BY <1>1, ReadsHold
<1>2. CASE FetchTarget(p)
  BY <1>2, IdleHolds, GotoHolds
     DEF FetchTarget, CompareUpdate, CompareApproved, Return, ReturnError, At, Holds
<1>3. CASE Gate(p)
  BY <1>3, GotoHolds DEF Gate, AskHuman, At, Holds
<1>4. CASE WriteRequest(p) \/ Complete(p) \/ Dies(p)
  BY <1>4, IdleHolds DEF WriteRequest, Complete, Dies, Return
<1>5. CASE DryRun(p) \/ Push(p) \/ Quarantine(p)
  BY <1>5, IdleHolds, GotoHolds DEF DryRun, Push, Quarantine, Done, At, Holds
<1>6. CASE DryDelete(p) \/ StrictDelete(p)
  BY <1>6, IdleHolds, GotoHolds DEF DryDelete, StrictDelete, Done, ReturnError
<1>7. CASE CommandFails(p) \/ AnswerLost(p)
  BY <1>7, IdleHolds, GotoHolds DEF CommandFails, AnswerLost, ReturnError, At, Holds
<1>8. CASE QuarantineFails(p)
  <2>1. op[p] \in Ops /\ p \in DOMAIN op /\ srcRef' = srcRef /\ Holds(op[p])
    BY <1>8 DEF SyncInv, Calls, QuarantineFails, At, Holds
  <2>2. CASE Becomes(p, [op[p] EXCEPT !.tries = @ + 1])
    <3>1. op'[p].branch = op[p].branch
      BY <2>1, <2>2 DEF Becomes, Ops
    <3> QED
      BY <2>1, <3>1 DEF StillHolds
  <2> QED
    BY <1>8, <2>1, <2>2, IdleHolds DEF QuarantineFails, ReturnError
<1> QED
  BY <1>1, <1>2, <1>3, <1>4, <1>5, <1>6, <1>7, <1>8 DEF SyncStep, FaultStep

\* A process changes a branch of a remote to the tip it holds, or deletes it.
LEMMA WritesHeld ==
  ASSUME SyncInv, Apart, NEW p \in Processes, SyncStep(p) \/ FaultStep(p)
  PROVE  BranchesApart' /\ authored' = authored
<1>1. authored' = authored
  BY DEF SyncStep, FaultStep, LsSource, FetchSource, LsTarget, FetchTarget, Gate, WriteRequest,
     DryRun, Push, Quarantine, DryDelete, StrictDelete, Complete, CommandFails, AnswerLost,
     QuarantineFails, Dies, ghosts
<1>2. \/ remote' = remote
      \/ op[p].pc = "push" /\ Write(p, srcRef)
      \/ op[p].pc = "delete" /\ Write(p, None)
  BY DEF SyncStep, FaultStep, LsSource, FetchSource, LsTarget, FetchTarget, Gate, WriteRequest,
     DryRun, Push, Quarantine, DryDelete, StrictDelete, Complete, CommandFails, AnswerLost,
     QuarantineFails, Dies, At
<1>3. CASE remote' = remote
  BY <1>1, <1>3 DEF Apart, BranchesApart
<1>4. ASSUME op[p].pc # "idle",
             \E tip \in authored[op[p].branch] \union {None} : Write(p, tip)
      PROVE  BranchesApart'
  <2>1. remote \in [Sides -> [Branches -> Tips]] /\ To(op[p]) \in Sides
    BY <1>4, CallFacts DEF SyncInv, Data
  <2>2. PICK tip \in authored[op[p].branch] \union {None} :
          remote' = [remote EXCEPT ![To(op[p])][op[p].branch] = tip]
    BY <1>4 DEF Write
  <2>3. \A s \in Sides, b \in Branches :
          remote'[s][b] = remote[s][b] \/ (b = op[p].branch /\ remote'[s][b] = tip)
    BY <2>1, <2>2
  <2> QED
    BY <1>1, <2>2, <2>3 DEF Apart, BranchesApart
<1>5. CASE op[p].pc = "push" /\ Write(p, srcRef)
  <2>1. srcRef \in authored[op[p].branch] \union {None}
    BY <1>5 DEF Apart, Holds
  <2> QED
    BY <1>1, <1>4, <1>5, <2>1
<1>6. CASE op[p].pc = "delete" /\ Write(p, None)
  <2>1. None \in authored[op[p].branch] \union {None}
    OBVIOUS
  <2> QED
    BY <1>1, <1>4, <1>6, <2>1
<1> QED
  BY <1>1, <1>2, <1>3, <1>5, <1>6

LEMMA FetchHolds ==
  ASSUME SyncInv, Apart, NEW p \in Processes, FetchSource(p)
  PROVE  Holds(op'[p]) => srcRef' \in authored[op'[p].branch]
<1> DEFINE o == op[p]
<1>1. /\ o \in Ops /\ p \in DOMAIN op /\ o.from \in Sides /\ o.branch \in Branches
  BY CallFacts DEF FetchSource, At, SyncInv, Calls
<1>2. CASE SourceTip(o) = None
  BY <1>1, <1>2 DEF FetchSource, ReturnError, Becomes, Holds, Idle
<1>3. CASE SourceTip(o) # None
  <2>1. srcRef' = SourceTip(o) /\ \E pc : Goto(p, pc)
    BY <1>3 DEF FetchSource, Fetched
  <2>2. op'[p].branch = o.branch
    BY <1>1, <2>1 DEF Goto, Becomes, Ops
  <2>3. SourceTip(o) \in authored[o.branch]
    BY <1>1, <1>3 DEF Apart, BranchesApart, SourceTip
  <2> QED
    BY <2>1, <2>2, <2>3
<1> QED
  BY <1>2, <1>3

LEMMA ApartStep ==
  ASSUME \A p, q \in Processes : p = q, SyncInv, Apart, [Next]_vars
  PROVE  Apart'
<1>1. CASE UserStep
  <2>1. PICK s \in Sides, b \in Branches :
          UserDelete(s, b) \/ \E c \in Commits : UserPush(s, b, c)
    BY <1>1 DEF UserStep
  <2>2. UNCHANGED <<op, srcRef>>
    BY <1>1 DEF UserStep, UserPush, UserDelete
  <2>3. /\ remote \in [Sides -> [Branches -> Tips]] /\ authored \in [Branches -> SUBSET Tips]
    BY DEF SyncInv, Data
  <2>4. BranchesApart' /\ \A x \in Branches : authored[x] \subseteq authored'[x]
    <3>1. CASE UserDelete(s, b)
      <4>1. remote' = [remote EXCEPT ![s][b] = None] /\ authored' = [authored EXCEPT ![b] = @ \union {None}]
        BY <3>1 DEF UserDelete
      <4> QED
        BY <2>3, <4>1 DEF Apart, BranchesApart
    <3>2. ASSUME NEW c \in Commits, UserPush(s, b, c)
          PROVE  BranchesApart' /\ \A x \in Branches : authored[x] \subseteq authored'[x]
      <4>1. /\ remote' = [remote EXCEPT ![s][b] = c]
            /\ authored' = [authored EXCEPT ![b] = @ \union {c}]
        BY <3>2 DEF UserPush
      <4> QED
        BY <2>3, <4>1 DEF Apart, BranchesApart
    <3> QED
      BY <2>1, <3>1, <3>2
  <2>5. \A p \in Processes : Holds(op[p]) => op[p].branch \in Branches
    BY CallFacts DEF Holds
  <2> QED
    BY <2>2, <2>4, <2>5 DEF Apart
<1>2. ASSUME NEW p \in Processes, StartStep(p) PROVE Apart'
  <2>1. /\ UNCHANGED <<remote, srcRef, authored>> /\ op'[p].pc = "lsSource"
        /\ p \in DOMAIN op
    BY <1>2 DEF StartStep, TakeEvent, StartSync, LoadRequest, Enter, Becomes, Begin, SyncInv, Calls
  <2> QED
    BY <2>1 DEF Apart, BranchesApart, Holds
<1>3. ASSUME NEW p \in Processes, SyncStep(p) \/ FaultStep(p) PROVE Apart'
  <2>1. BranchesApart' /\ authored' = authored
    BY <1>3, WritesHeld
  <2>2. Holds(op'[p]) => srcRef' \in authored[op'[p].branch]
    <3>1. CASE FetchSource(p)
      BY <3>1, FetchHolds
    <3>2. CASE ~FetchSource(p)
      BY <1>3, <3>2, OthersHold DEF StillHolds, Apart
    <3> QED
      BY <3>1, <3>2
  <2> QED
    BY <2>1, <2>2 DEF Apart
<1>4. ASSUME NEW r \in pending, Reject(r) PROVE Apart'
  BY <1>4 DEF Reject, ghosts, Apart, BranchesApart
<1>5. CASE UNCHANGED vars
  BY <1>5 DEF vars, ghosts, Apart, BranchesApart
<1> QED
  BY <1>1, <1>2, <1>3, <1>4, <1>5 DEF Next

LEMMA ApartInit == Init => Apart
<1> SUFFICES ASSUME Init PROVE Apart
  OBVIOUS
<1>1. \A p \in Processes : ~Holds(op[p])
  BY DEF Init, Holds, Idle
<1>2. PICK tips \in [Branches -> InitialTips] :
        /\ remote = [s \in Sides |-> tips] /\ authored = [b \in Branches |-> {tips[b]} \ {None}]
  BY DEF Init
<1> QED
  BY <1>1, <1>2 DEF Apart, BranchesApart

\* As long as one process alone synchronizes the pair, a commit that people put
\* on one branch never appears on another branch, for any commit graph, any
\* interference by people and any failures.  Two processes refute it: they
\* share the local ref.
THEOREM OneProcessKeepsBranchesApart ==
  ASSUME \A p, q \in Processes : p = q
  PROVE  Spec => []BranchesApart
<1>1. Init => Apart
  BY ApartInit
<1>2. SyncInv /\ Apart /\ [Next]_vars => Apart'
  BY ApartStep
<1>3. Apart => BranchesApart
  BY DEF Apart
<1> QED
  BY <1>1, <1>2, <1>3, CallsSound, PTL DEF Spec

==========================================================================
