---------------------- MODULE BranchSyncRestProofs ----------------------
(***************************************************************************)
(* What is left when everything is done: the safety half of Converges, for *)
(* any branches, commits, gates and number of pushes.                      *)
(***************************************************************************)
EXTENDS BranchSyncProofs

\* The daemon synchronizes the pair alone, its commands do not fail, and people
\* only push fast-forwards and new branches.  Two processes share the local ref,
\* a failed call may be given up, and after a rewrite or a deletion only the
\* event of that side speaks for both.
Undisturbed ==
  /\ Workers # {} /\ Syncs = {} /\ Approvers = {}
  /\ \A p, q \in Processes : p = q
  /\ UserMoves \subseteq {"advance"}
  /\ Faults = FALSE

UpdateSteps == {"idle", "lsSource", "fetchSource", "lsTarget", "fetchTarget", "gate",
                "write", "dryRun", "push", "quarantine"}

\* Branches only advance, so what a call read is an ancestor of what is there,
\* and no call finds commits missing.
Finds(o) ==
  /\ o.kind = "update" /\ o.pc \in UpdateSteps
  /\ o.pc = "fetchSource" => IsAncestor(o.src, SourceTip(o))
  /\ o.pc \in {"lsTarget", "fetchTarget"} => o.src \in objects
  /\ o.pc = "fetchTarget" => IsAncestor(o.dst, TargetTip(o))

\* The call is going to settle the tip that side s now has.
Pursues(o, s, b) ==
  /\ o.from = s /\ o.branch = b
  /\ \/ o.pc = "lsSource"
     \/ o.pc = "fetchSource" /\ o.src = remote[s][b]
     \/ /\ o.pc \in {"lsTarget", "fetchTarget", "gate", "dryRun", "push", "quarantine"}
        /\ o.src = remote[s][b] /\ srcRef = remote[s][b]

\* Delivered, with requests that are still being written.
Seen(s, b) ==
  LET tip == remote[s][b]
      there == remote[Other(s)][b]
  IN \/ tip \in {None, there}
     \/ there # None /\ IsAncestor(tip, there)
     \/ <<b, tip>> \in quarantined[Other(s)]
     \/ \E r \in pending \union rejected : r.from = s /\ r.branch = b /\ r.after = tip

Watched(s, b) ==
  Seen(s, b) \/ Update(s, b) \in inbox \/ \E p \in Processes : Pursues(op[p], s, b)

RestInv ==
  /\ \A e \in inbox : e.kind = "update"
  /\ \A p \in Processes : Finds(op[p])
  /\ \A r \in halfWritten : \E p \in Processes : op[p].pc = "write" /\ Asked(op[p]) = r
  /\ \A s \in Sides, b \in Branches : Watched(s, b)

-----------------------------------------------------------------------------
(* The one call *)

\* A call that runs, and what no call of this instance leaves half written.
LEMMA RunningCall ==
  ASSUME Undisturbed, SyncInv, RestInv, NEW p \in Processes
  PROVE  /\ op[p] \in Ops /\ p \in DOMAIN op /\ Finds(op[p])
         /\ \A q \in Processes : q = p
         /\ op[p].pc # "write" => halfWritten = {}
         /\ op[p].pc # "idle" =>
              /\ op[p].from \in Sides /\ op[p].branch \in Branches
              /\ To(op[p]) = Other(op[p].from) /\ To(op[p]) \in Sides
              /\ SourceTip(op[p]) = remote[op[p].from][op[p].branch]
              /\ TargetTip(op[p]) = remote[Other(op[p].from)][op[p].branch]
              /\ SourceTip(op[p]) \in Tips /\ TargetTip(op[p]) \in Tips
<1>1. op[p] \in Ops /\ p \in DOMAIN op /\ Finds(op[p]) /\ \A q \in Processes : q = p
  BY DEF SyncInv, Calls, RestInv, Undisturbed
<1>2. op[p].pc # "write" => halfWritten = {}
  BY <1>1 DEF RestInv
<1>3. To(op[p]) = Other(op[p].from)
  BY DEF To
<1> QED
  BY <1>1, <1>2, <1>3, CallFacts DEF SourceTip, TargetTip

\* The target of a tip may advance, and what was kept or asked about it stays.
LEMMA SeenStays ==
  ASSUME SyncInv, NEW s \in Sides, NEW b \in Branches, Seen(s, b),
         remote'[s][b] = remote[s][b],
         quarantined[Other(s)] \subseteq quarantined'[Other(s)],
         pending \union rejected \subseteq pending' \union rejected',
         \/ remote[Other(s)][b] = None
         \/ remote'[Other(s)][b] = remote[Other(s)][b]
         \/ IsAncestor(remote[Other(s)][b], remote'[Other(s)][b])
  PROVE  Seen(s, b)'
<1> DEFINE tip == remote[s][b]
           there == remote[Other(s)][b]
           next == remote'[Other(s)][b]
<1>1. tip \in Tips /\ there \in Tips
  BY DEF SyncInv, Data, Other, Sides
<1>2. CASE tip = None
  BY <1>2 DEF Seen
<1>3. CASE tip # None /\ there # None /\ (tip = there \/ IsAncestor(tip, there))
  <2>1. IsAncestor(tip, there)
    BY <1>1, <1>3, GraphAssumption DEF Tips
  <2>2. IsAncestor(tip, next)
    BY <1>1, <1>3, <2>1, GraphAssumption DEF IsAncestor
  <2>3. next # None
    BY <2>2, GraphAssumption DEF IsAncestor
  <2> QED
    BY <2>2, <2>3 DEF Seen
<1>4. CASE <<b, tip>> \in quarantined[Other(s)]
  BY <1>4 DEF Seen
<1>5. CASE \E r \in pending \union rejected : r.from = s /\ r.branch = b /\ r.after = tip
  BY <1>5 DEF Seen
<1> QED
  BY <1>2, <1>3, <1>4, <1>5 DEF Seen

\* A step of the call that leaves the remotes and the queue alone.
LEMMA QuietStep ==
  ASSUME Undisturbed, SyncInv, RestInv, NEW p \in Processes,
         UNCHANGED <<remote, inbox>>,
         \A s \in Sides : quarantined[s] \subseteq quarantined'[s],
         pending \union rejected \subseteq pending' \union rejected',
         Finds(op[p])',
         \A s \in Sides, b \in Branches :
           Pursues(op[p], s, b) => Seen(s, b)' \/ Pursues(op[p], s, b)',
         \A r \in halfWritten' : op'[p].pc = "write" /\ Asked(op'[p]) = r
  PROVE  RestInv'
<1>1. \A q \in Processes : q = p
  BY RunningCall
<1>2. (\A q \in Processes : Finds(op[q]))'
  BY <1>1
<1>3. (\A r \in halfWritten : \E q \in Processes : op[q].pc = "write" /\ Asked(op[q]) = r)'
  OBVIOUS
<1>4. ASSUME NEW s \in Sides, NEW b \in Branches PROVE Watched(s, b)'
  <2>1. Watched(s, b)
    BY DEF RestInv
  <2>2. CASE Seen(s, b)
    <3>1. Other(s) \in Sides
      BY DEF Other, Sides
    <3> QED
      BY <2>2, <3>1, SeenStays DEF Watched
  <2>3. CASE Update(s, b) \in inbox
    BY <2>3 DEF Watched, Update
  <2>4. CASE \E q \in Processes : Pursues(op[q], s, b)
    <3>1. Pursues(op[p], s, b)
      BY <1>1, <2>4
    <3> QED
      BY <3>1 DEF Watched
  <2> QED
    BY <2>1, <2>2, <2>3, <2>4 DEF Watched
<1> QED
  BY <1>2, <1>3, <1>4 DEF RestInv

\* The call ends, with the tip it pursued settled.
LEMMA EndsQuietly ==
  ASSUME Undisturbed, SyncInv, RestInv, NEW p \in Processes,
         Becomes(p, Idle), UNCHANGED <<remote, inbox>>,
         \A s \in Sides : quarantined[s] \subseteq quarantined'[s],
         pending \union rejected \subseteq pending' \union rejected', halfWritten' = {},
         \A s \in Sides, b \in Branches : Pursues(op[p], s, b) => Seen(s, b)'
  PROVE  RestInv'
<1>1. op'[p] = Idle
  BY RunningCall DEF Becomes
<1>2. Finds(op[p])'
  BY <1>1 DEF Finds, Idle, UpdateSteps
<1> QED
  BY <1>2, QuietStep

-----------------------------------------------------------------------------
(* Reading and fetching *)

LEMMA LsSourceRests ==
  ASSUME Undisturbed, SyncInv, RestInv, NEW p \in Processes, LsSource(p)
  PROVE  RestInv'
<1> DEFINE o == op[p]
           tip == SourceTip(o)
<1>1. /\ o \in Ops /\ p \in DOMAIN op /\ o.kind = "update" /\ o.pc = "lsSource"
      /\ UpdateReadsSource(p) /\ halfWritten = {} /\ tip = remote[o.from][o.branch]
      /\ tip \in Tips
  BY RunningCall DEF LsSource, At, Finds
<1>2. UNCHANGED <<remote, quarantined, srcRef, objects, pending, halfWritten, rejected, inbox>>
  BY <1>1 DEF LsSource, UpdateReadsSource, Return, Proceed, store
<1>3. CASE tip = None
  <2>1. Becomes(p, Idle)
    BY <1>1, <1>3 DEF UpdateReadsSource, Return
  <2>2. \A s \in Sides, b \in Branches : Pursues(o, s, b) => Seen(s, b)'
    BY <1>1, <1>2, <1>3 DEF Pursues, Seen
  <2> QED
    BY <1>1, <1>2, <2>1, <2>2, EndsQuietly
<1>4. CASE tip # None
  <2>1. op' = [op EXCEPT ![p] = [o EXCEPT !.src = tip, !.pc = "fetchSource"]]
    BY <1>1, <1>4 DEF UpdateReadsSource, Return, Proceed, Becomes
  <2>2. /\ op'[p].pc = "fetchSource" /\ op'[p].src = tip /\ op'[p].kind = "update"
        /\ op'[p].from = o.from /\ op'[p].branch = o.branch
    BY <1>1, <2>1 DEF Ops
  <2>3. Finds(op[p])'
    BY <1>1, <1>2, <1>4, <2>2, GraphAssumption DEF Finds, UpdateSteps, SourceTip, Tips
  <2>4. \A s \in Sides, b \in Branches : Pursues(o, s, b) => Pursues(op[p], s, b)'
    BY <1>1, <1>2, <2>2 DEF Pursues
  <2> QED
    BY <1>1, <1>2, <2>3, <2>4, QuietStep
<1> QED
  BY <1>3, <1>4

LEMMA FetchSourceRests ==
  ASSUME Undisturbed, SyncInv, RestInv, NEW p \in Processes, FetchSource(p)
  PROVE  RestInv'
<1> DEFINE o == op[p]
           tip == SourceTip(o)
<1>1. /\ o \in Ops /\ p \in DOMAIN op /\ o.kind = "update" /\ o.pc = "fetchSource"
      /\ IsAncestor(o.src, tip) /\ halfWritten = {} /\ tip = remote[o.from][o.branch]
      /\ tip \in Tips
  BY RunningCall DEF FetchSource, At, Finds
<1>2. tip # None /\ o.src \in History(tip)
  BY <1>1, GraphAssumption DEF IsAncestor, History
<1>3. /\ UNCHANGED <<remote, quarantined, pending, halfWritten, rejected, inbox>>
      /\ srcRef' = tip /\ objects' = objects \union History(tip) /\ Goto(p, "lsTarget")
  BY <1>1, <1>2 DEF FetchSource, Fetched, store
<1>4. /\ op'[p].pc = "lsTarget" /\ op'[p].src = o.src /\ op'[p].kind = "update"
      /\ op'[p].from = o.from /\ op'[p].branch = o.branch
  BY <1>1, <1>3, GotoFacts
<1>5. Finds(op[p])'
  BY <1>2, <1>3, <1>4 DEF Finds, UpdateSteps
<1>6. \A s \in Sides, b \in Branches : Pursues(o, s, b) => Pursues(op[p], s, b)'
  BY <1>1, <1>3, <1>4 DEF Pursues
<1> QED
  BY <1>1, <1>3, <1>5, <1>6, QuietStep

LEMMA LsTargetRests ==
  ASSUME Undisturbed, SyncInv, RestInv, NEW p \in Processes, LsTarget(p)
  PROVE  RestInv'
<1> DEFINE o == op[p]
           tip == TargetTip(o)
<1>1. /\ o \in Ops /\ p \in DOMAIN op /\ o.kind = "update" /\ o.pc = "lsTarget"
      /\ UpdateReadsTarget(p) /\ halfWritten = {} /\ o.src \in objects
      /\ tip = remote[Other(o.from)][o.branch] /\ tip \in Tips
      /\ To(o) = Other(o.from)
  BY RunningCall DEF LsTarget, At, Finds
<1>2. UNCHANGED <<remote, quarantined, srcRef, objects, pending, halfWritten, rejected, inbox>>
  BY <1>1 DEF LsTarget, UpdateReadsTarget, Return, Proceed, store
<1>3. CASE tip = o.src
  <2>1. Becomes(p, Idle)
    BY <1>1, <1>3 DEF UpdateReadsTarget, Return
  <2>2. \A s \in Sides, b \in Branches : Pursues(o, s, b) => Seen(s, b)'
    BY <1>1, <1>2, <1>3 DEF Pursues, Seen
  <2> QED
    BY <1>1, <1>2, <2>1, <2>2, EndsQuietly
<1>4. CASE tip # o.src
  <2> DEFINE next == IF tip = None THEN "gate" ELSE "fetchTarget"
  <2>1. op' = [op EXCEPT ![p] = [o EXCEPT !.dst = tip, !.pc = next]]
    BY <1>1, <1>4 DEF UpdateReadsTarget, Return, Proceed, Becomes
  <2>2. next \in {"gate", "fetchTarget"} /\ (next = "fetchTarget" => tip # None)
    OBVIOUS
  <2> HIDE DEF next
  <2>3. /\ op'[p].pc = next /\ op'[p].src = o.src /\ op'[p].kind = "update"
        /\ op'[p].dst = tip /\ op'[p].from = o.from /\ op'[p].branch = o.branch
    BY <1>1, <2>1 DEF Ops
  <2>4. next = "fetchTarget" => IsAncestor(tip, tip)
    BY <1>1, <2>2, GraphAssumption DEF Tips
  <2>5. TargetTip(op[p])' = tip
    BY <1>1, <1>2, <2>3 DEF TargetTip, To
  <2>6. Finds(op[p])'
    BY <1>1, <1>2, <2>2, <2>3, <2>4, <2>5 DEF Finds, UpdateSteps
  <2>7. \A s \in Sides, b \in Branches : Pursues(o, s, b) => Pursues(op[p], s, b)'
    BY <1>1, <1>2, <2>2, <2>3 DEF Pursues
  <2> QED
    BY <1>1, <1>2, <2>6, <2>7, QuietStep
<1> QED
  BY <1>3, <1>4

\* A call that goes on with the tips it has.
LEMMA GoesOnQuietly ==
  ASSUME Undisturbed, SyncInv, RestInv, NEW p \in Processes,
         op[p].pc \in {"fetchTarget", "gate", "dryRun", "push"},
         NEW pc \in {"gate", "dryRun", "push", "quarantine"}, Goto(p, pc),
         UNCHANGED <<remote, quarantined, srcRef, inbox, pending, halfWritten, rejected>>
  PROVE  RestInv'
<1>1. /\ op'[p].pc = pc /\ op'[p].src = op[p].src /\ op'[p].kind = "update"
      /\ op'[p].from = op[p].from /\ op'[p].branch = op[p].branch /\ halfWritten = {}
  BY RunningCall, GotoFacts DEF Finds
<1>2. Finds(op[p])'
  BY <1>1 DEF Finds, UpdateSteps
<1>3. \A s \in Sides, b \in Branches : Pursues(op[p], s, b) => Pursues(op[p], s, b)'
  BY <1>1 DEF Pursues
<1> QED
  BY <1>1, <1>2, <1>3, QuietStep

LEMMA FetchTargetRests ==
  ASSUME Undisturbed, SyncInv, RestInv, NEW p \in Processes, FetchTarget(p)
  PROVE  RestInv'
<1> DEFINE o == op[p]
           tip == TargetTip(o)
<1>1. /\ o.kind = "update" /\ o.pc = "fetchTarget" /\ halfWritten = {} /\ o.src \in objects
      /\ IsAncestor(o.dst, tip) /\ tip = remote[Other(o.from)][o.branch] /\ tip \in Tips
  BY RunningCall DEF FetchTarget, At, Finds
<1>2. tip # None /\ o.dst \in History(tip)
  BY <1>1, GraphAssumption DEF IsAncestor, History
<1>3. CompareUpdate(p)
  BY <1>1, <1>2 DEF FetchTarget
<1>4. UNCHANGED <<remote, quarantined, srcRef, inbox, pending, halfWritten, rejected>>
  BY <1>3 DEF FetchTarget, CompareUpdate, Return, store
<1>5. CASE Goto(p, "gate") \/ Goto(p, "quarantine")
  BY <1>1, <1>4, <1>5, GoesOnQuietly
<1>6. CASE Stale(o) /\ Return(p)
  <2>1. IsAncestor(o.src, tip)
    BY <1>1, <1>2, <1>6, GraphAssumption DEF Stale, IsAncestor
  <2>2. \A s \in Sides, b \in Branches : Pursues(o, s, b) => Seen(s, b)'
    BY <1>1, <1>2, <1>4, <2>1 DEF Pursues, Seen
  <2> QED
    BY <1>1, <1>4, <1>6, <2>2, EndsQuietly DEF Return
<1> QED
  BY <1>3, <1>5, <1>6 DEF CompareUpdate

-----------------------------------------------------------------------------
(* The gate, the request and the push *)

LEMMA GateRests ==
  ASSUME Undisturbed, SyncInv, RestInv, NEW p \in Processes, Gate(p)
  PROVE  RestInv'
<1> DEFINE o == op[p]
           r == Request(o, o.dst, o.src)
<1>1. o.kind = "update" /\ o.pc = "gate" /\ halfWritten = {}
  BY RunningCall DEF Gate, At, Finds
<1>2. UNCHANGED <<remote, quarantined, srcRef, inbox, rejected>>
  BY DEF Gate, AskHuman, store
<1>3. CASE ~Gated(o)
  <2>1. Goto(p, "dryRun") /\ UNCHANGED store
    BY <1>3 DEF Gate
  <2> QED
    BY <1>1, <1>2, <2>1, GoesOnQuietly DEF store
<1>4. CASE Gated(o)
  <2>1. /\ pending' = pending \union {r} /\ halfWritten' = {r} /\ Goto(p, "write")
    BY <1>1, <1>4 DEF Gate, AskHuman, Asked
  <2>2. /\ op'[p].pc = "write" /\ op'[p].src = o.src /\ op'[p].kind = "update"
        /\ op'[p].from = o.from /\ op'[p].branch = o.branch /\ op'[p].dst = o.dst
    BY <1>1, <2>1, GotoFacts, GotoDst
  <2>3. Asked(op'[p]) = r
    BY <2>2 DEF Asked, Request
  <2>4. Finds(op[p])'
    BY <2>2 DEF Finds, UpdateSteps
  <2>5. ASSUME NEW s \in Sides, NEW b \in Branches, Pursues(o, s, b)
        PROVE  Seen(s, b)'
    <3>1. /\ r \in pending' \union rejected' /\ r.from = s /\ r.branch = b
          /\ r.after = remote'[s][b]
      BY <1>1, <1>2, <2>1, <2>5 DEF Pursues, Request
    <3> HIDE DEF r
    <3> QED
      BY <3>1 DEF Seen
  <2> QED
    BY <1>2, <2>1, <2>2, <2>3, <2>4, <2>5, QuietStep
<1> QED
  BY <1>3, <1>4

LEMMA WriteRequestRests ==
  ASSUME Undisturbed, SyncInv, RestInv, NEW p \in Processes, WriteRequest(p)
  PROVE  RestInv'
<1>1. op[p].pc = "write" /\ Becomes(p, Idle)
      /\ UNCHANGED <<remote, quarantined, srcRef, inbox, pending, rejected>>
  BY DEF WriteRequest, At, Return
<1>2. \A r \in halfWritten : Asked(op[p]) = r
  BY RunningCall DEF RestInv
<1>3. halfWritten' = {}
  BY <1>2 DEF WriteRequest
<1>4. \A s \in Sides, b \in Branches : ~Pursues(op[p], s, b)
  BY <1>1 DEF Pursues
<1> QED
  BY <1>1, <1>3, <1>4, EndsQuietly

LEMMA DryRunRests ==
  ASSUME Undisturbed, SyncInv, RestInv, NEW p \in Processes, DryRun(p)
  PROVE  RestInv'
BY GoesOnQuietly DEF DryRun, At, store

LEMMA QuarantineRests ==
  ASSUME Undisturbed, SyncInv, RestInv, NEW p \in Processes, Quarantine(p)
  PROVE  RestInv'
<1> DEFINE o == op[p]
<1>1. /\ o.kind = "update" /\ o.pc = "quarantine" /\ halfWritten = {}
      /\ o.from \in Sides /\ o.branch \in Branches /\ To(o) = Other(o.from) /\ To(o) \in Sides
  BY RunningCall DEF Quarantine, At, Finds
<1>2. /\ UNCHANGED <<remote, srcRef, inbox, pending, halfWritten, rejected>>
      /\ Becomes(p, Idle)
      /\ quarantined' = [quarantined EXCEPT ![To(o)] = @ \union {<<o.branch, srcRef>>}]
  BY <1>1 DEF Quarantine, Done, Keep, store
<1>3. quarantined \in [Sides -> SUBSET (Branches \X Commits)]
  BY DEF SyncInv, Data
<1>4. /\ \A s \in Sides : quarantined[s] \subseteq quarantined'[s]
      /\ <<o.branch, srcRef>> \in quarantined'[Other(o.from)]
  BY <1>1, <1>2, <1>3
<1>5. \A s \in Sides, b \in Branches : Pursues(o, s, b) => Seen(s, b)'
  BY <1>1, <1>2, <1>4 DEF Pursues, Seen
<1> QED
  BY <1>1, <1>2, <1>4, <1>5, EndsQuietly

\* A push advances the target to the tip it pursued; the new tip of the target
\* has an event of its own.
LEMMA PushRests ==
  ASSUME Undisturbed, SyncInv, RestInv, NEW p \in Processes, Push(p)
  PROVE  RestInv'
<1> DEFINE o == op[p]
           side == Other(o.from)
           old == remote[side][o.branch]
<1>1. /\ o.kind = "update" /\ o.pc = "push" /\ halfWritten = {}
      /\ o.from \in Sides /\ o.branch \in Branches /\ To(o) = side /\ side \in Sides
      /\ TargetTip(o) = old /\ old \in Tips /\ p \in DOMAIN op /\ \A q \in Processes : q = p
  BY RunningCall DEF Push, At, Finds
<1>2. UNCHANGED <<quarantined, srcRef, pending, halfWritten, rejected>>
  BY DEF Push, store
<1>3. CASE ~Pushable(srcRef, old)
  BY <1>1, <1>2, <1>3, GoesOnQuietly DEF Push
<1>4. CASE Pushable(srcRef, old)
  <2>1. /\ remote' = [remote EXCEPT ![side][o.branch] = srcRef]
        /\ Becomes(p, Idle) /\ inbox' = inbox \union Heard(Echo(o, srcRef))
    BY <1>1, <1>4 DEF Push, Write, Announce, Done
  <2>2. /\ remote \in [Sides -> [Branches -> Tips]] /\ srcRef \in Tips /\ srcRef # None
    BY <1>1, CallFacts DEF SyncInv, Data, Sound
  <2>3. /\ remote'[side][o.branch] = srcRef
        /\ \A s \in Sides, b \in Branches :
             s # side \/ b # o.branch => remote'[s][b] = remote[s][b]
    BY <1>1, <2>1, <2>2
  <2>4. op'[p] = Idle
    BY <1>1, <2>1 DEF Becomes
  <2>5. Other(side) = o.from /\ o.from # side
    BY <1>1 DEF Other, Sides
  <2>6. /\ \A e \in inbox' : e.kind = "update"
        /\ inbox \subseteq inbox'
        /\ srcRef # old => Update(side, o.branch) \in inbox'
    <3>1. Echo(o, srcRef) \in {{}, {Update(side, o.branch)}}
      BY <1>1, <2>2 DEF Echo
    <3>2. srcRef # old => Echo(o, srcRef) = {Update(side, o.branch)}
      BY <1>1, <2>2 DEF Echo
    <3>3. Heard(Echo(o, srcRef)) = Echo(o, srcRef)
      BY DEF Heard, Undisturbed
    <3> QED
      BY <2>1, <3>1, <3>2, <3>3 DEF RestInv, Update
  <2>7. ASSUME NEW s \in Sides, NEW b \in Branches PROVE Watched(s, b)'
    <3>1. CASE remote'[s][b] # remote[s][b]
      BY <2>3, <2>6, <3>1 DEF Watched, Update
    <3>2. CASE remote'[s][b] = remote[s][b] /\ Seen(s, b)
      <4> DEFINE there == remote[Other(s)][b]
                 next == remote'[Other(s)][b]
      <4>1. there = None \/ next = there \/ IsAncestor(there, next)
        <5>1. CASE Other(s) = side /\ b = o.branch
          BY <1>4, <2>3, <5>1 DEF Pushable
        <5>2. CASE ~(Other(s) = side /\ b = o.branch)
          BY <2>3, <5>2 DEF Other, Sides
        <5> QED
          BY <5>1, <5>2
      <4>2. Seen(s, b)'
        BY <1>2, <3>2, <4>1, SeenStays
      <4> QED
        BY <4>2 DEF Watched
    <3>3. CASE Update(s, b) \in inbox
      BY <2>6, <3>3 DEF Watched, Update
    <3>4. CASE remote'[s][b] = remote[s][b] /\ \E q \in Processes : Pursues(op[q], s, b)
      <4>1. s = o.from /\ b = o.branch /\ srcRef = remote[s][b]
        BY <1>1, <3>4 DEF Pursues
      <4>2. Seen(s, b)'
        BY <2>3, <3>4, <4>1 DEF Seen
      <4> QED
        BY <4>2 DEF Watched
    <3> QED
      BY <3>1, <3>2, <3>3, <3>4 DEF RestInv, Watched
  <2>8. (\A q \in Processes : Finds(op[q]))'
    BY <1>1, <2>4 DEF Finds, Idle, UpdateSteps
  <2> QED
    BY <1>1, <1>2, <2>6, <2>7, <2>8 DEF RestInv
<1> QED
  BY <1>3, <1>4

-----------------------------------------------------------------------------
(* Calls start, people push, requests are rejected *)

LEMMA StartRests ==
  ASSUME Undisturbed, SyncInv, RestInv, NEW p \in Processes, StartStep(p)
  PROVE  RestInv'
<1>1. PICK e \in inbox : TakeEvent(p, e)
  BY DEF StartStep, StartSync, LoadRequest, Undisturbed
<1>2. /\ op[p] = Idle /\ inbox' = inbox \ {e}
      /\ UNCHANGED <<remote, quarantined, srcRef, objects, pending, halfWritten, rejected>>
      /\ op' = [op EXCEPT ![p] = Begin(e.kind, e, None)]
  BY <1>1 DEF TakeEvent, Enter, Becomes, store
<1>3. e \in Events /\ e.kind = "update" /\ p \in DOMAIN op /\ (\A q \in Processes : q = p)
      /\ halfWritten = {}
  BY <1>2, RunningCall DEF SyncInv, Data, RestInv, Idle
<1>4. e.from \in Sides /\ e.branch \in Branches /\ e = Update(e.from, e.branch)
  BY <1>3 DEF Events, Update
<1>5. /\ op'[p].pc = "lsSource" /\ op'[p].kind = "update"
      /\ op'[p].from = e.from /\ op'[p].branch = e.branch
  BY <1>2, <1>3 DEF Begin
<1>6. (\A q \in Processes : Finds(op[q]))'
  BY <1>3, <1>5 DEF Finds, UpdateSteps
<1>7. ASSUME NEW s \in Sides, NEW b \in Branches PROVE Watched(s, b)'
  <2>1. \A q \in Processes : ~Pursues(op[q], s, b)
    BY <1>2, <1>3 DEF Pursues, Idle
  <2>2. CASE Seen(s, b)
    BY <1>2, <2>2 DEF Seen, Watched
  <2>3. CASE Update(s, b) \in inbox /\ Update(s, b) # e
    BY <1>2, <2>3 DEF Watched, Update
  <2>4. CASE Update(s, b) = e
    <3>1. s = e.from /\ b = e.branch
      BY <2>4 DEF Update
    <3>2. Pursues(op[p], s, b)'
      BY <1>5, <3>1 DEF Pursues
    <3> QED
      BY <3>2 DEF Watched
  <2> QED
    BY <2>1, <2>2, <2>3, <2>4 DEF RestInv, Watched
<1> QED
  BY <1>2, <1>3, <1>6, <1>7 DEF RestInv

\* The event of the branch that people advanced covers its new tip; the tip of
\* the other side finds its target where it was or further on.
LEMMA UserRests ==
  ASSUME Undisturbed, SyncInv, RestInv, UserStep
  PROVE  RestInv'
<1>1. PICK s \in Sides, b \in Branches, c \in Commits : UserPush(s, b, c)
  BY DEF UserStep, UserDelete, Undisturbed
<1>2. /\ remote' = [remote EXCEPT ![s][b] = c] /\ inbox' = inbox \union {Update(s, b)}
      /\ UNCHANGED <<quarantined, srcRef, objects, op, pending, halfWritten, rejected>>
      /\ remote[s][b] = None \/ IsAncestor(remote[s][b], c)
  BY <1>1 DEF UserPush, Heard, Undisturbed, store
<1>3. /\ remote \in [Sides -> [Branches -> Tips]] /\ op \in [Processes -> Ops]
      /\ remote'[s][b] = c
      /\ \A s2 \in Sides, b2 \in Branches :
           s2 # s \/ b2 # b => remote'[s2][b2] = remote[s2][b2]
  BY <1>2 DEF SyncInv, Calls, Data
<1>4. \A s2 \in Sides, b2 \in Branches :
        \/ remote[s2][b2] = None
        \/ remote'[s2][b2] = remote[s2][b2]
        \/ IsAncestor(remote[s2][b2], remote'[s2][b2])
  BY <1>2, <1>3
<1>5. ASSUME NEW x, NEW s2 \in Sides, NEW b2 \in Branches, IsAncestor(x, remote[s2][b2])
      PROVE  IsAncestor(x, remote'[s2][b2])
  <2>1. x \in Commits /\ remote[s2][b2] \in Commits /\ remote'[s2][b2] \in Tips
    BY <1>3, <1>5, GraphAssumption DEF IsAncestor, Tips
  <2>2. remote'[s2][b2] = remote[s2][b2] \/ IsAncestor(remote[s2][b2], remote'[s2][b2])
    BY <1>4, <2>1, GraphAssumption
  <2>3. CASE IsAncestor(remote[s2][b2], remote'[s2][b2])
    <3>1. remote'[s2][b2] \in Commits
      BY <2>3, GraphAssumption DEF IsAncestor
    <3> QED
      BY <1>5, <2>1, <2>3, <3>1, GraphAssumption
  <2> QED
    BY <1>5, <2>2, <2>3
<1>6. ASSUME NEW p \in Processes PROVE Finds(op[p])'
  <2>1. Finds(op[p]) /\ op'[p] = op[p] /\ objects' = objects
    BY <1>2 DEF RestInv
  <2>2. op[p].pc \in {"fetchSource", "fetchTarget"} =>
          /\ op[p].from \in Sides /\ op[p].branch \in Branches
          /\ To(op[p]) \in Sides /\ op'[p].from = op[p].from /\ op'[p].branch = op[p].branch
    BY <2>1, RunningCall
  <2>3. op[p].pc = "fetchSource" => IsAncestor(op'[p].src, SourceTip(op[p])')
    BY <1>5, <2>1, <2>2 DEF Finds, SourceTip
  <2>4. op[p].pc = "fetchTarget" => IsAncestor(op'[p].dst, TargetTip(op[p])')
    BY <1>5, <2>1, <2>2 DEF Finds, TargetTip, To
  <2> QED
    BY <2>1, <2>3, <2>4 DEF Finds
<1>7. ASSUME NEW s2 \in Sides, NEW b2 \in Branches PROVE Watched(s2, b2)'
  <2>1. CASE s2 = s /\ b2 = b
    BY <1>2, <2>1 DEF Watched, Update
  <2>2. CASE ~(s2 = s /\ b2 = b)
    <3>1. remote'[s2][b2] = remote[s2][b2] /\ Other(s2) \in Sides
      BY <1>3, <2>2 DEF Other, Sides
    <3>2. CASE Seen(s2, b2)
      <4>1. Seen(s2, b2)'
        BY <1>2, <1>4, <3>1, <3>2, SeenStays
      <4> QED
        BY <4>1 DEF Watched
    <3>3. CASE Update(s2, b2) \in inbox
      BY <1>2, <3>3 DEF Watched, Update
    <3>4. CASE \E p \in Processes : Pursues(op[p], s2, b2)
      <4>1. (\E p \in Processes : Pursues(op[p], s2, b2))'
        BY <1>2, <3>1, <3>4 DEF Pursues
      <4> QED
        BY <4>1 DEF Watched
    <3> QED
      BY <3>2, <3>3, <3>4 DEF RestInv, Watched
  <2> QED
    BY <2>1, <2>2
<1>8. \A e \in inbox' : e.kind = "update"
  BY <1>2 DEF RestInv, Update
<1>9. (\A r \in halfWritten : \E p \in Processes : op[p].pc = "write" /\ Asked(op[p]) = r)'
  BY <1>2 DEF RestInv, Asked, Request
<1> QED
  BY <1>6, <1>7, <1>8, <1>9 DEF RestInv

LEMMA RejectRests ==
  ASSUME Undisturbed, SyncInv, RestInv, NEW r \in pending, Reject(r)
  PROVE  RestInv'
<1>1. /\ UNCHANGED <<remote, quarantined, srcRef, objects, inbox, op>>
      /\ pending' = pending \ {r} /\ halfWritten' = halfWritten \ {r}
      /\ rejected' = rejected \union {r}
  BY DEF Reject, MovesAway
<1>2. pending \union rejected \subseteq pending' \union rejected'
  BY <1>1
<1>3. ASSUME NEW s \in Sides, NEW b \in Branches PROVE Watched(s, b)'
  <2>1. Seen(s, b) => Seen(s, b)'
    BY <1>1, <1>2, SeenStays
  <2>2. (\E p \in Processes : Pursues(op[p], s, b)) => (\E p \in Processes : Pursues(op[p], s, b))'
    BY <1>1 DEF Pursues
  <2> QED
    BY <1>1, <2>1, <2>2 DEF RestInv, Watched, Update
<1>4. (\A p \in Processes : Finds(op[p]))'
  BY <1>1 DEF RestInv, Finds, SourceTip, TargetTip, To
<1>5. (\A x \in halfWritten : \E p \in Processes : op[p].pc = "write" /\ Asked(op[p]) = x)'
  BY <1>1 DEF RestInv, Asked, Request
<1> QED
  BY <1>1, <1>3, <1>4, <1>5 DEF RestInv

LEMMA InitRests ==
  ASSUME Undisturbed, Init
  PROVE  RestInv
<1>1. \A p \in Processes : op[p] = Idle
  BY DEF Init
<1>2. \A s \in Sides, b \in Branches : Watched(s, b)
  <2>1. PICK tips \in [Branches -> InitialTips] : remote = [s \in Sides |-> tips]
    BY DEF Init
  <2>2. \A s \in Sides, b \in Branches : remote[s][b] = remote[Other(s)][b]
    BY <2>1 DEF Other, Sides
  <2> QED
    BY <2>2 DEF Watched, Seen
<1> QED
  BY <1>1, <1>2 DEF Init, RestInv, Finds, Idle, UpdateSteps

LEMMA NextRests ==
  ASSUME Undisturbed, SyncInv, RestInv, [Next]_vars
  PROVE  RestInv'
<1>1. ASSUME NEW p \in Processes, SyncStep(p) PROVE RestInv'
  <2>1. op[p].pc \notin {"dryDelete", "delete", "complete"}
    BY RunningCall DEF Finds, UpdateSteps
  <2>2. \/ LsSource(p) \/ FetchSource(p) \/ LsTarget(p) \/ FetchTarget(p) \/ Gate(p)
        \/ WriteRequest(p) \/ DryRun(p) \/ Push(p) \/ Quarantine(p)
    BY <1>1, <2>1 DEF SyncStep, DryDelete, StrictDelete, Complete, At
  <2> QED
    BY <2>2, LsSourceRests, FetchSourceRests, LsTargetRests, FetchTargetRests, GateRests,
       WriteRequestRests, DryRunRests, PushRests, QuarantineRests
<1>2. ASSUME NEW p \in Processes PROVE ~FaultStep(p)
  BY DEF FaultStep, CommandFails, AnswerLost, QuarantineFails, Dies, Undisturbed
<1>3. CASE UNCHANGED vars
  BY <1>3 DEF vars, store, ghosts, RestInv, Watched, Seen, Pursues, Finds, SourceTip, TargetTip,
              To, Asked, Request, Update
<1> QED
  BY <1>1, <1>2, <1>3, StartRests, UserRests, RejectRests DEF Next

\* However people's pushes to both sides fall between the git commands of the
\* calls, for any commit graph, gates and number of pushes: when no event waits
\* and no call runs, no tip was forgotten.
THEOREM NothingIsForgotten ==
  ASSUME Undisturbed
  PROVE  Spec => []NothingForgotten
<1>1. Init => RestInv
  BY InitRests
<1>2. SyncInv /\ RestInv /\ [Next]_vars => RestInv'
  BY NextRests
<1>3. RestInv => NothingForgotten
  <2> SUFFICES ASSUME RestInv, inbox = {}, \A p \in Processes : op[p] = Idle
               PROVE  Settled
    BY DEF NothingForgotten
  <2>1. halfWritten = {}
    BY DEF RestInv, Idle
  <2>2. ASSUME NEW s \in Sides, NEW b \in Branches PROVE Delivered(s, b)
    <3>1. Seen(s, b)
      BY DEF RestInv, Watched, Pursues, Idle
    <3> QED
      BY <2>1, <3>1 DEF Seen, Delivered, Readable
  <2> QED
    BY <2>1, <2>2 DEF Settled, ListPendingWorks, Readable
<1> QED
  BY <1>1, <1>2, <1>3, CallsSound, PTL DEF Spec

==========================================================================
