-------------------------- MODULE PollerProofs --------------------------
(***************************************************************************)
(* Theorems about Poller for any commit graph, any branches, any polled    *)
(* sides, any number of "gitmirror sync" commands, and any failures.       *)
(***************************************************************************)
EXTENDS Poller, TLAPS

(* What was seen of a branch stays true until people delete the branch:     *)
(* every copy of refs (a scan, a snapshot, a temporary file) and every      *)
(* deletion (waiting in a poll, or known to the queue) is about branches    *)
(* that its side has, or that people deleted somewhere.                     *)
Has(s, b) == None \in authored[b] \/ remote[s][b] # None
Had(s, refs) == \A b \in Branches : refs[b] # None => Has(s, b)
Deleting(t) == IsDeletion(t) => Has(t.from, t.branch)

Seen ==
  /\ \A s \in Sides : Had(s, snapshot[s].refs) /\ Had(s, tmp[s].refs)
  /\ \A p \in Processes : /\ Had(poll[p].side, poll[p].current)
                          /\ \A t \in poll[p].todo : Deleting(t)
  /\ \A t \in Transitions : status[t] # "unknown" => Deleting(t)

Inv == TypeOK /\ Seen

\* A step of gitmirror never takes a branch away that people did not delete.
Keeps == \A s \in Sides, b \in Branches : Has(s, b) => Has(s, b)'

-----------------------------------------------------------------------------
(* Types *)

LEMMA FilesTyped ==
  ASSUME NEW refs \in Refs
  PROVE  /\ NoRefs \in Refs /\ Whole(refs) \in Files
         /\ \A state \in {"absent", "empty", "garbled"} : File(state) \in Files
         /\ \A file : Overwritten(file, refs) \subseteq {Whole(refs), File("garbled")}
BY DEF NoRefs, Refs, Tips, Whole, File, Files, Overwritten

LEMMA NoRefsTyped == NoRefs \in Refs
BY DEF NoRefs, Refs, Tips

LEMMA OtherSide == ASSUME NEW s \in Sides PROVE Other(s) \in Sides
BY DEF Sides, Other

LEMMA TransitionFacts ==
  ASSUME NEW t \in Transitions
  PROVE  /\ t.from \in Sides /\ t.branch \in Branches /\ t.before \in Tips /\ t.after \in Tips
         /\ Other(t.from) \in Sides /\ (IsDeletion(t) => t.before # None)
BY OtherSide DEF Transitions, IsDeletion

\* A poll that waits or starts knows nothing.
Blank(q) ==
  /\ q \in Polls /\ q.current = NoRefs /\ q.todo = {} /\ q.fd = "closed" /\ q.step # "write"

LEMMA BlankPolls ==
  ASSUME NEW p \in Processes, NEW s \in Sides
  PROVE  Blank(Scanning(s)) /\ Blank(Resting(p)) /\ Blank(AfterSave(p))
<1>1. \A side \in Sides : Blank(Scanning(side))
  BY NoRefsTyped DEF Blank, Scanning, Polls, Steps, Handles
<1>2. "left" \in Sides /\ "right" \in Sides
  BY DEF Sides
<1>3. Blank([Scanning("left") EXCEPT !.step = "stopped"])
  BY <1>2, NoRefsTyped DEF Blank, Scanning, Polls, Steps, Handles
<1>4. p \in Polled => p \in Sides
  BY PollerAssumption, GraphAssumption
<1>5. Blank(Resting(p))
  BY <1>1, <1>3, <1>4 DEF Resting
<1> QED
  BY <1>1, <1>2, <1>5 DEF AfterSave

\* The part of TypeOK about polls.
PollsTyped ==
  /\ poll \in [Processes -> Polls]
  /\ \A p \in Processes : poll[p].fd # "closed" <=> At(p, "write")

LEMMA OnePoll ==
  ASSUME PollsTyped, NEW p \in Processes, NEW q \in Polls, Becomes(p, q),
         q.fd # "closed" <=> q.step = "write"
  PROVE  PollsTyped'
BY DEF PollsTyped, Becomes, At

LEMMA PollFacts ==
  ASSUME TypeOK, NEW p \in Processes
  PROVE  /\ poll[p] \in Polls /\ poll[p].side \in Sides /\ poll[p].current \in Refs
         /\ poll[p].todo \subseteq Transitions /\ poll[p].fd \in Handles
         /\ (poll[p].fd # "closed" <=> poll[p].step = "write") /\ PollsTyped
BY DEF TypeOK, Polls, PollsTyped, At

\* A move of the queue changes one status.
LEMMA MoveTyped ==
  ASSUME TypeOK, NEW t \in Transitions, NEW from, NEW to \in Queue!Statuses,
         Queue!Move(t, from, to)
  PROVE  /\ status' \in [Transitions -> Queue!Statuses]
         /\ \A x \in Transitions : x # t => status'[x] = status[x]
         /\ status[t] \in from
BY DEF TypeOK, Queue!Move

-----------------------------------------------------------------------------
(* What Process does *)

LEMMA ProcessedFacts ==
  ASSUME TypeOK, NEW t \in Transitions, Deleting(t), Processed(t), authored' = authored
  PROVE  /\ Keeps /\ remote' \in [Sides -> Refs]
         /\ quarantined' \subseteq Sides \X Branches \X Commits
<1>1. /\ t.from \in Sides /\ t.branch \in Branches /\ Other(t.from) \in Sides
      /\ IsDeletion(t) => t.before # None
  BY TransitionFacts
<1>2. /\ remote \in [Sides -> [Branches -> Tips]] /\ SourceTip(t) \in Tips
      /\ quarantined \subseteq Sides \X Branches \X Commits
  BY <1>1 DEF TypeOK, Refs, SourceTip
<1>3. CASE UNCHANGED <<remote, quarantined>>
  BY <1>3 DEF Keeps, Has, TypeOK
<1>4. CASE ~IsDeletion(t) /\ SourceTip(t) # None /\ Mirrored(t, SourceTip(t))
  BY <1>1, <1>2, <1>4 DEF Mirrored, Keeps, Has, Refs
<1>5. CASE /\ SourceTip(t) # None /\ UNCHANGED remote
           /\ quarantined' = quarantined \union {<<Other(t.from), t.branch, SourceTip(t)>>}
  <2>1. SourceTip(t) \in Commits
    BY <1>2, <1>5 DEF Tips
  <2>2. <<Other(t.from), t.branch, SourceTip(t)>> \in Sides \X Branches \X Commits
    BY <1>1, <2>1
  <2> QED
    BY <1>2, <1>5, <2>2 DEF Keeps, Has, Refs
<1>6. CASE IsDeletion(t) /\ Gone(t) /\ Mirrored(t, None)
  <2>1. None \in authored[t.branch]
    BY <1>6 DEF Deleting, Has, Gone, SourceTip
  <2>2. None \in Tips
    BY DEF Tips
  <2>3. remote' = [remote EXCEPT ![Other(t.from)][t.branch] = None] /\ quarantined' = quarantined
    BY <1>6 DEF Mirrored
  <2>4. remote' \in [Sides -> Refs]
    BY <1>1, <1>2, <2>2, <2>3 DEF Refs
  <2>5. Keeps
    BY <1>1, <1>2, <2>1, <2>3 DEF Keeps, Has
  <2> QED
    BY <1>2, <2>3, <2>4, <2>5
<1> QED
  BY <1>3, <1>4, <1>5, <1>6 DEF Processed, UpdateBranch, DeleteBranch, UpToDate

-----------------------------------------------------------------------------
(* What was seen stays true *)

LEMMA SeenStays ==
  ASSUME Inv, TypeOK', Keeps,
         \A s \in Sides : Had(s, snapshot'[s].refs) /\ Had(s, tmp'[s].refs),
         \A p \in Processes : /\ Had(poll'[p].side, poll'[p].current)
                              /\ \A t \in poll'[p].todo : Deleting(t),
         \A t \in Transitions : status'[t] # "unknown" => Deleting(t)
  PROVE  Seen'
<1>1. \A s \in Sides : Had(s, snapshot[s].refs)' /\ Had(s, tmp[s].refs)'
  BY DEF Had, Keeps
<1>2. ASSUME NEW p \in Processes
      PROVE  Had(poll[p].side, poll[p].current)' /\ \A t \in poll'[p].todo : Deleting(t)'
  <2>1. poll'[p].side \in Sides /\ poll'[p].todo \subseteq Transitions
    BY DEF TypeOK, Polls
  <2>2. \A t \in poll'[p].todo : t.from \in Sides /\ t.branch \in Branches
    BY <2>1, TransitionFacts
  <2> QED
    BY <2>1, <2>2 DEF Had, Keeps, Deleting
<1>3. ASSUME NEW t \in Transitions, status'[t] # "unknown" PROVE Deleting(t)'
  BY <1>3, TransitionFacts DEF Deleting, Keeps
<1> QED
  BY <1>1, <1>2, <1>3 DEF Seen

-----------------------------------------------------------------------------
(* Steps that leave the polls and the files alone *)

LEMMA UserInv ==
  ASSUME Inv, UserStep
  PROVE  Keeps /\ Inv'
<1>1. PICK s \in Sides, b \in Branches :
        UserDelete(s, b) \/ \E c \in Commits : UserPush(s, b, c)
  BY DEF UserStep
<1>2. /\ UNCHANGED <<quarantined, files, poll, status, reconciled, incidents>> /\ moves' = moves + 1
      /\ \E tip \in Tips :
           /\ remote' = [remote EXCEPT ![s][b] = tip]
           /\ authored' = [authored EXCEPT ![b] = @ \union {tip}]
  BY <1>1, GraphAssumption DEF UserDelete, UserPush, Inv, TypeOK, Tips
<1>3. PICK tip \in Tips :
        /\ remote' = [remote EXCEPT ![s][b] = tip]
        /\ authored' = [authored EXCEPT ![b] = @ \union {tip}]
  BY <1>2
<1>4. /\ remote' \in [Sides -> Refs] /\ authored' \in [Branches -> SUBSET Tips]
      /\ Keeps
  BY <1>3 DEF Inv, TypeOK, Refs, Keeps, Has
<1>5. TypeOK'
  BY <1>2, <1>4 DEF Inv, TypeOK, files, At
<1>6. Seen'
  BY <1>2, <1>4, <1>5, SeenStays DEF files, Inv, Seen
<1> QED
  BY <1>4, <1>5, <1>6 DEF Inv

\* A step of the worker on one delivery.
LEMMA DeliveryInv ==
  ASSUME Inv, NEW t \in Transitions, NEW from, NEW to \in Queue!Statuses,
         "unknown" \notin from, Queue!Move(t, from, to),
         Processed(t) \/ UNCHANGED <<remote, quarantined>>,
         UNCHANGED <<files, poll, moves, authored>>,
         reconciled' \subseteq Transitions, incidents' \in Nat
  PROVE  Keeps /\ Inv'
<1>1. /\ status' \in [Transitions -> Queue!Statuses] /\ status[t] # "unknown"
      /\ \A x \in Transitions : x # t => status'[x] = status[x]
  BY MoveTyped DEF Inv
<1>2. /\ Keeps /\ remote' \in [Sides -> Refs]
      /\ quarantined' \subseteq Sides \X Branches \X Commits
  <2>1. Deleting(t)
    BY <1>1 DEF Inv, Seen
  <2>2. CASE Processed(t)
    BY <2>1, <2>2, ProcessedFacts DEF Inv
  <2>3. CASE UNCHANGED <<remote, quarantined>>
    BY <2>3 DEF Keeps, Has, Inv, TypeOK
  <2> QED
    BY <2>2, <2>3
<1>3. TypeOK'
  BY <1>1, <1>2 DEF Inv, TypeOK, files, At
<1>4. Seen'
  BY <1>1, <1>2, <1>3, SeenStays DEF files, Inv, Seen
<1> QED
  BY <1>2, <1>3, <1>4 DEF Inv

LEMMA WorkerInv ==
  ASSUME Inv, NEW t \in Transitions,
         Claim(t) \/ Succeed(t) \/ Refuse(t) \/ ProcessFails(t)
  PROVE  Keeps /\ Inv'
<1>1. incidents' \in Nat /\ reconciled' \subseteq Transitions
  BY DEF Claim, Succeed, Refuse, ProcessFails, Incident, Inv, TypeOK
<1>2. {"queued", "running", "done", "failed"} \subseteq Queue!Statuses
  BY DEF Queue!Statuses
<1> USE <1>1, <1>2
<1>3. CASE Claim(t)
  <2>1. Queue!Move(t, {"queued"}, "running")
    BY <1>3 DEF Claim, Queue!Run
  <2> QED
    BY <1>3, <2>1, DeliveryInv DEF Claim
<1>4. CASE Succeed(t)
  BY <1>4, DeliveryInv DEF Succeed, Queue!Succeed
<1>5. CASE Refuse(t)
  BY <1>5, DeliveryInv DEF Refuse, Queue!GiveUp
<1>6. CASE ProcessFails(t)
  BY <1>6, DeliveryInv DEF ProcessFails, Queue!Retry, Queue!GiveUp
<1> QED
  BY <1>3, <1>4, <1>5, <1>6

-----------------------------------------------------------------------------
(* Polls *)

\* What a step of a poll may do with the files and the queue.
FilesFine ==
  /\ snapshot' \in [Sides -> Files] /\ tmp' \in [Sides -> Files]
  /\ \A s \in Sides : Had(s, snapshot'[s].refs) /\ Had(s, tmp'[s].refs)
QueueFine ==
  /\ status' \in [Transitions -> Queue!Statuses]
  /\ \A t \in Transitions : status'[t] # "unknown" => Deleting(t)
RemoteFine ==
  /\ Keeps /\ remote' \in [Sides -> Refs]
  /\ quarantined' \subseteq Sides \X Branches \X Commits
PollFine(q) ==
  /\ q \in Polls /\ (q.fd # "closed" <=> q.step = "write")
  /\ Had(q.side, q.current) /\ \A t \in q.todo : Deleting(t)

LEMMA Fine ==
  ASSUME Inv
  PROVE  /\ UNCHANGED files => FilesFine
         /\ UNCHANGED status => QueueFine
         /\ UNCHANGED <<remote, quarantined, authored>> => RemoteFine
         /\ \A p \in Processes : PollFine(poll[p])
BY DEF Inv, TypeOK, Seen, files, FilesFine, QueueFine, RemoteFine, Keeps, Has, PollFine, At

LEMMA BlankFine == ASSUME NEW q, Blank(q) PROVE PollFine(q)
BY DEF Blank, PollFine, Had, NoRefs

LEMMA AllPollsInv ==
  ASSUME Inv, poll' = [p \in Processes |-> poll'[p]],
         \A p \in Processes : PollFine(poll'[p]),
         FilesFine, QueueFine, RemoteFine, UNCHANGED <<moves, authored, reconciled>>, incidents' \in Nat
  PROVE  Keeps /\ Inv'
<1>1. poll' \in [Processes -> Polls] /\ \A p \in Processes : (poll[p].fd # "closed" <=> At(p, "write"))'
  BY DEF PollFine, At
<1>2. TypeOK'
  BY <1>1 DEF Inv, TypeOK, FilesFine, QueueFine, RemoteFine
<1>3. Seen'
  BY <1>2, SeenStays DEF PollFine, FilesFine, QueueFine, RemoteFine
<1> QED
  BY <1>2, <1>3 DEF Inv, RemoteFine

LEMMA OnePollInv ==
  ASSUME Inv, NEW p \in Processes, NEW q, PollFine(q), Becomes(p, q),
         FilesFine, QueueFine, RemoteFine, UNCHANGED <<moves, authored, reconciled>>, incidents' \in Nat
  PROVE  Keeps /\ Inv'
<1>1. /\ poll' = [x \in Processes |-> poll'[x]] /\ poll'[p] = q
      /\ \A x \in Processes : x # p => poll'[x] = poll[x]
  BY DEF Becomes, Inv, TypeOK
<1>2. \A x \in Processes : PollFine(poll'[x])
  BY <1>1, Fine
<1> QED
  BY <1>1, <1>2, AllPollsInv

LEMMA StartSyncInv ==
  ASSUME Inv, NEW p \in Processes, StartSync(p)
  PROVE  Keeps /\ Inv'
<1>1. PollFine(Scanning("left"))
  BY BlankPolls, BlankFine DEF Sides
<1>2. FilesFine /\ QueueFine /\ RemoteFine
  BY Fine DEF StartSync
<1> QED
  BY <1>1, <1>2, OnePollInv DEF StartSync, Incident, Inv, TypeOK

LEMMA ScanSourceInv ==
  ASSUME Inv, NEW p \in Processes, ScanSource(p)
  PROVE  Keeps /\ Inv'
<1> DEFINE q == poll[p]
           q2 == [q EXCEPT !.step = "scanTarget", !.current = remote[q.side]]
<1>1. /\ q \in Polls /\ q.side \in Sides /\ (q.fd # "closed" <=> q.step = "write")
      /\ \A t \in q.todo : Deleting(t)
  BY PollFacts, Fine DEF Inv, PollFine
<1>2. remote[q.side] \in Refs
  BY <1>1 DEF Inv, TypeOK
<1>3. q.step = "scanSource"
  BY DEF ScanSource, At
<1>4. PollFine(q2)
  BY <1>1, <1>2, <1>3 DEF PollFine, Polls, Steps, Had, Has
<1>5. FilesFine /\ QueueFine /\ RemoteFine
  BY Fine DEF ScanSource
<1>6. Becomes(p, q2) /\ UNCHANGED <<moves, authored, reconciled>> /\ incidents' \in Nat
  BY DEF ScanSource, Inv, TypeOK
<1> HIDE DEF q2
<1> QED
  BY <1>4, <1>5, <1>6, OnePollInv

LEMMA ScanTargetInv ==
  ASSUME Inv, NEW p \in Processes, ScanTarget(p)
  PROVE  Keeps /\ Inv'
<1> DEFINE q == poll[p]
           target == remote[Other(q.side)]
           found == Differences(q.side, q.current, target) \union Deletions(q.side, q.current, target)
           q2 == [q EXCEPT !.step = "enqueue", !.todo = found]
<1>1. /\ q \in Polls /\ q.side \in Sides /\ (q.fd # "closed" <=> q.step = "write")
      /\ Had(q.side, q.current) /\ q.current \in Refs
  BY PollFacts, Fine DEF Inv, PollFine
<1>2. FilesFine /\ QueueFine /\ RemoteFine /\ UNCHANGED <<moves, authored, reconciled>> /\ incidents' \in Nat
  BY Fine DEF ScanTarget, Inv, TypeOK
<1>3. CASE Abandon(p)
  BY <1>2, <1>3, BlankPolls, BlankFine, OnePollInv DEF Abandon, Sides
<1>4. CASE Becomes(p, q2)
  <2>1. target \in Refs /\ snapshot[q.side].refs \in Refs /\ Had(q.side, snapshot[q.side].refs)
    BY <1>1, OtherSide DEF Inv, TypeOK, Seen, Files
  <2>2. ASSUME NEW b \in Branches, q.current[b] \notin {None, target[b]}
        PROVE  LET t == Transition(q.side, b, target[b], q.current[b])
               IN t \in Transitions /\ Deleting(t)
    BY <1>1, <2>1, <2>2 DEF Transition, Transitions, Refs, Deleting, IsDeletion
  <2>3. ASSUME NEW b \in Branches, snapshot[q.side].refs[b] # None
        PROVE  LET t == Transition(q.side, b, snapshot[q.side].refs[b], None)
               IN t \in Transitions /\ Deleting(t)
    BY <1>1, <2>1, <2>3 DEF Transition, Transitions, Refs, Deleting, Had, Tips
  <2>4. \A t \in found : t \in Transitions /\ Deleting(t)
    BY <2>2, <2>3 DEF Differences, Deletions
  <2> HIDE DEF found
  <2>5. q.step = "scanTarget"
    BY DEF ScanTarget, At
  <2>6. PollFine(q2)
    BY <1>1, <2>4, <2>5 DEF PollFine, Polls, Steps
  <2> HIDE DEF q2
  <2> QED
    BY <1>2, <1>4, <2>6, OnePollInv
<1> QED
  BY <1>3, <1>4 DEF ScanTarget

\* A poll whose list gets shorter.
LEMMA HandOverFine ==
  ASSUME Inv, NEW p \in Processes, At(p, "enqueue"), NEW t
  PROVE  PollFine([poll[p] EXCEPT !.todo = @ \ {t}])
BY PollFacts, Fine DEF Inv, PollFine, Polls, At

LEMMA EnqueueInv ==
  ASSUME Inv, NEW p \in Processes, NEW t, Enqueue(p, t) \/ Direct(p, t)
  PROVE  Keeps /\ Inv'
<1>1. At(p, "enqueue") /\ t \in poll[p].todo
  BY DEF Enqueue, Direct, NextOf
<1>2. t \in Transitions /\ Deleting(t)
  BY <1>1, PollFacts, Fine DEF Inv, PollFine
<1>3. PollFine([poll[p] EXCEPT !.todo = @ \ {t}]) /\ PollFine(Resting(p))
  BY <1>1, HandOverFine, BlankPolls, BlankFine DEF Sides
<1>4. FilesFine /\ UNCHANGED <<moves, authored, reconciled>> /\ incidents' \in Nat
  BY Fine DEF Enqueue, Direct, Inv, TypeOK
<1>5. RemoteFine
  <2>1. CASE Processed(t) /\ UNCHANGED authored
    BY <1>2, <2>1, ProcessedFacts DEF RemoteFine, Inv
  <2> QED
    BY <1>4, <2>1, Fine DEF Enqueue, Direct
<1>6. QueueFine
  <2>1. CASE Queue!Accept(t)
    <3>1. Queue!Move(t, {"unknown", "failed"}, "queued") /\ "queued" \in Queue!Statuses
      BY <2>1 DEF Queue!Accept, Queue!Statuses
    <3> QED
      BY <1>2, <3>1, MoveTyped DEF QueueFine, Inv, Seen
  <2> QED
    BY <2>1, Fine DEF Enqueue, Direct
<1>7. Becomes(p, [poll[p] EXCEPT !.todo = @ \ {t}]) \/ Becomes(p, Resting(p))
  BY DEF Enqueue, Direct, HandOver, Abandon
<1> QED
  BY <1>3, <1>4, <1>5, <1>6, <1>7, OnePollInv

\* No file but whole ones holds refs.
LEMMA FileFacts ==
  ASSUME NEW s \in Sides, NEW refs \in Refs
  PROVE  /\ File("absent") \in Files /\ Had(s, File("absent").refs)
         /\ File("empty") \in Files /\ Had(s, File("empty").refs)
         /\ \A file : \A f \in Overwritten(file, refs) :
              f \in Files /\ (Had(s, refs) => Had(s, f.refs))
<1>1. Had(s, NoRefs)
  BY DEF Had, NoRefs
<1>2. \A state \in {"absent", "empty", "garbled"} :
        File(state) \in Files /\ Had(s, File(state).refs)
  BY <1>1, FilesTyped DEF File
<1>3. Whole(refs) \in Files /\ (Had(s, refs) => Had(s, Whole(refs).refs))
  BY FilesTyped DEF Whole
<1> QED
  BY <1>2, <1>3, FilesTyped

\* One file of one side is replaced by another one.
LEMMA FileReplaced ==
  ASSUME Inv, NEW s \in Sides, NEW f \in Files, Had(s, f.refs),
         \/ tmp' = [tmp EXCEPT ![s] = f] /\ UNCHANGED snapshot
         \/ snapshot' = [snapshot EXCEPT ![s] = f] /\ UNCHANGED tmp
  PROVE  FilesFine
BY DEF Inv, TypeOK, Seen, FilesFine

LEMMA SaveInv ==
  ASSUME Inv, NEW p \in Processes, OpenTemp(p) \/ WriteTemp(p)
  PROVE  Keeps /\ Inv'
<1> DEFINE q == poll[p]
<1>1. /\ q \in Polls /\ q.side \in Sides /\ q.current \in Refs /\ Had(q.side, q.current)
      /\ \A t \in q.todo : Deleting(t)
  BY PollFacts, Fine DEF Inv, PollFine
<1>2. /\ QueueFine /\ RemoteFine /\ UNCHANGED <<moves, authored, reconciled>> /\ incidents' \in Nat
  BY Fine DEF OpenTemp, WriteTemp, Inv, TypeOK
<1>3. FilesFine
  <2>1. CASE OpenTemp(p)
    BY <1>1, <2>1, FileFacts, FileReplaced DEF OpenTemp
  <2>2. CASE WriteTemp(p)
    <3>1. CASE UNCHANGED files
      BY <3>1, Fine
    <3>2. ASSUME NEW file, NEW f \in Overwritten(file, q.current),
                 \/ tmp' = [tmp EXCEPT ![q.side] = f] /\ UNCHANGED snapshot
                 \/ snapshot' = [snapshot EXCEPT ![q.side] = f] /\ UNCHANGED tmp
          PROVE  FilesFine
      <4>1. f \in Files /\ Had(q.side, f.refs)
        BY <1>1, FileFacts
      <4> HIDE DEF q
      <4> QED
        BY <1>1, <3>2, <4>1, FileReplaced
    <3> QED
      BY <2>2, <3>1, <3>2 DEF WriteTemp
  <2> QED
    BY <2>1, <2>2
<1>4. CASE Becomes(p, [q EXCEPT !.step = "write", !.fd = "tmp"])
  <2>1. PollFine([q EXCEPT !.step = "write", !.fd = "tmp"])
    BY <1>1 DEF PollFine, Polls, Steps, Handles
  <2> QED
    BY <1>2, <1>3, <1>4, <2>1, OnePollInv
<1>5. CASE Becomes(p, [q EXCEPT !.step = "rename", !.fd = "closed"])
  <2>1. PollFine([q EXCEPT !.step = "rename", !.fd = "closed"])
    BY <1>1 DEF PollFine, Polls, Steps, Handles
  <2> QED
    BY <1>2, <1>3, <1>5, <2>1, OnePollInv
<1> QED
  BY <1>4, <1>5 DEF OpenTemp, WriteTemp

LEMMA MovedFine ==
  ASSUME NEW q, PollFine(q), NEW s
  PROVE  PollFine(Moved(q, s))
<1>1. CASE q.side # s
  BY <1>1 DEF Moved
<1>2. CASE q.side = s
  <2> DEFINE fd == CASE q.fd = "tmp" -> "snapshot" [] q.fd = "snapshot" -> "lost" [] OTHER -> q.fd
  <2>1. Moved(q, s) = [q EXCEPT !.fd = fd]
    BY <1>2 DEF Moved
  <2>2. q.fd \in Handles /\ q \in Polls
    BY DEF PollFine, Polls
  <2>3. fd \in Handles /\ (fd # "closed" <=> q.fd # "closed")
    BY <2>2 DEF Handles
  <2> HIDE DEF fd
  <2> QED
    BY <2>1, <2>2, <2>3 DEF PollFine, Polls
<1> QED
  BY <1>1, <1>2

LEMMA RenameInv ==
  ASSUME Inv, NEW p \in Processes, RenameTemp(p)
  PROVE  Keeps /\ Inv'
<1> DEFINE s == poll[p].side
<1>1. s \in Sides
  BY PollFacts DEF Inv
<1>2. QueueFine /\ RemoteFine /\ UNCHANGED <<moves, authored, reconciled>> /\ incidents' \in Nat
  BY Fine DEF RenameTemp, Inv, TypeOK
<1>3. CASE Abandon(p) /\ UNCHANGED files
  BY <1>2, <1>3, Fine, BlankPolls, BlankFine, OnePollInv DEF Abandon, Sides
<1>4. CASE /\ snapshot' = [snapshot EXCEPT ![s] = tmp[s]]
           /\ tmp' = [tmp EXCEPT ![s] = File("absent")]
           /\ poll' = [q \in Processes |-> IF q = p THEN AfterSave(p) ELSE Moved(poll[q], s)]
  <2>1. File("absent") \in Files /\ Had(s, File("absent").refs)
    BY <1>1, FileFacts, NoRefsTyped
  <2>2. FilesFine
    BY <1>1, <1>4, <2>1 DEF Inv, TypeOK, Seen, FilesFine
  <2>3. PollFine(AfterSave(p)) /\ \A q \in Processes : PollFine(Moved(poll[q], s))
    BY BlankPolls, BlankFine, Fine, MovedFine DEF Sides
  <2>4. \A q \in Processes : PollFine(poll'[q])
    BY <1>4, <2>3
  <2>5. poll' = [q \in Processes |-> poll'[q]]
    BY <1>4
  <2> QED
    BY <1>2, <2>2, <2>4, <2>5, AllPollsInv
<1> QED
  BY <1>3, <1>4 DEF RenameTemp

\* A move of the queue that makes nothing known.
LEMMA QueueMoves ==
  ASSUME Inv, NEW t \in Transitions, NEW from, NEW to \in Queue!Statuses,
         Queue!Move(t, from, to), "unknown" \notin from
  PROVE  QueueFine
BY MoveTyped DEF QueueFine, Inv, Seen

LEMMA PollFailsInv ==
  ASSUME Inv, NEW p \in Processes, PollFails(p)
  PROVE  Keeps /\ Inv'
<1>1. FilesFine /\ RemoteFine /\ UNCHANGED <<moves, authored, reconciled>> /\ incidents' \in Nat
  BY Fine DEF PollFails, Incident, Inv, TypeOK
<1>2. QueueFine
  <2>1. ASSUME NEW t \in NextOf(p), Queue!Forget(t) PROVE QueueFine
    <3>1. t \in Transitions
      BY PollFacts DEF NextOf, Inv
    <3>2. Queue!Move(t, {"failed"}, "unknown") /\ "unknown" \in Queue!Statuses
      BY <2>1 DEF Queue!Forget, Queue!Statuses
    <3> QED
      BY <3>1, <3>2, QueueMoves
  <2> QED
    BY <2>1, Fine DEF PollFails
<1>3. PollFine(Resting(p)) /\ Becomes(p, Resting(p))
  BY BlankPolls, BlankFine DEF PollFails, Abandon, Sides
<1> QED
  BY <1>1, <1>2, <1>3, OnePollInv

LEMMA CrashInv ==
  ASSUME Inv, Crash
  PROVE  Keeps /\ Inv'
<1>1. FilesFine /\ RemoteFine /\ UNCHANGED <<moves, authored, reconciled>> /\ incidents' \in Nat
  BY Fine DEF Crash, Incident, Inv, TypeOK
<1>2. QueueFine
  <2>1. ASSUME NEW t \in Running, Queue!Retry(t) PROVE QueueFine
    <3>1. /\ t \in Transitions /\ Queue!Move(t, {"running"}, "queued")
          /\ "queued" \in Queue!Statuses
      BY <2>1 DEF Running, Queue!Retry, Queue!Statuses
    <3> QED
      BY <3>1, QueueMoves
  <2> QED
    BY <2>1, Fine DEF Crash
<1>3. \A p \in Processes : PollFine(Resting(p)) /\ PollFine(poll[p])
  BY BlankPolls, BlankFine, Fine DEF Sides
<1>4. poll' = [p \in Processes |-> IF p \in Polled THEN Resting(p) ELSE poll[p]]
  BY DEF Crash
<1>5. poll' = [p \in Processes |-> poll'[p]] /\ \A p \in Processes : PollFine(poll'[p])
  BY <1>3, <1>4
<1> QED
  BY <1>1, <1>2, <1>5, AllPollsInv

-----------------------------------------------------------------------------
(* The theorems *)

LEMMA InitInv == Init => Inv
<1> SUFFICES ASSUME Init PROVE Inv
  OBVIOUS
<1>1. remote \in [Sides -> Refs]
  <2>1. PICK tips \in [Branches -> InitialTips] :
          remote = [s \in Sides |-> [b \in Branches |-> tips[b][IF s = "left" THEN 1 ELSE 2]]]
    BY DEF Init
  <2>2. \A b \in Branches : tips[b][1] \in Tips /\ tips[b][2] \in Tips
    BY PollerAssumption, GraphAssumption
  <2> QED
    BY <2>1, <2>2 DEF Refs
<1>2. /\ \A p \in Processes : PollFine(poll[p])
      /\ poll = [p \in Processes |-> poll[p]]
  BY BlankPolls, BlankFine DEF Init, Sides
<1>3. \A s \in Sides : /\ snapshot[s] \in Files /\ Had(s, snapshot[s].refs)
                       /\ tmp[s] \in Files /\ Had(s, tmp[s].refs)
  BY FileFacts, NoRefsTyped DEF Init
<1>6. authored \in [Branches -> SUBSET Tips]
  <2>1. PICK tips \in [Branches -> InitialTips] :
          authored = [b \in Branches |-> {tips[b][1], tips[b][2]} \ {None}]
    BY DEF Init
  <2> QED
    BY <2>1, PollerAssumption
<1>4. TypeOK
  BY <1>1, <1>2, <1>3, <1>6 DEF Init, TypeOK, PollFine, At, Queue!Init, Queue!Statuses
<1>5. Seen
  BY <1>2, <1>3 DEF Init, Seen, PollFine, Queue!Init
<1> QED
  BY <1>4, <1>5 DEF Inv

LEMMA NextInv == Inv /\ [Next]_vars => Keeps /\ Inv'
<1> SUFFICES ASSUME Inv, [Next]_vars PROVE Keeps /\ Inv'
  OBVIOUS
<1>1. CASE UserStep
  BY <1>1, UserInv
<1>2. CASE WorkerStep
  BY <1>2, WorkerInv DEF WorkerStep, Queued, Running
<1>3. ASSUME NEW p \in Processes, PollStep(p) PROVE Keeps /\ Inv'
  BY <1>3, ScanSourceInv, ScanTargetInv, SaveInv, RenameInv, EnqueueInv DEF PollStep
<1>4. ASSUME NEW p \in Processes, PollFails(p) \/ StartSync(p) PROVE Keeps /\ Inv'
  BY <1>4, PollFailsInv, StartSyncInv
<1>5. ASSUME NEW t \in Running, ProcessFails(t) PROVE Keeps /\ Inv'
  BY <1>5, WorkerInv DEF Running
<1>6. CASE Crash
  BY <1>6, CrashInv
<1>7. CASE UNCHANGED vars
  BY <1>7 DEF vars, files, Keeps, Has, Had, Deleting, Inv, TypeOK, Seen, At
<1> QED
  BY <1>1, <1>2, <1>3, <1>4, <1>5, <1>6, <1>7 DEF Next

\* Every scan, snapshot, temporary file and deletion event is about branches
\* that exist on its side, or that people deleted.
THEOREM NothingInvented == Spec => []Inv
BY InitInv, NextInv, PTL DEF Spec

\* The variables keep their types, whoever writes the snapshots.
THEOREM TypeCorrect == Spec => []TypeOK
BY NothingInvented, PTL DEF Inv

\* Polling never deletes a branch that people did not delete, for any number of
\* pollers and commands that share the snapshots, moves and failures.
THEOREM NoInventedDeletion == Spec => DeletesOnlyAfterPeople
<1> DEFINE Asked ==
      \A s \in Sides, b \in Branches :
        /\ remote[s][b] # None /\ remote'[s][b] = None
        /\ moves' = moves
        => None \in authored[b]
<1>1. Inv /\ [Next]_vars => [Asked]_vars
  <2> SUFFICES ASSUME Inv, Next, NEW s \in Sides, NEW b \in Branches,
                      remote[s][b] # None, remote'[s][b] = None, moves' = moves
               PROVE  None \in authored[b]
    OBVIOUS
  <2>1. None \in authored'[b]
    BY NextInv DEF Keeps, Has
  <2>2. ~UserStep
    BY DEF UserStep, UserPush, UserDelete, Inv, TypeOK
  <2>3. authored' = authored
    BY <2>2 DEF Next, WorkerStep, PollStep, Claim, Succeed, Refuse, ProcessFails, StartSync,
       ScanSource, ScanTarget, Enqueue, Direct, OpenTemp, WriteTemp, RenameTemp, PollFails, Crash
  <2> QED
    BY <2>1, <2>3
<1> QED
  BY <1>1, NothingInvented, PTL DEF Spec, DeletesOnlyAfterPeople

-----------------------------------------------------------------------------
(* Poller implements MirrorPromise *)

(* Every tip there is was pushed to this branch, on one side or the other.  *)
Origins == \A s \in Sides, b \in Branches : remote[s][b] \in authored[b] \union {None}

View == <<remote, quarantined, moves, authored, {}, {}>>

LEMMA PromiseSets == Promise!Sides = Sides /\ Promise!Tips = Tips
BY DEF Promise!Sides, Sides, Promise!Tips, Tips

\* Process alone touches the remotes, for a transition somebody found.
LEMMA OwnSteps ==
  ASSUME Inv, Next, ~UserStep
  PROVE  /\ UNCHANGED <<moves, authored>>
         /\ \/ UNCHANGED <<remote, quarantined>>
            \/ \E t \in Transitions : Deleting(t) /\ Processed(t)
<1>1. UNCHANGED <<moves, authored>>
  BY DEF Next, WorkerStep, PollStep, Claim, Succeed, Refuse, ProcessFails, StartSync, ScanSource,
     ScanTarget, Enqueue, Direct, OpenTemp, WriteTemp, RenameTemp, PollFails, Crash
<1>2. ASSUME NEW t \in Running, Succeed(t) \/ ProcessFails(t)
      PROVE  t \in Transitions /\ Deleting(t)
  BY DEF Running, Inv, Seen
<1>3. ASSUME NEW p \in Processes, NEW t \in poll[p].todo, Direct(p, t)
      PROVE  t \in Transitions /\ Deleting(t)
  BY PollFacts DEF Inv, Seen
<1> QED
  BY <1>1, <1>2, <1>3 DEF Next, WorkerStep, PollStep, Claim, Succeed, Refuse, ProcessFails,
     StartSync, ScanSource, ScanTarget, Enqueue, Direct, OpenTemp, WriteTemp, RenameTemp,
     PollFails, Crash

\* A Process call does nothing, or takes one of the steps that are promised.
LEMMA ProcessedPromise ==
  ASSUME Inv, Origins, NEW t \in Transitions, Deleting(t), Processed(t),
         UNCHANGED <<moves, authored>>
  PROVE  Origins' /\ (Promise!Next \/ UNCHANGED View)
<1> DEFINE s == Other(t.from)
           b == t.branch
           c == SourceTip(t)
<1>1. /\ s \in Sides /\ b \in Branches /\ t.from \in Sides
      /\ remote \in [Sides -> [Branches -> Tips]] /\ authored \in [Branches -> SUBSET Tips]
      /\ c = remote[t.from][b] /\ TargetTip(t) = remote[s][b]
  BY TransitionFacts DEF Inv, TypeOK, Refs, SourceTip, TargetTip
<1>2. c # None => c \in Commits /\ c \in authored[b] /\ c \in Promise!Published
  BY <1>1 DEF Origins, Tips, Promise!Published
<1> HIDE DEF s, b, c
<1>3. CASE UNCHANGED <<remote, quarantined>>
  BY <1>3 DEF Origins, View
<1>4. CASE ~UpToDate(t) /\ Behind(t) /\ Mirrored(t, c)
  <2>1. c # None /\ (remote[s][b] = None \/ IsAncestor(remote[s][b], c))
    BY <1>1, <1>4 DEF UpToDate, Behind, c
  <2>2. remote' = [remote EXCEPT ![s][b] = c] /\ UNCHANGED quarantined
    BY <1>4 DEF Mirrored, s, b
  <2>3. Origins'
    BY <1>1, <1>2, <2>1, <2>2 DEF Origins
  <2>4. Promise!Advance(s, b, c)
    BY <1>2, <2>1, <2>2 DEF Promise!Advance, Promise!Tip, Promise!Permitted, Promise!MayEnd,
       IsAncestor, Promise!IsAncestor
  <2> QED
    BY <1>1, <1>2, <2>1, <2>3, <2>4, PromiseSets DEF Promise!Next
<1>5. CASE /\ ~UpToDate(t) /\ UNCHANGED remote
           /\ quarantined' = quarantined \union {<<s, b, c>>}
  <2>1. c # None
    BY <1>5 DEF UpToDate, c
  <2>2. Promise!SetAside(s, b, c)
    BY <1>2, <1>5, <2>1 DEF Promise!SetAside, Promise!MayEnd
  <2> QED
    BY <1>1, <1>2, <1>5, <2>1, <2>2, PromiseSets DEF Origins, Promise!Next
<1>6. CASE IsDeletion(t) /\ Gone(t) /\ Mirrored(t, None)
  <2>1. None \in authored[b]
    BY <1>6 DEF Deleting, Has, Gone, SourceTip, b
  <2>2. remote' = [remote EXCEPT ![s][b] = None] /\ UNCHANGED quarantined
    BY <1>6 DEF Mirrored, s, b
  <2>3. Origins'
    BY <1>1, <2>2 DEF Origins
  <2>4. Promise!Withdraw(s, b)
    BY <2>1, <2>2 DEF Promise!Withdraw, Promise!Tip, Promise!Permitted, Promise!MayEnd
  <2> QED
    BY <1>1, <2>3, <2>4, PromiseSets DEF Promise!Next
<1> QED
  BY <1>3, <1>4, <1>5, <1>6 DEF Processed, UpdateBranch, DeleteBranch, s, b, c

LEMMA UserPromise ==
  ASSUME Inv, Origins, UserStep
  PROVE  Origins' /\ Promise!Next
<1>1. PICK s \in Sides, b \in Branches, tip \in Tips :
        /\ remote' = [remote EXCEPT ![s][b] = tip]
        /\ authored' = [authored EXCEPT ![b] = @ \union {tip}]
        /\ moves' = moves + 1 /\ UNCHANGED quarantined
  BY DEF UserStep, UserDelete, UserPush, Tips
<1>2. Promise!People(s, b, tip)
  BY <1>1 DEF Promise!People, Promise!Tip
<1>3. Origins'
  BY <1>1 DEF Origins, Inv, TypeOK, Refs
<1> QED
  BY <1>2, <1>3, PromiseSets DEF Promise!Next

LEMMA InitPromise == Init => Origins /\ Promise!Init
<1> SUFFICES ASSUME Init PROVE Origins /\ Promise!Init
  OBVIOUS
<1>1. PICK tips \in [Branches -> InitialTips] :
        /\ remote = [s \in Sides |-> [b \in Branches |-> tips[b][IF s = "left" THEN 1 ELSE 2]]]
        /\ authored = [b \in Branches |-> {tips[b][1], tips[b][2]} \ {None}]
  BY DEF Init
<1>2. Origins
  BY <1>1 DEF Origins
<1> QED
  BY <1>2, PromiseSets DEF Init, Origins, Promise!Init

\* Pollers, workers and commands that share the snapshots and the queue do to
\* the two remotes only what MirrorPromise allows, for any commit graph, moves,
\* failures and restarts: stale scans, repeated deliveries and old snapshots
\* overwrite no commit and delete no branch that people did not delete.
THEOREM PollerKeepsPromise == Spec => KeepsPromise
<1>1. Inv /\ Origins /\ [Next]_vars => Origins' /\ [Promise!Next]_View
  <2> SUFFICES ASSUME Inv, Origins, [Next]_vars
               PROVE  Origins' /\ (Promise!Next \/ UNCHANGED View)
    OBVIOUS
  <2>1. CASE UserStep
    BY <2>1, UserPromise
  <2>2. CASE UNCHANGED vars
    BY <2>2 DEF vars, Origins, View
  <2>3. CASE Next /\ ~UserStep
    <3>1. CASE UNCHANGED <<remote, quarantined>>
      BY <2>3, <3>1, OwnSteps DEF Origins, View
    <3>2. CASE \E t \in Transitions : Deleting(t) /\ Processed(t)
      BY <2>3, <3>2, OwnSteps, ProcessedPromise
    <3> QED
      BY <2>3, <3>1, <3>2, OwnSteps
  <2> QED
    BY <2>1, <2>2, <2>3
<1> QED
  BY <1>1, InitPromise, NothingInvented, PTL
     DEF Spec, KeepsPromise, Promise!Spec, Promise!vars, View

-----------------------------------------------------------------------------
(* Snapshots that only one process saves *)

(* The daemon alone, or one "gitmirror sync" at a time without it.          *)
OneSaver == Syncs = {} \/ (Polled = {} /\ \A p, q \in Syncs : p = q)

(* A process writes to the temporary file that it emptied itself, renames   *)
(* what it wrote, and a daemon's poller keeps to its side.                  *)
Tidy(p) ==
  /\ At(p, "write") => poll[p].fd = "tmp" /\ tmp[poll[p].side] = File("empty")
  /\ At(p, "rename") => tmp[poll[p].side].state = "whole"
  /\ p \in Polled => poll[p].side = p /\ ~At(p, "stopped")

Clean == (\A s \in Sides : Readable(s)) /\ \A p \in Processes : Tidy(p)

LEMMA Apart ==
  ASSUME OneSaver, Clean, NEW p \in Processes, NEW q \in Processes, p # q
  PROVE  poll[p].side # poll[q].side
BY DEF OneSaver, Clean, Tidy, Processes

LEMMA RestingTidy ==
  ASSUME NEW p \in Processes
  PROVE  /\ Resting(p).step \notin {"write", "rename"}
         /\ AfterSave(p).step \notin {"write", "rename"}
         /\ p \in Polled => Resting(p) = Scanning(p) /\ AfterSave(p) = Scanning(p)
         /\ Scanning(p).side = p /\ Scanning(p).step = "scanSource"
BY PollerAssumption DEF Resting, AfterSave, Scanning

\* A poll that goes to a step where it does not save.
LEMMA QuietClean ==
  ASSUME Inv, Clean, NEW p \in Processes, NEW q, Becomes(p, q), UNCHANGED files,
         q.step \notin {"write", "rename"},
         p \in Polled => q.side = p /\ q.step # "stopped"
  PROVE  Clean'
<1>1. poll'[p] = q /\ \A x \in Processes : x # p => poll'[x] = poll[x]
  BY DEF Becomes, Inv, TypeOK
<1>2. snapshot' = snapshot /\ tmp' = tmp
  BY DEF files
<1>3. Tidy(p)'
  BY <1>1 DEF Tidy, At
<1>4. ASSUME NEW x \in Processes, x # p PROVE Tidy(x)'
  BY <1>1, <1>2, <1>4 DEF Clean, Tidy, At
<1> QED
  BY <1>2, <1>3, <1>4 DEF Clean, Readable

LEMMA PollClean ==
  ASSUME Inv, Clean, NEW p \in Processes,
         \/ StartSync(p) \/ ScanSource(p) \/ ScanTarget(p) \/ PollFails(p)
         \/ \E t \in poll[p].todo : Enqueue(p, t) \/ Direct(p, t)
  PROVE  Clean'
<1> DEFINE q == poll[p]
<1>1. /\ q \in Polls /\ Tidy(p) /\ UNCHANGED files
  BY PollFacts DEF Inv, Clean, StartSync, ScanSource, ScanTarget, PollFails, Enqueue, Direct
<1>2. CASE Abandon(p)
  BY <1>1, <1>2, RestingTidy, QuietClean DEF Abandon
<1>3. CASE StartSync(p)
  <2>1. p \notin Polled
    BY <1>1, <1>3 DEF StartSync, Tidy
  <2>2. Scanning("left").step = "scanSource"
    BY DEF Scanning
  <2> QED
    BY <1>1, <1>3, <2>1, <2>2, QuietClean DEF StartSync
<1>4. CASE ScanSource(p)
  <2> DEFINE q2 == [q EXCEPT !.step = "scanTarget", !.current = remote[q.side]]
  <2>1. Becomes(p, q2) /\ q2.step = "scanTarget" /\ q2.side = q.side
    BY <1>1, <1>4 DEF ScanSource, Polls
  <2> HIDE DEF q2
  <2> QED
    BY <1>1, <2>1, QuietClean DEF Tidy
<1>5. ASSUME NEW todo, Becomes(p, [q EXCEPT !.step = "enqueue", !.todo = todo])
      PROVE  Clean'
  <2> DEFINE q2 == [q EXCEPT !.step = "enqueue", !.todo = todo]
  <2>1. q2.step = "enqueue" /\ q2.side = q.side
    BY <1>1 DEF Polls
  <2>2. Becomes(p, q2)
    BY <1>5
  <2> HIDE DEF q2
  <2> QED
    BY <1>1, <2>1, <2>2, QuietClean DEF Tidy
<1>6. ASSUME NEW t \in q.todo, Enqueue(p, t) \/ Direct(p, t), HandOver(p, t) PROVE Clean'
  <2> DEFINE q2 == [q EXCEPT !.todo = @ \ {t}]
  <2>1. Becomes(p, q2) /\ q2.step = "enqueue" /\ q2.side = q.side
    BY <1>1, <1>6 DEF HandOver, Enqueue, Direct, At, Polls
  <2> HIDE DEF q2
  <2> QED
    BY <1>1, <2>1, QuietClean DEF Tidy
<1> QED
  BY <1>2, <1>3, <1>4, <1>5, <1>6 DEF ScanTarget, PollFails, Enqueue, Direct

LEMMA SaveClean ==
  ASSUME OneSaver, Inv, Clean, NEW p \in Processes, OpenTemp(p) \/ WriteTemp(p)
  PROVE  Clean'
<1> DEFINE q == poll[p]
           s == q.side
<1>1. /\ q \in Polls /\ s \in Sides /\ Tidy(p) /\ p \in DOMAIN poll
      /\ tmp \in [Sides -> Files] /\ \A x \in Processes : poll[x].side \in Sides
  BY PollFacts DEF Inv, TypeOK, Clean
<1>2. ASSUME NEW f \in Files, NEW step, NEW fd, snapshot' = snapshot,
             tmp' = [tmp EXCEPT ![s] = f],
             Becomes(p, [q EXCEPT !.step = step, !.fd = fd]),
             \/ step = "write" /\ fd = "tmp" /\ f = File("empty")
             \/ step = "rename" /\ f.state = "whole"
      PROVE  Clean'
  <2>1. poll'[p].step = step /\ poll'[p].fd = fd /\ poll'[p].side = s
    BY <1>1, <1>2 DEF Becomes, Polls
  <2>2. \A x \in Processes : x # p => poll'[x] = poll[x]
    BY <1>2 DEF Becomes, Inv, TypeOK
  <2>3. tmp'[s] = f /\ \A t \in Sides : t # s => tmp'[t] = tmp[t]
    BY <1>1, <1>2
  <2>4. Tidy(p)'
    BY <1>1, <1>2, <2>1, <2>3 DEF Tidy, At
  <2>5. ASSUME NEW x \in Processes, x # p PROVE Tidy(x)'
    <3>1. poll'[x] = poll[x] /\ tmp'[poll[x].side] = tmp[poll[x].side]
      BY <1>1, <2>2, <2>3, <2>5, Apart
    <3> QED
      BY <3>1 DEF Clean, Tidy, At
  <2> QED
    BY <1>2, <2>4, <2>5 DEF Clean, Readable
<1>3. CASE OpenTemp(p)
  <2>1. File("empty") \in Files
    BY FilesTyped, NoRefsTyped
  <2> QED
    BY <1>2, <1>3, <2>1 DEF OpenTemp
<1>4. CASE WriteTemp(p)
  <2>1. q.fd = "tmp" /\ tmp[s] = File("empty") /\ q.current \in Refs
    BY <1>1, <1>4 DEF WriteTemp, Tidy, Polls
  <2>2. PICK f \in Overwritten(File("empty"), q.current) : tmp' = [tmp EXCEPT ![s] = f]
    BY <1>4, <2>1 DEF WriteTemp
  <2>3. f = Whole(q.current)
    <3>1. Present(File("empty").refs) = {} /\ File("empty").state # "garbled"
      BY DEF Present, File, NoRefs
    <3>2. f = Whole(q.current) \/ File("empty").state = "garbled"
      BY <2>2, <3>1 DEF Overwritten
    <3> QED
      BY <3>1, <3>2
  <2>4. Whole(q.current) \in Files /\ Whole(q.current).state = "whole"
    BY <2>1, FilesTyped DEF Whole
  <2>5. snapshot' = snapshot
    BY <1>4, <2>1 DEF WriteTemp
  <2>6. Becomes(p, [q EXCEPT !.step = "rename", !.fd = "closed"])
    BY <1>4 DEF WriteTemp
  <2> QED
    BY <1>2, <2>2, <2>3, <2>4, <2>5, <2>6
<1> QED
  BY <1>3, <1>4

LEMMA RenameClean ==
  ASSUME OneSaver, Inv, Clean, NEW p \in Processes, RenameTemp(p)
  PROVE  Clean'
<1> DEFINE s == poll[p].side
<1>1. /\ s \in Sides /\ tmp[s].state = "whole" /\ tmp \in [Sides -> Files]
      /\ snapshot \in [Sides -> Files] /\ \A x \in Processes : poll[x].side \in Sides
  BY PollFacts DEF Inv, TypeOK, Clean, Tidy, RenameTemp
<1>2. /\ snapshot' = [snapshot EXCEPT ![s] = tmp[s]]
      /\ tmp' = [tmp EXCEPT ![s] = File("absent")]
      /\ poll' = [q \in Processes |-> IF q = p THEN AfterSave(p) ELSE Moved(poll[q], s)]
  BY <1>1 DEF RenameTemp
<1>3. \A t \in Sides : Readable(t)'
  BY <1>1, <1>2 DEF Clean, Readable
<1>4. Tidy(p)'
  BY <1>2, RestingTidy DEF Tidy, At
<1>5. ASSUME NEW x \in Processes, x # p PROVE Tidy(x)'
  <2>1. poll[x].side # s
    BY <1>5, Apart
  <2>2. poll'[x] = poll[x] /\ tmp'[poll[x].side] = tmp[poll[x].side]
    BY <1>1, <1>2, <1>5, <2>1 DEF Moved
  <2> QED
    BY <2>2 DEF Clean, Tidy, At
<1> QED
  BY <1>3, <1>4, <1>5 DEF Clean

LEMMA InitClean == Init => Clean
<1> SUFFICES ASSUME Init PROVE Clean
  OBVIOUS
<1>1. \A p \in Processes : Tidy(p)
  BY RestingTidy DEF Init, Tidy, At
<1>2. \A s \in Sides : Readable(s)
  BY DEF Init, Readable, File
<1> QED
  BY <1>1, <1>2 DEF Clean

LEMMA NextClean == ASSUME OneSaver PROVE Inv /\ Clean /\ [Next]_vars => Clean'
<1> SUFFICES ASSUME Inv, Clean, [Next]_vars PROVE Clean'
  OBVIOUS
<1>1. CASE UNCHANGED <<files, poll>>
  BY <1>1 DEF files, Clean, Readable, Tidy, At
<1>2. CASE UserStep \/ WorkerStep \/ UNCHANGED vars
  BY <1>1, <1>2 DEF UserStep, UserPush, UserDelete, WorkerStep, Claim, Succeed, Refuse, vars
<1>3. ASSUME NEW t \in Running, ProcessFails(t) PROVE Clean'
  BY <1>1, <1>3 DEF ProcessFails
<1>4. ASSUME NEW p \in Processes, PollStep(p) \/ PollFails(p) \/ StartSync(p) PROVE Clean'
  BY <1>4, PollClean, SaveClean, RenameClean DEF PollStep
<1>5. CASE Crash
  <2>1. \A p \in Processes : Tidy(p)'
    BY <1>5, RestingTidy DEF Crash, files, Clean, Tidy, At
  <2> QED
    BY <1>5, <2>1 DEF Crash, files, Clean, Readable
<1> QED
  BY <1>2, <1>3, <1>4, <1>5 DEF Next

\* As long as the daemon alone saves snapshots, or one "gitmirror sync" at a
\* time without it, every snapshot can be decoded, whatever fails and dies in
\* the middle of a save.  The snapshot that Reconciles excepts comes from two
\* processes that write one temporary file.
THEOREM OneSaverKeepsSnapshotsReadable ==
  ASSUME OneSaver
  PROVE  Spec => [](\A s \in Sides : Readable(s))
<1>1. Clean => \A s \in Sides : Readable(s)
  BY DEF Clean
<1> QED
  BY <1>1, InitClean, NextClean, NothingInvented, PTL DEF Spec

==========================================================================
