----------------------- MODULE DeliveryQueueProofs -----------------------
(***************************************************************************)
(* Theorems about DeliveryQueue for any number of deliveries, any names    *)
(* left by an earlier release, any MaxAttempts and any number of crashes.  *)
(***************************************************************************)
EXTENDS DeliveryQueue, TLAPS

\* Canonical names are deliveries, and file names are not NoFile.
LEMMA CanonicalNames ==
  /\ \A n \in Names : n \in Nat /\ n # NoFile
  /\ \A n \in Names : Canonical[n] \in Deliveries
  /\ Deliveries \subseteq Names
BY QueueAssumption DEF Deliveries

\* Every step of the queue keeps its variables in their types: no rename is
\* applied to a file that is not there.
THEOREM TypeCorrect == Spec => []TypeOK
<1> USE QueueAssumption, CanonicalNames
<1>1. Init => TypeOK
  BY SMT DEF Init, TypeOK, NoFiles, Resting, Attempts, Phases
<1>2. TypeOK /\ [Next]_vars => TypeOK'
  <2> SUFFICES ASSUME TypeOK, [Next]_vars PROVE TypeOK'
    OBVIOUS
  <2> USE DEF TypeOK, Put, Drop, Has, Resting, Attempts, Phases, folders
  <2>1. ASSUME NEW n \in Names, Recover(n) PROVE TypeOK'
    BY <2>1 DEF Recover, Recovered
  <2>2. CASE Start
    BY <2>2 DEF Start
  <2>4. ASSUME NEW d \in Deliveries, Accept(d) PROVE TypeOK'
    BY <2>4 DEF Accept
  <2>5. ASSUME NEW d \in Deliveries, AcceptInterrupted(d) PROVE TypeOK'
    BY <2>5 DEF AcceptInterrupted
  <2>6. ASSUME NEW n \in Names, Claim(n) PROVE TypeOK'
    <3> DEFINE c == Canonical[n]
    <3>1. pending[n] \in Nat /\ c \in Deliveries /\ c \in Names /\ c # NoFile
      BY <2>6 DEF Claim, First
    <3>2. /\ pending' = [pending EXCEPT ![n] = NoFile]
          /\ processing' = [[processing EXCEPT ![n] = NoFile] EXCEPT ![c] = pending[n] + 1]
          /\ worker' = [phase |-> "running", name |-> c, attempts |-> pending[n] + 1]
          /\ runs' = [runs EXCEPT ![c] = @ + 1]
          /\ UNCHANGED <<done, failed, crashes, revivals>>
      BY <2>6 DEF Claim, ClaimedFile
    <3> HIDE DEF c
    <3> QED
      BY <3>1, <3>2
  <2>7. ASSUME NEW n \in Names, ClaimInterrupted(n) PROVE TypeOK'
    BY <2>7 DEF ClaimInterrupted, First
  <2>8. CASE ProcessReturns
    BY <2>8 DEF ProcessReturns
  <2>9. CASE Complete
    BY <2>9 DEF Complete
  <2>10. CASE Fail
    BY <2>10 DEF Fail
  <2>11. CASE SettleInterrupted
    BY <2>11 DEF SettleInterrupted
  <2>12. CASE Crash
    BY <2>12 DEF Crash
  <2>13. CASE UNCHANGED vars
    BY <2>13 DEF vars
  <2> QED
    BY <2>1, <2>2, <2>4, <2>5, <2>6, <2>7, <2>8, <2>9, <2>10, <2>11,
       <2>12, <2>13 DEF Next, Boot, WorkerStep
<1> QED
  BY <1>1, <1>2, PTL DEF Spec

-----------------------------------------------------------------------------
(* Bounded retries *)

\* What makes RetryBound inductive: a file that waits for the next start has
\* room for the crash that put it there, and while the worker holds an event,
\* its copy of the attempt count is the one on disk.
RetryInv ==
  /\ RetryBound
  /\ worker.phase = "starting" =>
       \A n \in Names : Has(processing, n) => processing[n] < MaxAttempts + crashes
  /\ worker.phase \in {"running", "succeeded", "errored"} =>
       processing[worker.name] = worker.attempts

\* Retries are bounded across restarts: a file that may be claimed has fewer
\* attempts than MaxAttempts plus the number of times the process died.
THEOREM RetriesBounded == Spec => []RetryBound
<1> USE QueueAssumption, CanonicalNames
<1>1. Init => RetryInv
  BY DEF Init, RetryInv, RetryBound, NoFiles, Resting, Has
<1>2. TypeOK /\ RetryInv /\ [Next]_vars => RetryInv'
  <2> SUFFICES ASSUME TypeOK, RetryInv, [Next]_vars PROVE RetryInv'
    OBVIOUS
  <2> USE DEF TypeOK, RetryInv, RetryBound, Put, Drop, Has, Resting, Attempts
  <2>1. ASSUME NEW n \in Names, Recover(n) PROVE RetryInv'
    BY <2>1 DEF Recover, Recovered
  <2>2. CASE Start
    BY <2>2 DEF Start, folders
  <2>4. ASSUME NEW d \in Deliveries, Accept(d) PROVE RetryInv'
    BY <2>4 DEF Accept
  <2>5. ASSUME NEW d \in Deliveries, AcceptInterrupted(d) PROVE RetryInv'
    BY <2>5 DEF AcceptInterrupted
  <2>6. ASSUME NEW n \in Names, Claim(n) PROVE RetryInv'
    <3> DEFINE c == Canonical[n]
    <3>1. /\ c \in Names /\ pending[n] \in Nat
          /\ pending[n] < MaxAttempts + crashes
      BY <2>6 DEF Claim, First
    <3>2. /\ pending' = [pending EXCEPT ![n] = NoFile]
          /\ processing' = [[processing EXCEPT ![n] = NoFile] EXCEPT ![c] = pending[n] + 1]
          /\ worker' = [phase |-> "running", name |-> c, attempts |-> pending[n] + 1]
          /\ UNCHANGED crashes
      BY <2>6 DEF Claim, ClaimedFile
    <3> HIDE DEF c
    <3> QED
      BY <3>1, <3>2
  <2>7. ASSUME NEW n \in Names, ClaimInterrupted(n) PROVE RetryInv'
    BY <2>7 DEF ClaimInterrupted, First
  <2>8. CASE ProcessReturns
    BY <2>8 DEF ProcessReturns, folders
  <2>9. CASE Complete
    BY <2>9 DEF Complete
  <2>10. CASE Fail
    BY <2>10 DEF Fail, Exhausted
  <2>11. CASE SettleInterrupted
    BY <2>11 DEF SettleInterrupted, folders
  <2>12. CASE Crash
    BY <2>12 DEF Crash, folders
  <2>13. CASE UNCHANGED vars
    BY <2>13 DEF vars
  <2> QED
    BY <2>1, <2>2, <2>4, <2>5, <2>6, <2>7, <2>8, <2>9, <2>10, <2>11,
       <2>12, <2>13 DEF Next, Boot, WorkerStep
<1>3. RetryInv => RetryBound
  BY DEF RetryInv
<1> QED
  BY <1>1, <1>2, <1>3, TypeCorrect, PTL DEF Spec

-----------------------------------------------------------------------------
(* No delivery is lost *)

\* A delivery leaves pending, processing and done only for failed: no cut call,
\* crash, restart or renaming of an older file loses it.
THEOREM DeliveryNotLost == Spec => NeverDropped
<1> USE QueueAssumption, CanonicalNames
<1>1. ASSUME TypeOK, [Next]_vars, NEW d \in Deliveries, Live(d)
      PROVE Live(d)' \/ Has(failed, d)'
  <2>1. PICK m \in Names : /\ Canonical[m] = d
                           /\ Has(pending, m) \/ Has(processing, m) \/ Has(done, m)
    BY <1>1 DEF Live
  <2>2. d \in Names /\ Canonical[d] = d
    BY DEF Deliveries
  <2> SUFFICES ASSUME ~Has(failed, d)' PROVE Live(d)'
    OBVIOUS
  <2> USE <1>1, <2>1, <2>2 DEF TypeOK, Live, Put, Drop, Has,
                             Resting, Attempts, folders
  <2>3. ASSUME NEW n \in Names, Recover(n) PROVE Live(d)'
    BY <2>3 DEF Recover, Recovered
  <2>4. CASE Start \/ ProcessReturns \/ SettleInterrupted \/ Crash
    BY <2>4 DEF Start, ProcessReturns, SettleInterrupted, Crash
  <2>5. ASSUME NEW e \in Deliveries, Accept(e) \/ AcceptInterrupted(e)
        PROVE Live(d)'
    BY <2>5 DEF Accept, AcceptInterrupted
  <2>6. ASSUME NEW n \in Names, Claim(n) PROVE Live(d)'
    <3>1. CASE n = m
      <4>1. pending[n] \in Nat
        BY <2>6 DEF Claim, First
      <4>2. processing' = [[processing EXCEPT ![n] = NoFile] EXCEPT ![d] = pending[n] + 1]
        BY <2>6, <3>1 DEF Claim, ClaimedFile
      <4>3. processing'[d] = pending[n] + 1
        BY <4>2
      <4> QED
        BY <4>1, <4>3
    <3>2. CASE n # m
      <4>1. PICK c \in Names : /\ c = Canonical[n]
                               /\ pending[n] \in Nat
        BY <2>6 DEF Claim, First
      <4>2. /\ pending' = [pending EXCEPT ![n] = NoFile]
            /\ processing' = [[processing EXCEPT ![n] = NoFile] EXCEPT ![c] = pending[n] + 1]
            /\ done' = done
        BY <2>6, <4>1 DEF Claim, ClaimedFile
      <4> QED
        BY <3>2, <4>1, <4>2
    <3> QED
      BY <3>1, <3>2
  <2>7. ASSUME NEW n \in Names, ClaimInterrupted(n) PROVE Live(d)'
    BY <2>7 DEF ClaimInterrupted, First
  <2>8. CASE Complete
    BY <2>8 DEF Complete
  <2>9. CASE Fail
    <3>1. /\ worker.name \in Deliveries /\ Canonical[worker.name] = worker.name
          /\ processing[worker.name] # NoFile
      BY <2>9 DEF Fail, Deliveries
    <3>2. CASE m = worker.name
      <4>1. CASE failed' = [failed EXCEPT ![worker.name] = processing[worker.name]]
        BY <3>1, <3>2, <4>1
      <4>2. CASE pending' = [pending EXCEPT ![worker.name] = processing[worker.name]]
        BY <3>1, <3>2, <4>2
      <4> QED
        BY <2>9, <4>1, <4>2 DEF Fail
    <3>3. CASE m # worker.name
      <4>1. /\ processing'[m] = processing[m] /\ done'[m] = done[m]
            /\ pending'[m] = pending[m]
        BY <2>9, <3>1, <3>3 DEF Fail
      <4> QED
        BY <4>1
    <3> QED
      BY <3>2, <3>3
  <2>10. CASE UNCHANGED vars
    BY <2>10 DEF vars
  <2> QED
    BY <2>3, <2>4, <2>5, <2>6, <2>7, <2>8, <2>9, <2>10 DEF Next, Boot, WorkerStep
<1>2. TypeOK /\ [Next]_vars
      => [\A d \in Deliveries : Live(d) => Live(d)' \/ Has(failed, d)']_vars
  BY <1>1
<1> QED
  BY <1>2, TypeCorrect, PTL DEF Spec, NeverDropped

-----------------------------------------------------------------------------
(* The directories are the state of a delivery *)

\* OnePlace with the four directories spelled out.
Exclusive(d) ==
  /\ Has(pending, d) => ~Has(processing, d) /\ ~Has(done, d) /\ ~Has(failed, d)
  /\ Has(processing, d) => ~Has(done, d) /\ ~Has(failed, d)
  /\ Has(done, d) => ~Has(failed, d)

AllExclusive == \A d \in Current : Exclusive(d)

\* A file that holds a delivery of this release has the delivery's name.
LEMMA CurrentNames ==
  ASSUME NEW d \in Current
  PROVE  /\ d \in Deliveries /\ d \in Names /\ Canonical[d] = d /\ d # NoFile
         /\ \A n \in Names : Canonical[n] = d => n = d
BY QueueAssumption DEF Current, Deliveries

\* Enqueue looks in three directories and empties the fourth before it writes,
\* and every rename takes the file out of the directory it was in.
LEMMA ExclusiveHolds == Spec => []AllExclusive
<1> USE QueueAssumption, CanonicalNames, CurrentNames
<1>1. Init => AllExclusive
  BY DEF Init, AllExclusive, Exclusive, NoFiles, Has
<1>2. TypeOK /\ AllExclusive /\ [Next]_vars => AllExclusive'
  <2> SUFFICES ASSUME TypeOK, AllExclusive, [Next]_vars,
                      NEW d \in Current
               PROVE  Exclusive(d)'
    BY DEF AllExclusive
  <2> USE DEF TypeOK, AllExclusive, Exclusive, Put, Drop, Has,
              Resting, Attempts, folders
  <2>1. ASSUME NEW n \in Names, Recover(n) PROVE Exclusive(d)'
    BY <2>1 DEF Recover, Recovered
  <2>2. CASE Start \/ ProcessReturns \/ SettleInterrupted \/ Crash
    BY <2>2 DEF Start, ProcessReturns, SettleInterrupted, Crash
  <2>4. ASSUME NEW e \in Deliveries, Accept(e) PROVE Exclusive(d)'
    BY <2>4 DEF Accept, Known
  <2>5. ASSUME NEW e \in Deliveries, AcceptInterrupted(e) PROVE Exclusive(d)'
    BY <2>5 DEF AcceptInterrupted
  <2>6. ASSUME NEW n \in Names, Claim(n) PROVE Exclusive(d)'
    BY <2>6 DEF Claim, First, ClaimedFile
  <2>7. ASSUME NEW n \in Names, ClaimInterrupted(n) PROVE Exclusive(d)'
    BY <2>7 DEF ClaimInterrupted, First
  <2>8. CASE Complete
    BY <2>8 DEF Complete
  <2>9. CASE Fail
    BY <2>9 DEF Fail
  <2>10. CASE UNCHANGED vars
    BY <2>10 DEF vars
  <2> QED
    BY <2>1, <2>2, <2>4, <2>5, <2>6, <2>7, <2>8, <2>9, <2>10
       DEF Next, Boot, WorkerStep
<1> QED
  BY <1>1, <1>2, TypeCorrect, PTL DEF Spec

\* A delivery that no file of an earlier release holds is in at most one
\* directory whatever was cut short.
THEOREM OnePlaceHolds == Spec => []OnePlace
<1>1. TypeOK /\ AllExclusive => OnePlace
  <2> SUFFICES ASSUME TypeOK, AllExclusive, NEW d \in Current
               PROVE  \A i, j \in DOMAIN folders :
                        i # j /\ Has(folders[i], d) => ~Has(folders[j], d)
    BY DEF OnePlace
  <2>1. Exclusive(d)
    BY DEF AllExclusive
  <2>2. DOMAIN folders = 1..4
    BY DEF folders
  <2>3. /\ folders[1] = pending /\ folders[2] = processing
        /\ folders[3] = done /\ folders[4] = failed
    BY DEF folders
  <2>4. ASSUME NEW i \in 1..4, NEW j \in 1..4, i # j, Has(folders[i], d)
        PROVE  ~Has(folders[j], d)
    <3>1. /\ i = 1 \/ i = 2 \/ i = 3 \/ i = 4
          /\ j = 1 \/ j = 2 \/ j = 3 \/ j = 4
      OBVIOUS
    <3> QED
      BY <2>1, <2>3, <2>4, <3>1 DEF Exclusive
  <2> QED
    BY <2>2, <2>4
<1> QED
  BY <1>1, ExclusiveHolds, TypeCorrect, PTL

-----------------------------------------------------------------------------
(* Attempts survive crashes *)

\* RunsCounted with the four directories spelled out.
Counted(d) ==
  /\ Has(pending, d) => runs[d] <= pending[d]
  /\ Has(processing, d) => runs[d] <= processing[d]
  /\ Has(done, d) => runs[d] <= done[d]
  /\ Has(failed, d) => runs[d] <= failed[d]

AllCounted == \A d \in Current : Counted(d)

\* The one file of a delivery carries its count along; Claim raises the count
\* on disk before the worker runs the event.
LEMMA CountedHolds == Spec => []AllCounted
<1> USE QueueAssumption, CanonicalNames, CurrentNames
<1>1. Init => AllCounted
  <2> SUFFICES ASSUME Init, NEW d \in Current PROVE Counted(d)
    BY DEF AllCounted
  <2>1. d \in Deliveries /\ d \in Names
    OBVIOUS
  <2>2. /\ ~Has(pending, d)
        /\ ~Has(processing, d)
        /\ ~Has(done, d)
        /\ ~Has(failed, d)
    BY <2>1 DEF Init, NoFiles, Has
  <2> QED
    BY <2>2 DEF Counted
<1>2. TypeOK /\ AllExclusive /\ AllCounted /\ [Next]_vars => AllCounted'
  <2> SUFFICES ASSUME TypeOK, AllExclusive, AllCounted, [Next]_vars,
                      NEW d \in Current
               PROVE  Counted(d)'
    BY DEF AllCounted
  <2> USE DEF TypeOK, AllCounted, Counted, Put, Drop, Has, Resting, Attempts, folders
  <2>1. ASSUME NEW n \in Names, Recover(n) PROVE Counted(d)'
    BY <2>1 DEF Recover, Recovered
  <2>2. CASE Start \/ ProcessReturns \/ SettleInterrupted \/ Crash
    BY <2>2 DEF Start, ProcessReturns, SettleInterrupted, Crash
  <2>3. ASSUME NEW e \in Deliveries, Accept(e) PROVE Counted(d)'
    BY <2>3 DEF Accept, Known
  <2>4. ASSUME NEW e \in Deliveries, AcceptInterrupted(e) PROVE Counted(d)'
    BY <2>4 DEF AcceptInterrupted
  <2>5. ASSUME NEW n \in Names, Claim(n) PROVE Counted(d)'
    <3>1. CASE d = n
      BY <2>5, <3>1 DEF Claim, First, ClaimedFile, AllExclusive, Exclusive
    <3>2. CASE d # n
      BY <2>5, <3>2 DEF Claim, First, ClaimedFile
    <3> QED
      BY <3>1, <3>2
  <2>6. ASSUME NEW n \in Names, ClaimInterrupted(n) PROVE Counted(d)'
    BY <2>6 DEF ClaimInterrupted, First
  <2>7. CASE Complete
    BY <2>7 DEF Complete
  <2>8. CASE Fail
    <3>1. /\ worker.name \in Names
          /\ worker.phase = "errored"
          /\ d \in Names
      BY <2>8 DEF Fail, Phases
    <3>2. CASE worker.name = d
      <4>1. /\ Has(processing, d)
            /\ runs[d] <= processing[d]
            /\ runs' = runs
            /\ done' = done
            /\ Counted(d)
            /\ processing' = [processing EXCEPT ![d] = NoFile]
        BY <2>8, <3>1, <3>2 DEF Fail
      <4>2. \/ failed' = [failed EXCEPT ![d] = processing[d]] /\ pending' = pending
            \/ pending' = [pending EXCEPT ![d] = processing[d]] /\ failed' = failed
        BY <2>8, <3>2 DEF Fail
      <4> QED
        BY <3>1, <4>1, <4>2
    <3>3. CASE worker.name # d
      <4>1. /\ runs' = runs
            /\ pending'[d] = pending[d]
            /\ processing'[d] = processing[d]
            /\ done'[d] = done[d]
            /\ failed'[d] = failed[d]
        BY <2>8, <3>1, <3>3 DEF Fail
      <4> QED
        BY <4>1
    <3> QED
      BY <3>2, <3>3
  <2>9. CASE UNCHANGED vars
    BY <2>9 DEF vars
  <2> QED
    BY <2>1, <2>2, <2>3, <2>4, <2>5, <2>6, <2>7, <2>8, <2>9
       DEF Next, Boot, WorkerStep
<1> QED
  BY <1>1, <1>2, ExclusiveHolds, TypeCorrect, PTL DEF Spec

\* No crash, cut call or restart gives an event back an attempt it used: the
\* count in a delivery's file is at least the number of its runs.
THEOREM RunsCountedHolds == Spec => []RunsCounted
<1>1. AllCounted => RunsCounted
  <2> SUFFICES ASSUME AllCounted, NEW d \in Current, NEW i \in DOMAIN folders,
                      Has(folders[i], d)
               PROVE  runs[d] <= folders[i][d]
    BY DEF RunsCounted
  <2>1. Counted(d)
    BY DEF AllCounted
  <2>2. /\ i = 1 \/ i = 2 \/ i = 3 \/ i = 4
        /\ folders[1] = pending /\ folders[2] = processing
        /\ folders[3] = done /\ folders[4] = failed
    BY DEF folders
  <2> QED
    BY <2>1, <2>2 DEF Counted
<1> QED
  BY <1>1, CountedHolds, PTL

-----------------------------------------------------------------------------
(* The file queue implements DeliveryPromise *)

Status == [d \in Current |-> StatusOf(d)]

\* A step that moves one delivery and leaves the others alone.
LEMMA OneMove ==
  ASSUME NEW d \in Current, NEW from, NEW to,
         StatusOf(d) \in from, StatusOf(d)' = to,
         \A e \in Current \ {d} : StatusOf(e)' = StatusOf(e)
  PROVE  Promise!Move(d, from, to)
<1>1. Status[d] \in from
  BY DEF Status
<1>2. Status' = [Status EXCEPT ![d] = to]
  BY DEF Status
<1> QED
  BY <1>1, <1>2 DEF Promise!Move, Status

\* A step that moves no delivery.
LEMMA NoMove ==
  ASSUME \A e \in Current : StatusOf(e)' = StatusOf(e)
  PROVE  UNCHANGED Status
BY DEF Status

\* For the deliveries that no file of an earlier release holds, the directories,
\* renames, attempts and cut calls of the queue show its callers nothing but
\* the moves of DeliveryPromise.
THEOREM QueueKeepsPromise == Spec => KeepsPromise
<1> USE QueueAssumption, CanonicalNames, CurrentNames
<1>1. Init => Promise!Init
  BY DEF Init, Promise!Init, StatusOf, Busy, Known, Has, Resting, NoFiles
<1>2. TypeOK /\ AllExclusive /\ [Next]_vars
      => [Promise!Next]_Status
  <2> SUFFICES ASSUME TypeOK, AllExclusive, [Next]_vars
               PROVE  Promise!Next \/ UNCHANGED Status
    OBVIOUS
  <2> USE DEF TypeOK, AllExclusive, Exclusive, Put, Drop, Has,
              Resting, Attempts, folders, StatusOf, Busy, Known
  <2>1. ASSUME NEW n \in Names, Recover(n) PROVE UNCHANGED Status
    <3> \A e \in Current : StatusOf(e)' = StatusOf(e)
      BY <2>1 DEF Recover, Recovered
    <3> QED
      BY NoMove
  <2>2. CASE Start
    <3> \A e \in Current : StatusOf(e)' = StatusOf(e)
      BY <2>2 DEF Start
    <3> QED
      BY NoMove
  <2>4. ASSUME NEW d \in Current, Accept(d) PROVE Promise!Accept(d)
    <3>1. StatusOf(d) \in {"unknown", "failed"}
      BY <2>4 DEF Accept
    <3>2. StatusOf(d)' = "queued"
      BY <2>4 DEF Accept
    <3>3. \A e \in Current \ {d} : StatusOf(e)' = StatusOf(e)
      BY <2>4 DEF Accept
    <3> HIDE QueueAssumption, CanonicalNames, CurrentNames
    <3> HIDE DEF TypeOK, AllExclusive, StatusOf
    <3> QED
      BY <3>1, <3>2, <3>3, OneMove DEF Promise!Accept
  <2>5. ASSUME NEW d \in Current, AcceptInterrupted(d) PROVE Promise!Forget(d)
    <3>1. StatusOf(d) \in {"failed"}
      BY <2>5 DEF AcceptInterrupted
    <3>2. StatusOf(d)' = "unknown"
      BY <2>5 DEF AcceptInterrupted
    <3>3. \A e \in Current \ {d} : StatusOf(e)' = StatusOf(e)
      BY <2>5 DEF AcceptInterrupted
    <3> HIDE QueueAssumption, CanonicalNames, CurrentNames
    <3> HIDE DEF TypeOK, AllExclusive, StatusOf
    <3> QED
      BY <3>1, <3>2, <3>3, OneMove DEF Promise!Forget
  <2>6. ASSUME NEW n \in Current, Claim(n) PROVE Promise!Run(n)
    <3>1. StatusOf(n) \in {"queued"}
      BY <2>6 DEF Claim, First
    <3>2. StatusOf(n)' = "running"
      BY <2>6 DEF Claim
    <3>3. \A e \in Current \ {n} : StatusOf(e)' = StatusOf(e)
      BY <2>6 DEF Claim, First, ClaimedFile
    <3>4. \A e \in Current : Status[e] # "running"
      BY <2>6 DEF Claim, Status
    <3> HIDE QueueAssumption, CanonicalNames, CurrentNames
    <3> HIDE DEF TypeOK, AllExclusive, StatusOf
    <3> QED
      BY <3>1, <3>2, <3>3, <3>4, OneMove DEF Promise!Run, Status
  <2>7. ASSUME NEW n \in Names, ClaimInterrupted(n) PROVE UNCHANGED Status
    <3> \A e \in Current : StatusOf(e)' = StatusOf(e)
      BY <2>7 DEF ClaimInterrupted, First
    <3> QED
      BY NoMove
  <2>8. CASE ProcessReturns
    <3> \A e \in Current : StatusOf(e)' = StatusOf(e)
      BY <2>8 DEF ProcessReturns
    <3> QED
      BY NoMove
  <2>9. ASSUME NEW d \in Current, worker.name = d, Complete PROVE Promise!Succeed(d)
    <3>1. StatusOf(d) \in {"running"}
      BY <2>9
    <3>2. StatusOf(d)' = "done"
      BY <2>9 DEF Complete
    <3>3. \A e \in Current \ {d} : StatusOf(e)' = StatusOf(e)
      BY <2>9 DEF Complete
    <3> HIDE QueueAssumption, CanonicalNames, CurrentNames
    <3> HIDE DEF TypeOK, AllExclusive, StatusOf
    <3> QED
      BY <3>1, <3>2, <3>3, OneMove DEF Promise!Succeed
  <2>10. ASSUME NEW d \in Current, worker.name = d, Fail
         PROVE  Promise!Retry(d) \/ Promise!GiveUp(d)
    <3>1. StatusOf(d) \in {"running"}
      BY <2>10
    <3>2. StatusOf(d)' \in {"queued", "failed"}
      BY <2>10 DEF Fail
    <3>3. \A e \in Current \ {d} : StatusOf(e)' = StatusOf(e)
      BY <2>10 DEF Fail
    <3> HIDE QueueAssumption, CanonicalNames, CurrentNames
    <3> HIDE DEF TypeOK, AllExclusive, StatusOf
    <3> QED
      BY <3>1, <3>2, <3>3, OneMove DEF Promise!Retry, Promise!GiveUp
  <2>11. ASSUME SettleInterrupted \/ Crash
         PROVE  UNCHANGED Status \/ \E d \in Current : Promise!Retry(d)
    <3>1. CASE worker.name \notin Current
      <4> \A e \in Current : StatusOf(e)' = StatusOf(e)
        BY <2>11, <3>1 DEF SettleInterrupted, Crash
      <4> QED
        BY NoMove
    <3>2. CASE worker.name \in Current
      <4>1. PICK d \in Current : worker.name = d
        BY <3>2
      <4>2. StatusOf(d) \in {"running"}
        BY <4>1
      <4>3. StatusOf(d)' = "queued"
        BY <2>11, <4>1 DEF SettleInterrupted, Crash
      <4>4. \A e \in Current \ {d} : StatusOf(e)' = StatusOf(e)
        BY <2>11, <4>1 DEF SettleInterrupted, Crash
      <4> HIDE QueueAssumption, CanonicalNames, CurrentNames
      <4> HIDE DEF TypeOK, AllExclusive, StatusOf
      <4> QED
        BY <4>2, <4>3, <4>4, OneMove DEF Promise!Retry
    <3> QED
      BY <3>1, <3>2
  <2>12. CASE UNCHANGED vars
    <3> \A e \in Current : StatusOf(e)' = StatusOf(e)
      BY <2>12 DEF vars
    <3> QED
      BY NoMove
  <2>13. ASSUME NEW d \in Deliveries, d \notin Current, Accept(d) \/ AcceptInterrupted(d)
         PROVE  UNCHANGED Status
    <3> \A e \in Current : StatusOf(e)' = StatusOf(e)
      BY <2>13 DEF Accept, AcceptInterrupted
    <3> QED
      BY NoMove
  <2>14. ASSUME NEW n \in Names, n \notin Current, Claim(n) PROVE UNCHANGED Status
    <3>1. \A e \in Current : e # n /\ e # Canonical[n]
      BY <2>14
    <3> \A e \in Current : StatusOf(e)' = StatusOf(e)
      BY <2>14, <3>1 DEF Claim, ClaimedFile
    <3> QED
      BY NoMove
  <2>15. ASSUME worker.name \notin Current, Complete \/ Fail PROVE UNCHANGED Status
    <3> \A e \in Current : StatusOf(e)' = StatusOf(e)
      BY <2>15 DEF Complete, Fail
    <3> QED
      BY NoMove
  <2> HIDE DEF TypeOK, AllExclusive, StatusOf
  <2> QED
    BY <2>1, <2>2, <2>4, <2>5, <2>6, <2>7, <2>8, <2>9, <2>10, <2>11,
       <2>12, <2>13, <2>14, <2>15 DEF Next, Boot, WorkerStep, Promise!Next
<1> QED
  BY <1>1, <1>2, ExclusiveHolds, TypeCorrect, PTL
     DEF Spec, KeepsPromise, Promise!Spec, Status

==========================================================================
